---------------------------- MODULE MCBuildSources ----------------------------
(***************************************************************************)
(* Source lists of up to two files per target, from a pool with           *)
(* compiled, pass-through, ignored and colliding files, in the graph of    *)
(* the SourceSet and DupeObjFileError tests: an executable //foo:exe       *)
(* depending on a source set //foo:inter, and an executable //foo:bar      *)
(* listing //a.cc twice.                                                   *)
(***************************************************************************)
EXTENDS BuildFileWriter

MCTarget == {1, 2, 3}

Src(dir, stem, ext) == [dir |-> dir, stem |-> stem, ext |-> ext]

\* a.cc and a.s compile to the same object; a.o is passed through; a.S is
\* ignored; b.cc is distinct from all of them.
SourcePool == {Src("foo", "a", "cc"), Src("foo", "a", "s"), Src("foo", "a", "o"),
               Src("foo", "a", "S"), Src("foo", "b", "cc")}

SourceLists == {<<>>} \cup {<<s>> : s \in SourcePool}
                      \cup {<<s, r>> : s, r \in SourcePool}

\* DupeObjFileError: //a.cc listed twice.
DupeSources == <<Src("", "a", "cc"), Src("", "a", "cc")>>

MCIsInputGraph(g) ==
  \E s1, s2 \in SourceLists :
    g = [kind     |-> (1 :> Executable @@ 2 :> SourceSet @@ 3 :> Executable),
         complete |-> [t \in MCTarget |-> FALSE],
         deps     |-> (1 :> <<2>> @@ 2 :> <<>> @@ 3 :> <<>>),
         data     |-> [t \in MCTarget |-> <<>>],
         srcs     |-> (1 :> s1 @@ 2 :> s2 @@ 3 :> DupeSources),
         name     |-> (1 :> "exe" @@ 2 :> "inter" @@ 3 :> "bar"),
         dir      |-> [t \in MCTarget |-> "foo"],
         ext      |-> [t \in MCTarget |-> Unset],
         pchsrc   |-> [t \in MCTarget |-> <<>>],
         pchtool  |-> [t \in MCTarget |-> PchNone],
         libs     |-> [t \in MCTarget |-> <<>>],
         libdirs  |-> [t \in MCTarget |-> <<>>],
           toolchain |-> [t \in MCTarget |-> DefaultToolchain]]

=============================================================================
