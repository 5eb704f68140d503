------------------------------ MODULE MCBuildPch ------------------------------
(***************************************************************************)
(* Precompiled headers over a source set or executable //foo:a with up to *)
(* three sources of C, C++ and assembly, any precompiled-header mode of    *)
(* its toolchain, with or without a precompiled source, absorbed by an     *)
(* executable //foo:b; //foo:a is built in the toolchain withpch, as in   *)
(* the tests, and also, without precompiled headers, in the default       *)
(* toolchain (target 3).                                                   *)
(*                                                                         *)
(* Second graph space: one label //foo:a built in the default toolchain   *)
(* (target 1) and in withpch (target 2), as a source set, a static library *)
(* (complete or not) or a shared library, whose sources may differ by      *)
(* toolchain (a BUILD file's if (current_toolchain == ...) block), and an  *)
(* executable //foo:b (target 3) in either toolchain that depends on      *)
(* either or both copies.                                                  *)
(***************************************************************************)
EXTENDS BuildFileWriter

MCTarget == 1..3

WithPch == "withpch"

Src(dir, stem, ext) == [dir |-> dir, stem |-> stem, ext |-> ext]

SourcePool == {Src("foo", "x", "cc"), Src("foo", "y", "c"), Src("foo", "z", "s")}

\* Declaration orders of up to three distinct sources.
SourceLists == UNION {SetToSeqs(S) : S \in SUBSET SourcePool}

\* MSVC compiles a precompiled .cc source, GCC the header itself.
PchSourceChoices(tool) ==
  CASE tool = PchMsvc -> {<<>>, <<Src("build", "precompile", "cc")>>}
    [] tool = PchGcc  -> {<<>>, <<Src("build", "precompile", "h")>>}
    [] OTHER          -> {<<>>, <<Src("build", "precompile", "cc")>>}

\* The precompiled-header mode is that of withpch's tools; the default
\* toolchain's tools have none.
PchGraph(g) ==
  \E k \in {SourceSet, Executable}, ss \in SourceLists,
     tool \in {PchNone, PchMsvc, PchGcc} :
    \E p \in PchSourceChoices(tool) :
      g = [kind     |-> (1 :> k @@ 2 :> Executable @@ 3 :> k),
           complete |-> [t \in MCTarget |-> FALSE],
           deps     |-> (1 :> <<>> @@ 2 :> <<1>> @@ 3 :> <<>>),
           data     |-> [t \in MCTarget |-> <<>>],
           srcs     |-> (1 :> ss @@ 2 :> <<Src("foo", "w", "cc")>> @@ 3 :> ss),
           name     |-> (1 :> "a" @@ 2 :> "b" @@ 3 :> "a"),
           dir      |-> [t \in MCTarget |-> "foo"],
           ext      |-> [t \in MCTarget |-> Unset],
           pchsrc   |-> (1 :> p @@ 2 :> <<>> @@ 3 :> <<>>),
           pchtool  |-> (1 :> tool @@ 2 :> PchNone @@ 3 :> PchNone),
           libs     |-> [t \in MCTarget |-> <<>>],
           libdirs  |-> [t \in MCTarget |-> <<>>],
           toolchain |-> (1 :> WithPch @@ 2 :> DefaultToolchain @@ 3 :> DefaultToolchain)]

\* //foo:b's dependencies: //foo:a in one toolchain, the other, or both.
DepChoices == {<<1>>, <<2>>, <<1, 2>>}

\* An MSVC precompiled-header tool compiles //build/precompile.cc.
PchSourceOf(tool) ==
  IF tool = PchMsvc THEN <<Src("build", "precompile", "cc")>> ELSE <<>>

\* The toolchain graphs: the copies of //foo:a and //foo:b's toolchain.
ToolchainGraph(g) ==
  \E k \in {SourceSet, StaticLibrary, SharedLibrary}, c \in BOOLEAN,
     tcb \in {DefaultToolchain, WithPch}, ds \in DepChoices,
     tool \in {PchNone, PchMsvc}, extra \in {<<>>, <<Src("foo", "y", "cc")>>} :
    /\ c => k = StaticLibrary
    /\ g = [kind     |-> (1 :> k @@ 2 :> k @@ 3 :> Executable),
            complete |-> (1 :> c @@ 2 :> c @@ 3 :> FALSE),
            deps     |-> (1 :> <<>> @@ 2 :> <<>> @@ 3 :> ds),
            data     |-> [t \in MCTarget |-> <<>>],
            srcs     |-> (1 :> <<Src("foo", "x", "cc")>>
                          @@ 2 :> <<Src("foo", "x", "cc")>> \o extra
                          @@ 3 :> <<Src("foo", "x", "cc")>>),
            name     |-> (1 :> "a" @@ 2 :> "a" @@ 3 :> "b"),
            dir      |-> [t \in MCTarget |-> "foo"],
            ext      |-> [t \in MCTarget |-> Unset],
            pchsrc   |-> (1 :> <<>> @@ 2 :> PchSourceOf(tool) @@ 3 :> <<>>),
            pchtool  |-> (1 :> PchNone @@ 2 :> tool @@ 3 :> PchNone),
            libs     |-> [t \in MCTarget |-> <<>>],
            libdirs  |-> [t \in MCTarget |-> <<>>],
            toolchain |-> (1 :> DefaultToolchain @@ 2 :> WithPch @@ 3 :> tcb)]

MCIsInputGraph(g) == PchGraph(g) \/ ToolchainGraph(g)

=============================================================================
