----------------------------- MODULE MCBuildWalk -----------------------------
(***************************************************************************)
(* Every resolved graph of four targets in //foo, each a source set or an  *)
(* executable compiling one source of its own, with any acyclic deps in    *)
(* any declaration order: source sets nested two deep below a sibling,     *)
(* and diamonds whose shared source set is reached at different depths.   *)
(***************************************************************************)
EXTENDS BuildFileWriter, Integers

N == 4

MCTarget == 1..N

\* Deps only point to later targets: every acyclic graph up to renaming.
Later(t) == (t + 1)..N

DepChoices(t) == UNION {SetToSeqs(S) : S \in SUBSET Later(t)}

DepFunctions ==
  {f \in [MCTarget -> UNION {DepChoices(t) : t \in MCTarget}] :
     \A t \in MCTarget : f[t] \in DepChoices(t)}

Names == <<"a", "b", "c", "d">>

MCIsInputGraph(g) ==
  \E k \in [MCTarget -> {SourceSet, Executable}], d \in DepFunctions :
    g = [kind     |-> k,
         complete |-> [t \in MCTarget |-> FALSE],
         deps     |-> d,
         data     |-> [t \in MCTarget |-> <<>>],
         srcs     |-> [t \in MCTarget |-> <<[dir |-> "foo", stem |-> Names[t], ext |-> "cc"]>>],
         name     |-> [t \in MCTarget |-> Names[t]],
         dir      |-> [t \in MCTarget |-> "foo"],
         ext      |-> [t \in MCTarget |-> Unset],
         pchsrc   |-> [t \in MCTarget |-> <<>>],
         pchtool  |-> [t \in MCTarget |-> PchNone],
         libs     |-> [t \in MCTarget |-> <<>>],
         libdirs  |-> [t \in MCTarget |-> <<>>],
           toolchain |-> [t \in MCTarget |-> DefaultToolchain]]

=============================================================================
