---------------------------- MODULE MCBuildFlatten ----------------------------
(***************************************************************************)
(* Every resolved graph of three targets in //foo: any output type (and    *)
(* completeness of a static library), any acyclic deps in any declaration  *)
(* order, any data deps, an output extension override on the last target. *)
(* Each binary target compiles one source of its own.                      *)
(***************************************************************************)
EXTENDS BuildFileWriter, Integers

N == 3

MCTarget == 1..N

\* Deps only point to later targets: every acyclic graph up to renaming.
Later(t) == (t + 1)..N

DepChoices(t) == UNION {SetToSeqs(S) : S \in SUBSET Later(t)}

DataChoices(t, deps) ==
  {SetToSortSeq(S, <) : S \in SUBSET (Later(t) \ ToSet(deps))}

KindChoices ==
  {[k |-> x, c |-> FALSE] : x \in OutputTypes \ {StaticLibrary}}
  \cup {[k |-> StaticLibrary, c |-> b] : b \in BOOLEAN}

Names == <<"a", "b", "c">>

\* Target t compiles //foo/<name>.cc.
OwnSource(t) == [dir |-> "foo", stem |-> Names[t], ext |-> "cc"]

\* An extension override only changes the output of a shared library or a
\* loadable module.
ExtChoices(k) ==
  IF k \in {SharedLibrary, LoadableModule} THEN {Unset, "so.6"} ELSE {Unset}

DepFunctions ==
  {f \in [MCTarget -> UNION {DepChoices(t) : t \in MCTarget}] :
     \A t \in MCTarget : f[t] \in DepChoices(t)}

DataFunctions(d) ==
  {f \in [MCTarget -> UNION {DataChoices(t, <<>>) : t \in MCTarget}] :
     \A t \in MCTarget : f[t] \in DataChoices(t, d[t])}

MCIsInputGraph(g) ==
  \E kc \in [MCTarget -> KindChoices], d \in DepFunctions :
    \E dd \in DataFunctions(d), x \in ExtChoices(kc[N].k) :
      g = [kind     |-> [t \in MCTarget |-> kc[t].k],
           complete |-> [t \in MCTarget |-> kc[t].c],
           deps     |-> d,
           data     |-> dd,
           srcs     |-> [t \in MCTarget |->
                           IF kc[t].k = Action THEN <<>> ELSE <<OwnSource(t)>>],
           name     |-> [t \in MCTarget |-> Names[t]],
           dir      |-> [t \in MCTarget |-> "foo"],
           ext      |-> [t \in MCTarget |-> IF t = N THEN x ELSE Unset],
           pchsrc   |-> [t \in MCTarget |-> <<>>],
           pchtool  |-> [t \in MCTarget |-> PchNone],
           libs     |-> [t \in MCTarget |-> <<>>],
           libdirs  |-> [t \in MCTarget |-> <<>>],
           toolchain |-> [t \in MCTarget |-> DefaultToolchain]]

=============================================================================
