-------------------------- MODULE DependencyFlattener --------------------------
(***************************************************************************)
(* The dependency walk of NinjaBinaryTargetWriter: which dependencies a    *)
(* target's final edge reaches, which objects it absorbs and which outputs *)
(* it orders itself after.                                                 *)
(***************************************************************************)
EXTENDS SourceWriter

(***************************************************************************)
(* Walk(g, ds, acc): visit the dependency sequence ds in declaration       *)
(* order, appending each target not yet visited to acc.  A source set is   *)
(* descended into right after it is appended, before its next sibling; a   *)
(* linking target or an action ends the descent.                           *)
(***************************************************************************)
RECURSIVE WalkAllVisits(_, _, _)
\* Mutant: a target reached a second time is visited again.
WalkAllVisits(g, ds, acc) ==
  IF ds = <<>> THEN acc
  ELSE LET d    == Head(ds)
           acc2 == IF g.kind[d] = SourceSet
                   THEN WalkAllVisits(g, g.deps[d], Append(acc, d))
                   ELSE Append(acc, d)
       IN  WalkAllVisits(g, Tail(ds), acc2)

RECURSIVE WalkRecurseLate(_, _, _)
\* Mutant: a source set's deps are walked after its later siblings.
WalkRecurseLate(g, ds, acc) ==
  IF ds = <<>> THEN acc
  ELSE LET d == Head(ds)
       IN  IF Contains(acc, d) THEN WalkRecurseLate(g, Tail(ds), acc)
           ELSE LET rest == WalkRecurseLate(g, Tail(ds), Append(acc, d))
                IN  IF g.kind[d] = SourceSet THEN WalkRecurseLate(g, g.deps[d], rest)
                                             ELSE rest

RECURSIVE Walk(_, _, _)
Walk(g, ds, acc) ==
  IF ds = <<>> THEN acc
  ELSE LET d    == Head(ds)
           acc2 == CASE Contains(acc, d)     -> acc
                     [] g.kind[d] = SourceSet -> Walk(g, g.deps[d], Append(acc, d))
                     [] OTHER                 -> Append(acc, d)
       IN  Walk(g, Tail(ds), acc2)

\* The dependencies t's final edge is written against, first visit first.
ReachedDeps(g, t) == Walk(g, g.deps[t], <<>>)

\* Reference: the targets reachable from t along dependency paths whose
\* intermediate targets are all source sets.
RECURSIVE ReachRef(_, _, _)
ReachRef(g, frontier, seen) ==
  IF frontier = {} THEN seen
  ELSE LET next == UNION {ToSet(g.deps[s]) : s \in {x \in frontier :
                                                g.kind[x] = SourceSet}}
       IN  ReachRef(g, next \ seen, seen \cup next)

\* Reference for the order: depth-first search with an explicit stack of
\* pending deps, top first.  A target popped again is skipped; a source
\* set's deps are pushed above the rest of the stack.
RECURSIVE StackWalk(_, _, _)
StackWalk(g, stack, acc) ==
  IF stack = <<>> THEN acc
  ELSE LET d == Head(stack)
       IN  IF Contains(acc, d) THEN StackWalk(g, Tail(stack), acc)
           ELSE StackWalk(g, (IF g.kind[d] = SourceSet THEN g.deps[d] ELSE <<>>)
                               \o Tail(stack),
                          Append(acc, d))

ReachableThroughSourceSets(g, t) == ReachRef(g, ToSet(g.deps[t]), ToSet(g.deps[t]))

(***************************************************************************)
(* What the final edge of t takes from the walk.                           *)
(***************************************************************************)
\* Mutant: every static library absorbs its dependencies' objects.
AbsorbsAnyStaticLib(g, t) == g.kind[t] \in {Executable, SharedLibrary,
                                            LoadableModule, StaticLibrary}

\* Executables, shared libraries, loadable modules and complete static
\* libraries fold the objects of the source sets they reach into their own
\* link; an incomplete static library archives only its own sources.
Absorbs(g, t) ==
  \/ g.kind[t] \in {Executable, SharedLibrary, LoadableModule}
  \/ g.kind[t] = StaticLibrary /\ g.complete[t]

\* A reached complete static library is a link input of an absorbing target.
LinkedArchive(g, t, d) ==
  Absorbs(g, t) /\ g.kind[d] = StaticLibrary /\ g.complete[d]

\* Mutant: the objects of a reached source set are named with the output
\* name of the target being linked instead of the source set's own.
SourceSetObjectsLinkerNamed(g, t, s) ==
  OwnObjects([g EXCEPT !.kind[s] = g.kind[t], !.name[s] = g.name[t]], s)

\* The objects t's link takes from the source set s: those s's own writer
\* lists in its stamp.
SourceSetObjects(g, t, s) == OwnObjects(g, s)

\* Mutant: the link inputs of the deps are named with the settings of the
\* target being linked, as if every dep were built in t's toolchain.
DepLinkInputsOwnToolchain(g, t) ==
  LET gt      == [g EXCEPT !.toolchain = [x \in DOMAIN g.toolchain |-> g.toolchain[t]]]
      reached == ReachedDeps(g, t)
      sets    == SelectSeq(reached, LAMBDA d : g.kind[d] = SourceSet)
      libs    == SelectSeq(reached, LAMBDA d : LinkedArchive(g, t, d))
  IN  IF Absorbs(g, t)
      THEN FlattenSeq([i \in 1..Len(sets) |-> SourceSetObjects(gt, t, sets[i])])
           \o [i \in 1..Len(libs) |-> OutputFile(gt, libs[i])]
      ELSE <<>>

\* The objects of reached source sets, in walk order, then the archives of
\* reached complete static libraries.
DepLinkInputs(g, t) ==
  LET reached == ReachedDeps(g, t)
      sets    == SelectSeq(reached, LAMBDA d : g.kind[d] = SourceSet)
      libs    == SelectSeq(reached, LAMBDA d : LinkedArchive(g, t, d))
  IN  IF Absorbs(g, t)
      THEN FlattenSeq([i \in 1..Len(sets) |-> SourceSetObjects(g, t, sets[i])])
           \o [i \in 1..Len(libs) |-> OutputFile(g, libs[i])]
      ELSE <<>>

\* Mutant: the data deps of the target are left out of its final edge.
FinalOrderOnlyNoData(g, t) ==
  LET ordered == SelectSeq(ReachedDeps(g, t), LAMBDA d : ~LinkedArchive(g, t, d))
  IN  [i \in 1..Len(ordered) |-> OutputFile(g, ordered[i])]

\* Order-only inputs of the final edge: the stamp or output of every reached
\* dependency that is not linked, then the outputs of t's own data deps.
FinalOrderOnly(g, t) ==
  LET reached == ReachedDeps(g, t)
      ordered == SelectSeq(reached, LAMBDA d : ~LinkedArchive(g, t, d))
  IN  [i \in 1..Len(ordered) |-> OutputFile(g, ordered[i])]
      \o [i \in 1..Len(g.data[t]) |-> OutputFile(g, g.data[t][i])]

=============================================================================
