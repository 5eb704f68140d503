--------------------------- MODULE BuildFileWriter ---------------------------
(***************************************************************************)
(* The build-file generation run: one NinjaBinaryTargetWriter per binary  *)
(* target of a resolved graph, run in any order (the driver may run them   *)
(* on parallel workers), all reporting into the shared Scheduler; when all *)
(* have run, the driver inspects is_failed().                              *)
(***************************************************************************)
EXTENDS NinjaBinaryTargetWriter, Scheduler

CONSTANTS
  Target,         \* the targets of the graph
  IsInputGraph(_) \* IsInputGraph(g): g is a resolved graph the run may be given

VARIABLES
  graph,    \* the resolved graph, read-only while writing
  out,      \* out[t]: the edges t's writer wrote
  written,  \* targets whose writer has run
  reported  \* the driver has inspected the failure state

vars == <<graph, out, written, reported, failed, error>>

BinaryTargets(g) == {t \in Target : g.kind[t] \in BinaryTypes}

Init ==
  /\ IsInputGraph(graph)
  /\ out = [t \in Target |-> <<>>]
  /\ written = {}
  /\ reported = FALSE
  /\ SchedulerInit

\* Mutant: a writer does not start once the run has failed.
RunFailFast(t) ==
  /\ ~failed
  /\ t \in BinaryTargets(graph) \ written
  /\ LET e == Emit(graph, t)
     IN  /\ out' = [out EXCEPT ![t] = e.edges]
         /\ IF e.dup THEN FailWithError(t) ELSE UNCHANGED <<failed, error>>
  /\ written' = written \cup {t}
  /\ UNCHANGED <<graph, reported>>

\* NinjaBinaryTargetWriter(&t, out).Run(): the whole output of t is written
\* in one step; a duplicate object is reported to the scheduler.
Run(t) ==
  /\ t \in BinaryTargets(graph) \ written
  /\ LET e == Emit(graph, t)
     IN  /\ out' = [out EXCEPT ![t] = e.edges]
         /\ IF e.dup THEN FailWithError(t) ELSE UNCHANGED <<failed, error>>
  /\ written' = written \cup {t}
  /\ UNCHANGED <<graph, reported>>

\* The driver, after every target was processed, inspects is_failed().
Report ==
  /\ written = BinaryTargets(graph)
  /\ ~reported
  /\ reported' = TRUE
  /\ UNCHANGED <<graph, out, written, failed, error>>

Next ==
  \/ \E t \in Target : Run(t)
  \/ Report

\* No writer and no driver step ever blocks, so whenever one can be taken
\* one is.  Every step makes progress (a writer finishes, the driver
\* reports), so this is enough for every writer to run.
Spec == Init /\ [][Next]_vars /\ WF_vars(Next)

-----------------------------------------------------------------------------
(***************************************************************************)
(* The ninja graph the written edges describe.                             *)
(***************************************************************************)
AllEdges == UNION {ToSet(out[t]) : t \in written}

Produced == {e.out : e \in AllEdges}

EdgeInputs(e) == ToSet(e.in) \cup ToSet(e.imp) \cup ToSet(e.oo)

\* Every path ninja must bring up to date before the paths in ps.
RECURSIVE RequiredBy(_, _)
RequiredBy(ps, seen) ==
  LET next == UNION {EdgeInputs(e) : e \in {x \in AllEdges : x.out \in ps}}
      new  == next \ seen
  IN  IF new = {} THEN seen ELSE RequiredBy(new, seen \cup new)

Required(p) == RequiredBy({p}, {})

\* Outputs of actions, which another writer produces.
ActionOutputs == {OutputFile(graph, t) : t \in {x \in Target :
                                                 graph.kind[x] = Action}}

Finished == written = BinaryTargets(graph) /\ ~failed

-----------------------------------------------------------------------------
(***************************************************************************)
(* Properties.                                                             *)
(***************************************************************************)
EdgeFields == {"out", "rule", "in", "imp", "oo", "ldflags", "libs", "ext"}

\* The tools of the toolchain an edge may name.
ToolRules == {"cxx", "cc", "asm", "stamp", "link", "solink", "solink_module",
              "alink"}

\* Every edge written is a build edge with one of the toolchain's tools.
TypeOK ==
  /\ graph.kind \in [Target -> OutputTypes]
  /\ written \subseteq BinaryTargets(graph)
  /\ \A t \in Target : \A i \in 1..Len(out[t]) :
       DOMAIN out[t][i] = EdgeFields /\ out[t][i].rule \in ToolRules
  /\ reported \in BOOLEAN
  /\ failed \in BOOLEAN
  /\ error \in Target \cup {NoError}

\* The dependency walk of every binary target reaches each target at most
\* once, reaches exactly the targets connected to it through chains of
\* source sets (diamonds of source sets, source sets shared by siblings),
\* and reaches them in depth-first order: a source set's deps come right
\* after it, before its later siblings, which fixes the link line order.
WalkMatchesReference ==
  \A t \in BinaryTargets(graph) :
    LET w == ReachedDeps(graph, t)
    IN  /\ IsInjective(w)
        /\ ToSet(w) = ReachableThroughSourceSets(graph, t)
        /\ w = StackWalk(graph, graph.deps[t], <<>>)

\* A static library archives only its own objects unless it is complete; a
\* complete one archives exactly what a shared library with the same
\* sources and deps would link, in the same order.
ArchiveAbsorption ==
  \A t \in written :
    graph.kind[t] = StaticLibrary /\ ~HasObjectCollision(graph, t) =>
      LET archived == Last(out[t]).in
          asShlib  == [graph EXCEPT !.kind[t] = SharedLibrary]
      IN  IF graph.complete[t]
          THEN archived = Last(Emit(asShlib, t).edges).in
          ELSE archived = OwnObjects(graph, t)

\* Once every writer has run without error, the final output of every
\* binary target depends, through the edges written, on the output of
\* every data dep of every source set it reaches: ninja cannot link or
\* stamp a target before the runtime data of its source sets is built.
DataDepsOrdered ==
  Finished =>
    \A t \in written : \A s \in ToSet(ReachedDeps(graph, t)) :
      graph.kind[s] = SourceSet =>
        \A d \in ToSet(graph.data[s]) :
          OutputFile(graph, d) \in Required(OutputFile(graph, t))

\* Once every writer has run without error, every input the edges name is
\* a source file, an action's output, or the output of an edge some writer
\* wrote: what one writer names for a dependency is what the dependency's
\* own writer produces.
NoDanglingInputs ==
  Finished =>
    \A e \in AllEdges : \A p \in EdgeInputs(e) :
      p[1] = "src" \/ p \in Produced \/ p \in ActionOutputs

\* Targets of two toolchains write no common output, even when they carry
\* one label (//foo:a and //foo:a(//toolchain:withpch)): each toolchain's
\* objects, stamps, archives and linked files lie below its own output
\* subdirectory, so the writers of one label in two toolchains, which the
\* driver may run in parallel, never write edges for one path.
ToolchainOutputsDisjoint ==
  \A t, u \in written :
    graph.toolchain[t] # graph.toolchain[u] =>
      {e.out : e \in ToSet(out[t])} \cap {e.out : e \in ToSet(out[u])} = {}

\* A writer stops before its final edge exactly when two of its compiled
\* sources map to one object, and the run is failed exactly when some
\* writer stopped.
FailureIffCollision ==
  /\ \A t \in written :
       HasObjectCollision(graph, t) <=>
         OutputFile(graph, t) \notin {e.out : e \in ToSet(out[t])}
  /\ failed <=> \E t \in written : HasObjectCollision(graph, t)

\* In a target with a precompiled source and a precompiled-header mode,
\* every C or C++ compile depends explicitly on the precompiled compile of
\* its own language, written before it; there is one precompiled compile
\* per language, and none for a language no source of the target uses.
\* Without them no compile has an implicit input.
PrecompiledHeaderDeps ==
  \A t \in written :
    LET es == out[t]
        pch(i) == graph.pchsrc[t] # <<>> /\ es[i].in = <<SrcPath(graph.pchsrc[t][1])>>
        compile(i) == es[i].rule \in {"cc", "cxx"} /\ ~pch(i)
    IN  /\ \A i \in DOMAIN es :
             compile(i) =>
               IF graph.pchsrc[t] # <<>> /\ graph.pchtool[t] # PchNone
               THEN \E j \in 1..(i - 1) :
                      pch(j) /\ es[j].rule = es[i].rule /\ es[i].imp = <<es[j].out>>
               ELSE es[i].imp = <<>>
        /\ \A j \in DOMAIN es :
             pch(j) => \E i \in DOMAIN es : compile(i) /\ es[i].rule = es[j].rule
        /\ \A j, k \in DOMAIN es :
             pch(j) /\ pch(k) /\ es[j].rule = es[k].rule => j = k

\* Every writer eventually runs and the driver eventually reports.
AllTargetsWritten == <>reported

=============================================================================
