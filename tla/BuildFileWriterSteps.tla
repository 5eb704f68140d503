------------------------- MODULE BuildFileWriterSteps -------------------------
(***************************************************************************)
(* The build-file generation run with each writer's Run() taken apart into *)
(* the steps it makes: the precompiled-header compiles, one step per       *)
(* source (classify, name the object, check it against the objects        *)
(* already assigned, write the compile edge), then the stamp or link       *)
(* edge.  Writers of different targets interleave step by    *)
(* step; a duplicate object fails the run and ends its writer at once.     *)
(* BuildFileWriter, where a writer's whole Run() is one step, is the       *)
(* abstract specification this one implements.                             *)
(***************************************************************************)
EXTENDS NinjaBinaryTargetWriter, Scheduler

CONSTANTS
  Target,         \* the targets of the graph
  IsInputGraph(_) \* IsInputGraph(g): g is a resolved graph the run may be given

VARIABLES
  graph,    \* the resolved graph, read-only while writing
  pc,       \* pc[t]: "pch", then "sources" while t's writer runs, "done" after
  next,     \* next[t]: index of the next source t's writer handles
  acc,      \* acc[t]: the WriteSources accumulator of t's writer
  emitted,  \* emitted[t]: the edges t's writer has written so far
  reported  \* the driver has inspected the failure state

vars == <<graph, pc, next, acc, emitted, reported, failed, error>>

BinaryTargets(g) == {t \in Target : g.kind[t] \in BinaryTypes}

Init ==
  /\ IsInputGraph(graph)
  /\ pc = [t \in Target |-> IF t \in BinaryTargets(graph) THEN "pch"
                                                          ELSE "done"]
  /\ next = [t \in Target |-> 1]
  /\ acc = [t \in Target |-> SourcesInit]
  /\ emitted = [t \in Target |-> <<>>]
  /\ reported = FALSE
  /\ SchedulerInit

\* The first part of Run(): the precompiled-header compiles of t.
WritePch(t) ==
  /\ pc[t] = "pch"
  /\ acc' = [acc EXCEPT ![t] = SourcesStart(graph, t)]
  /\ emitted' = [emitted EXCEPT ![t] = PchEdges(graph, t)]
  /\ pc' = [pc EXCEPT ![t] = "sources"]
  /\ UNCHANGED <<graph, next, reported, failed, error>>

\* Mutant: the writer reports the duplicate but carries on with the next
\* source and the final edge.
WriteSourceNoAbort(t) ==
  /\ pc[t] = "sources"
  /\ next[t] <= Len(graph.srcs[t])
  /\ LET r == SourceStep(graph, t, acc[t], graph.srcs[t][next[t]])
     IN  /\ acc' = [acc EXCEPT ![t] = r]
         /\ emitted' = [emitted EXCEPT ![t] = r.edges]
         /\ IF r.dup /\ ~acc[t].dup THEN FailWithError(t)
                                    ELSE UNCHANGED <<failed, error>>
  /\ next' = [next EXCEPT ![t] = @ + 1]
  /\ UNCHANGED <<graph, reported, pc>>

\* One iteration of the source loop of t's writer: the compile edge of the
\* source, if it compiles, is written as soon as it is produced; a duplicate
\* object reports to the scheduler and returns from Run().
WriteSource(t) ==
  /\ pc[t] = "sources"
  /\ next[t] <= Len(graph.srcs[t])
  /\ LET r == SourceStep(graph, t, acc[t], graph.srcs[t][next[t]])
     IN  /\ acc' = [acc EXCEPT ![t] = r]
         /\ emitted' = [emitted EXCEPT ![t] = r.edges]
         /\ IF r.dup
            THEN /\ pc' = [pc EXCEPT ![t] = "done"]
                 /\ FailWithError(t)
            ELSE /\ UNCHANGED pc
                 /\ UNCHANGED <<failed, error>>
  /\ next' = [next EXCEPT ![t] = @ + 1]
  /\ UNCHANGED <<graph, reported>>

\* After the last source: the stamp edge of a source set or the link edge.
WriteFinal(t) ==
  /\ pc[t] = "sources"
  /\ next[t] > Len(graph.srcs[t])
  /\ emitted' = [emitted EXCEPT ![t] = Append(@, FinalEdge(graph, t, acc[t]))]
  /\ pc' = [pc EXCEPT ![t] = "done"]
  /\ UNCHANGED <<graph, next, acc, reported, failed, error>>

\* The driver, after every target was processed, inspects is_failed().
Report ==
  /\ \A t \in Target : pc[t] = "done"
  /\ ~reported
  /\ reported' = TRUE
  /\ UNCHANGED <<graph, pc, next, acc, emitted, failed, error>>

Next ==
  \/ \E t \in Target : WritePch(t) \/ WriteSource(t) \/ WriteFinal(t)
  \/ Report

\* No writer step and no driver step ever blocks, and every step makes
\* progress (the precompiled compiles are written, a source is handled, a
\* writer finishes, the driver reports).
Spec == Init /\ [][Next]_vars /\ WF_vars(Next)

-----------------------------------------------------------------------------
(***************************************************************************)
(* Refinement: a writer's output becomes visible when its Run() returns.   *)
(***************************************************************************)
writtenBar == {t \in BinaryTargets(graph) : pc[t] = "done"}

outBar == [t \in Target |-> IF t \in writtenBar THEN emitted[t] ELSE <<>>]

Atomic == INSTANCE BuildFileWriter WITH out <- outBar, written <- writtenBar

\* Taking Run() apart into steps changes nothing another writer or the
\* driver can observe: every behaviour is one of the atomic specification.
ImplementsAtomicWriter == Atomic!Spec

=============================================================================
