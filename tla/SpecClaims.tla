------------------------------ MODULE SpecClaims ------------------------------
(***************************************************************************)
(* Statements spec.md makes about the emitted build file that the unit     *)
(* tests, and the writer the tests pin down, do not bear out.  Each is     *)
(* checked in a run of its own and is expected to be violated.             *)
(***************************************************************************)
EXTENDS BuildFileWriter

\* The objects that two or more compiled sources of t map to.
CollidingObjects(g, t) ==
  LET ss == g.srcs[t]
      compiled == {i \in 1..Len(ss) : SourceFileType(ss[i]) \in CompiledTypes}
  IN  {ObjectFile(g, t, ss[i]) :
         i \in {j \in compiled : \E k \in compiled \ {j} :
                  ObjectFile(g, t, ss[j]) = ObjectFile(g, t, ss[k])}}

WroteFinalEdge(t) == written \cap {t} # {} /\ ~HasObjectCollision(graph, t)

\* spec 4.4: an explicitly empty output_extension override means "no
\* extension" on the link edge of a shared library (the writer, as
\* EmptyProductExtension pins it down, falls back to the default ".so").
EmptyExtensionMeansNoExtension ==
  \A t \in Target :
    WroteFinalEdge(t) /\ graph.ext[t] = "" => Last(out[t]).ext = ""

\* spec 3 and 4.2(d): the data deps of a source set surface as order-only
\* inputs of every linking target downstream of it (the writer, as
\* SourceSetDataDeps pins it down, orders the link only after the stamp).
DataDepsResurfaced ==
  \A t \in Target :
    WroteFinalEdge(t) /\ graph.kind[t] \in LinkingTypes =>
      \A s \in ToSet(ReachedDeps(graph, t)) :
        graph.kind[s] = SourceSet =>
          \A d \in ToSet(graph.data[s]) :
            OutputFile(graph, d) \in ToSet(Last(out[t]).oo)

\* spec 8: two sources of one target that share an object produce no edge
\* for either (the detector of 4.5 stops at the second one, after the
\* edge of the first is written).
NoEdgeForCollidingSources ==
  \A t \in written :
    \A i \in 1..Len(out[t]) : out[t][i].out \notin CollidingObjects(graph, t)

\* spec 5: the edges of different targets are addressed by unique paths, so
\* writers may run in parallel (object names embed the output name, and an
\* executable named "libbar" has the output name of a library named "bar").
UniqueOutputPaths ==
  \A t1, t2 \in written :
    t1 # t2 =>
      {e.out : e \in ToSet(out[t1])} \cap {e.out : e \in ToSet(out[t2])} = {}

\* spec 3: a target's resolved object files have no two entries with one
\* output path, which the Duplicate-Output Detector enforces (the detector
\* of 4.5 checks only the outputs of compile edges, so a pass-through
\* object listed twice reaches the stamp or link line twice).
UniqueObjectInputs ==
  \A t \in Target : WroteFinalEdge(t) => IsInjective(Last(out[t]).in)

\* spec 8: the stamp of a source set lists its own objects, then the
\* objects flattened from the source sets it depends on, in declaration
\* order (spec 4.2, and the writer, stamp only the source set's own
\* objects; its dependents absorb the rest).
StampListsFlattenedObjects ==
  \A t \in Target :
    WroteFinalEdge(t) /\ graph.kind[t] = SourceSet =>
      LET sets == SelectSeq(ReachedDeps(graph, t), LAMBDA d : graph.kind[d] = SourceSet)
      IN  Last(out[t]).in =
            OwnObjects(graph, t) \o FlattenSeq([i \in 1..Len(sets) |-> OwnObjects(graph, sets[i])])

\* spec 5: within one target's output the edges appear in the order compile
\* edges, then precompiled-header edges, then the link or stamp edge (the
\* writer, as WinPrecompiledHeaders and GCCPrecompiledHeaders pin it down,
\* writes the precompiled-header compiles first).
PchEdgesAfterCompileEdges ==
  \A t \in written :
    LET es == out[t]
        pch(i) == graph.pchsrc[t] # <<>> /\ es[i].in = <<SrcPath(graph.pchsrc[t][1])>>
        compile(i) == es[i].rule \in {"cc", "cxx", "asm"} /\ ~pch(i)
    IN  \A i, j \in DOMAIN es : pch(i) /\ compile(j) => j < i

=============================================================================
