----------------------------- MODULE SourceWriter -----------------------------
(***************************************************************************)
(* The source loop of NinjaBinaryTargetWriter::Run: the compile edge of    *)
(* each source, after the precompiled-header compiles, and the             *)
(* duplicate-object check made before each compile edge.                   *)
(***************************************************************************)
EXTENDS PrecompiledHeaders

(***************************************************************************)
(* WriteSources: one pass over t's sources in declaration order.  r holds  *)
(* the edges written so far, the objects for the final edge, the          *)
(* implicit inputs (module definition files) and the set of object paths   *)
(* already assigned.  A compiled source whose object was already assigned  *)
(* stops the pass with dup = TRUE before its edge is written.              *)
(***************************************************************************)
SourcesInit == [edges |-> <<>>, objs |-> <<>>, imp |-> <<>>, seen |-> {},
                dup |-> FALSE]

\* Mutant: an assigned object is never looked up again.
CollidesNever(r, o) == FALSE

\* The duplicate-object check: o was already assigned to an earlier source.
Collides(r, o) == o \in r.seen

SourceStep(g, t, r, s) ==
  LET type == SourceFileType(s)
      o    == ObjectFile(g, t, s)
  IN  CASE r.dup -> r
        [] type \in CompiledTypes /\ Collides(r, o) -> [r EXCEPT !.dup = TRUE]
        [] type \in CompiledTypes ->
             [r EXCEPT !.edges = Append(@, Edge(o, type, <<SrcPath(s)>>,
                                               PchImplicit(g, t, type),
                                               CompileOrderOnly(g, t), NoExt)),
                       !.objs = Append(@, o), !.seen = @ \cup {o}]
        [] type = "object" -> [r EXCEPT !.objs = Append(@, SrcPath(s))]
        [] type = "def"    -> [r EXCEPT !.imp = Append(@, SrcPath(s))]
        [] OTHER           -> r

\* Run writes the precompiled-header compiles before the source loop.
SourcesStart(g, t) == [SourcesInit EXCEPT !.edges = PchEdges(g, t)]

WriteSources(g, t) ==
  FoldLeft(LAMBDA r, s : SourceStep(g, t, r, s), SourcesStart(g, t), g.srcs[t])

\* The objects t contributes to its own final edge and to every target that
\* absorbs it: compiled objects and pass-through objects in source order.
OwnObjects(g, t) == WriteSources(g, t).objs

(***************************************************************************)
(* Reference definition of a collision: two compiled sources of t whose    *)
(* objects are the same path.                                              *)
(***************************************************************************)
HasObjectCollision(g, t) ==
  LET ss == g.srcs[t]
  IN  \E i, j \in 1..Len(ss) :
        /\ i < j
        /\ SourceFileType(ss[i]) \in CompiledTypes
        /\ SourceFileType(ss[j]) \in CompiledTypes
        /\ ObjectFile(g, t, ss[i]) = ObjectFile(g, t, ss[j])

=============================================================================
