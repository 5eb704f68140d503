------------------------ MODULE NinjaBinaryTargetWriter ------------------------
(***************************************************************************)
(* NinjaBinaryTargetWriter::Run for one target: the compile edges, then    *)
(* the stamp edge of a source set or the link edge of a linking target.    *)
(* A duplicate object stops the writer before its final edge.              *)
(***************************************************************************)
EXTENDS DependencyFlattener

\* The rule of the final edge: the toolchain tool for the output type.
FinalRule(g, t) ==
  CASE g.kind[t] = SourceSet      -> "stamp"
    [] g.kind[t] = Executable     -> "link"
    [] g.kind[t] = SharedLibrary  -> "solink"
    [] g.kind[t] = LoadableModule -> "solink_module"
    [] g.kind[t] = StaticLibrary  -> "alink"

\* The output_extension variable the final edge writes: none for a stamp,
\* always empty for an archive, the resolved extension otherwise.
FinalExtension(g, t) ==
  CASE g.kind[t] = SourceSet     -> NoExt
    [] g.kind[t] = StaticLibrary -> ""
    [] OTHER                     -> OutputExtension(g, t)

(***************************************************************************)
(* libs and lib_dirs of a linking target (g.libs[t], g.libdirs[t]): a lib  *)
(* is a file [file |-> s] or a name [name |-> n].                          *)
(***************************************************************************)
IsFileLib(l) == "file" \in DOMAIN l

\* The libs variable: a file lib as its path, a name as -l<name>, in order.
LibsVar(g, t) ==
  [i \in 1..Len(g.libs[t]) |->
     LET l == g.libs[t][i]
     IN  IF IsFileLib(l) THEN SrcPath(l.file) ELSE <<"-l", l.name>>]

\* File libs are implicit inputs of the link, after module definition files.
LibInputs(g, t) ==
  LET fs == SelectSeq(g.libs[t], IsFileLib)
  IN  [i \in 1..Len(fs) |-> SrcPath(fs[i].file)]

\* The ldflags variable: -L for each lib dir, then /DEF: for each module
\* definition file among the sources.
LdFlagsVar(g, t, w) ==
  [i \in 1..Len(g.libdirs[t]) |-> <<"-L", g.libdirs[t][i]>>]
  \o [i \in 1..Len(w.imp) |-> <<"/DEF:", w.imp[i]>>]

\* Only the link, solink and solink_module edges write ldflags and libs.
WritesLinkerFlags(g, t) == g.kind[t] \in {Executable, SharedLibrary, LoadableModule}

\* The inputs of the final edge: t's own objects, for a source set also
\* its MSVC precompiled objects, then what t absorbs from its deps.
FinalObjects(g, t, w) ==
  w.objs \o (IF g.kind[t] = SourceSet THEN PchObjects(g, t) ELSE <<>>)
  \o DepLinkInputs(g, t)

\* The stamp edge of a source set or the link edge of a linking target, given
\* the result w of writing t's sources.
FinalEdge(g, t, w) ==
  IF WritesLinkerFlags(g, t)
  THEN LinkEdge(OutputFile(g, t), FinalRule(g, t), FinalObjects(g, t, w),
                w.imp \o LibInputs(g, t), FinalOrderOnly(g, t),
                LdFlagsVar(g, t, w), LibsVar(g, t), FinalExtension(g, t))
  ELSE Edge(OutputFile(g, t), FinalRule(g, t), FinalObjects(g, t, w), w.imp,
            FinalOrderOnly(g, t), FinalExtension(g, t))

\* Everything Run writes for t, and whether it stopped on a duplicate.
Emit(g, t) ==
  LET w == WriteSources(g, t)
  IN  IF w.dup THEN [edges |-> w.edges, dup |-> TRUE]
      ELSE [edges |-> Append(w.edges, FinalEdge(g, t, w)), dup |-> FALSE]

=============================================================================
