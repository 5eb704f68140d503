--------------------------- MODULE SourceClassifier ---------------------------
(***************************************************************************)
(* Source classification: the tool of each source, the object it compiles  *)
(* to, and the shape of the build edges the writer emits.                  *)
(***************************************************************************)
EXTENDS GnTarget, SequencesExt

\* The output_extension of an edge that does not write the line.
NoExt == "(none)"

\* A build edge: build out: rule in | imp || oo, with the variable lines
\* ldflags, libs and output_extension.
LinkEdge(out, rule, in, imp, oo, ldflags, libs, ext) ==
  [out |-> out, rule |-> rule, in |-> in, imp |-> imp, oo |-> oo,
   ldflags |-> ldflags, libs |-> libs, ext |-> ext]

\* An edge with empty ldflags and libs.  Only the link rules write the two
\* lines, so whether they appear follows from the rule.
Edge(out, rule, in, imp, oo, ext) == LinkEdge(out, rule, in, imp, oo, <<>>, <<>>, ext)

\* The source file type, decided by the extension alone and case-sensitively:
\* ".S" is not an assembly extension of this toolchain and is ignored.
SourceFileType(s) ==
  CASE s.ext \in {"cc", "cpp", "cxx"} -> "cxx"
    [] s.ext = "c"                    -> "cc"
    [] s.ext \in {"s", "asm", "arm"}  -> "asm"
    [] s.ext \in {"o", "obj"}         -> "object"
    [] s.ext = "def"                  -> "def"
    [] OTHER                          -> "unknown"

\* Mutant: pass-through objects are handed to a compiler tool too.
CompiledTypesWithObjects == {"cxx", "cc", "asm", "object"}

\* The source types that have a compiler tool.
CompiledTypes == {"cxx", "cc", "asm"}

\* Mutant: objects are placed under obj/ of the build directory whatever
\* t's toolchain, as if every target used the default toolchain's settings.
ObjectFileDefaultToolchain(g, t, s) ==
  ObjPath(DefaultToolchain, s.dir, OutputName(g, t), s.stem, "")

\* The object a compiled source of t produces, below t's toolchain's
\* output subdirectory.
ObjectFile(g, t, s) == ObjPath(g.toolchain[t], s.dir, OutputName(g, t), s.stem, "")

\* Order-only inputs of every compile edge of t: the stamps of t's action
\* dependencies, so generated inputs exist before anything is compiled.
CompileOrderOnly(g, t) ==
  LET acts == SelectSeq(g.deps[t], LAMBDA d : g.kind[d] = Action)
  IN  [i \in 1..Len(acts) |-> OutputFile(g, acts[i])]

=============================================================================
