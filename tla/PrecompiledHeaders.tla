-------------------------- MODULE PrecompiledHeaders --------------------------
(***************************************************************************)
(* Precompiled headers: the extra compile of the target's precompiled     *)
(* source, one per language of its sources whose tool has a precompiled-   *)
(* header mode, and the explicit dependency every compile of that          *)
(* language takes on it.  MSVC-style compiles produce objects that join    *)
(* a source set's stamp; GCC-style ones produce .gch files that do not.    *)
(***************************************************************************)
EXTENDS SourceClassifier

\* Tool::PrecompiledHeaderType of the target's compiler tools.
PchNone == "none"
PchMsvc == "msvc"
PchGcc  == "gcc"

\* The languages with a precompiled-header compile, in the order Run writes
\* them: C, then C++.
PchLanguages == <<"cc", "cxx">>

\* The language part of a precompiled output: precompile.c.o, precompile.h-cc.gch.
LangTag(lang) == IF lang = "cc" THEN "c" ELSE "cc"

\* Mutant: a precompiled header is compiled for both languages whatever the
\* target's sources are.
UsesPchAnyLanguage(g, t, lang) ==
  /\ g.pchsrc[t] # <<>>
  /\ g.pchtool[t] # PchNone
  /\ lang \in ToSet(PchLanguages)

\* The target declares a precompiled source (g.pchsrc[t] = <<s>>), its tool
\* has a precompiled-header mode, and one of its sources is of language lang.
UsesPch(g, t, lang) ==
  /\ g.pchsrc[t] # <<>>
  /\ g.pchtool[t] # PchNone
  /\ lang \in ToSet(PchLanguages)
  /\ \E i \in 1..Len(g.srcs[t]) : SourceFileType(g.srcs[t][i]) = lang

\* The output of the precompiled compile for lang: an object next to the
\* precompiled source (MSVC) or a .gch of the header (GCC).
PchOutput(g, t, lang) ==
  LET p == g.pchsrc[t][1]
  IN  IF g.pchtool[t] = PchMsvc
      THEN ObjPath(g.toolchain[t], p.dir, OutputName(g, t), p.stem, "." \o LangTag(lang))
      ELSE ObjPath(g.toolchain[t], p.dir, OutputName(g, t), p.stem,
                   "." \o p.ext \o "-" \o LangTag(lang) \o ".gch")

\* The languages of t that get a precompiled compile, C first.
PchLangs(g, t) == SelectSeq(PchLanguages, LAMBDA l : UsesPch(g, t, l))

\* The precompiled compiles, written before the compile edges.
PchEdges(g, t) ==
  LET ls == PchLangs(g, t)
  IN  [i \in 1..Len(ls) |->
         Edge(PchOutput(g, t, ls[i]), ls[i], <<SrcPath(g.pchsrc[t][1])>>, <<>>,
              CompileOrderOnly(g, t), NoExt)]

\* The explicit dependency of a compile of language lang.
PchImplicit(g, t, lang) ==
  IF UsesPch(g, t, lang) THEN <<PchOutput(g, t, lang)>> ELSE <<>>

\* Mutant: the stamp lists a precompiled object for every language, compiled
\* or not.
PchObjectsAllLanguages(g, t) ==
  IF g.pchtool[t] = PchMsvc /\ g.pchsrc[t] # <<>>
  THEN [i \in 1..Len(PchLanguages) |-> PchOutput(g, t, PchLanguages[i])]
  ELSE <<>>

\* The precompiled outputs that are object files: MSVC-style only.
PchObjects(g, t) ==
  IF g.pchtool[t] = PchMsvc
  THEN [i \in 1..Len(PchLangs(g, t)) |-> PchOutput(g, t, PchLangs(g, t)[i])]
  ELSE <<>>

=============================================================================
