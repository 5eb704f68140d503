------------------------------ MODULE GnUnitTests ------------------------------
(***************************************************************************)
(* The scenarios of ninja_binary_target_writer_unittest.cc: the graph each *)
(* test builds and the edges its expected string spells out, with paths   *)
(* as tagged tuples and variable lines other than output_extension left    *)
(* out.  Targets a test does not write, and slots a test does not use      *)
(* (actions named "unused"), have no expectation.                          *)
(***************************************************************************)
EXTENDS NinjaBinaryTargetWriter, TLC

S(dir, stem, ext) == [dir |-> dir, stem |-> stem, ext |-> ext]

\* An object of a source in //foo, and the compile edge that produces it.
O(outname, stem) == ObjPath(DefaultToolchain, "foo", outname, stem, "")
CE(outname, src, rule, oo) ==
  Edge(O(outname, src.stem), rule, <<SrcPath(src)>>, <<>>, oo, NoExt)

T(kind, name, deps, data, srcs, ext) ==
  [kind |-> kind, complete |-> FALSE, deps |-> deps, data |-> data,
   srcs |-> srcs, name |-> name, ext |-> ext, pchsrc |-> <<>>,
   pchtool |-> PchNone, libs |-> <<>>, libdirs |-> <<>>,
   toolchain |-> DefaultToolchain]

Unused == T(Action, "unused", <<>>, <<>>, <<>>, Unset)

\* A graph over targets 1..3 from one record per target; all live in //foo.
MkGraph(t1, t2, t3) ==
  LET r == <<t1, t2, t3>>
  IN  [kind     |-> [t \in 1..3 |-> r[t].kind],
       complete |-> [t \in 1..3 |-> r[t].complete],
       deps     |-> [t \in 1..3 |-> r[t].deps],
       data     |-> [t \in 1..3 |-> r[t].data],
       srcs     |-> [t \in 1..3 |-> r[t].srcs],
       name     |-> [t \in 1..3 |-> r[t].name],
       dir      |-> [t \in 1..3 |-> "foo"],
       ext      |-> [t \in 1..3 |-> r[t].ext],
       pchsrc   |-> [t \in 1..3 |-> r[t].pchsrc],
       pchtool  |-> [t \in 1..3 |-> r[t].pchtool],
       libs     |-> [t \in 1..3 |-> r[t].libs],
       libdirs  |-> [t \in 1..3 |-> r[t].libdirs],
       toolchain |-> [t \in 1..3 |-> r[t].toolchain]]

(***************************************************************************)
(* TEST(NinjaBinaryTargetWriter, SourceSet), run once with the static      *)
(* library incomplete and once after set_complete_static_lib(true).        *)
(***************************************************************************)
SourceSetSources ==
  <<S("foo", "input1", "cc"), S("foo", "input2", "cc"), S("foo", "input3", "o"),
    S("foo", "input4", "obj"), S("foo", "input5", "asm"), S("foo", "input6", "s"),
    S("foo", "input7", "arm"), S("foo", "input8", "S")>>

SourceSetObjects7 ==
  <<O("bar", "input1"), O("bar", "input2"), SrcPath(SourceSetSources[3]),
    SrcPath(SourceSetSources[4]), O("bar", "input5"), O("bar", "input6"),
    O("bar", "input7")>>

SourceSetTest(complete) ==
  [graph |-> MkGraph(T(SourceSet, "bar", <<>>, <<>>, SourceSetSources, Unset),
                     T(SharedLibrary, "shlib", <<1>>, <<>>, <<>>, Unset),
                     [T(StaticLibrary, "stlib", <<1>>, <<>>, <<>>, Unset)
                        EXCEPT !.complete = complete]),
   expected |->
     (1 :> <<CE("bar", SourceSetSources[1], "cxx", <<>>),
             CE("bar", SourceSetSources[2], "cxx", <<>>),
             CE("bar", SourceSetSources[5], "asm", <<>>),
             CE("bar", SourceSetSources[6], "asm", <<>>),
             CE("bar", SourceSetSources[7], "asm", <<>>),
             Edge(StampPath(DefaultToolchain, "foo", "bar"), "stamp", SourceSetObjects7, <<>>,
                  <<>>, NoExt)>>
      @@ 2 :> <<Edge(RootPath(DefaultToolchain, "libshlib.so"), "solink", SourceSetObjects7,
                     <<>>, <<StampPath(DefaultToolchain, "foo", "bar")>>, ".so")>>
      @@ 3 :> <<Edge(ArchivePath(DefaultToolchain, "foo", "libstlib"), "alink",
                     IF complete THEN SourceSetObjects7 ELSE <<>>,
                     <<>>, <<StampPath(DefaultToolchain, "foo", "bar")>>, "")>>),
   failed |-> FALSE]

\* TEST(NinjaBinaryTargetWriter, ProductExtensionAndInputDeps)
ProductExtensionTest ==
  LET in1 == S("foo", "input1", "cc")
      in2 == S("foo", "input2", "cc")
      act == <<StampPath(DefaultToolchain, "foo", "action")>>
  IN  [graph |-> MkGraph(T(Action, "action", <<>>, <<>>, <<>>, Unset),
                         T(SharedLibrary, "shlib", <<1>>, <<>>, <<in1, in2>>, "so.6"),
                         Unused),
       expected |->
         (2 :> <<CE("libshlib", in1, "cxx", act), CE("libshlib", in2, "cxx", act),
                 Edge(RootPath(DefaultToolchain, "libshlib.so.6"), "solink",
                      <<O("libshlib", "input1"), O("libshlib", "input2")>>,
                      <<>>, act, ".so.6")>>),
       failed |-> FALSE]

\* TEST(NinjaBinaryTargetWriter, EmptyProductExtension)
EmptyProductExtensionTest ==
  LET in1 == S("foo", "input1", "cc")
      in2 == S("foo", "input2", "cc")
  IN  [graph |-> MkGraph(T(SharedLibrary, "shlib", <<>>, <<>>, <<in1, in2>>, ""),
                         Unused, Unused),
       expected |->
         (1 :> <<CE("libshlib", in1, "cxx", <<>>), CE("libshlib", in2, "cxx", <<>>),
                 Edge(RootPath(DefaultToolchain, "libshlib.so"), "solink",
                      <<O("libshlib", "input1"), O("libshlib", "input2")>>,
                      <<>>, <<>>, ".so")>>),
       failed |-> FALSE]

\* TEST(NinjaBinaryTargetWriter, SourceSetDataDeps)
SourceSetDataDepsTest ==
  LET inter == S("foo", "inter", "cc")
      final == S("foo", "final", "cc")
  IN  [graph |-> MkGraph(T(Executable, "data_target", <<>>, <<>>, <<>>, Unset),
                         T(SourceSet, "inter", <<>>, <<1>>, <<inter>>, Unset),
                         T(Executable, "exe", <<2>>, <<>>, <<final>>, Unset)),
       expected |->
         (2 :> <<CE("inter", inter, "cxx", <<>>),
                 Edge(StampPath(DefaultToolchain, "foo", "inter"), "stamp", <<O("inter", "inter")>>,
                      <<>>, <<RootPath(DefaultToolchain, "data_target")>>, NoExt)>>
          @@ 3 :> <<CE("exe", final, "cxx", <<>>),
                    Edge(RootPath(DefaultToolchain, "exe"), "link",
                         <<O("exe", "final"), O("inter", "inter")>>, <<>>,
                         <<StampPath(DefaultToolchain, "foo", "inter")>>, "")>>),
       failed |-> FALSE]

\* TEST(NinjaBinaryTargetWriter, SharedLibraryModuleDefinitionFile)
ModuleDefinitionFileTest ==
  LET src == S("foo", "sources", "cc")
      def == S("foo", "bar", "def")
  IN  [graph |-> MkGraph(T(SharedLibrary, "bar", <<>>, <<>>, <<src, def>>, Unset),
                         Unused, Unused),
       expected |->
         (1 :> <<CE("libbar", src, "cxx", <<>>),
                 LinkEdge(RootPath(DefaultToolchain, "libbar.so"), "solink", <<O("libbar", "sources")>>,
                          <<SrcPath(def)>>, <<>>, <<<<"/DEF:", SrcPath(def)>>>>,
                          <<>>, ".so")>>),
       failed |-> FALSE]

\* TEST(NinjaBinaryTargetWriter, LoadableModule)
LoadableModuleTest ==
  LET src   == S("foo", "sources", "cc")
      final == S("foo", "final", "cc")
  IN  [graph |-> MkGraph(T(LoadableModule, "bar", <<>>, <<>>, <<src>>, Unset),
                         T(Executable, "exe", <<1>>, <<>>, <<final>>, Unset),
                         Unused),
       expected |->
         (1 :> <<CE("libbar", src, "cxx", <<>>),
                 Edge(RootPath(DefaultToolchain, "libbar.so"), "solink_module",
                      <<O("libbar", "sources")>>, <<>>, <<>>, ".so")>>
          @@ 2 :> <<CE("exe", final, "cxx", <<>>),
                    Edge(RootPath(DefaultToolchain, "exe"), "link", <<O("exe", "final")>>, <<>>,
                         <<RootPath(DefaultToolchain, "libbar.so")>>, "")>>),
       failed |-> FALSE]

\* TEST(NinjaBinaryTargetWriter, LibsAndLibDirs)
LibsAndLibDirsTest ==
  LET lib1 == S("foo", "lib1", "a")
  IN  [graph |-> MkGraph([T(SharedLibrary, "shlib", <<>>, <<>>, <<>>, Unset)
                            EXCEPT !.libs = <<[file |-> lib1], [name |-> "foo"]>>,
                                   !.libdirs = <<"foo/bar">>],
                         Unused, Unused),
       expected |->
         (1 :> <<LinkEdge(RootPath(DefaultToolchain, "libshlib.so"), "solink", <<>>, <<SrcPath(lib1)>>,
                          <<>>, <<<<"-L", "foo/bar">>>>,
                          <<SrcPath(lib1), <<"-l", "foo">>>>, ".so")>>),
       failed |-> FALSE]

(***************************************************************************)
(* TEST(NinjaBinaryTargetWriter, WinPrecompiledHeaders) and                *)
(* GCCPrecompiledHeaders: a source set with a C++ and a C source, in a     *)
(* toolchain whose cc and cxx tools have the precompiled-header mode tool. *)
(***************************************************************************)
PchSources == <<S("foo", "input1", "cc"), S("foo", "input2", "c")>>

\* Settings pch_settings(build_settings, "withpch/"): every output of the
\* targets below lies under withpch/.
WithPch == "withpch"

PO(outname, stem) == ObjPath(WithPch, "foo", outname, stem, "")

\* no_pch_target: no precompiled source, so no precompiled compile.
NoPchTest(tool) ==
  LET PE(src, rule) ==
        Edge(PO("no_pch_target", src.stem), rule, <<SrcPath(src)>>, <<>>, <<>>, NoExt)
  IN  [graph |-> MkGraph([T(SourceSet, "no_pch_target", <<>>, <<>>, PchSources, Unset)
                            EXCEPT !.pchtool = tool, !.toolchain = WithPch],
                         Unused, Unused),
       expected |->
         (1 :> <<PE(PchSources[1], "cxx"), PE(PchSources[2], "cc"),
                 Edge(StampPath(WithPch, "foo", "no_pch_target"), "stamp",
                      <<PO("no_pch_target", "input1"), PO("no_pch_target", "input2")>>,
                      <<>>, <<>>, NoExt)>>),
       failed |-> FALSE]

\* pch_target: the precompiled source is //build/precompile.cc (MSVC) or
\* the header //build/precompile.h itself (GCC).
PchTest(tool) ==
  LET psrc  == IF tool = PchMsvc THEN S("build", "precompile", "cc")
                                 ELSE S("build", "precompile", "h")
      tag(l) == IF tool = PchMsvc THEN "." \o l ELSE ".h-" \o l \o ".gch"
      pc  == ObjPath(WithPch, "build", "pch_target", "precompile", tag("c"))
      pcc == ObjPath(WithPch, "build", "pch_target", "precompile", tag("cc"))
      PE(o, rule) == Edge(o, rule, <<SrcPath(psrc)>>, <<>>, <<>>, NoExt)
      CP(src, rule, p) ==
        Edge(PO("pch_target", src.stem), rule, <<SrcPath(src)>>, <<p>>, <<>>, NoExt)
      objs == <<PO("pch_target", "input1"), PO("pch_target", "input2")>>
  IN  [graph |-> MkGraph([T(SourceSet, "pch_target", <<>>, <<>>, PchSources, Unset)
                            EXCEPT !.pchtool = tool, !.pchsrc = <<psrc>>,
                                   !.toolchain = WithPch],
                         Unused, Unused),
       expected |->
         (1 :> <<PE(pc, "cc"), PE(pcc, "cxx"),
                 CP(PchSources[1], "cxx", pcc), CP(PchSources[2], "cc", pc),
                 Edge(StampPath(WithPch, "foo", "pch_target"), "stamp",
                      IF tool = PchMsvc THEN objs \o <<pc, pcc>> ELSE objs,
                      <<>>, <<>>, NoExt)>>),
       failed |-> FALSE]

\* TEST(NinjaBinaryTargetWriter, DupeObjFileError): //a.cc listed twice; the
\* test only asserts that the scheduler has failed.
DupeObjFileTest ==
  [graph |-> MkGraph(T(Executable, "bar", <<>>, <<>>,
                       <<S("", "a", "cc"), S("", "a", "cc")>>, Unset),
                     Unused, Unused),
   expected |-> [t \in {} |-> <<>>],
   failed |-> TRUE]

\* WinPrecompiledHeaders: both targets are built with a toolchain whose C
\* and C++ tools are MSVC-style.
WinPrecompiledHeadersTest == {NoPchTest(PchMsvc), PchTest(PchMsvc)}

\* The targets of GCCPrecompiledHeaders, with GCC-style C and C++ tools.
GccNoPchTest == NoPchTest(PchGcc)

GccPchTest == PchTest(PchGcc)

GCCPrecompiledHeadersTest == {GccNoPchTest, GccPchTest}

Scenarios ==
  {SourceSetTest(FALSE), SourceSetTest(TRUE), ProductExtensionTest,
   EmptyProductExtensionTest, SourceSetDataDepsTest, ModuleDefinitionFileTest,
   LoadableModuleTest, LibsAndLibDirsTest, DupeObjFileTest}
  \cup WinPrecompiledHeadersTest \cup GCCPrecompiledHeadersTest

ScenarioOf(g) == CHOOSE sc \in Scenarios : sc.graph = g

=============================================================================
