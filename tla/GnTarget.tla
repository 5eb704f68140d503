------------------------------ MODULE GnTarget ------------------------------
(***************************************************************************)
(* The resolved target graph that NinjaBinaryTargetWriter reads, and the   *)
(* output paths the toolchain of TestWithScope gives each target.          *)
(*                                                                         *)
(* A graph g is a record of functions over a finite set of targets:        *)
(*   g.kind[t]     output type of t (Target::OutputType)                   *)
(*   g.complete[t] set_complete_static_lib (static libraries only)         *)
(*   g.deps[t]     public/private deps, in declaration order               *)
(*   g.data[t]     data_deps, in declaration order                         *)
(*   g.srcs[t]     sources, in declaration order                           *)
(*   g.name[t]     the label's name,  g.dir[t] the label's directory       *)
(*   g.ext[t]      set_output_extension argument, or Unset                 *)
(*   g.toolchain[t] the output subdirectory of t's toolchain               *)
(* Paths are tagged tuples: the formatting of a path ("obj/foo/x.o",       *)
(* "../../foo/x.cc") is left out, what distinguishes two paths is kept.    *)
(***************************************************************************)
EXTENDS Sequences, FiniteSets

Executable     == "executable"
SharedLibrary  == "shared_library"
StaticLibrary  == "static_library"
LoadableModule == "loadable_module"
SourceSet      == "source_set"
Action         == "action"

OutputTypes == {Executable, SharedLibrary, StaticLibrary, LoadableModule,
                SourceSet, Action}

\* Targets NinjaBinaryTargetWriter writes (everything except actions).
BinaryTypes == OutputTypes \ {Action}

\* Targets that end in a linker invocation (not a stamp).
LinkingTypes == {Executable, SharedLibrary, StaticLibrary, LoadableModule}

\* The value of g.ext[t] when set_output_extension was never called.
Unset == "(unset)"

(***************************************************************************)
(* Path values.                                                            *)
(***************************************************************************)
\* The toolchain_output_subdir of the default toolchain; another toolchain
\* (Settings(build_settings, "withpch/")) puts all outputs below its own.
DefaultToolchain == ""

\* A source file //dir/stem.ext, written ../../dir/stem.ext.
SrcPath(s) == <<"src", s.dir, s.stem, s.ext>>

\* {{source_out_dir}}/{{target_output_name}}.{{source_name_part}}<suffix>.
\* suffix is "" for an ordinary object, a language tag for the objects and
\* headers of precompiled-header compiles.
ObjPath(tc, dir, outname, stem, suffix) == <<"obj", tc, dir, outname, stem, suffix>>

\* {{target_out_dir}}/{{target_output_name}}.stamp
StampPath(tc, dir, outname) == <<"stamp", tc, dir, outname>>

\* {{root_out_dir}}/{{target_output_name}}{{output_extension}}
RootPath(tc, file) == <<"root", tc, file>>

\* {{target_out_dir}}/{{target_output_name}}.a
ArchivePath(tc, dir, outname) == <<"archive", tc, dir, outname>>

(***************************************************************************)
(* Output naming.                                                          *)
(***************************************************************************)
\* target_output_name: the label's name, with "lib" in front for libraries
\* and loadable modules ("bar" -> "libbar", "shlib" -> "libshlib").
OutputName(g, t) ==
  IF g.kind[t] \in {SharedLibrary, StaticLibrary, LoadableModule}
  THEN "lib" \o g.name[t]
  ELSE g.name[t]

\* The toolchain's default_output_extension of the linker tool.
DefaultExtension(g, t) ==
  IF g.kind[t] \in {SharedLibrary, LoadableModule} THEN ".so" ELSE ""

\* Mutant: an explicitly empty override is honoured as "no extension".
OutputExtensionEmptyHonoured(g, t) ==
  IF g.ext[t] = Unset THEN DefaultExtension(g, t)
  ELSE IF g.ext[t] = "" THEN "" ELSE "." \o g.ext[t]

\* output_extension: set_output_extension("so.6") gives ".so.6"; an empty
\* override, like no override, gives the tool's default.
OutputExtension(g, t) ==
  IF g.ext[t] \in {Unset, ""} THEN DefaultExtension(g, t)
  ELSE "." \o g.ext[t]

\* The file the target's final edge produces in its own toolchain's
\* directories, and the file a dependent names when it depends on the target.
OutputFile(g, t) ==
  LET tc == g.toolchain[t]
  IN  CASE g.kind[t] \in {SourceSet, Action} -> StampPath(tc, g.dir[t], g.name[t])
        [] g.kind[t] = StaticLibrary -> ArchivePath(tc, g.dir[t], OutputName(g, t))
        [] OTHER -> RootPath(tc, OutputName(g, t) \o OutputExtension(g, t))

=============================================================================
