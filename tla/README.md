# TLA+ models of GN's binary-target build-file emission

These modules model the core of `NinjaBinaryTargetWriter` of GN (this
repository): the compile edges of a target's sources, the stamp edge of a
source set or the link/archive edge of a linking target, the dependency walk
that folds source-set objects into linking targets, output naming, duplicate
object detection, precompiled headers (MSVC and GCC style), libs and lib
dirs on the link edge, and the shared scheduler failure state writers
report into.

The only code under `src/` is `src/tools/gn/ninja_binary_target_writer_unittest.cc`.
The behaviour the model follows is therefore the one those tests pin down
(their expected ninja text), and `spec.md` fills in what the tests leave
open. Definitions taken from `spec.md` alone are marked `spec_modelled` in
`PROJECT.json`.

## Inventory

### Parts of the system and how they interact

| Part | State | Operations | Module |
|---|---|---|---|
| Target graph (resolved, read-only) | kind, completeness, deps, data deps, sources, name, dir, extension override, precompiled source, precompiled-header mode of the toolchain, libs, lib dirs and toolchain output subdirectory per target | none (input) | `GnTarget` (naming), the MC modules (graph spaces) |
| Source Classifier | none | classify a source by extension; name its object; write its compile edge | `SourceClassifier` |
| Duplicate-Output Detector | per-writer set of assigned objects | check before each compile edge; abort the writer | `SourceWriter` (`Collides`, `SourceStep`), `BuildFileWriterSteps` (`WriteSource`) |
| Dependency Flattener | none (pure walk) | DFS over deps through source sets; absorption; order-only inputs | `DependencyFlattener` |
| Link/Archive Edge Emitter | none | rule, inputs, implicit and order-only inputs, ldflags, libs, output extension of the final edge | `NinjaBinaryTargetWriter` |
| Scheduler failure state | `failed`, `error` | `FailWithError`, `is_failed()` | `Scheduler` |
| Build-file generation driver | which writers ran, what each wrote, whether it reported | run a writer per binary target in any order; inspect `is_failed()` | `BuildFileWriter` (atomic), `BuildFileWriterSteps` (step-level) |
| Precompiled-Header Subsystem | none | extra per-language compile edges, written first; explicit deps on them; MSVC objects on the stamp | `PrecompiledHeaders`, `SourceWriter` (`SourcesStart`), `BuildFileWriterSteps` (`WritePch`) |

A writer reads the immutable graph. It produces its own edges and names
other targets only through their output files (stamps, archives, linked
outputs), so writers are independent except for the failure state. Spec §5
says the driver may run writers on parallel workers. The model lets them run
in any order and, in `BuildFileWriterSteps`, interleave step by step.

### Hazards

`PROJECT.json` lists each hazard at the test line that pins it down, along
with the properties that cover it:

- the order of link inputs, and diamonds of source sets;
- completeness of static libraries;
- data deps reaching the link only through the stamp chain;
- action stamps on compile edges;
- the empty extension override;
- a duplicate object aborting a writer part way;
- writers racing to record the first failure (no property: the
  scheduler's update is atomic, one step in the model);
- liveness of the driver after a failure;
- output-name collisions across targets;
- the precompiled-header compiles: one per language present, written
  first, each compile depending on its own language's output, and only
  built MSVC objects on the stamp;
- the order of libs, lib dirs and `.def` files on the link edge;
- one label written in two toolchains by parallel writers, and a dependent
  naming a dep's outputs with the dep's toolchain, not its own.

## Modules

- `GnTarget`: output types and path values, one per kind of file:
  - sources `<<"src", dir, stem, ext>>`;
  - objects `<<"obj", tc, dir, outname, stem, suffix>>`;
  - stamps, root outputs and archives, each also below `tc`.

  `tc` is the output subdirectory of the target's toolchain
  (`DefaultToolchain` is the empty prefix; the PCH tests build in
  `withpch`, test lines 525-531).

  It also defines `OutputName` (the `lib` prefix), `OutputExtension` (an
  override or the tool default; an empty override falls back to the
  default, test lines 269-316) and `OutputFile`.
- `SourceClassifier`: the edge record (`LinkEdge`, `Edge`; ldflags and
  libs are empty on edges whose rule does not write them), `SourceFileType`
  (case-sensitive: `.S` is ignored), `ObjectFile` and `CompileOrderOnly`
  (stamps of action deps, test lines 210-215).
- `PrecompiledHeaders`: the precompiled-header mode of the toolchain
  (`PchNone`, `PchMsvc`, `PchGcc`). `UsesPch(g, t, lang)` holds when the
  target declares a precompiled source, the mode is not none and a source
  of that language is present. `PchOutput` is `precompile.c.o` /
  `precompile.cc.o` (MSVC) or `precompile.h-c.gch` / `precompile.h-cc.gch`
  (GCC) in the precompiled source's directory. `PchEdges` writes C first,
  then C++ (test lines 620-636, 765-776). `PchImplicit` is the explicit
  dependency of a compile, and `PchObjects` the MSVC objects a source set's
  stamp lists (lines 650-655; GCC adds none, lines 790-792).
- `SourceWriter`: `SourcesStart` (the precompiled edges written before any
  compile edge), then `SourceStep`, one iteration of the source loop with
  the duplicate check before the edge. `WriteSources` folds it over the
  sources (`FoldLeft`), and `HasObjectCollision` is a reference definition.
- `DependencyFlattener`:
  - `Walk` is the DFS in declaration order with target-level dedupe, descending only into source sets.
  - `ReachRef` is a set-based reference for what the walk reaches, and
    `StackWalk` a reference for its order: a depth-first search with an
    explicit stack of pending deps.
  - `Absorbs` and `LinkedArchive` decide what a target absorbs and which archives it links.
  - `DepLinkInputs` is source-set objects in walk order, then linked archives.
  - `FinalOrderOnly` is the unlinked reached deps, then the target's data deps.
- `NinjaBinaryTargetWriter`: `FinalRule`, `FinalExtension`, `FinalObjects`,
  the libs (`LibsVar`: paths and `-l` names in declared order; `LibInputs`:
  file libs as implicit inputs after the `.def` files), `LdFlagsVar` (`-L`
  per lib dir, then `/DEF:`), which only link, solink and solink_module
  edges write (`WritesLinkerFlags`), `FinalEdge`, and `Emit`, the whole
  `Run()` of one target as a value.
- `Scheduler`: `failed`/`error` and `FailWithError` with first failure wins.
- `BuildFileWriter`: the driver with each `Run(t)` atomic (variables
  `graph`, `out`, `written`, `reported`), then `Report`. The graph is any
  state the constant predicate `IsInputGraph` admits. This is the abstract
  specification.
- `BuildFileWriterSteps`: the same driver with each `Run()` split into
  `WritePch(t)`, `WriteSource(t)` (one per source) and `WriteFinal(t)`. A duplicate ends
  the writer in the step that finds it. `ImplementsAtomicWriter` is
  `BuildFileWriter!Spec` under the mapping that makes a writer's output
  visible when it finishes: `written` is the finished writers and `out` is
  what they emitted.
- `GnUnitTests`: the graph and expected edges of each unit test, as data.
- `SpecClaims`: statements of `spec.md` that the tests contradict or that
  the spec leaves inconsistent, each checked in a violation run.

Each MC module (`MCBuildFlatten`, `MCBuildWalk`, `MCBuildSources`, `MCBuildPch`,
`MCUnitTests`, `MCSpecClaims`) defines `MCIsInputGraph`, the graphs a run starts from.

## Runs

| Run | Module / cfg | Checks | Result |
|---|---|---|---|
| flatten | `MCBuildFlatten` | `WalkMatchesReference`, `ArchiveAbsorption`, `DataDepsOrdered`, `NoDanglingInputs` | pass, ~99k states |
| walk | `MCBuildWalk` | `WalkMatchesReference` | pass, ~43k states |
| sources | `MCBuildSources` | `TypeOK`, `FailureIffCollision`, `AllTargetsWritten` | pass, ~9.6k states |
| pch | `MCBuildPch` | `PrecompiledHeaderDeps`, `NoDanglingInputs`, `ToolchainOutputsDisjoint` | pass, ~2.6k states |
| unit_tests | `MCUnitTests` | `MatchesUnitTests`, `ImplementsAtomicWriter` | pass, 317 states (~2.5 min, nearly all in the refinement's fairness) |
| spec_EmptyExtensionMeansNoExtension | `MCSpecClaims` | spec §4.4 | violation |
| spec_DataDepsResurfaced | `MCSpecClaims` | spec §3 / §4.2(d) | violation |
| spec_NoEdgeForCollidingSources | `MCSpecClaims` | spec §8 | violation |
| spec_UniqueOutputPaths | `MCSpecClaims` | spec §5 | violation |
| spec_PchEdgesAfterCompileEdges | `MCSpecClaims` | spec §5 (edge order) | violation |
| spec_UniqueObjectInputs | `MCSpecClaims` | spec §3 vs §4.5 | violation |
| spec_StampListsFlattenedObjects | `MCSpecClaims` | spec §8 vs §4.2 | violation |

What the passing runs show:

- **flatten** covers every acyclic graph of three targets. It includes:
  - any output type, with completeness of a static library;
  - deps only to later targets, in every declaration order (every acyclic graph up to renaming);
  - any data deps;
  - an extension override on the last target.

  Three targets give diamonds of source sets, chains through two source
  sets, and a source set shared by two linking targets. Each binary target
  compiles a source named after itself, so objects of different owners
  differ.

  The walk visits each reachable target once. Archives absorb exactly what
  a shared library would (complete) or nothing (incomplete).

  Once all writers have run, the written edges form a closed ninja graph:
  every input is a source, an action's stamp, or the output of an edge some
  writer wrote. Every data dep of every source set a target reaches is
  required before that target's final output.
- **walk** covers every acyclic graph of four source sets and executables,
  each compiling a source of its own, in every declaration order (2560
  graphs). The walk of every target is the order of `StackWalk`: a source
  set's deps come right after it, before its later siblings. Telling that
  order from one where the walk recurses after the siblings needs a source
  set below one sibling and a later sibling. An example is `a -> <<b, d>>`
  with source set `b -> c`: depth-first gives `b, c, d`, the other order
  `b, d, c`. No three-target graph has this shape, so the **flatten** run
  misses that mutant (`WalkRecurseLate`) and this run catches it.
- **sources** covers three fixed targets (an executable depending on a
  source set, and a second executable whose two sources collide). The first
  two targets take any list of up to two sources from a pool with a
  colliding stem, a pass-through object, an ignored `.S` and an assembly
  file. A writer stops before its final edge exactly when two compiled
  sources share an object, and the run is failed exactly when some writer
  stopped. Every writer runs even after a failure, and the driver reports.
- **pch** covers two graph spaces. In the first, a source set or executable `a`, built in `withpch` as in the tests, has any declaration order
  of up to three sources (C++, C, assembly), every precompiled-header mode
  (none, MSVC, GCC) and a precompiled source or none, linked into an
  executable `b` of the default toolchain, with a copy of `a` without
  precompiled headers in the default toolchain beside it. That is 96 graphs, among them targets with only one of
  the two languages, with only assembly, and a mode but no precompiled
  source. Every C or C++ compile depends on the one precompiled compile of
  its own language, written before it. There is no precompiled compile for
  an absent language, and no dependency without a precompiled source. The
  stamp of `a` and the link of `b` list only outputs some edge writes.

  The second space covers one label `//foo:a` built both in the default
  toolchain and in `withpch`, as a source set, a static library (complete
  or not) or a shared library. The `withpch` copy may precompile headers
  the MSVC way and may have an extra source, as a BUILD file's
  `if (current_toolchain == ...)` block gives it. An executable `//foo:b`,
  in either toolchain, depends on one copy or both. The two copies of
  `a` never write an edge for the same path, so the driver may run them in
  parallel. Every object, stamp and archive `b` names is built by the copy
  it depends on. A dependent that computed a dep's paths with its own
  toolchain would go unnoticed whenever the other copy has the same
  sources. It shows up only when the sources differ, which is why the run
  includes the extra source (mutant `DepLinkInputsOwnToolchain`). Only this
  second space catches that mutant. In the first space the copy of `a` in
  the default toolchain writes the very objects the mistaken dependent
  names, since an absorbed source set contributes no precompiled objects
  to the link.
- **unit_tests**: each transcribed test's expected edges come out in every
  interleaving of the step-level writers, and those writers implement the
  atomic specification. The tests are SourceSet, ProductExtensionAndInputDeps,
  EmptyProductExtension, SourceSetDataDeps, SharedLibraryModuleDefinitionFile,
  LoadableModule, LibsAndLibDirs, both no-PCH and PCH targets of
  WinPrecompiledHeaders and GCCPrecompiledHeaders, and DupeObjFileError.

The violation runs are the findings in `PROJECT.json`:

- an empty override gives `.so` (the spec says no extension);
- the link of `exe` is ordered after `inter.stamp` only, not after
  `data_target` (ordering still holds through the stamp, as
  `DataDepsOrdered` shows);
- the first of two colliding sources has its edge written;
- an executable `libbar` and a shared library `bar` in one directory write
  the same object;
- the precompiled-header compiles come before the compile edges, while
  spec §5 orders compile edges first;
- a pass-through object listed twice is linked twice: the detector checks
  only compile outputs (spec §4.5), while spec §3 says no two object files
  of a target share a path;
- a source set `outer` depending on a source set `inner` stamps only
  `outer`'s object (spec §4.2), while spec §8 counts the `N+M` own and
  flattened objects. No test has a source set with source-set deps.

Each passing property has a mutant in `PROJECT.json`: a plausible bug in a
mapped definition that TLC finds under the run's own cfg.

## Fairness

The spec uses weak fairness on `Next` alone. Writers never block and run to
completion (spec §5: emission is non-suspending), and the driver only waits
for them. So whenever a step is possible, one is taken. Every step makes
progress: the precompiled compiles are written, a source is handled, a writer finishes, or the driver reports. In
a finite graph this forces every writer to run and the driver to report.
The runs leave deadlock checking off because the run ends for good after
`Report`.

## Not modelled, and why

- Label resolution, visibility and graph construction: external to the
  core; runs start from resolved graphs.
- The variable block (`defines`, `cflags`, ...), `source_name_part` lines,
  path escaping, the precompiled-header flags (`/Yc`, `/Yu`, `/Fp`,
  `-include`, `-x c-header`) that sit in those variables, and the toolchain
  prefix of rule names (`withpch_cxx`, `withpch_stamp`): formatting no
  property depends on. An edge names its tool, and the toolchain it belongs
  to is carried by its paths, whose `withpch/` prefix is modelled. Paths
  are tagged tuples.
- Command templates of tools and the `{{pattern}}` expander: the writer
  passes them through as text. This is why Tool/Toolchain and Substitution
  Context stay partly modelled.
- The precompiled header path is not modelled apart from the precompiled
  source. The tests set both, and the model takes "declares a precompiled
  source" to mean that both are set.
- ldflags and libs inherited from configs and from deps: the tests only
  set them on the target itself.
- Other writers (action, copy, group): actions appear only as deps with a
  stamp.

## Possible extensions

Every operation of the writer that the tests exercise is modelled. These
would widen the inputs rather than add behaviour:

- ldflags and libs inherited from configs and deps, if a test pinned their
  order down;
- precompiled headers on a source set reached through a diamond. Today the
  **pch** run (an absorbed source set) and the **flatten** and **walk** runs
  (diamonds) cover the two halves separately.
