---------------------------- MODULE MCSpecClaims ----------------------------
(***************************************************************************)
(* The graphs of the unit tests, and an executable named "libbar" beside a *)
(* shared library named "bar" in the same directory, and an executable    *)
(* listing the pass-through object //foo/input3.o twice, and a source set *)
(* depending on a source set.                                              *)
(***************************************************************************)
EXTENDS SpecClaims, GnUnitTests

MCTarget == 1..3

NameClashGraph ==
  LET x == S("foo", "x", "cc")
  IN  MkGraph(T(Executable, "libbar", <<>>, <<>>, <<x>>, Unset),
              T(SharedLibrary, "bar", <<>>, <<>>, <<x>>, Unset), Unused)

PassThroughTwiceGraph ==
  LET o == S("foo", "input3", "o")
  IN  MkGraph(T(Executable, "exe", <<>>, <<>>, <<o, o>>, Unset), Unused, Unused)

ChainedSourceSetsGraph ==
  MkGraph(T(Executable, "exe", <<2>>, <<>>, <<S("foo", "final", "cc")>>, Unset),
          T(SourceSet, "outer", <<3>>, <<>>, <<S("foo", "outer", "cc")>>, Unset),
          T(SourceSet, "inner", <<>>, <<>>, <<S("foo", "inner", "cc")>>, Unset))

MCIsInputGraph(g) ==
  \/ g \in {NameClashGraph, PassThroughTwiceGraph, ChainedSourceSetsGraph}
  \/ \E sc \in Scenarios : g = sc.graph

=============================================================================
