----------------------------- MODULE MCUnitTests -----------------------------
(***************************************************************************)
(* The graphs of the unit tests, written by interleaved step-level         *)
(* writers in every order.                                                 *)
(***************************************************************************)
EXTENDS BuildFileWriterSteps, GnUnitTests

MCTarget == 1..3

MCIsInputGraph(g) == \E sc \in Scenarios : g = sc.graph

\* Every target a test writes ends with exactly the edges of the test's
\* expected string, and the driver sees is_failed() exactly when the test
\* expects it.
MatchesUnitTests ==
  LET sc == ScenarioOf(graph)
  IN  /\ \A t \in DOMAIN sc.expected :
           pc[t] = "done" => emitted[t] = sc.expected[t]
      /\ reported => (failed = sc.failed)

=============================================================================
