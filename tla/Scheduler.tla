------------------------------ MODULE Scheduler ------------------------------
(***************************************************************************)
(* The process-wide failure state writers report into (g_scheduler):      *)
(* is_failed() and the error recorded by FailWithError.                    *)
(***************************************************************************)
CONSTANT NoError

VARIABLES failed, error

SchedulerInit == failed = FALSE /\ error = NoError

\* FailWithError: mark the run failed; the first error recorded is kept.
FailWithError(e) ==
  /\ failed' = TRUE
  /\ error' = IF failed THEN error ELSE e

=============================================================================
