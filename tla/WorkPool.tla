------------------------------ MODULE WorkPool ------------------------------
(***************************************************************************)
(* What crawl() in pkg/lib.go promises about its work: entries are         *)
(* outstanding from the moment they are enqueued until they are processed, *)
(* only an outstanding entry creates more of them, and `drained` (doneCh)  *)
(* is raised exactly by the step that retires the last one.                *)
(***************************************************************************)
EXTENDS Naturals

VARIABLES outstanding, drained

vars == <<outstanding, drained>>

Init == outstanding = 0 /\ drained = FALSE

\* The seed.  It is enqueued once: afterwards the pool is busy, or drained.
Open ==
  /\ outstanding = 0 /\ ~drained
  /\ outstanding' = 1
  /\ UNCHANGED drained

Spawn ==
  /\ outstanding > 0
  /\ outstanding' = outstanding + 1
  /\ UNCHANGED drained

Retire ==
  /\ outstanding > 0
  /\ outstanding' = outstanding - 1
  /\ drained' = (outstanding' = 0)

Next == Open \/ Spawn \/ Retire

Spec == Init /\ [][Next]_vars

TypeOK == outstanding \in Nat /\ drained \in BOOLEAN

\* Nothing is outstanding once the pool says so: crawl() may stop its dispatcher.
DrainedMeansEmpty == drained => outstanding = 0

\* And nothing ever is again: doneCh is closed once, and no enqueue can follow.
DrainedIsFinal == [][drained => UNCHANGED vars]_vars

=============================================================================
