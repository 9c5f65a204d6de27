------------------------- MODULE AtomicPublication -------------------------
(***************************************************************************)
(* What a no-overwrite, receipt-last publisher promises about one output   *)
(* location: of all the runs that aim at it, at most one ever commits, its *)
(* commit is never undone or replaced, and a run reports success only if   *)
(* the commit is its own.  A run may stop without success at any moment,   *)
(* even after it has committed.                                            *)
(***************************************************************************)
CONSTANTS Runs,     \* the publisher calls aimed at the location
          NoRun     \* no call has committed yet

VARIABLES winner,   \* the run whose receipt is complete, or NoRun
          outcome   \* outcome[r]: what run r has told its caller

vars == <<winner, outcome>>

Init ==
  /\ winner = NoRun
  /\ outcome = [r \in Runs |-> "running"]

(* The receipt of r becomes complete: the only step readers can observe.   *)
Commit(r) ==
  /\ outcome[r] = "running"
  /\ winner = NoRun
  /\ winner' = r
  /\ UNCHANGED outcome

Succeed(r) ==
  /\ outcome[r] = "running"
  /\ winner = r
  /\ outcome' = [outcome EXCEPT ![r] = "published"]
  /\ UNCHANGED winner

Refuse(r) ==
  /\ outcome[r] = "running"
  /\ outcome' = [outcome EXCEPT ![r] = "refused"]
  /\ UNCHANGED winner

Next == \E r \in Runs : Commit(r) \/ Succeed(r) \/ Refuse(r)

Spec == Init /\ [][Next]_vars
=============================================================================
