---------------------------- MODULE SyncLifecycle ----------------------------
(***************************************************************************)
(* What a sync job promises whoever looks at its row: the state diagram of *)
(* the sync documentation, with the work still open beside the status.  A  *)
(* job completes only when nothing is open, and no verdict is taken back.  *)
(***************************************************************************)
CONSTANTS
    Jobs,       \* the jobs rows
    Work        \* what can be open on a job

VARIABLES
    status,     \* jobs.status
    open        \* the work of each job that is not settled

vars == <<status, open>>

Init ==
    /\ status = [j \in Jobs |-> "absent"]
    /\ open = [j \in Jobs |-> {}]

Move(j, from, to) ==
    /\ status[j] \in from
    /\ status' = [status EXCEPT ![j] = to]
    /\ UNCHANGED open

Trigger(j) == Move(j, {"absent"}, "pending")
Start(j)   == Move(j, {"pending"}, "processing")
Fail(j)    == Move(j, {"pending", "processing"}, "failed")

Complete(j) == open[j] = {} /\ Move(j, {"processing"}, "completed")

\* Work turns up and is settled, but not on a completed job.
Progress(j) ==
    /\ status[j] \in {"processing", "failed"}
    /\ \E W \in SUBSET Work : open' = [open EXCEPT ![j] = W]
    /\ UNCHANGED status

Next == \E j \in Jobs : Trigger(j) \/ Start(j) \/ Fail(j) \/ Complete(j) \/ Progress(j)

Spec == Init /\ [][Next]_vars
=============================================================================
