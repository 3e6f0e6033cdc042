------------------------------ MODULE CronDue ------------------------------
(***************************************************************************)
(* What becomes of the jobs whose time has come.  PassedSlotKept of        *)
(* CronService says which steps may give a slot up; here it is remembered  *)
(* which one did, and that the others end in a run.                        *)
(***************************************************************************)
EXTENDS CronService

VARIABLE moved  \* history: jobs the last step found overdue and gave a later
                \* slot: add or the end of start() for all, an edit for its own

Overdue(j) == j \in DOMAIN disk /\ disk[j].on /\ disk[j].next # None /\ disk[j].next <= now

DueInit == Init /\ moved = {}

DueNext == Next /\ moved' = {j \in Job : Overdue(j) /\ ~Overdue(j)' /\ MayMove(j)}

FairDueSpec == DueInit /\ [][DueNext]_<<vars, moved>> /\ Fairness

\* A job whose time has come is run: a timer is armed whenever a job has a
\* next run (timer.ts:563), and no mark outlives its run.  Otherwise it was
\* removed or disabled; edited; or passed over by the full pass of add or of
\* the end of start(), the deferral of the catch-up included - or a reload
\* replaced a service at work.
DueJobsRun == \A j \in Job :
    (Overdue(j) /\ ~shared) ~>
        \/ \E r \in runs : r.job = j
        \/ j \in moved
        \/ j \in DOMAIN disk => ~disk[j].on
        \/ shared

=============================================================================
