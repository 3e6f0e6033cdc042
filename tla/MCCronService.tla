---------------------------- MODULE MCCronService ----------------------------
(* A job on the cron grid, a one-shot job and an interval job.             *)
EXTENDS CronDue

CONSTANTS grid, once, beat

MCKind == [j \in {grid, once, beat} |->
              IF j = grid THEN "cron" ELSE IF j = once THEN "at" ELSE "every"]

\* Two services at work on one store undo each other's writes, and nothing is
\* claimed of them: such states are reached and not explored further.
NotShared == ~shared

=============================================================================
