----------------------------- MODULE MCScheduler -----------------------------
(* Scheduler for TLC. *)
EXTENDS Scheduler

CONSTANTS w1, w2

\* The creator alone, with a worker, and two workers without it.
SomePools == {<<TRUE, {}>>, <<TRUE, {w1}>>, <<FALSE, {w1, w2}>>}

=============================================================================
