---------------------------- MODULE MCScheduler ----------------------------
(* Scheduler with schedules that fire every one or two minutes.            *)
EXTENDS Scheduler

Periodic == [c \in Crons |-> [t \in Minutes |-> c * (t \div c + 1)]]
=============================================================================
