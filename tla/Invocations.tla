------------------------------ MODULE Invocations ------------------------------
(***************************************************************************)
(* What the scheduler's queue of invocations (scheduler_invocations in     *)
(* src/src/store/db.ts) promises, whatever asks for them, edits the jobs   *)
(* or dies: an invocation is asked for once, taken by the one runner, one  *)
(* at a time, started at most once, audited and then completed; one that   *)
(* is dropped on the way is left where it is. Jobs, times and passes do    *)
(* not show.                                                               *)
(***************************************************************************)
EXTENDS Naturals

CONSTANT Invocations

VARIABLES
  status,  \* of an invocation: none | pending | running | completed
  held,    \* the invocation that is being worked on, if one is
  runs,    \* how often its action was started
  fired    \* the audited invocations

vars == <<status, held, runs, fired>>

Init == /\ status = [i \in Invocations |-> "none"]
        /\ held = {}
        /\ runs = [i \in Invocations |-> 0]
        /\ fired = {}

Moves(i, from, to) == status[i] = from /\ status' = [status EXCEPT ![i] = to]

\* An occurrence comes due, or somebody wants a run now.
Ask(i) == /\ Moves(i, "none", "pending")
          /\ UNCHANGED <<held, runs, fired>>

Take(i) == /\ held = {}
           /\ Moves(i, "pending", "running")
           /\ held' = {i}
           /\ UNCHANGED <<runs, fired>>

Start(i) == /\ i \in held \ fired
            /\ runs[i] = 0
            /\ runs' = [runs EXCEPT ![i] = 1]
            /\ UNCHANGED <<status, held, fired>>

Audit(i) == /\ i \in held \ fired
            /\ fired' = fired \cup {i}
            /\ UNCHANGED <<status, held, runs>>

Complete(i) == /\ i \in held \cap fired
               /\ Moves(i, "running", "completed")
               /\ held' = {}
               /\ UNCHANGED <<runs, fired>>

\* A fault or a death: nothing takes it up again.
Drop == /\ held' = {}
        /\ UNCHANGED <<status, runs, fired>>

Next == \/ \E i \in Invocations : \/ Ask(i) \/ Take(i) \/ Start(i)
                                  \/ Audit(i) \/ Complete(i)
        \/ Drop

Spec == Init /\ [][Next]_vars
===============================================================================
