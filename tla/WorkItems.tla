----------------------------- MODULE WorkItems ------------------------------
(***************************************************************************)
(* What the work-item queue promises about its rows, whoever writes them:  *)
(* the server's tools, the executor, the sandbox child or the boot-time    *)
(* recovery.  A row is created once, moves only along the legal map, never *)
(* returns to `open` and never leaves a settled state; the one move that   *)
(* bypasses the map is markStaleWorkItems (claimed -> blocked).            *)
(* WorkQueue is shown to implement this specification.                     *)
(***************************************************************************)
EXTENDS WorkItemRules

VARIABLE state

Init == state = [i \in Items |-> "none"]

Create(i) ==
    /\ state[i] = "none"
    /\ state' = [state EXCEPT ![i] = "open"]

(* A row never returns to `open`: the table allows claimed -> open, and no *)
(* caller makes that move.                                                 *)
Move(i) ==
    \E to \in States \ {"open"} :
        /\ LegalMove(i, state[i], to)
        /\ state' = [state EXCEPT ![i] = to]

(* markStaleWorkItems moves every stale row of one state at once. *)
RecoverStale(S) ==
    /\ \A i \in S : state[i] \in {"claimed", "working"}
    /\ state' = [i \in Items |-> IF i \in S THEN "blocked" ELSE state[i]]

Next ==
    \/ \E i \in Items : Create(i) \/ Move(i)
    \/ \E S \in SUBSET Items : RecoverStale(S)

Spec == Init /\ [][Next]_state
=============================================================================
