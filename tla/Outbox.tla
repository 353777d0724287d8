-------------------------------- MODULE Outbox --------------------------------
(***************************************************************************)
(* What the outbox (src/src/store/outbox.ts) and its post seam             *)
(* (src/src/server/services/outbox-post-seam.ts) promise of a row, however *)
(* many servers there are: a row that is written waits until it is taken   *)
(* or its time is up, what was taken is told, put back or failed, what ran *)
(* out of time is nudged for, and whatever is over stays over. Who takes a *)
(* row, and in which batch, does not show.                                 *)
(***************************************************************************)
EXTENDS Naturals

CONSTANTS
  Rows,             \* outbox rows
  MaxPostAttempts   \* attempts a row has

VARIABLES
  life,    \* none (no row yet) | pending | taken | refused (its post threw)
           \* | surfaced (its time was up, the nudge is to come) | over
  tries,   \* attempts that a row has used up
  told,    \* how often people were told of a row
  unsure   \* rows whose post threw although Slack had taken it

vars == <<life, tries, told, unsure>>

Init == /\ life = [r \in Rows |-> "none"]
        /\ tries = [r \in Rows |-> 0]
        /\ told = [r \in Rows |-> 0]
        /\ unsure = {}

Moves(r, from, to) == life[r] = from /\ life' = [life EXCEPT ![r] = to]

Tell(r) == told' = [told EXCEPT ![r] = @ + 1]

Write(r) == /\ Moves(r, "none", "pending")
            /\ UNCHANGED <<tries, told, unsure>>

\* A consumer takes any number of the rows that wait.
Take(batch) == /\ \A r \in batch : life[r] = "pending"
               /\ life' = [r \in Rows |-> IF r \in batch THEN "taken" ELSE life[r]]
               /\ UNCHANGED <<tries, told, unsure>>

\* People are told, or there is nothing to tell them.
Settle(r) == /\ Moves(r, "taken", "over")
             /\ Tell(r) \/ told' = told
             /\ UNCHANGED <<tries, unsure>>

\* The post throws, or there can be none; the answer of Slack may be what was lost.
Refuse(r) == /\ Moves(r, "taken", "refused")
             /\ \/ UNCHANGED <<told, unsure>>
                \/ Tell(r) /\ unsure' = unsure \cup {r}
             /\ UNCHANGED tries

\* Another attempt, while the row has one.
PutBack(r) == /\ Moves(r, "refused", "pending")
              /\ tries[r] + 1 < MaxPostAttempts
              /\ tries' = [tries EXCEPT ![r] = @ + 1]
              /\ UNCHANGED <<told, unsure>>

Fail(r) == /\ Moves(r, "refused", "over")
           /\ tries' = [tries EXCEPT ![r] = @ + 1]
           /\ UNCHANGED <<told, unsure>>

Lapse(r) == /\ Moves(r, "pending", "surfaced")
            /\ UNCHANGED <<tries, told, unsure>>

Nudge(r) == /\ Moves(r, "surfaced", "over")
            /\ Tell(r) \/ told' = told
            /\ UNCHANGED <<tries, unsure>>

\* A pass is cut short with what it had at hand, at the latest while it tells of
\* a row.
Lose(held) == /\ \A r \in held : life[r] \in {"taken", "refused", "surfaced"}
              /\ life' = [r \in Rows |-> IF r \in held THEN "over" ELSE life[r]]
              /\ \/ told' = told
                 \/ \E r \in held : life[r] = "taken" /\ Tell(r)
              /\ UNCHANGED <<tries, unsure>>

RowNext(r) == \/ Write(r) \/ Settle(r) \/ Refuse(r) \/ PutBack(r) \/ Fail(r)
              \/ Lapse(r) \/ Nudge(r)

Next == \/ \E r \in Rows : RowNext(r)
        \/ \E some \in SUBSET Rows : Take(some) \/ Lose(some)

Spec == Init /\ [][Next]_vars
===============================================================================
