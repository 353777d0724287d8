---------------------------- MODULE ReactiveLedger ----------------------------
(***************************************************************************)
(* What the reactive core (src/src/events/reactive.ts) promises one        *)
(* behaviour: the rows of the append-only ledger it wants are reacted to   *)
(* in order and at least once; the frontier never passes a wanted row that *)
(* was neither reacted to nor given up as a dead letter.                   *)
(*                                                                         *)
(* Rows are numbered by their id, 1 .. size.                               *)
(***************************************************************************)
EXTENDS Naturals

VARIABLES size, wanted, reacted, dead, frontier

vars == <<size, wanted, reacted, dead, frontier>>

Init == /\ size = 0
        /\ wanted = {}
        /\ reacted = {}
        /\ dead = {}
        /\ frontier = 0

\* Somebody writes a row; the behaviour wants it or not.
Append == /\ size' = size + 1
          /\ wanted' \in {wanted, wanted \cup {size'}}
          /\ UNCHANGED <<reacted, dead, frontier>>

\* n is the first wanted row past the frontier.
First(n) == /\ n \in wanted
            /\ n > frontier
            /\ \A m \in wanted : m > frontier => n <= m

\* React again and again to the same row: a crash replays it.
React(n) == /\ First(n)
            /\ reacted' = reacted \cup {n}
            /\ UNCHANGED <<size, wanted, dead, frontier>>

GiveUp(n) == /\ First(n)
             /\ dead' = dead \cup {n}
             /\ UNCHANGED <<size, wanted, reacted, frontier>>

Advance(n) == /\ n > frontier
              /\ n <= size
              /\ \A m \in wanted : m > frontier /\ m <= n => m \in reacted \cup dead
              /\ frontier' = n
              /\ UNCHANGED <<size, wanted, reacted, dead>>

Next == \/ Append
        \/ \E n \in 1..size : React(n) \/ GiveUp(n) \/ Advance(n)

Spec == Init /\ [][Next]_vars
===============================================================================
