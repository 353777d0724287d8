---------------------------- MODULE MCWorkQueue -----------------------------
(* WorkQueue on small instances. *)
EXTENDS WorkQueue, FiniteSets, TLC

ExecutorSymmetry == Permutations(Executors)

(* Bound: one item or plain job of any kind in each behaviour. *)
Busy ==
    {j \in Jobs : status[j] # "none"} \cup
    {c \in ChatItems : chat[c] # "none" \/ state[c] # "none"}

OneAtATime == Cardinality(Busy) <= 1
=============================================================================
