----------------------------- MODULE MCConnections -----------------------------
(* Connections on a small instance. *)
EXTENDS Connections

(* Bound: the vault stores into a new row, or again into one somebody has in  *)
(* hand. A row nobody has in hand does what a new one does, and there is one  *)
(* left for every time the vault stores.                                      *)
AgainOnlyInHand ==
    stores' # stores =>
        /\ \A c \in Creds : vault[c] \notin {"unused", vault'[c]} => c \in InHand
        /\ vault' = vault => again' \cap InHand # {}

(* Bound: connects, committed replacements and disconnects of the row. *)
MaxRev == 4

FewRevisions == row.rev <= MaxRev
=============================================================================
