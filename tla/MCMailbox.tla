------------------------------ MODULE MCMailbox ------------------------------
(* Two messages and their notices for two workers: the deliveries of one     *)
(* message compete with the notice of another, and a worker may crash, come  *)
(* back and meet the delivery it had held.                                   *)
EXTENDS Mailbox, TLC

Symmetry == Permutations(Message) \cup Permutations(Worker)
=============================================================================
