------------------------- MODULE MCSessionService --------------------------
(* One session and three commands reach a running turn, its interrupt and    *)
(* the successor turn a late interrupt would hit; closing and resuming the   *)
(* session reaches a mint while the former runtime is being disposed.  Three *)
(* commands are also a message that an interrupt locks behind a turn, and an *)
(* edit that a claim overtakes; one stored rejection lets a command be       *)
(* refused and sent again.                                                   *)
EXTENDS SessionService, TLC

Symmetry == {p @@ q @@ r : p \in Permutations(Command), q \in Permutations(Session),
                           r \in Permutations(Client)}
=============================================================================
