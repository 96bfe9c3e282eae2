----------------------------- MODULE MCAgentRuns -----------------------------
(* A dispatch and its continuations, two questions, two callers who answer:  *)
(* every interleaving of turns, asks, kills, revivals and one restart.       *)
EXTENDS AgentRuns, TLC

Symmetry == Permutations(Runs) \cup Permutations(Asks) \cup Permutations(Answerers)
=============================================================================
