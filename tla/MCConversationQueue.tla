------------------------- MODULE MCConversationQueue -------------------------
(* Two sessions reach every switch from a session with a queue to cancel or  *)
(* a turn that forbids it; three attempts, a mint overtaken by the next and  *)
(* the resume of a bound session; three commands, a message that waits       *)
(* behind a running turn and an interrupt that locks it.  Budget keeps the   *)
(* extremes apart: any two sessions with two commands, three attempts with   *)
(* two sessions and one command, and so on.                                  *)
EXTENDS ConversationQueue, TLC

Symmetry == {p @@ q @@ r : p \in Permutations(Command), q \in Permutations(Session),
                           r \in Permutations(Client)}

MaxBudget == 6
Commands == Cardinality({c \in Command : ~Fresh(c)})
Sessions == Cardinality({s \in Session : session[s].attempt > 0})
Budget == \A s \in Session : Commands + Sessions + session[s].attempt <= MaxBudget
=============================================================================
