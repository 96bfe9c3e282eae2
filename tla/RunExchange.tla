---- MODULE RunExchange ----
(***************************************************************************)
(* What the agent-run component promises, with no process in it: a run     *)
(* works or waits on one question until it ends, once and for good; a      *)
(* question is answered or withdrawn once; an answer is accepted in the    *)
(* very step that puts its run back to work; a continuation is born only   *)
(* from a run that has ended, one at a time for each parent.               *)
(***************************************************************************)
CONSTANTS Runs, Asks, NoRun

VARIABLES
    phase,      \* [Runs -> {"absent", "working", "waiting", "ended"}]
    parent,     \* [Runs -> Runs \cup {NoRun}], set when the run is born
    question    \* [Asks -> [state, run]]

xvars == <<phase, parent, question>>

Alive(r) == phase[r] \in {"working", "waiting"}

ChildAlive(p) == \E c \in Runs : parent[c] = p /\ Alive(c)

XTypeOK ==
    /\ phase \in [Runs -> {"absent", "working", "waiting", "ended"}]
    /\ parent \in [Runs -> Runs \cup {NoRun}]
    /\ question \in [Asks -> [state : {"none", "open", "answered", "withdrawn"},
                              run : Runs \cup {NoRun}]]

XInit ==
    /\ phase = [r \in Runs |-> "absent"]
    /\ parent = [r \in Runs |-> NoRun]
    /\ question = [a \in Asks |-> [state |-> "none", run |-> NoRun]]

Begin(r, p) ==
    /\ phase[r] = "absent"
    /\ p # NoRun => phase[p] = "ended" /\ ~ChildAlive(p)
    /\ phase' = [phase EXCEPT ![r] = "working"]
    /\ parent' = [parent EXCEPT ![r] = p]
    /\ UNCHANGED question

Pose(r, a) ==
    /\ phase[r] = "working" /\ question[a].state = "none"
    /\ phase' = [phase EXCEPT ![r] = "waiting"]
    /\ question' = [question EXCEPT ![a] = [state |-> "open", run |-> r]]
    /\ UNCHANGED parent

\* The answered run works on, or ends with the answer in its hands.
Reply(a) ==
    /\ question[a].state = "open" /\ phase[question[a].run] = "waiting"
    /\ \E next \in {"working", "ended"} :
         phase' = [phase EXCEPT ![question[a].run] = next]
    /\ question' = [question EXCEPT ![a].state = "answered"]
    /\ UNCHANGED parent

End(r) ==
    /\ Alive(r)
    /\ phase' = [phase EXCEPT ![r] = "ended"]
    /\ \E W \in SUBSET {a \in Asks : question[a] = [state |-> "open", run |-> r]} :
         question' = [a \in Asks |-> IF a \in W
                                     THEN [question[a] EXCEPT !.state = "withdrawn"]
                                     ELSE question[a]]
    /\ UNCHANGED parent

\* A question left behind by a run that has ended is withdrawn later.
Withdraw(r) ==
    /\ phase[r] = "ended"
    /\ question' = [a \in Asks |-> IF question[a] = [state |-> "open", run |-> r]
                                   THEN [question[a] EXCEPT !.state = "withdrawn"]
                                   ELSE question[a]]
    /\ UNCHANGED <<phase, parent>>

XNext ==
    \/ \E r \in Runs, p \in Runs \cup {NoRun} : Begin(r, p)
    \/ \E r \in Runs, a \in Asks : Pose(r, a)
    \/ \E a \in Asks : Reply(a)
    \/ \E r \in Runs : End(r) \/ Withdraw(r)

XSpec == XInit /\ [][XNext]_xvars

====
