--------------------------- MODULE AgentRunsProofs ---------------------------
(***************************************************************************)
(* Proofs about AgentRuns.  The invariant that carries them relates, for   *)
(* each run, its row to the one thing in the process that may act for it:  *)
(* its start, its revival, its installed runtime, or a call that answers   *)
(* its question.                                                           *)
(***************************************************************************)
EXTENDS AgentRuns, FiniteSetTheorems, TLAPS

Pending == {"clean-pending", "resume-pending"}

\* What the row of a run says whatever the process does.
RowOK(r) ==
  /\ row[r].status = "none" => row[r] = NoRow
  /\ row[r].status # "none" => row[r].attempt > 0
  /\ row[r].status = "running" => row[r].state \in Confirmed
  /\ row[r].status = "queued" => (row[r].continues = NoRun <=> row[r].state = "clean-pending")

\* A run without a row has nothing in the process.
AbsentOK(r) ==
  row[r].status = "none" =>
    /\ task[r] = Idle /\ revival[r] = Idle /\ live[r] = NoLive
    /\ r \notin retiring /\ post[r] = "none"

TaskOK(r) ==
  /\ task[r].at = "idle" => task[r] = Idle
  /\ task[r] # Idle => live[r] = NoLive
  /\ task[r].at = "starting" => row[r].status \in {"queued"} \cup Terminal
  /\ task[r].at = "minting" =>
       /\ row[r].status \in {"spawning"} \cup Terminal
       /\ task[r].attempt > 0
       /\ row[r].status = "spawning" => /\ row[r].attempt = task[r].attempt
                                        /\ row[r].state \in Pending

RevivalOK(r) ==
  /\ revival[r].at = "idle" => revival[r] = Idle
  /\ revival[r] # Idle => live[r] = NoLive /\ row[r].status \in {"paused"} \cup Terminal
  /\ revival[r].at = "minting" =>
       /\ revival[r].attempt > 0
       /\ row[r].status = "paused" /\ row[r].attempt = revival[r].attempt
            => row[r].state = "resume-pending"

LiveOK(r) ==
  live[r] # NoLive =>
    /\ Up /\ row[r].status \in {"spawning", "running", "paused"}
    /\ live[r].attempt = row[r].attempt
    /\ live[r].confirmed <=> row[r].state \in Confirmed
    /\ ~live[r].confirmed => row[r].state \in Pending

DrivenOK(r) ==
  Up /\ Active(row[r]) => task[r] # Idle \/ live[r] # NoLive \/ row[r].status = "paused"

PostOK(r) == post[r] # "none" => row[r].status \in Terminal

RunOK(r) ==
  /\ RowOK(r) /\ AbsentOK(r) /\ TaskOK(r) /\ RevivalOK(r)
  /\ LiveOK(r) /\ DrivenOK(r) /\ PostOK(r)

\* An open question belongs to a paused run, or was left by an ended one.
AskOK(a) ==
  /\ ask[a].status = "none" => ask[a].run = NoRun
  /\ ask[a].status # "none" => ask[a].run \in Runs /\ row[ask[a].run].status # "none"
  /\ ask[a].status = "open" => row[ask[a].run].status \in {"paused"} \cup Terminal

PausedOK(r) == row[r].status = "paused" => \E a \in Asks : OpenAsks(r) = {a}

\* A call that holds a runtime holds the one that is still installed.
AnswerOK(x) ==
  /\ ask[x.ask].status # "none"
  /\ x.at = "leasing" =>
       /\ x.attempt > 0
       /\ Active(row[ask[x.ask].run]) =>
            /\ row[ask[x.ask].run].attempt = x.attempt
            /\ revival[ask[x.ask].run] = Idle
            /\ Up => live[ask[x.ask].run].attempt = x.attempt

ContinueOK(c) == row[c.parent].status \in Terminal

\* Before the attach nothing of the process is at work, and once the sweep is
\* over an active run is parked or has delivered.
BootOK ==
  /\ server.phase \in {"sweep", "sealed"} =>
       /\ \A r \in Runs : live[r] = NoLive /\ task[r] = Idle /\ revival[r] = Idle
       /\ answering = {} /\ continuing = {}
  /\ server.phase = "sealed" => \A r \in Runs : ~Swept(r)

\* Only ended runs are taken up again.
ResumeOK == \A r \in server.resume : row[r].status \in Terminal

\* Until the first restart a paused run keeps its runtime, and one run at most
\* has one.
FirstProcessOK ==
  server.crashes = 0 =>
    /\ server.phase \in {"up", "closing"}
    /\ Up => \A r \in Runs : row[r].status = "paused" => live[r] # NoLive
    /\ OneRuntimePerWorktree

RunsInv ==
  /\ TypeOK
  /\ \A r \in Runs : RunOK(r) /\ PausedOK(r)
  /\ \A a \in Asks : AskOK(a)
  /\ \A x \in answering : AnswerOK(x)
  /\ \A c \in continuing : ContinueOK(c)
  /\ BootOK /\ ResumeOK
  /\ FirstProcessOK

-----------------------------------------------------------------------------
(* Types.                                                                  *)

LEMMA RowAttempt == \A rw \in Row : rw.attempt \in Nat /\ rw.attempt + 1 \in Nat
  BY DEF Row

\* The rows that the commands write.
LEMMA RowShapes ==
  /\ NoRow \in Row
  /\ \A p \in Runs \cup {NoRun}, n \in Nat : QueuedRow(p, n) \in Row
  /\ \A rw \in Row :
       /\ rw.attempt \in Nat /\ rw.count \in Nat /\ rw.state \in States
       /\ PreparedCreate(rw) \in Row /\ PreparedResume(rw) \in Row
       /\ ConfirmedRow(rw) \in Row /\ AnsweredRow(rw) \in Row
       /\ \A n \in Nat : ResumeFailedRow(rw, n) \in Row
       /\ \A s \in Terminal, c \in {"none", "turn-budget-exhausted", "other"} :
            EndedRow(rw, s, c) \in Row
       /\ \A s \in NonTerminal : [rw EXCEPT !.status = s] \in Row
       /\ [rw EXCEPT !.delivered = TRUE] \in Row
<1>1. NoRow \in Row
  BY DEF Row, NoRow, States, NonTerminal, Terminal
<1>2. ASSUME NEW p \in Runs \cup {NoRun}, NEW n \in Nat PROVE QueuedRow(p, n) \in Row
  BY <1>1 DEF Row, QueuedRow, States, NonTerminal, Terminal
<1>3. ASSUME NEW rw \in Row
      PROVE  /\ rw.attempt \in Nat /\ rw.count \in Nat /\ rw.state \in States
             /\ \A s \in NonTerminal : [rw EXCEPT !.status = s] \in Row
             /\ [rw EXCEPT !.delivered = TRUE] \in Row
             /\ \A n \in Nat : [rw EXCEPT !.attempt = n] \in Row
             /\ \A s \in States : [rw EXCEPT !.state = s] \in Row
  BY <1>3 DEF Row
<1>4. ASSUME NEW rw \in Row PROVE PreparedCreate(rw) \in Row /\ PreparedResume(rw) \in Row
  <2> DEFINE next == [rw EXCEPT !.attempt = rw.attempt + 1]
  <2>1. rw.attempt + 1 \in Nat /\ next \in Row
    BY <1>3, <1>4, RowAttempt
  <2>2. [next EXCEPT !.state = "resume-pending"] \in Row
    BY <1>3, <2>1 DEF States
  <2>3. PreparedResume(rw) = [next EXCEPT !.state = "resume-pending"]
    BY <1>4 DEF PreparedResume, Row
  <2> QED BY <2>1, <2>2, <2>3 DEF PreparedCreate
<1>6. ASSUME NEW rw \in Row PROVE ConfirmedRow(rw) \in Row /\ AnsweredRow(rw) \in Row
  BY <1>6 DEF Row, ConfirmedRow, AnsweredRow, States, NonTerminal
<1>7. ASSUME NEW rw \in Row, NEW n \in Nat PROVE ResumeFailedRow(rw, n) \in Row
  BY <1>7 DEF Row, ResumeFailedRow, States
<1>8. ASSUME NEW rw \in Row, NEW s \in Terminal,
             NEW c \in {"none", "turn-budget-exhausted", "other"}
      PROVE  EndedRow(rw, s, c) \in Row
  BY <1>8 DEF Row, EndedRow, Terminal
<1> QED BY <1>1, <1>2, <1>3, <1>4, <1>6, <1>7, <1>8

\* The records of the process and of the other tables.
LEMMA RuntimeShapes ==
  /\ NoLive \in Runtime
  /\ \A l \in Runtime :
       /\ l.attempt \in Nat
       /\ [l EXCEPT !.confirmed = TRUE] \in Runtime
       /\ \A t \in {"none", "open", "door"} : [l EXCEPT !.turn = t] \in Runtime
  /\ \A n \in Nat, b \in BOOLEAN, t \in {"none", "open", "door"} :
       [attempt |-> n, confirmed |-> b, turn |-> t] \in Runtime
  BY DEF NoLive, Runtime

LEMMA AwaitShapes ==
  /\ Idle \in Awaits
  /\ \A w \in Awaits : w.attempt \in Nat /\ [w EXCEPT !.at = "starting"] \in Awaits
  /\ \A n \in Nat : [at |-> "minting", attempt |-> n] \in Awaits
  BY DEF Idle, Awaits

LEMMA CallShapes ==
  /\ \A a \in Asks, by \in Answerers, at \in {"reviving", "leasing"}, n \in Nat :
       AnswerCall(a, by, at, n) \in AnswerCalls
  /\ \A x \in AnswerCalls : x.ask \in Asks /\ x.by \in Answerers /\ x.attempt \in Nat
  /\ \A p \in Runs, b \in BOOLEAN : Requested(p, b) \in Requests
  /\ \A c \in Requests, n \in Nat :
       c.parent \in Runs /\ [c EXCEPT !.at = "lease", !.version = n] \in Requests
  BY DEF AnswerCall, AnswerCalls, Requested, Requests

LEMMA AskShapes ==
  /\ \A q \in AskRow : /\ q.run \in Runs \cup {NoRun}
                       /\ \A s \in {"open", "answered", "cancelled"} :
                            [q EXCEPT !.status = s] \in AskRow
  /\ \A r \in Runs : [status |-> "open", run |-> r] \in AskRow
  BY DEF AskRow

LEMMA ContractShapes ==
  /\ \A n \in Nat, r \in Runs : [version |-> n, producer |-> r] \in Contract
  /\ \A k \in Contract : /\ k.version \in Nat
                         /\ \A n \in Nat : [k EXCEPT !.version = n] \in Contract
  BY DEF Contract

LEMMA ServerShapes ==
  /\ \A p \in Process :
       /\ p.crashes \in Nat
       /\ \A s \in {"sealed", "closing"} : [p EXCEPT !.phase = s] \in Process
       /\ \A r \in Runs : /\ [p EXCEPT !.revive = @ \ {r}] \in Process
                          /\ [p EXCEPT !.resume = @ \ {r}] \in Process
       /\ \A v, z \in SUBSET Runs :
            [p EXCEPT !.phase = "up", !.revive = v, !.resume = z] \in Process
  /\ \A n \in Nat :
       [phase |-> "sweep", revive |-> {}, resume |-> {}, crashes |-> n] \in Process
  BY DEF Process

\* What a settlement does to the run, to its runtime and to what follows it.
LEMMA Settles ==
  ASSUME TypeOK, NEW r \in Runs, NEW rw \in Row, NEW s \in Terminal,
         NEW c \in {"none", "turn-budget-exhausted", "other"}, NEW f \in Nat,
         SettleTerminal(r, rw, s, c, f)
  PROVE  /\ \/ /\ Active(rw) /\ f \in {0, rw.attempt}
               /\ row' = [row EXCEPT ![r] = EndedRow(rw, s, c)]
               /\ \/ /\ live[r] = NoLive \/ f \notin {0, live[r].attempt}
                     /\ UNCHANGED <<live, retiring>>
                  \/ /\ live[r] # NoLive
                     /\ live' = [live EXCEPT ![r] = NoLive] /\ retiring' = retiring \cup {r}
               /\ \E n \in {"continue", "verify"} :
                    post' = [post EXCEPT ![r] = IF @ # "none" THEN @ ELSE n]
            \/ /\ ~Active(rw) \/ f \notin {0, rw.attempt}
               /\ row' = [row EXCEPT ![r] = rw]
               /\ UNCHANGED <<live, retiring, post>>
  BY DEF SettleTerminal

LEMMA SettleTypes ==
  ASSUME TypeOK, NEW r \in Runs, NEW rw \in Row, NEW s \in Terminal,
         NEW c \in {"none", "turn-budget-exhausted", "other"}, NEW f \in Nat,
         SettleTerminal(r, rw, s, c, f)
  PROVE  /\ row' \in [Runs -> Row] /\ live' \in [Runs -> Runtime]
         /\ retiring' \subseteq Runs /\ post' \in [Runs -> Followup]
<1>1. EndedRow(rw, s, c) \in Row /\ NoLive \in Runtime
  BY RowShapes, RuntimeShapes
<1>2. row' \in [Runs -> Row]
  BY <1>1, Settles DEF TypeOK
<1>3. live' \in [Runs -> Runtime] /\ retiring' \subseteq Runs
  BY <1>1, Settles DEF TypeOK
<1>4. post' \in [Runs -> Followup]
  BY Settles DEF TypeOK, Followup
<1> QED BY <1>2, <1>3, <1>4

LEMMA TypesInitial == Init => TypeOK
<1> SUFFICES ASSUME Init PROVE TypeOK
  OBVIOUS
<1>1. row \in [Runs -> Row] /\ live \in [Runs -> Runtime]
  BY RowShapes, RuntimeShapes DEF Init
<1>2. task \in [Runs -> Awaits] /\ revival \in [Runs -> Awaits]
  BY AwaitShapes DEF Init
<1>3. /\ ask \in [Asks -> AskRow] /\ contract \in Contract /\ server \in Process
      /\ post \in [Runs -> Followup]
  BY DEF Init, AskRow, Contract, Process, Followup
<1> QED BY <1>1, <1>2, <1>3 DEF Init, TypeOK

LEMMA DispatchTypes == ASSUME TypeOK, NEW r \in Runs, Dispatch(r) PROVE TypeOK'
<1>1. /\ ask' \in [Asks -> AskRow]
      /\ live' \in [Runs -> Runtime]
      /\ revival' \in [Runs -> Awaits]
      /\ answering' \subseteq AnswerCalls
      /\ continuing' \subseteq Requests
      /\ retiring' \subseteq Runs
      /\ post' \in [Runs -> Followup]
      /\ server' \in Process
  BY DEF Dispatch, TypeOK
<1>2. row' \in [Runs -> Row]
  BY RowShapes DEF Dispatch, TypeOK, NonTerminal, Terminal
<1>3. contract' \in Contract
  BY ContractShapes DEF Dispatch, TypeOK
<1>4. task' \in [Runs -> Awaits]
  BY AwaitShapes DEF Dispatch, TypeOK
<1> QED BY <1>1, <1>2, <1>3, <1>4 DEF TypeOK

LEMMA DeliverTypes == ASSUME TypeOK, NEW r \in Runs, Deliver(r) PROVE TypeOK'
<1>1. /\ ask' \in [Asks -> AskRow]
      /\ live' \in [Runs -> Runtime]
      /\ task' \in [Runs -> Awaits]
      /\ revival' \in [Runs -> Awaits]
      /\ answering' \subseteq AnswerCalls
      /\ continuing' \subseteq Requests
      /\ retiring' \subseteq Runs
      /\ post' \in [Runs -> Followup]
      /\ server' \in Process
  BY DEF Deliver, TypeOK
<1>2. row' \in [Runs -> Row]
  BY RowShapes DEF Deliver, TypeOK, NonTerminal, Terminal
<1>3. contract' \in Contract
  BY ContractShapes DEF Deliver, TypeOK
<1> QED BY <1>1, <1>2, <1>3 DEF TypeOK

LEMMA KillRunTypes == ASSUME TypeOK, NEW r \in Runs, KillRun(r) PROVE TypeOK'
<1>1. /\ contract' \in Contract
      /\ task' \in [Runs -> Awaits]
      /\ revival' \in [Runs -> Awaits]
      /\ answering' \subseteq AnswerCalls
      /\ continuing' \subseteq Requests
      /\ post' \in [Runs -> Followup]
      /\ server' \in Process
  BY DEF KillRun, TypeOK, OpenAsks
<1>2. ask' \in [Asks -> AskRow]
  BY AskShapes DEF KillRun, TypeOK, OpenAsks
<1>3. row' \in [Runs -> Row]
  BY RowShapes DEF KillRun, TypeOK, OpenAsks, NonTerminal, Terminal
<1>4. live' \in [Runs -> Runtime]
  BY RuntimeShapes DEF KillRun, TypeOK, OpenAsks
<1>5. retiring' \subseteq Runs
  BY DEF KillRun, TypeOK, OpenAsks
<1> QED BY <1>1, <1>2, <1>3, <1>4, <1>5 DEF TypeOK

LEMMA DispatchContinueTypes == ASSUME TypeOK, NEW r \in Runs, DispatchContinue(r) PROVE TypeOK'
<1>1. /\ row' \in [Runs -> Row]
      /\ ask' \in [Asks -> AskRow]
      /\ contract' \in Contract
      /\ live' \in [Runs -> Runtime]
      /\ task' \in [Runs -> Awaits]
      /\ revival' \in [Runs -> Awaits]
      /\ answering' \subseteq AnswerCalls
      /\ retiring' \subseteq Runs
      /\ post' \in [Runs -> Followup]
      /\ server' \in Process
  BY DEF DispatchContinue, TypeOK
<1>2. continuing' \subseteq Requests
  BY CallShapes DEF DispatchContinue, TypeOK
<1> QED BY <1>1, <1>2 DEF TypeOK

LEMMA CreatePendingAskTypes == ASSUME TypeOK, NEW r \in Runs, NEW a \in Asks, CreatePendingAsk(r, a) PROVE TypeOK'
<1>1. /\ contract' \in Contract
      /\ live' \in [Runs -> Runtime]
      /\ task' \in [Runs -> Awaits]
      /\ revival' \in [Runs -> Awaits]
      /\ answering' \subseteq AnswerCalls
      /\ continuing' \subseteq Requests
      /\ retiring' \subseteq Runs
      /\ post' \in [Runs -> Followup]
      /\ server' \in Process
  BY DEF CreatePendingAsk, TypeOK
<1>2. ask' \in [Asks -> AskRow]
  BY AskShapes DEF CreatePendingAsk, TypeOK
<1>3. row' \in [Runs -> Row]
  BY RowShapes DEF CreatePendingAsk, TypeOK, NonTerminal, Terminal
<1> QED BY <1>1, <1>2, <1>3 DEF TypeOK

LEMMA AnswerPendingAskTypes == ASSUME RunsInv, NEW a \in Asks, NEW by \in Answerers, AnswerPendingAsk(a, by) PROVE TypeOK'
<1>1. /\ row' \in [Runs -> Row]
      /\ ask' \in [Asks -> AskRow]
      /\ contract' \in Contract
      /\ live' \in [Runs -> Runtime]
      /\ task' \in [Runs -> Awaits]
      /\ continuing' \subseteq Requests
      /\ retiring' \subseteq Runs
      /\ post' \in [Runs -> Followup]
      /\ server' \in Process
  BY DEF AnswerPendingAsk, RunsInv, TypeOK, Revive
<1>2. answering' \subseteq AnswerCalls
  <2>1. ask[a].run \in Runs /\ live[ask[a].run].attempt \in Nat
    BY RuntimeShapes DEF AnswerPendingAsk, RunsInv, TypeOK, AskOK
  <2> QED BY <2>1, CallShapes DEF AnswerPendingAsk, RunsInv, TypeOK
<1>3. revival' \in [Runs -> Awaits]
  BY AskShapes, AwaitShapes, RowShapes DEF AnswerPendingAsk, RunsInv, TypeOK, Revive
<1> QED BY <1>1, <1>2, <1>3 DEF TypeOK

LEMMA StartRefusedTypes == ASSUME TypeOK, NEW r \in Runs, StartRefused(r) PROVE TypeOK'
<1>1. /\ ask' \in [Asks -> AskRow]
      /\ contract' \in Contract
      /\ revival' \in [Runs -> Awaits]
      /\ answering' \subseteq AnswerCalls
      /\ continuing' \subseteq Requests
      /\ server' \in Process
  BY DEF StartRefused, TypeOK
<1>2. /\ row' \in [Runs -> Row]
      /\ live' \in [Runs -> Runtime]
      /\ retiring' \subseteq Runs
      /\ post' \in [Runs -> Followup]
  BY RowShapes, AwaitShapes, RuntimeShapes, CallShapes, SettleTypes DEF StartRefused, TypeOK, Terminal
<1>3. task' \in [Runs -> Awaits]
  BY AwaitShapes DEF StartRefused, TypeOK
<1> QED BY <1>1, <1>2, <1>3 DEF TypeOK

LEMMA MintFailsTypes == ASSUME TypeOK, NEW r \in Runs, MintFails(r) PROVE TypeOK'
<1>1. /\ ask' \in [Asks -> AskRow]
      /\ contract' \in Contract
      /\ revival' \in [Runs -> Awaits]
      /\ answering' \subseteq AnswerCalls
      /\ continuing' \subseteq Requests
      /\ server' \in Process
  BY DEF MintFails, TypeOK
<1>2. /\ row' \in [Runs -> Row]
      /\ live' \in [Runs -> Runtime]
      /\ retiring' \subseteq Runs
      /\ post' \in [Runs -> Followup]
  BY RowShapes, AwaitShapes, RuntimeShapes, CallShapes, SettleTypes DEF MintFails, TypeOK, Terminal
<1>3. task' \in [Runs -> Awaits]
  BY AwaitShapes DEF MintFails, TypeOK
<1> QED BY <1>1, <1>2, <1>3 DEF TypeOK

LEMMA RevivalRefusedTypes == ASSUME TypeOK, NEW r \in Runs, RevivalRefused(r) PROVE TypeOK'
<1>1. /\ row' \in [Runs -> Row]
      /\ ask' \in [Asks -> AskRow]
      /\ contract' \in Contract
      /\ live' \in [Runs -> Runtime]
      /\ task' \in [Runs -> Awaits]
      /\ answering' \subseteq AnswerCalls
      /\ continuing' \subseteq Requests
      /\ retiring' \subseteq Runs
      /\ post' \in [Runs -> Followup]
      /\ server' \in Process
  BY DEF RevivalRefused, TypeOK
<1>2. revival' \in [Runs -> Awaits]
  BY AwaitShapes DEF RevivalRefused, TypeOK
<1> QED BY <1>1, <1>2 DEF TypeOK

LEMMA RevivalMintFailsTypes == ASSUME TypeOK, NEW r \in Runs, RevivalMintFails(r) PROVE TypeOK'
<1>1. /\ ask' \in [Asks -> AskRow]
      /\ contract' \in Contract
      /\ live' \in [Runs -> Runtime]
      /\ task' \in [Runs -> Awaits]
      /\ answering' \subseteq AnswerCalls
      /\ continuing' \subseteq Requests
      /\ retiring' \subseteq Runs
      /\ post' \in [Runs -> Followup]
      /\ server' \in Process
  BY DEF RevivalMintFails, TypeOK
<1>2. row' \in [Runs -> Row]
  BY RowShapes, AwaitShapes DEF RevivalMintFails, TypeOK
<1>3. revival' \in [Runs -> Awaits]
  BY AwaitShapes DEF RevivalMintFails, TypeOK
<1> QED BY <1>1, <1>2, <1>3 DEF TypeOK

LEMMA ReceiptTypes == ASSUME TypeOK, NEW r \in Runs, Receipt(r) PROVE TypeOK'
<1>1. /\ ask' \in [Asks -> AskRow]
      /\ contract' \in Contract
      /\ task' \in [Runs -> Awaits]
      /\ revival' \in [Runs -> Awaits]
      /\ answering' \subseteq AnswerCalls
      /\ continuing' \subseteq Requests
      /\ retiring' \subseteq Runs
      /\ post' \in [Runs -> Followup]
      /\ server' \in Process
  BY DEF Receipt, TypeOK
<1>2. row' \in [Runs -> Row]
  BY RowShapes DEF Receipt, TypeOK, NonTerminal, Terminal
<1>3. live' \in [Runs -> Runtime]
  BY RuntimeShapes DEF Receipt, TypeOK
<1> QED BY <1>1, <1>2, <1>3 DEF TypeOK

LEMMA TurnBreaksTypes == ASSUME TypeOK, NEW r \in Runs, TurnBreaks(r) PROVE TypeOK'
<1>1. /\ ask' \in [Asks -> AskRow]
      /\ contract' \in Contract
      /\ task' \in [Runs -> Awaits]
      /\ revival' \in [Runs -> Awaits]
      /\ answering' \subseteq AnswerCalls
      /\ continuing' \subseteq Requests
      /\ server' \in Process
  BY DEF TurnBreaks, TypeOK
<1>2. /\ row' \in [Runs -> Row]
      /\ live' \in [Runs -> Runtime]
      /\ retiring' \subseteq Runs
      /\ post' \in [Runs -> Followup]
  BY RowShapes, AwaitShapes, RuntimeShapes, CallShapes, SettleTypes DEF TurnBreaks, TypeOK, Terminal
<1> QED BY <1>1, <1>2 DEF TypeOK

LEMMA TurnEndsTypes == ASSUME TypeOK, NEW r \in Runs, TurnEnds(r) PROVE TypeOK'
<1>1. /\ row' \in [Runs -> Row]
      /\ ask' \in [Asks -> AskRow]
      /\ contract' \in Contract
      /\ task' \in [Runs -> Awaits]
      /\ revival' \in [Runs -> Awaits]
      /\ answering' \subseteq AnswerCalls
      /\ continuing' \subseteq Requests
      /\ retiring' \subseteq Runs
      /\ post' \in [Runs -> Followup]
      /\ server' \in Process
  BY DEF TurnEnds, TypeOK
<1>2. live' \in [Runs -> Runtime]
  BY RuntimeShapes DEF TurnEnds, TypeOK
<1> QED BY <1>1, <1>2 DEF TypeOK

LEMMA TurnFailsTypes == ASSUME TypeOK, NEW r \in Runs, NEW cause \in {"turn-budget-exhausted", "other"}, TurnFails(r, cause) PROVE TypeOK'
<1>1. /\ ask' \in [Asks -> AskRow]
      /\ contract' \in Contract
      /\ task' \in [Runs -> Awaits]
      /\ revival' \in [Runs -> Awaits]
      /\ answering' \subseteq AnswerCalls
      /\ continuing' \subseteq Requests
      /\ server' \in Process
  BY DEF TurnFails, TypeOK
<1>2. /\ row' \in [Runs -> Row] /\ live' \in [Runs -> Runtime]
      /\ retiring' \subseteq Runs /\ post' \in [Runs -> Followup]
  <2>1. row[r] \in Row /\ live[r].attempt \in Nat /\ "failed" \in Terminal
    BY RuntimeShapes DEF TypeOK, Terminal
  <2>2. SettleTerminal(r, row[r], "failed", cause, live[r].attempt)
    BY DEF TurnFails
  <2>3. cause \in {"none", "turn-budget-exhausted", "other"}
    OBVIOUS
  <2> QED BY <2>1, <2>2, <2>3, SettleTypes
<1> QED BY <1>1, <1>2 DEF TypeOK

LEMMA StartPreparesTypes == ASSUME TypeOK, NEW r \in Runs, StartPrepares(r) PROVE TypeOK'
<1>1. /\ ask' \in [Asks -> AskRow]
      /\ contract' \in Contract
      /\ live' \in [Runs -> Runtime]
      /\ revival' \in [Runs -> Awaits]
      /\ answering' \subseteq AnswerCalls
      /\ continuing' \subseteq Requests
      /\ retiring' \subseteq Runs
      /\ post' \in [Runs -> Followup]
      /\ server' \in Process
  BY DEF StartPrepares, TypeOK
<1>2. row' \in [Runs -> Row]
  <2>1. row[r] \in Row /\ PreparedCreate(row[r]) \in Row /\ PreparedResume(row[r]) \in Row
    BY RowShapes DEF TypeOK
  <2>2. /\ [PreparedCreate(row[r]) EXCEPT !.status = "spawning"] \in Row
        /\ [PreparedResume(row[r]) EXCEPT !.status = "spawning"] \in Row
    BY <2>1, RowShapes DEF NonTerminal
  <2> QED BY <2>1, <2>2 DEF StartPrepares, TypeOK
<1>3. task' \in [Runs -> Awaits]
  <2>1. row[r].attempt + 1 \in Nat
    BY RowAttempt DEF TypeOK
  <2> QED BY <2>1, AwaitShapes DEF StartPrepares, TypeOK
<1> QED BY <1>1, <1>2, <1>3 DEF TypeOK

LEMMA MintResolvesTypes == ASSUME TypeOK, NEW r \in Runs, MintResolves(r) PROVE TypeOK'
<1>1. /\ row' \in [Runs -> Row]
      /\ ask' \in [Asks -> AskRow]
      /\ contract' \in Contract
      /\ revival' \in [Runs -> Awaits]
      /\ answering' \subseteq AnswerCalls
      /\ continuing' \subseteq Requests
      /\ retiring' \subseteq Runs
      /\ post' \in [Runs -> Followup]
      /\ server' \in Process
  BY DEF MintResolves, TypeOK
<1>2. live' \in [Runs -> Runtime]
  BY AwaitShapes, RuntimeShapes DEF MintResolves, TypeOK
<1>3. task' \in [Runs -> Awaits]
  BY AwaitShapes, RowShapes DEF MintResolves, TypeOK
<1> QED BY <1>1, <1>2, <1>3 DEF TypeOK

LEMMA RevivalPreparesTypes == ASSUME TypeOK, NEW r \in Runs, RevivalPrepares(r) PROVE TypeOK'
<1>1. /\ ask' \in [Asks -> AskRow]
      /\ contract' \in Contract
      /\ live' \in [Runs -> Runtime]
      /\ task' \in [Runs -> Awaits]
      /\ answering' \subseteq AnswerCalls
      /\ continuing' \subseteq Requests
      /\ retiring' \subseteq Runs
      /\ post' \in [Runs -> Followup]
      /\ server' \in Process
  BY DEF RevivalPrepares, TypeOK
<1>2. row' \in [Runs -> Row]
  BY RowShapes DEF RevivalPrepares, TypeOK, NonTerminal, Terminal
<1>3. revival' \in [Runs -> Awaits]
  <2>1. row[r].attempt + 1 \in Nat
    BY RowAttempt DEF TypeOK
  <2> QED BY <2>1, AwaitShapes DEF RevivalPrepares, TypeOK
<1> QED BY <1>1, <1>2, <1>3 DEF TypeOK

LEMMA RevivalMintedTypes == ASSUME TypeOK, NEW r \in Runs, RevivalMinted(r) PROVE TypeOK'
<1>1. /\ row' \in [Runs -> Row]
      /\ ask' \in [Asks -> AskRow]
      /\ contract' \in Contract
      /\ task' \in [Runs -> Awaits]
      /\ answering' \subseteq AnswerCalls
      /\ continuing' \subseteq Requests
      /\ retiring' \subseteq Runs
      /\ post' \in [Runs -> Followup]
      /\ server' \in Process
  BY DEF RevivalMinted, TypeOK
<1>2. live' \in [Runs -> Runtime]
  BY AwaitShapes, RuntimeShapes DEF RevivalMinted, TypeOK
<1>3. revival' \in [Runs -> Awaits]
  BY AwaitShapes, RowShapes DEF RevivalMinted, TypeOK
<1> QED BY <1>1, <1>2, <1>3 DEF TypeOK

LEMMA DoorClosesTypes == ASSUME TypeOK, NEW r \in Runs, NEW found \in {"file", "none", "invalid"}, DoorCloses(r, found) PROVE TypeOK'
<1>1. /\ ask' \in [Asks -> AskRow]
      /\ task' \in [Runs -> Awaits]
      /\ revival' \in [Runs -> Awaits]
      /\ answering' \subseteq AnswerCalls
      /\ continuing' \subseteq Requests
      /\ server' \in Process
  BY DEF DoorCloses, TypeOK
<1>2. /\ row' \in [Runs -> Row]
      /\ live' \in [Runs -> Runtime]
      /\ retiring' \subseteq Runs
      /\ post' \in [Runs -> Followup]
  BY RowShapes, AwaitShapes, RuntimeShapes, CallShapes, SettleTypes DEF DoorCloses, TypeOK, Terminal
<1>3. contract' \in Contract
  BY ContractShapes DEF DoorCloses, TypeOK
<1> QED BY <1>1, <1>2, <1>3 DEF TypeOK

LEMMA RetiredTypes == ASSUME TypeOK, NEW r \in Runs, Retired(r) PROVE TypeOK'
<1>1. /\ row' \in [Runs -> Row]
      /\ ask' \in [Asks -> AskRow]
      /\ contract' \in Contract
      /\ live' \in [Runs -> Runtime]
      /\ task' \in [Runs -> Awaits]
      /\ revival' \in [Runs -> Awaits]
      /\ answering' \subseteq AnswerCalls
      /\ continuing' \subseteq Requests
      /\ post' \in [Runs -> Followup]
      /\ server' \in Process
  BY DEF Retired, TypeOK
<1>2. retiring' \subseteq Runs
  BY DEF Retired, TypeOK
<1> QED BY <1>1, <1>2 DEF TypeOK

LEMMA ReportedTypes == ASSUME TypeOK, NEW r \in Runs, Reported(r) PROVE TypeOK'
<1>1. /\ row' \in [Runs -> Row]
      /\ ask' \in [Asks -> AskRow]
      /\ contract' \in Contract
      /\ live' \in [Runs -> Runtime]
      /\ task' \in [Runs -> Awaits]
      /\ revival' \in [Runs -> Awaits]
      /\ answering' \subseteq AnswerCalls
      /\ continuing' \subseteq Requests
      /\ retiring' \subseteq Runs
      /\ server' \in Process
  BY DEF Reported, TypeOK
<1>2. post' \in [Runs -> Followup]
  BY DEF Reported, TypeOK, Followup
<1> QED BY <1>1, <1>2 DEF TypeOK

LEMMA FireAutoContinueTypes == ASSUME TypeOK, NEW r \in Runs, FireAutoContinue(r) PROVE TypeOK'
<1>1. /\ row' \in [Runs -> Row]
      /\ ask' \in [Asks -> AskRow]
      /\ contract' \in Contract
      /\ live' \in [Runs -> Runtime]
      /\ task' \in [Runs -> Awaits]
      /\ revival' \in [Runs -> Awaits]
      /\ answering' \subseteq AnswerCalls
      /\ retiring' \subseteq Runs
      /\ server' \in Process
  BY DEF FireAutoContinue, TypeOK
<1>2. post' \in [Runs -> Followup]
  BY DEF FireAutoContinue, TypeOK, Followup
<1>3. continuing' \subseteq Requests
  <2>1. Requested(r, TRUE) \in Requests
    BY CallShapes
  <2> QED BY <2>1 DEF FireAutoContinue, TypeOK
<1> QED BY <1>1, <1>2, <1>3 DEF TypeOK

LEMMA AnswerRevivedTypes == ASSUME RunsInv, NEW x \in answering, AnswerRevived(x) PROVE TypeOK'
<1>1. /\ row' \in [Runs -> Row]
      /\ ask' \in [Asks -> AskRow]
      /\ contract' \in Contract
      /\ live' \in [Runs -> Runtime]
      /\ task' \in [Runs -> Awaits]
      /\ revival' \in [Runs -> Awaits]
      /\ continuing' \subseteq Requests
      /\ retiring' \subseteq Runs
      /\ post' \in [Runs -> Followup]
      /\ server' \in Process
  BY DEF AnswerRevived, RunsInv, TypeOK
<1>2. answering' \subseteq AnswerCalls
  <2>1. /\ x \in AnswerCalls /\ x.ask \in Asks /\ x.by \in Answerers
        /\ ask[x.ask].run \in Runs
    BY CallShapes DEF RunsInv, TypeOK, AskOK, AnswerOK
  <2>2. live[ask[x.ask].run].attempt \in Nat
    BY <2>1, RuntimeShapes DEF RunsInv, TypeOK
  <2> QED BY <2>1, <2>2, CallShapes DEF AnswerRevived, RunsInv, TypeOK
<1> QED BY <1>1, <1>2 DEF TypeOK

LEMMA AnswerRefusedTypes == ASSUME TypeOK, NEW x \in answering, AnswerRefused(x) PROVE TypeOK'
<1>1. /\ row' \in [Runs -> Row]
      /\ ask' \in [Asks -> AskRow]
      /\ contract' \in Contract
      /\ live' \in [Runs -> Runtime]
      /\ task' \in [Runs -> Awaits]
      /\ revival' \in [Runs -> Awaits]
      /\ continuing' \subseteq Requests
      /\ retiring' \subseteq Runs
      /\ post' \in [Runs -> Followup]
      /\ server' \in Process
  BY DEF AnswerRefused, TypeOK
<1>2. answering' \subseteq AnswerCalls
  BY CallShapes DEF AnswerRefused, TypeOK
<1> QED BY <1>1, <1>2 DEF TypeOK

LEMMA AnswerSentTypes == ASSUME TypeOK, NEW x \in answering, AnswerSent(x) PROVE TypeOK'
<1>1. /\ contract' \in Contract
      /\ task' \in [Runs -> Awaits]
      /\ revival' \in [Runs -> Awaits]
      /\ continuing' \subseteq Requests
      /\ retiring' \subseteq Runs
      /\ post' \in [Runs -> Followup]
      /\ server' \in Process
  BY DEF AnswerSent, TypeOK, Resumable
<1>2. ask' \in [Asks -> AskRow]
  BY AskShapes, CallShapes DEF AnswerSent, TypeOK, Resumable
<1>3. row' \in [Runs -> Row]
  BY AskShapes, CallShapes, RowShapes DEF AnswerSent, TypeOK, Resumable, NonTerminal, Terminal
<1>4. live' \in [Runs -> Runtime]
  BY AskShapes, CallShapes, RuntimeShapes DEF AnswerSent, TypeOK, Resumable
<1>5. answering' \subseteq AnswerCalls
  BY AskShapes, CallShapes DEF AnswerSent, TypeOK, Resumable
<1> QED BY <1>1, <1>2, <1>3, <1>4, <1>5 DEF TypeOK

LEMMA AnswerUnsentTypes == ASSUME RunsInv, NEW x \in answering, AnswerUnsent(x) PROVE TypeOK'
<1>1. /\ contract' \in Contract
      /\ task' \in [Runs -> Awaits]
      /\ revival' \in [Runs -> Awaits]
      /\ continuing' \subseteq Requests
      /\ server' \in Process
  BY DEF AnswerUnsent, RunsInv, TypeOK, Resumable
<1>2. /\ row' \in [Runs -> Row] /\ live' \in [Runs -> Runtime]
      /\ retiring' \subseteq Runs /\ post' \in [Runs -> Followup]
  <2> DEFINE r == ask[x.ask].run
             rw == ResumeFailedRow(AnsweredRow(row[r]), x.attempt)
  <2>1. x.ask \in Asks /\ x.attempt \in Nat /\ r \in Runs
    BY CallShapes DEF RunsInv, TypeOK, AskOK, AnswerOK
  <2>2. AnsweredRow(row[r]) \in Row
    BY <2>1, RowShapes DEF RunsInv, TypeOK
  <2>3. rw \in Row /\ "failed" \in Terminal
    BY <2>1, <2>2, RowShapes DEF Terminal
  <2>4. SettleTerminal(r, rw, "failed", "other", x.attempt)
    BY DEF AnswerUnsent
  <2>5. TypeOK
    BY DEF RunsInv
  <2> QED BY <2>1, <2>3, <2>4, <2>5, SettleTypes
<1>3. ask' \in [Asks -> AskRow]
  BY AskShapes, CallShapes DEF AnswerUnsent, RunsInv, TypeOK, Resumable
<1>4. answering' \subseteq AnswerCalls
  BY AskShapes, CallShapes DEF AnswerUnsent, RunsInv, TypeOK, Resumable
<1> QED BY <1>1, <1>2, <1>3, <1>4 DEF TypeOK

LEMMA ContinueRefusedTypes == ASSUME TypeOK, NEW c \in continuing, ContinueRefused(c) PROVE TypeOK'
<1>1. /\ row' \in [Runs -> Row]
      /\ ask' \in [Asks -> AskRow]
      /\ contract' \in Contract
      /\ live' \in [Runs -> Runtime]
      /\ task' \in [Runs -> Awaits]
      /\ revival' \in [Runs -> Awaits]
      /\ answering' \subseteq AnswerCalls
      /\ retiring' \subseteq Runs
      /\ server' \in Process
  BY DEF ContinueRefused, TypeOK
<1>2. continuing' \subseteq Requests
  BY CallShapes DEF ContinueRefused, TypeOK
<1>3. post' \in [Runs -> Followup]
  BY CallShapes DEF ContinueRefused, TypeOK, Followup
<1> QED BY <1>1, <1>2, <1>3 DEF TypeOK

LEMMA ContinuePreflightedTypes == ASSUME TypeOK, NEW c \in continuing, ContinuePreflighted(c) PROVE TypeOK'
<1>1. /\ row' \in [Runs -> Row]
      /\ ask' \in [Asks -> AskRow]
      /\ contract' \in Contract
      /\ live' \in [Runs -> Runtime]
      /\ task' \in [Runs -> Awaits]
      /\ revival' \in [Runs -> Awaits]
      /\ answering' \subseteq AnswerCalls
      /\ retiring' \subseteq Runs
      /\ post' \in [Runs -> Followup]
      /\ server' \in Process
  BY DEF ContinuePreflighted, TypeOK
<1>2. continuing' \subseteq Requests
  BY CallShapes, ContractShapes DEF ContinuePreflighted, TypeOK
<1> QED BY <1>1, <1>2 DEF TypeOK

LEMMA ContinueInsertsTypes == ASSUME TypeOK, NEW c \in continuing, NEW r \in Runs, ContinueInserts(c, r) PROVE TypeOK'
<1>1. /\ ask' \in [Asks -> AskRow]
      /\ live' \in [Runs -> Runtime]
      /\ revival' \in [Runs -> Awaits]
      /\ answering' \subseteq AnswerCalls
      /\ retiring' \subseteq Runs
      /\ server' \in Process
  BY DEF ContinueInserts, TypeOK
<1>2. row' \in [Runs -> Row]
  <2>0. c.parent \in Runs /\ row[c.parent].count \in Nat
    BY CallShapes, RowShapes DEF TypeOK
  <2>1. c.parent \in Runs /\ row[c.parent].count + 1 \in Nat
    BY <2>0
  <2>2. \A n \in Nat : QueuedRow(c.parent, n) \in Row
    BY <2>1, RowShapes
  <2> QED BY <2>1, <2>2 DEF ContinueInserts, TypeOK
<1>3. contract' \in Contract
  <2>1. contract.version + 1 \in Nat
    BY ContractShapes DEF TypeOK
  <2> QED BY <2>1, ContractShapes DEF ContinueInserts
<1>4. task' \in [Runs -> Awaits]
  BY AwaitShapes DEF ContinueInserts, TypeOK
<1>5. continuing' \subseteq Requests
  BY CallShapes DEF ContinueInserts, TypeOK
<1>6. post' \in [Runs -> Followup]
  BY CallShapes DEF ContinueInserts, TypeOK, Followup
<1> QED BY <1>1, <1>2, <1>3, <1>4, <1>5, <1>6 DEF TypeOK

LEMMA SweepDoneTypes == ASSUME TypeOK, SweepDone PROVE TypeOK'
<1>1. /\ row' \in [Runs -> Row]
      /\ ask' \in [Asks -> AskRow]
      /\ contract' \in Contract
      /\ live' \in [Runs -> Runtime]
      /\ task' \in [Runs -> Awaits]
      /\ revival' \in [Runs -> Awaits]
      /\ answering' \subseteq AnswerCalls
      /\ continuing' \subseteq Requests
      /\ retiring' \subseteq Runs
      /\ post' \in [Runs -> Followup]
  BY DEF SweepDone, TypeOK, durable
<1>2. server' \in Process
  BY ServerShapes DEF SweepDone, TypeOK, durable
<1> QED BY <1>1, <1>2 DEF TypeOK

LEMMA AttachServerTypes == ASSUME TypeOK, AttachServer PROVE TypeOK'
<1>1. /\ row' \in [Runs -> Row]
      /\ ask' \in [Asks -> AskRow]
      /\ contract' \in Contract
      /\ live' \in [Runs -> Runtime]
      /\ task' \in [Runs -> Awaits]
      /\ revival' \in [Runs -> Awaits]
      /\ answering' \subseteq AnswerCalls
      /\ continuing' \subseteq Requests
      /\ retiring' \subseteq Runs
      /\ post' \in [Runs -> Followup]
  BY DEF AttachServer, TypeOK, durable
<1>2. server' \in Process
  BY ServerShapes DEF AttachServer, TypeOK, durable
<1> QED BY <1>1, <1>2 DEF TypeOK

LEMMA RecoverAgentRunTypes == ASSUME TypeOK, NEW r \in Runs, RecoverAgentRun(r) PROVE TypeOK'
<1>1. /\ live' \in [Runs -> Runtime]
      /\ task' \in [Runs -> Awaits]
      /\ revival' \in [Runs -> Awaits]
      /\ answering' \subseteq AnswerCalls
      /\ continuing' \subseteq Requests
      /\ retiring' \subseteq Runs
      /\ post' \in [Runs -> Followup]
      /\ server' \in Process
  BY DEF RecoverAgentRun, TypeOK, OpenAsks
<1>2. ask' \in [Asks -> AskRow]
  BY AskShapes DEF RecoverAgentRun, TypeOK, OpenAsks
<1>3. row' \in [Runs -> Row]
  BY RowShapes DEF RecoverAgentRun, TypeOK, OpenAsks, NonTerminal, Terminal
<1>4. contract' \in Contract
  <2>1. contract \in Contract /\ contract.version + 1 \in Nat
    BY ContractShapes DEF TypeOK
  <2>2. [contract EXCEPT !.version = contract.version + 1] \in Contract
    BY <2>1, ContractShapes
  <2> QED BY <2>1, <2>2 DEF RecoverAgentRun
<1> QED BY <1>1, <1>2, <1>3, <1>4 DEF TypeOK

LEMMA RecoverSealedRunTypes == ASSUME TypeOK, NEW r \in Runs, RecoverSealedRun(r) PROVE TypeOK'
<1>1. /\ ask' \in [Asks -> AskRow]
      /\ contract' \in Contract
      /\ live' \in [Runs -> Runtime]
      /\ task' \in [Runs -> Awaits]
      /\ revival' \in [Runs -> Awaits]
      /\ answering' \subseteq AnswerCalls
      /\ continuing' \subseteq Requests
      /\ retiring' \subseteq Runs
      /\ server' \in Process
  BY DEF RecoverSealedRun, TypeOK
<1>2. row' \in [Runs -> Row]
  BY RowShapes DEF RecoverSealedRun, TypeOK, NonTerminal, Terminal
<1>3. post' \in [Runs -> Followup]
  BY DEF RecoverSealedRun, TypeOK, Followup
<1> QED BY <1>1, <1>2, <1>3 DEF TypeOK

LEMMA SealedVerifiedTypes == ASSUME TypeOK, NEW r \in Runs, SealedVerified(r) PROVE TypeOK'
<1>1. /\ row' \in [Runs -> Row]
      /\ contract' \in Contract
      /\ live' \in [Runs -> Runtime]
      /\ task' \in [Runs -> Awaits]
      /\ revival' \in [Runs -> Awaits]
      /\ answering' \subseteq AnswerCalls
      /\ continuing' \subseteq Requests
      /\ retiring' \subseteq Runs
      /\ server' \in Process
  BY DEF SealedVerified, TypeOK, OpenAsks
<1>2. ask' \in [Asks -> AskRow]
  BY AskShapes DEF SealedVerified, TypeOK, OpenAsks
<1>3. post' \in [Runs -> Followup]
  BY DEF SealedVerified, TypeOK, OpenAsks, Followup
<1> QED BY <1>1, <1>2, <1>3 DEF TypeOK

LEMMA RecoverPausedAskTypes == ASSUME TypeOK, NEW r \in Runs, RecoverPausedAsk(r) PROVE TypeOK'
<1>1. /\ row' \in [Runs -> Row]
      /\ ask' \in [Asks -> AskRow]
      /\ contract' \in Contract
      /\ live' \in [Runs -> Runtime]
      /\ task' \in [Runs -> Awaits]
      /\ answering' \subseteq AnswerCalls
      /\ continuing' \subseteq Requests
      /\ retiring' \subseteq Runs
      /\ post' \in [Runs -> Followup]
  BY DEF RecoverPausedAsk, TypeOK, durable, Revive
<1>2. server' \in Process
  BY ServerShapes DEF RecoverPausedAsk, TypeOK, durable, Revive
<1>3. revival' \in [Runs -> Awaits]
  BY AwaitShapes DEF RecoverPausedAsk, TypeOK, durable, Revive
<1> QED BY <1>1, <1>2, <1>3 DEF TypeOK

LEMMA RecoverAutoContinueTypes == ASSUME TypeOK, NEW r \in Runs, RecoverAutoContinue(r) PROVE TypeOK'
<1>1. /\ row' \in [Runs -> Row]
      /\ ask' \in [Asks -> AskRow]
      /\ contract' \in Contract
      /\ live' \in [Runs -> Runtime]
      /\ task' \in [Runs -> Awaits]
      /\ revival' \in [Runs -> Awaits]
      /\ answering' \subseteq AnswerCalls
      /\ continuing' \subseteq Requests
      /\ retiring' \subseteq Runs
  BY DEF RecoverAutoContinue, TypeOK, durable
<1>2. server' \in Process
  BY ServerShapes DEF RecoverAutoContinue, TypeOK, durable
<1>3. post' \in [Runs -> Followup]
  BY DEF RecoverAutoContinue, TypeOK, durable, Followup
<1> QED BY <1>1, <1>2, <1>3 DEF TypeOK

LEMMA DisposeAllTypes == ASSUME TypeOK, DisposeAll PROVE TypeOK'
<1>1. /\ row' \in [Runs -> Row]
      /\ ask' \in [Asks -> AskRow]
      /\ contract' \in Contract
      /\ task' \in [Runs -> Awaits]
      /\ revival' \in [Runs -> Awaits]
      /\ answering' \subseteq AnswerCalls
      /\ continuing' \subseteq Requests
      /\ post' \in [Runs -> Followup]
  BY DEF DisposeAll, TypeOK
<1>2. server' \in Process
  BY ServerShapes DEF DisposeAll, TypeOK
<1>3. retiring' \subseteq Runs
  BY DEF DisposeAll, TypeOK
<1>4. live' \in [Runs -> Runtime]
  BY RuntimeShapes DEF DisposeAll, TypeOK
<1> QED BY <1>1, <1>2, <1>3, <1>4 DEF TypeOK

LEMMA CrashTypes == ASSUME TypeOK, Crash PROVE TypeOK'
<1>1. /\ row' \in [Runs -> Row]
      /\ ask' \in [Asks -> AskRow]
      /\ contract' \in Contract
  BY DEF Crash, TypeOK, durable, Lost
<1>2. live' \in [Runs -> Runtime]
  BY RuntimeShapes DEF Crash, TypeOK, durable, Lost
<1>3. task' \in [Runs -> Awaits]
  BY AwaitShapes DEF Crash, TypeOK, durable, Lost
<1>4. revival' \in [Runs -> Awaits]
  BY AwaitShapes DEF Crash, TypeOK, durable, Lost
<1>5. answering' \subseteq AnswerCalls
  BY CallShapes DEF Crash, TypeOK, durable, Lost
<1>6. continuing' \subseteq Requests
  BY CallShapes DEF Crash, TypeOK, durable, Lost
<1>7. retiring' \subseteq Runs
  BY DEF Crash, TypeOK, durable, Lost
<1>8. post' \in [Runs -> Followup]
  BY DEF Crash, TypeOK, durable, Lost, Followup
<1>9. server' \in Process
  <2>0. server.crashes \in Nat
    BY ServerShapes DEF TypeOK
  <2>1. server.crashes + 1 \in Nat
    BY <2>0
  <2> QED BY <2>1, ServerShapes DEF Crash, Lost
<1> QED BY <1>1, <1>2, <1>3, <1>4, <1>5, <1>6, <1>7, <1>8, <1>9 DEF TypeOK

LEMMA CrashAfterAnswerTypes == ASSUME RunsInv, NEW x \in answering, CrashAfterAnswer(x) PROVE TypeOK'
<1>1. /\ contract' \in Contract
  BY DEF CrashAfterAnswer, RunsInv, TypeOK, Lost, Resumable
<1>2. ask' \in [Asks -> AskRow]
  BY AskShapes, CallShapes DEF CrashAfterAnswer, RunsInv, TypeOK, Lost, Resumable
<1>3. row' \in [Runs -> Row]
  BY AskShapes, CallShapes, RowShapes DEF CrashAfterAnswer, RunsInv, TypeOK, Lost, Resumable, NonTerminal, Terminal
<1>4. live' \in [Runs -> Runtime]
  BY AskShapes, CallShapes, RuntimeShapes DEF CrashAfterAnswer, RunsInv, TypeOK, Lost, Resumable
<1>5. task' \in [Runs -> Awaits]
  BY AskShapes, AwaitShapes, CallShapes DEF CrashAfterAnswer, RunsInv, TypeOK, Lost, Resumable
<1>6. revival' \in [Runs -> Awaits]
  BY AskShapes, AwaitShapes, CallShapes DEF CrashAfterAnswer, RunsInv, TypeOK, Lost, Resumable
<1>7. answering' \subseteq AnswerCalls
  BY AskShapes, CallShapes DEF CrashAfterAnswer, RunsInv, TypeOK, Lost, Resumable
<1>8. continuing' \subseteq Requests
  BY AskShapes, CallShapes DEF CrashAfterAnswer, RunsInv, TypeOK, Lost, Resumable
<1>9. retiring' \subseteq Runs
  BY AskShapes, CallShapes DEF CrashAfterAnswer, RunsInv, TypeOK, Lost, Resumable
<1>10. post' \in [Runs -> Followup]
  BY AskShapes, CallShapes DEF CrashAfterAnswer, RunsInv, TypeOK, Lost, Resumable, Followup
<1>11. server' \in Process
  <2>0. server.crashes \in Nat
    BY ServerShapes DEF RunsInv, TypeOK
  <2>1. server.crashes + 1 \in Nat
    BY <2>0
  <2> QED BY <2>1, ServerShapes DEF CrashAfterAnswer, Lost
<1> QED BY <1>1, <1>2, <1>3, <1>4, <1>5, <1>6, <1>7, <1>8, <1>9, <1>10, <1>11 DEF TypeOK

-----------------------------------------------------------------------------
(* The rows and the runtimes.                                              *)

\* What the commands change in a row, and what they leave.
LEMMA RowEffects ==
  /\ NoRow.status = "none"
  /\ \A p \in Runs \cup {NoRun}, n \in Nat :
       /\ QueuedRow(p, n).status = "queued" /\ QueuedRow(p, n).attempt = 1
       /\ QueuedRow(p, n).continues = p
       /\ QueuedRow(p, n).state = IF p = NoRun THEN "clean-pending" ELSE "resume-pending"
       /\ ~QueuedRow(p, n).delivered
  /\ \A rw \in Row :
       /\ \A s \in NonTerminal :
            /\ [rw EXCEPT !.status = s].status = s
            /\ [rw EXCEPT !.status = s].state = rw.state
            /\ [rw EXCEPT !.status = s].attempt = rw.attempt
            /\ [rw EXCEPT !.status = s].continues = rw.continues
       /\ [rw EXCEPT !.delivered = TRUE].status = rw.status
       /\ [rw EXCEPT !.delivered = TRUE].state = rw.state
       /\ [rw EXCEPT !.delivered = TRUE].attempt = rw.attempt
       /\ [rw EXCEPT !.delivered = TRUE].continues = rw.continues
       /\ PreparedCreate(rw).status = rw.status /\ PreparedCreate(rw).state = rw.state
       /\ PreparedCreate(rw).attempt = rw.attempt + 1
       /\ PreparedCreate(rw).continues = rw.continues
       /\ PreparedResume(rw).status = rw.status
       /\ PreparedResume(rw).state = "resume-pending"
       /\ PreparedResume(rw).attempt = rw.attempt + 1
       /\ PreparedResume(rw).continues = rw.continues
       /\ ConfirmedRow(rw).status = rw.status /\ ConfirmedRow(rw).attempt = rw.attempt
       /\ ConfirmedRow(rw).state = IF rw.state = "clean-pending" THEN "clean-started"
                                                               ELSE "native-resumed"
       /\ ConfirmedRow(rw).continues = rw.continues
       /\ AnsweredRow(rw).status = IF rw.state \in Confirmed THEN "running" ELSE "spawning"
       /\ AnsweredRow(rw).state = rw.state /\ AnsweredRow(rw).attempt = rw.attempt
       /\ AnsweredRow(rw).continues = rw.continues
  <1>1. NoRow.status = "none"
    BY DEF NoRow
  <1>2. ASSUME NEW p \in Runs \cup {NoRun}, NEW n \in Nat
        PROVE  /\ QueuedRow(p, n).status = "queued" /\ QueuedRow(p, n).attempt = 1
               /\ QueuedRow(p, n).continues = p
               /\ QueuedRow(p, n).state = IF p = NoRun THEN "clean-pending" ELSE "resume-pending"
               /\ ~QueuedRow(p, n).delivered
    BY DEF QueuedRow, NoRow
  <1>3. ASSUME NEW rw \in Row, NEW s \in NonTerminal
        PROVE  /\ [rw EXCEPT !.status = s].status = s
               /\ [rw EXCEPT !.status = s].state = rw.state
               /\ [rw EXCEPT !.status = s].attempt = rw.attempt
               /\ [rw EXCEPT !.status = s].continues = rw.continues
    BY DEF Row
  <1>4. ASSUME NEW rw \in Row
        PROVE  /\ [rw EXCEPT !.delivered = TRUE].status = rw.status
               /\ [rw EXCEPT !.delivered = TRUE].state = rw.state
               /\ [rw EXCEPT !.delivered = TRUE].attempt = rw.attempt
               /\ [rw EXCEPT !.delivered = TRUE].continues = rw.continues
               /\ PreparedCreate(rw).status = rw.status /\ PreparedCreate(rw).state = rw.state
               /\ PreparedCreate(rw).attempt = rw.attempt + 1
               /\ PreparedCreate(rw).continues = rw.continues
    BY DEF Row, PreparedCreate
  <1>5. ASSUME NEW rw \in Row
        PROVE  /\ PreparedResume(rw).status = rw.status
               /\ PreparedResume(rw).state = "resume-pending"
               /\ PreparedResume(rw).attempt = rw.attempt + 1
               /\ PreparedResume(rw).continues = rw.continues
    BY DEF Row, PreparedResume
  <1>6. ASSUME NEW rw \in Row
        PROVE  /\ ConfirmedRow(rw).status = rw.status /\ ConfirmedRow(rw).attempt = rw.attempt
               /\ ConfirmedRow(rw).state = IF rw.state = "clean-pending" THEN "clean-started"
                                                                       ELSE "native-resumed"
               /\ ConfirmedRow(rw).continues = rw.continues
    BY DEF Row, ConfirmedRow
  <1>7. ASSUME NEW rw \in Row
        PROVE  /\ AnsweredRow(rw).status = IF rw.state \in Confirmed THEN "running" ELSE "spawning"
               /\ AnsweredRow(rw).state = rw.state /\ AnsweredRow(rw).attempt = rw.attempt
               /\ AnsweredRow(rw).continues = rw.continues
    BY DEF Row, AnsweredRow
  <1> QED BY <1>1, <1>2, <1>3, <1>4, <1>5, <1>6, <1>7

\* A failed resume changes the state alone.
LEMMA ResumeFailedEffects ==
  ASSUME NEW rw \in Row, NEW n \in Nat
  PROVE  /\ ResumeFailedRow(rw, n).status = rw.status
         /\ ResumeFailedRow(rw, n).attempt = rw.attempt
         /\ ResumeFailedRow(rw, n).continues = rw.continues
         /\ ResumeFailedRow(rw, n).state =
              IF /\ rw.status \in {"spawning", "paused"}
                 /\ rw.state = "resume-pending" /\ rw.attempt = n
              THEN "resume-failed" ELSE rw.state
  BY DEF Row, ResumeFailedRow

\* A terminal is final and leaves the native identity alone.
LEMMA EndedEffects ==
  ASSUME NEW rw \in Row, NEW s \in Terminal,
         NEW c \in {"none", "turn-budget-exhausted", "other"}
  PROVE  /\ EndedRow(rw, s, c).status \in Terminal
         /\ EndedRow(rw, s, c).state = rw.state
         /\ EndedRow(rw, s, c).attempt = rw.attempt
         /\ EndedRow(rw, s, c).continues = rw.continues
  BY DEF Row, EndedRow, Terminal

\* Every row has a status and an attempt.
LEMMA StatusOf ==
  ASSUME NEW rw \in Row
  PROVE  /\ rw.status \in NonTerminal \cup Terminal \cup {"none"}
         /\ rw.attempt \in Nat /\ rw.state \in States
  BY DEF Row

\* A run that a step leaves alone stays as it was.
LEMMA RunFrame ==
  ASSUME NEW q \in Runs, RunOK(q), server'.phase = server.phase,
         row'[q] = row[q], live'[q] = live[q], task'[q] = task[q], revival'[q] = revival[q],
         post'[q] = post[q], q \in retiring' => q \in retiring
  PROVE  RunOK(q)'
  BY DEF RunOK, RowOK, AbsentOK, TaskOK, RevivalOK, LiveOK, DrivenOK, PostOK, Up

LEMMA DeliverRuns == ASSUME RunsInv, NEW r \in Runs, Deliver(r) PROVE \A q \in Runs : RunOK(q)'
  BY RowEffects, StatusOf DEF Deliver, RunsInv, TypeOK, RunOK, RowOK, AbsentOK, TaskOK, RevivalOK, LiveOK, DrivenOK, PostOK,
     Active, NonTerminal, Terminal, Pending, Confirmed, Idle, NoLive, Up, ToolCall, InTurn, LiveIsCurrent

LEMMA KillRunRuns == ASSUME RunsInv, NEW r \in Runs, KillRun(r) PROVE \A q \in Runs : RunOK(q)'
<1> SUFFICES ASSUME NEW q \in Runs PROVE RunOK(q)'
  OBVIOUS
<1>1. TypeOK /\ RunOK(q) /\ RunOK(r)
  BY DEF RunsInv
<1>2. CASE q # r
  BY <1>1, <1>2, RunFrame DEF KillRun, TypeOK, OpenAsks
<1>3. CASE q = r
  BY <1>1, <1>3, RowEffects, StatusOf, EndedEffects DEF KillRun, TypeOK, RunOK, RowOK, AbsentOK, TaskOK, RevivalOK, LiveOK, DrivenOK, PostOK,
     Active, NonTerminal, Terminal, Pending, Confirmed, Idle, NoLive, Up, Runtime, Awaits, OpenAsks
<1> QED BY <1>2, <1>3

LEMMA DispatchContinueRuns == ASSUME RunsInv, NEW r \in Runs, DispatchContinue(r) PROVE \A q \in Runs : RunOK(q)'
  BY RowEffects, StatusOf DEF DispatchContinue, RunsInv, TypeOK, RunOK, RowOK, AbsentOK, TaskOK, RevivalOK, LiveOK, DrivenOK, PostOK,
     Active, NonTerminal, Terminal, Pending, Confirmed, Idle, NoLive, Up, Continuable, Requested

LEMMA CreatePendingAskRuns == ASSUME RunsInv, NEW r \in Runs, NEW a \in Asks, CreatePendingAsk(r, a) PROVE \A q \in Runs : RunOK(q)'
  BY RowEffects, StatusOf DEF CreatePendingAsk, RunsInv, TypeOK, RunOK, RowOK, AbsentOK, TaskOK, RevivalOK, LiveOK, DrivenOK, PostOK,
     Active, NonTerminal, Terminal, Pending, Confirmed, Idle, NoLive, Up, ToolCall, InTurn, LiveIsCurrent

LEMMA AnswerPendingAskRuns == ASSUME RunsInv, NEW a \in Asks, NEW by \in Answerers, AnswerPendingAsk(a, by) PROVE \A q \in Runs : RunOK(q)'
  BY RowEffects, StatusOf DEF AnswerPendingAsk, RunsInv, TypeOK, RunOK, RowOK, AbsentOK, TaskOK, RevivalOK, LiveOK, DrivenOK, PostOK,
     Active, NonTerminal, Terminal, Pending, Confirmed, Idle, NoLive, Up, NeedsRevival, Revive, AnswerCall

LEMMA RevivalRefusedRuns == ASSUME RunsInv, NEW r \in Runs, RevivalRefused(r) PROVE \A q \in Runs : RunOK(q)'
  BY RowEffects, StatusOf DEF RevivalRefused, RunsInv, TypeOK, RunOK, RowOK, AbsentOK, TaskOK, RevivalOK, LiveOK, DrivenOK, PostOK,
     Active, NonTerminal, Terminal, Pending, Confirmed, Idle, NoLive, Up

LEMMA RevivalMintFailsRuns == ASSUME RunsInv, NEW r \in Runs, RevivalMintFails(r) PROVE \A q \in Runs : RunOK(q)'
<1> SUFFICES ASSUME NEW q \in Runs PROVE RunOK(q)'
  OBVIOUS
<1>1. TypeOK /\ RunOK(q) /\ RunOK(r)
  BY DEF RunsInv
<1>2. CASE q # r
  BY <1>1, <1>2, RunFrame DEF RevivalMintFails, TypeOK
<1>3. CASE q = r
  BY <1>1, <1>3, RowEffects, StatusOf, ResumeFailedEffects DEF RevivalMintFails, TypeOK, RunOK, RowOK, AbsentOK, TaskOK, RevivalOK, LiveOK, DrivenOK, PostOK,
     Active, NonTerminal, Terminal, Pending, Confirmed, Idle, NoLive, Up, Runtime, Awaits
<1> QED BY <1>2, <1>3

LEMMA ReceiptRuns == ASSUME RunsInv, NEW r \in Runs, Receipt(r) PROVE \A q \in Runs : RunOK(q)'
<1> SUFFICES ASSUME NEW q \in Runs PROVE RunOK(q)'
  OBVIOUS
<1>1. TypeOK /\ RunOK(q) /\ RunOK(r)
  BY DEF RunsInv
<1>2. CASE q # r
  BY <1>1, <1>2, RunFrame DEF Receipt, TypeOK
<1>3. CASE q = r
  BY <1>1, <1>3, RowEffects, StatusOf DEF Receipt, TypeOK, RunOK, RowOK, AbsentOK, TaskOK, RevivalOK, LiveOK, DrivenOK, PostOK,
     Active, NonTerminal, Terminal, Pending, Confirmed, Idle, NoLive, Up, Runtime, Awaits, InTurn, LiveIsCurrent, ReceiptAccepted
<1> QED BY <1>2, <1>3

LEMMA TurnEndsRuns == ASSUME RunsInv, NEW r \in Runs, TurnEnds(r) PROVE \A q \in Runs : RunOK(q)'
<1> SUFFICES ASSUME NEW q \in Runs PROVE RunOK(q)'
  OBVIOUS
<1>1. TypeOK /\ RunOK(q) /\ RunOK(r)
  BY DEF RunsInv
<1>2. CASE q # r
  BY <1>1, <1>2, RunFrame DEF TurnEnds, TypeOK
<1>3. CASE q = r
  BY <1>1, <1>3, RowEffects, StatusOf DEF TurnEnds, TypeOK, RunOK, RowOK, AbsentOK, TaskOK, RevivalOK, LiveOK, DrivenOK, PostOK,
     Active, NonTerminal, Terminal, Pending, Confirmed, Idle, NoLive, Up, Runtime, Awaits, InTurn, LiveIsCurrent
<1> QED BY <1>2, <1>3

LEMMA RevivalPreparesRuns == ASSUME RunsInv, NEW r \in Runs, RevivalPrepares(r) PROVE \A q \in Runs : RunOK(q)'
  BY RowEffects, StatusOf DEF RevivalPrepares, RunsInv, TypeOK, RunOK, RowOK, AbsentOK, TaskOK, RevivalOK, LiveOK, DrivenOK, PostOK,
     Active, NonTerminal, Terminal, Pending, Confirmed, Idle, NoLive, Up, ResumePreparable, ResumeReady, PreparedResume

LEMMA RetiredRuns == ASSUME RunsInv, NEW r \in Runs, Retired(r) PROVE \A q \in Runs : RunOK(q)'
  BY RowEffects, StatusOf DEF Retired, RunsInv, TypeOK, RunOK, RowOK, AbsentOK, TaskOK, RevivalOK, LiveOK, DrivenOK, PostOK,
     Active, NonTerminal, Terminal, Pending, Confirmed, Idle, NoLive, Up

LEMMA ReportedRuns == ASSUME RunsInv, NEW r \in Runs, Reported(r) PROVE \A q \in Runs : RunOK(q)'
  BY RowEffects, StatusOf DEF Reported, RunsInv, TypeOK, RunOK, RowOK, AbsentOK, TaskOK, RevivalOK, LiveOK, DrivenOK, PostOK,
     Active, NonTerminal, Terminal, Pending, Confirmed, Idle, NoLive, Up

LEMMA FireAutoContinueRuns == ASSUME RunsInv, NEW r \in Runs, FireAutoContinue(r) PROVE \A q \in Runs : RunOK(q)'
<1> SUFFICES ASSUME NEW q \in Runs PROVE RunOK(q)'
  OBVIOUS
<1>1. TypeOK /\ RunOK(q) /\ RunOK(r)
  BY DEF RunsInv
<1>2. CASE q # r
  BY <1>1, <1>2, RunFrame DEF FireAutoContinue, TypeOK
<1>3. CASE q = r
  BY <1>1, <1>3, RowEffects, StatusOf DEF FireAutoContinue, TypeOK, RunOK, RowOK, AbsentOK, TaskOK, RevivalOK, LiveOK, DrivenOK, PostOK,
     Active, NonTerminal, Terminal, Pending, Confirmed, Idle, NoLive, Up, Runtime, Awaits, Continuable, Requested
<1> QED BY <1>2, <1>3

LEMMA AnswerRevivedRuns == ASSUME RunsInv, NEW x \in answering, AnswerRevived(x) PROVE \A q \in Runs : RunOK(q)'
  BY RowEffects, StatusOf DEF AnswerRevived, RunsInv, TypeOK, RunOK, RowOK, AbsentOK, TaskOK, RevivalOK, LiveOK, DrivenOK, PostOK,
     Active, NonTerminal, Terminal, Pending, Confirmed, Idle, NoLive, Up, AnswerCall

LEMMA AnswerRefusedRuns == ASSUME RunsInv, NEW x \in answering, AnswerRefused(x) PROVE \A q \in Runs : RunOK(q)'
  BY RowEffects, StatusOf DEF AnswerRefused, RunsInv, TypeOK, RunOK, RowOK, AbsentOK, TaskOK, RevivalOK, LiveOK, DrivenOK, PostOK,
     Active, NonTerminal, Terminal, Pending, Confirmed, Idle, NoLive, Up

LEMMA ContinuePreflightedRuns == ASSUME RunsInv, NEW c \in continuing, ContinuePreflighted(c) PROVE \A q \in Runs : RunOK(q)'
  BY RowEffects, StatusOf DEF ContinuePreflighted, RunsInv, TypeOK, RunOK, RowOK, AbsentOK, TaskOK, RevivalOK, LiveOK, DrivenOK, PostOK,
     Active, NonTerminal, Terminal, Pending, Confirmed, Idle, NoLive, Up

LEMMA SealedVerifiedRuns == ASSUME RunsInv, NEW r \in Runs, SealedVerified(r) PROVE \A q \in Runs : RunOK(q)'
  BY RowEffects, StatusOf DEF SealedVerified, RunsInv, TypeOK, RunOK, RowOK, AbsentOK, TaskOK, RevivalOK, LiveOK, DrivenOK, PostOK,
     Active, NonTerminal, Terminal, Pending, Confirmed, Idle, NoLive, Up, OpenAsks

LEMMA DisposeAllRuns == ASSUME RunsInv, DisposeAll PROVE \A q \in Runs : RunOK(q)'
  BY RowEffects, StatusOf DEF DisposeAll, RunsInv, TypeOK, RunOK, RowOK, AbsentOK, TaskOK, RevivalOK, LiveOK, DrivenOK, PostOK,
     Active, NonTerminal, Terminal, Pending, Confirmed, Idle, NoLive, Up

LEMMA CrashRuns == ASSUME RunsInv, Crash PROVE \A q \in Runs : RunOK(q)'
  BY RowEffects, StatusOf DEF Crash, RunsInv, TypeOK, RunOK, RowOK, AbsentOK, TaskOK, RevivalOK, LiveOK, DrivenOK, PostOK,
     Active, NonTerminal, Terminal, Pending, Confirmed, Idle, NoLive, Up, Lost, durable

LEMMA CrashAfterAnswerRuns == ASSUME RunsInv, NEW x \in answering, CrashAfterAnswer(x) PROVE \A q \in Runs : RunOK(q)'
  BY RowEffects, StatusOf DEF CrashAfterAnswer, RunsInv, TypeOK, RunOK, RowOK, AbsentOK, TaskOK, RevivalOK, LiveOK, DrivenOK, PostOK,
     Active, NonTerminal, Terminal, Pending, Confirmed, Idle, NoLive, Up, Lost, Resumable

\* The run of a question that is being answered.
LEMMA AnswerRun ==
  ASSUME RunsInv, NEW x \in answering
  PROVE  x \in AnswerCalls /\ x.ask \in Asks /\ x.attempt \in Nat /\ ask[x.ask].run \in Runs
  BY CallShapes DEF RunsInv, TypeOK, AskOK, AnswerOK

LEMMA DispatchRuns == ASSUME RunsInv, NEW r \in Runs, Dispatch(r) PROVE \A q \in Runs : RunOK(q)'
<1> SUFFICES ASSUME NEW q \in Runs PROVE RunOK(q)'
  OBVIOUS
<1>1. TypeOK /\ RunOK(q) /\ r \in Runs /\ RunOK(r)
  BY DEF RunsInv
<1>2. CASE q # r
  BY <1>1, <1>2, RunFrame DEF Dispatch, TypeOK
<1>3. CASE q = r
  <2>1. row'[r] = QueuedRow(NoRun, 0) /\ task'[r].at = "starting"
    BY <1>1 DEF Dispatch, TypeOK, Awaits
  <2>2. live[r] = NoLive /\ revival[r] = Idle /\ post[r] = "none" /\ r \notin retiring
    BY <1>1, RowEffects DEF Dispatch, RunOK, AbsentOK
  <2>3. /\ row'[r].status = "queued" /\ row'[r].attempt = 1
        /\ row'[r].continues = NoRun /\ row'[r].state = "clean-pending"
    BY <2>1 DEF QueuedRow, NoRow
  <2>4. UNCHANGED <<live, revival, post, retiring, server>>
    BY DEF Dispatch
  <2> QED BY <1>3, <2>1, <2>2, <2>3, <2>4 DEF RunOK, RowOK, AbsentOK, TaskOK, RevivalOK,
             LiveOK, DrivenOK, PostOK, Idle, Up
<1> QED BY <1>2, <1>3

LEMMA ContinueInsertsRuns == ASSUME RunsInv, NEW c \in continuing, NEW r \in Runs, ContinueInserts(c, r) PROVE \A q \in Runs : RunOK(q)'
<1> SUFFICES ASSUME NEW q \in Runs PROVE RunOK(q)'
  OBVIOUS
<1>1. TypeOK /\ RunOK(q) /\ r \in Runs /\ RunOK(r)
  BY DEF RunsInv
<1>2. CASE q # r
  <2>1. c.parent \in Runs /\ (q = c.parent => row[q].status \in Terminal)
    BY <1>1, CallShapes DEF TypeOK, RunsInv, ContinueOK
  <2>2. /\ row'[q] = row[q] /\ task'[q] = task[q]
        /\ UNCHANGED <<live, revival, retiring, server>>
    BY <1>1, <1>2 DEF ContinueInserts, TypeOK
  <2>3. post'[q] = post[q] \/ row[q].status \in Terminal
    BY <1>1, <2>1 DEF ContinueInserts, TypeOK
  <2> QED BY <1>1, <2>2, <2>3 DEF RunOK, RowOK, AbsentOK, TaskOK, RevivalOK, LiveOK,
             DrivenOK, PostOK, Up, Terminal
<1>3. CASE q = r
  <2>1. \E n \in Nat : row'[r] = QueuedRow(c.parent, n)
    <3>1. c.parent \in Runs /\ row[c.parent].count \in Nat
      BY <1>1, CallShapes, RowShapes DEF TypeOK
    <3>2. row[c.parent].count + 1 \in Nat
      BY <3>1
    <3> QED BY <1>1, <3>2 DEF ContinueInserts, TypeOK
  <2>0. c.parent \in Runs /\ c.parent # NoRun
    BY <1>1, CallShapes, RunsAssumption DEF TypeOK
  <2>2. task'[r].at = "starting" /\ c.parent \in Runs /\ c.parent # NoRun
    BY <1>1, <2>0 DEF ContinueInserts, TypeOK, Awaits
  <2>3. live[r] = NoLive /\ revival[r] = Idle /\ post[r] = "none" /\ r \notin retiring
    BY <1>1, RowEffects DEF ContinueInserts, RunOK, AbsentOK
  <2>4. /\ row'[r].status = "queued" /\ row'[r].attempt = 1
        /\ row'[r].continues # NoRun /\ row'[r].state = "resume-pending"
    BY <2>1, <2>2, RowEffects
  <2>5. c.parent # r
    BY <1>1, RowEffects DEF ContinueInserts, RunsInv, ContinueOK, Terminal
  <2>6. UNCHANGED <<live, revival, retiring, server>> /\ post'[r] = "none"
    BY <2>3, <2>5, <1>1 DEF ContinueInserts, TypeOK
  <2> QED BY <1>3, <2>2, <2>3, <2>4, <2>6 DEF RunOK, RowOK, AbsentOK, TaskOK, RevivalOK,
             LiveOK, DrivenOK, PostOK, Idle, Up
<1> QED BY <1>2, <1>3

LEMMA ContinueRefusedRuns ==
  ASSUME RunsInv, NEW c \in continuing, ContinueRefused(c) PROVE \A q \in Runs : RunOK(q)'
<1> SUFFICES ASSUME NEW q \in Runs PROVE RunOK(q)'
  OBVIOUS
<1>1. RunOK(q) /\ (q = c.parent => row[q].status \in Terminal)
  BY DEF RunsInv, ContinueOK
<1>2. UNCHANGED <<row, live, task, revival, retiring, server>>
  BY DEF ContinueRefused
<1>3. post'[q] = post[q] \/ row[q].status \in Terminal
  BY <1>1 DEF ContinueRefused, RunsInv, TypeOK
<1> QED BY <1>1, <1>2, <1>3 DEF RunOK, RowOK, AbsentOK, TaskOK, RevivalOK, LiveOK,
           DrivenOK, PostOK, Up, Terminal

LEMMA StartPreparesRuns == ASSUME RunsInv, NEW r \in Runs, StartPrepares(r) PROVE \A q \in Runs : RunOK(q)'
<1> SUFFICES ASSUME NEW q \in Runs PROVE RunOK(q)'
  OBVIOUS
<1>1. TypeOK /\ RunOK(q) /\ r \in Runs /\ RunOK(r)
  BY DEF RunsInv
<1>2. CASE q # r
  BY <1>1, <1>2, RunFrame DEF StartPrepares, TypeOK
<1>3. CASE q = r
  <2>1. /\ UNCHANGED <<live, revival, post, retiring, server>>
        /\ row[r].status \in {"queued"} \cup Terminal /\ live[r] = NoLive
        /\ row[r] \in Row /\ row[r].attempt \in Nat
    BY <1>1, RowAttempt DEF StartPrepares, RunOK, TaskOK, TypeOK, Idle
  <2>2. CASE row' = row /\ task'[r] = Idle /\ ~(Up /\ Active(row[r]))
    BY <1>1, <1>3, <2>1, <2>2 DEF RunOK, RowOK, AbsentOK, TaskOK, RevivalOK, LiveOK,
       DrivenOK, PostOK, Idle, Up
  <2>3. CASE /\ Active(row[r]) /\ task'[r] = [at |-> "minting", attempt |-> row[r].attempt + 1]
             /\ \/ row[r].state = "clean-pending"
                   /\ row'[r] = [PreparedCreate(row[r]) EXCEPT !.status = "spawning"]
                \/ row'[r] = [PreparedResume(row[r]) EXCEPT !.status = "spawning"]
    <3>1. /\ row'[r].status = "spawning" /\ row'[r].attempt = row[r].attempt + 1
          /\ row'[r].state \in Pending
      <4>1. /\ PreparedCreate(row[r]) \in Row /\ PreparedResume(row[r]) \in Row
            /\ "spawning" \in NonTerminal
        BY <2>1, RowShapes DEF NonTerminal
      <4>2. /\ PreparedCreate(row[r]).state = row[r].state
            /\ PreparedCreate(row[r]).attempt = row[r].attempt + 1
            /\ PreparedResume(row[r]).state = "resume-pending"
            /\ PreparedResume(row[r]).attempt = row[r].attempt + 1
        BY <2>1, RowEffects
      <4>3. \A rw \in Row : /\ [rw EXCEPT !.status = "spawning"].status = "spawning"
                            /\ [rw EXCEPT !.status = "spawning"].state = rw.state
                            /\ [rw EXCEPT !.status = "spawning"].attempt = rw.attempt
        BY DEF Row
      <4> QED BY <2>3, <4>1, <4>2, <4>3 DEF Pending
    <3>2. row[r].attempt > 0 /\ post[r] = "none"
      BY <1>1, <2>1, <2>3 DEF RunOK, RowOK, PostOK, Active, NonTerminal, Terminal
    <3> QED BY <1>1, <1>3, <2>1, <2>3, <3>1, <3>2 DEF RunOK, RowOK, AbsentOK, TaskOK,
               RevivalOK, LiveOK, DrivenOK, PostOK, Idle, Up, Terminal, Active, NonTerminal
  <2>4. \/ row' = row /\ task'[r] = Idle /\ ~(Up /\ Active(row[r]))
        \/ /\ Active(row[r]) /\ task'[r] = [at |-> "minting", attempt |-> row[r].attempt + 1]
           /\ \/ row[r].state = "clean-pending"
                 /\ row'[r] = [PreparedCreate(row[r]) EXCEPT !.status = "spawning"]
              \/ row'[r] = [PreparedResume(row[r]) EXCEPT !.status = "spawning"]
    BY <1>1, <2>1 DEF StartPrepares, TypeOK, RunOK, RowOK, CreatePreparable, ResumePreparable,
       ResumeReady, Active, Terminal, NonTerminal
  <2> QED BY <2>2, <2>3, <2>4
<1> QED BY <1>2, <1>3

LEMMA MintResolvesRuns == ASSUME RunsInv, NEW r \in Runs, MintResolves(r) PROVE \A q \in Runs : RunOK(q)'
<1> SUFFICES ASSUME NEW q \in Runs PROVE RunOK(q)'
  OBVIOUS
<1>1. TypeOK /\ RunOK(q) /\ r \in Runs /\ RunOK(r)
  BY DEF RunsInv
<1>2. CASE q # r
  BY <1>1, <1>2, RunFrame DEF MintResolves, TypeOK
<1>3. CASE q = r
  <2>1. /\ UNCHANGED <<row, revival, post, retiring, server>> /\ task'[r] = Idle
        /\ task[r].at = "minting" /\ task[r].attempt > 0 /\ row[r].status \in {"spawning"} \cup Terminal
        /\ row[r].status = "spawning" => row[r].attempt = task[r].attempt /\ row[r].state \in Pending
        /\ live[r] = NoLive
    BY <1>1 DEF MintResolves, TypeOK, RunOK, TaskOK, Idle
  <2>2. CASE InstallAllowed(r, task[r].attempt)
    <3>1. /\ live'[r] = [attempt |-> task[r].attempt, confirmed |-> FALSE, turn |-> "open"]
          /\ Up /\ row[r].status = "spawning"
      BY <1>1, <2>1, <2>2 DEF MintResolves, TypeOK, InstallAllowed, Active, NonTerminal, Terminal
    <3> QED BY <1>1, <1>3, <2>1, <3>1 DEF RunOK, RowOK, AbsentOK, TaskOK, RevivalOK, LiveOK,
               DrivenOK, PostOK, Up, Pending, Confirmed, Idle, NoLive, Terminal
  <2>3. CASE ~InstallAllowed(r, task[r].attempt)
    <3>1. live' = live /\ ~(Up /\ row[r].status = "spawning")
      BY <1>1, <2>1, <2>3 DEF MintResolves, InstallAllowed, Active, NonTerminal, Pending
    <3> QED BY <1>1, <1>3, <2>1, <3>1 DEF RunOK, RowOK, AbsentOK, TaskOK, RevivalOK, LiveOK,
               DrivenOK, PostOK, Up, Idle, Active, NonTerminal, Terminal
  <2> QED BY <2>2, <2>3
<1> QED BY <1>2, <1>3

LEMMA RevivalMintedRuns == ASSUME RunsInv, NEW r \in Runs, RevivalMinted(r) PROVE \A q \in Runs : RunOK(q)'
<1> SUFFICES ASSUME NEW q \in Runs PROVE RunOK(q)'
  OBVIOUS
<1>1. TypeOK /\ RunOK(q) /\ r \in Runs /\ RunOK(r)
  BY DEF RunsInv
<1>2. CASE q # r
  BY <1>1, <1>2, RunFrame DEF RevivalMinted, TypeOK
<1>3. CASE q = r
  <2>1. /\ UNCHANGED <<row, task, post, retiring, server>> /\ revival'[r] = Idle
        /\ revival[r].at = "minting" /\ revival[r] # Idle /\ live[r] = NoLive
        /\ revival[r].attempt > 0 /\ row[r].status \in {"paused"} \cup Terminal
        /\ row[r].status # "none"
    BY <1>1 DEF RevivalMinted, TypeOK, RunOK, RevivalOK, Idle, Terminal
  <2>2. CASE RevivalInstallable(r)
    <3>1. /\ live'[r] = [attempt |-> revival[r].attempt, confirmed |-> FALSE, turn |-> "none"]
          /\ Up /\ row[r].status = "paused" /\ row[r].state = "resume-pending"
          /\ row[r].attempt = revival[r].attempt
      BY <1>1, <2>2 DEF RevivalMinted, TypeOK, RevivalInstallable
    <3>2. task[r] = Idle
      BY <1>1, <3>1 DEF RunOK, TaskOK, Terminal, TypeOK, Awaits
    <3> QED BY <1>1, <1>3, <2>1, <3>1, <3>2 DEF RunOK, RowOK, AbsentOK, TaskOK, RevivalOK,
               LiveOK, DrivenOK, PostOK, Up, Pending, Confirmed, Idle, NoLive
  <2>3. CASE ~RevivalInstallable(r)
    <3>1. live' = live
      BY <2>3 DEF RevivalMinted
    <3> QED BY <1>1, <1>3, <2>1, <3>1 DEF RunOK, RowOK, AbsentOK, TaskOK, RevivalOK, LiveOK,
               DrivenOK, PostOK, Up, Idle
  <2> QED BY <2>2, <2>3
<1> QED BY <1>2, <1>3

LEMMA AnswerSentRuns == ASSUME RunsInv, NEW x \in answering, AnswerSent(x) PROVE \A q \in Runs : RunOK(q)'
<1> SUFFICES ASSUME NEW q \in Runs PROVE RunOK(q)'
  OBVIOUS
<1>1. TypeOK /\ RunOK(q) /\ ask[x.ask].run \in Runs /\ RunOK(ask[x.ask].run)
  BY AnswerRun DEF RunsInv
<1>2. CASE q # ask[x.ask].run
  BY <1>1, <1>2, RunFrame DEF AnswerSent, TypeOK, Resumable
<1>3. CASE q = ask[x.ask].run
  <2> DEFINE r == ask[x.ask].run
  <2>1. /\ UNCHANGED <<task, revival, post, retiring, server>>
        /\ Active(row[r]) /\ ask[x.ask].status = "open" /\ live[r].attempt = x.attempt
        /\ row[r] \in Row /\ x.at = "leasing"
    BY <1>1 DEF AnswerSent, Resumable, SessionFree, TypeOK
  <2>2. row[r].status = "paused" /\ x.attempt > 0 /\ x.ask \in Asks
    BY <1>1, <2>1, CallShapes DEF RunsInv, TypeOK, AskOK, AnswerOK, Active, NonTerminal, Terminal
  <2>3. live[r] # NoLive
    BY <2>1, <2>2 DEF NoLive
  <2>4. /\ row'[r] = AnsweredRow(row[r])
        /\ live'[r].attempt = live[r].attempt /\ live'[r].confirmed = live[r].confirmed
    BY <1>1 DEF AnswerSent, TypeOK, Runtime
  <2>5. /\ row'[r].status = IF row[r].state \in Confirmed THEN "running" ELSE "spawning"
        /\ row'[r].state = row[r].state /\ row'[r].attempt = row[r].attempt
    BY <2>1, <2>4, RowEffects
  <2>6. live'[r] # NoLive
    BY <2>1, <2>2, <2>4 DEF NoLive
  <2>7. /\ task[r] = Idle /\ revival[r] = Idle /\ post[r] = "none" /\ row[r].attempt > 0
        /\ Up /\ live[r].attempt = row[r].attempt
        /\ live[r].confirmed <=> row[r].state \in Confirmed
        /\ ~live[r].confirmed => row[r].state \in Pending
    BY <1>1, <2>2, <2>3 DEF RunOK, RowOK, TaskOK, RevivalOK, LiveOK, PostOK, Terminal
  <2> QED BY <1>3, <2>1, <2>4, <2>5, <2>6, <2>7 DEF RunOK, RowOK, AbsentOK, TaskOK, RevivalOK,
             LiveOK, DrivenOK, PostOK, Up, Idle
<1> QED BY <1>2, <1>3

LEMMA SweepDoneRuns == ASSUME RunsInv, SweepDone PROVE \A q \in Runs : RunOK(q)'
<1>1. ~Up /\ ~Up'
  BY DEF SweepDone, RunsInv, TypeOK, Process, Up
<1>2. UNCHANGED <<row, live, task, revival, post, retiring>>
  BY DEF SweepDone, durable
<1> QED BY <1>1, <1>2 DEF RunsInv, RunOK, RowOK, AbsentOK, TaskOK, RevivalOK, LiveOK,
           DrivenOK, PostOK

LEMMA AttachServerRuns == ASSUME RunsInv, AttachServer PROVE \A q \in Runs : RunOK(q)'
<1> SUFFICES ASSUME NEW q \in Runs PROVE RunOK(q)'
  OBVIOUS
<1>1. UNCHANGED <<row, live, task, revival, post, retiring>>
  BY DEF AttachServer, durable
<1>2. Active(row[q]) => row[q].status = "paused"
  BY DEF AttachServer, RunsInv, BootOK, Swept, LeftPaused, SealedRun
<1>3. live[q] = NoLive /\ RunOK(q)
  BY DEF AttachServer, RunsInv, BootOK
<1> QED BY <1>1, <1>2, <1>3 DEF RunOK, RowOK, AbsentOK, TaskOK, RevivalOK, LiveOK, DrivenOK, PostOK

LEMMA RecoverAgentRunRuns == ASSUME RunsInv, NEW r \in Runs, RecoverAgentRun(r) PROVE \A q \in Runs : RunOK(q)'
<1> SUFFICES ASSUME NEW q \in Runs PROVE RunOK(q)'
  OBVIOUS
<1>1. TypeOK /\ RunOK(q) /\ r \in Runs /\ RunOK(r)
  BY DEF RunsInv
<1>2. CASE q # r
  BY <1>1, <1>2, RunFrame DEF RecoverAgentRun, TypeOK, OpenAsks
<1>3. CASE q = r
  <2>1. /\ row'[r] = EndedRow(row[r], "failed", "other") /\ row[r] \in Row
        /\ UNCHANGED <<live, task, revival, retiring, server>>
    BY <1>1 DEF RecoverAgentRun, TypeOK
  <2>2. row'[r].status \in Terminal /\ row'[r].attempt = row[r].attempt
    BY <2>1, EndedEffects DEF Terminal
  <2>3. ~Up /\ live[r] = NoLive /\ task[r] = Idle /\ revival[r] = Idle
    BY DEF RecoverAgentRun, RunsInv, BootOK, Up
  <2>4. row[r].attempt > 0
    <3>1. Active(row[r])
      BY DEF RecoverAgentRun, Swept, SealedRun
    <3>2. row[r].status # "none"
      BY <3>1 DEF Active, NonTerminal
    <3> QED BY <1>1, <3>2 DEF RunOK, RowOK
  <2> QED BY <1>3, <2>1, <2>2, <2>3, <2>4 DEF RunOK, RowOK, AbsentOK, TaskOK, RevivalOK,
             LiveOK, DrivenOK, PostOK, Up, Terminal, Idle
<1> QED BY <1>2, <1>3

LEMMA RecoverSealedRunRuns == ASSUME RunsInv, NEW r \in Runs, RecoverSealedRun(r) PROVE \A q \in Runs : RunOK(q)'
<1> SUFFICES ASSUME NEW q \in Runs PROVE RunOK(q)'
  OBVIOUS
<1>1. TypeOK /\ RunOK(q) /\ r \in Runs /\ RunOK(r)
  BY DEF RunsInv
<1>2. CASE q # r
  BY <1>1, <1>2, RunFrame DEF RecoverSealedRun, TypeOK
<1>3. CASE q = r
  <2>1. /\ row'[r] = EndedRow(row[r], "completed", "none") /\ row[r] \in Row
        /\ UNCHANGED <<live, task, revival, retiring, server>>
    BY <1>1 DEF RecoverSealedRun, TypeOK
  <2>2. row'[r].status \in Terminal /\ row'[r].attempt = row[r].attempt
    BY <2>1, EndedEffects DEF Terminal
  <2>3. ~Up /\ live[r] = NoLive /\ task[r] = Idle /\ revival[r] = Idle
    BY DEF RecoverSealedRun, RunsInv, BootOK, Up
  <2>4. row[r].attempt > 0
    <3>1. Active(row[r])
      BY DEF RecoverSealedRun, Swept, SealedRun
    <3>2. row[r].status # "none"
      BY <3>1 DEF Active, NonTerminal
    <3> QED BY <1>1, <3>2 DEF RunOK, RowOK
  <2> QED BY <1>3, <2>1, <2>2, <2>3, <2>4 DEF RunOK, RowOK, AbsentOK, TaskOK, RevivalOK,
             LiveOK, DrivenOK, PostOK, Up, Terminal, Idle
<1> QED BY <1>2, <1>3

LEMMA RecoverPausedAskRuns == ASSUME RunsInv, NEW r \in Runs, RecoverPausedAsk(r) PROVE \A q \in Runs : RunOK(q)'
<1> SUFFICES ASSUME NEW q \in Runs PROVE RunOK(q)'
  OBVIOUS
<1>1. TypeOK /\ RunOK(q) /\ r \in Runs /\ RunOK(r)
  BY DEF RunsInv
<1>2. CASE q # r
  BY <1>1, <1>2, RunFrame DEF RecoverPausedAsk, TypeOK, durable, Revive
<1>3. CASE q = r
  <2>1. /\ UNCHANGED <<row, live, task, post, retiring>> /\ server'.phase = server.phase
        /\ Up /\ (revival' = revival \/ (/\ live[r] = NoLive /\ row[r].status = "paused"
                                        /\ revival[r] = Idle /\ revival'[r].at = "starting"))
    BY <1>1 DEF RecoverPausedAsk, durable, NeedsRevival, Revive, TypeOK, Process, Awaits, Up
  <2> QED BY <1>1, <1>3, <2>1 DEF RunOK, RowOK, AbsentOK, TaskOK, RevivalOK, LiveOK,
             DrivenOK, PostOK, Up, Idle
<1> QED BY <1>2, <1>3

LEMMA RecoverAutoContinueRuns == ASSUME RunsInv, NEW r \in Runs, RecoverAutoContinue(r) PROVE \A q \in Runs : RunOK(q)'
<1> SUFFICES ASSUME NEW q \in Runs PROVE RunOK(q)'
  OBVIOUS
<1>1. TypeOK /\ RunOK(q) /\ r \in Runs /\ RunOK(r)
  BY DEF RunsInv
<1>2. CASE q # r
  BY <1>1, <1>2, RunFrame DEF RecoverAutoContinue, TypeOK, durable
<1>3. CASE q = r
  <2>1. /\ UNCHANGED <<row, live, task, revival, retiring>> /\ server'.phase = server.phase
        /\ post'[r] = post[r] \/ row[r].status \in Terminal
    BY <1>1 DEF RecoverAutoContinue, durable, TypeOK, Process, RunsInv, ResumeOK
  <2> QED BY <1>1, <1>3, <2>1 DEF RunOK, RowOK, AbsentOK, TaskOK, RevivalOK, LiveOK,
             DrivenOK, PostOK, Up, Terminal
<1> QED BY <1>2, <1>3

\* A settlement keeps the runs in order when it takes the row as it is, or as
\* the same step has changed it.
LEMMA SettledRuns ==
  ASSUME RunsInv, NEW r \in Runs, NEW rw \in Row, NEW s \in Terminal,
         NEW c \in {"none", "turn-budget-exhausted", "other"}, NEW f \in Nat,
         SettleTerminal(r, rw, s, c, f),
         rw.attempt = row[r].attempt,
         Active(rw) <=> Active(row[r]), ~Active(row[r]) => rw = row[r],
         Active(rw) => f \in {0, rw.attempt},
         UNCHANGED <<revival, server>>, task' \in {task, [task EXCEPT ![r] = Idle]}
  PROVE  \A q \in Runs : RunOK(q)'
<1> SUFFICES ASSUME NEW q \in Runs PROVE RunOK(q)'
  OBVIOUS
<1>1. TypeOK /\ RunOK(q) /\ RunOK(r)
  BY DEF RunsInv
<1>2. CASE q # r
  BY <1>1, <1>2, Settles, RunFrame DEF TypeOK
<1>3. CASE q = r /\ Active(rw)
  <2>1. row'[r] = EndedRow(rw, s, c)
    BY <1>1, <1>3, Settles DEF TypeOK
  <2>2. row'[r].status \in Terminal /\ row'[r].attempt = row[r].attempt
    BY <2>1, EndedEffects DEF Terminal
  <2>3. row[r].status # "none" /\ row[r].attempt > 0
    BY <1>1, <1>3 DEF RunOK, RowOK, Active, NonTerminal
  <2>4. live[r] # NoLive => f \in {0, live[r].attempt}
    BY <1>1, <1>3 DEF RunOK, LiveOK
  <2>5. live'[r] = NoLive
    BY <1>1, <1>3, <2>4, Settles DEF TypeOK
  <2>6. task'[r] = task[r] \/ task'[r] = Idle
    BY <1>1 DEF TypeOK
  <2> QED BY <1>1, <1>3, <2>2, <2>3, <2>5, <2>6 DEF RunOK, RowOK, AbsentOK, TaskOK, RevivalOK,
             LiveOK, DrivenOK, PostOK, Up, Terminal, Idle, Active, NonTerminal
<1>4. CASE q = r /\ ~Active(rw)
  <2>1. UNCHANGED <<row, live, retiring, post>>
    BY <1>1, <1>4, Settles DEF TypeOK
  <2>2. task'[r] = task[r] \/ task'[r] = Idle
    BY <1>1 DEF TypeOK
  <2> QED BY <1>1, <1>4, <2>1, <2>2 DEF RunOK, RowOK, AbsentOK, TaskOK, RevivalOK,
             LiveOK, DrivenOK, PostOK, Up, Idle
<1> QED BY <1>2, <1>3, <1>4

-----------------------------------------------------------------------------
(* What a step does to the rows, to the questions and to the runtimes.     *)

\* An ended run stays as it ended, and no row goes away.
RowsMove ==
  \A q \in Runs : /\ row[q].status \in Terminal => row'[q].status = row[q].status
                  /\ row[q].status # "none" => row'[q].status # "none"

\* A run is paused or woken by a step about its question only.
RowsQuiet ==
  /\ ask' = ask
  /\ \A q \in Runs : /\ row[q].status = "paused" => row'[q].status \in {"paused"} \cup Terminal
                     /\ row'[q].status = "paused" => row[q].status = "paused"

\* A run whose runtime a call holds keeps its attempt and that runtime.
RunsSteady ==
  \A q \in Runs :
    revival[q] = Idle /\ Active(row[q]) /\ Active(row'[q]) /\ (Up => live[q] # NoLive) =>
      /\ row'[q].attempt = row[q].attempt /\ revival'[q] = Idle
      /\ Up' => Up /\ live'[q].attempt = live[q].attempt

\* The rows change as the triggers allow, and keep their parents.
RowsAllowed == \A q \in Runs : row'[q] # row[q] => RowMoveAllowed(row[q], row'[q])

ParentsKept == \A q \in Runs : row'[q].continues = row[q].continues

\* The row that a settlement may be given: as it is, or marked by a failed resume.
SettleRow(old, rw) ==
  /\ rw.continues = old.continues
  /\ \/ rw.state = old.state
     \/ /\ old.state = "resume-pending" /\ rw.state = "resume-failed"
        /\ old.status \in {"spawning", "paused"}

\* A settlement ends one run, and its runtime with it, or changes nothing.
SettledRun(r) ==
  /\ RowsMove /\ RunsSteady /\ RowsAllowed /\ ParentsKept
  /\ \A q \in Runs : row'[q] = row[q] \/ (q = r /\ row'[q].status \in Terminal)
  /\ Active(row[r]) => row'[r].status \in Terminal
  /\ ~Active(row[r]) => row' = row
  /\ live'[r] = live[r] \/ (live'[r] = NoLive /\ (live[r] # NoLive => r \in retiring'))
  /\ live'[r] = NoLive \/ ~Active(row[r])
  /\ \A q \in Runs \ {r} : live'[q] = live[q] /\ (q \in retiring' <=> q \in retiring)
  /\ r \in retiring => r \in retiring'
  /\ live[r] = NoLive => (r \in retiring' <=> r \in retiring)

LEMMA SettledMoves ==
  ASSUME RunsInv, NEW r \in Runs, NEW rw \in Row, NEW s \in Terminal,
         NEW c \in {"none", "turn-budget-exhausted", "other"}, NEW f \in Nat,
         SettleTerminal(r, rw, s, c, f), rw.attempt = row[r].attempt,
         Active(rw) <=> Active(row[r]), ~Active(row[r]) => rw = row[r],
         Active(rw) => f \in {0, rw.attempt}, UNCHANGED <<revival, server>>,
         SettleRow(row[r], rw)
  PROVE  SettledRun(r)
<1>1. TypeOK
  BY DEF RunsInv
<1>2. CASE Active(rw)
  <2>1. row' = [row EXCEPT ![r] = EndedRow(rw, s, c)] /\ EndedRow(rw, s, c).status \in Terminal
    BY <1>1, <1>2, Settles, EndedEffects
  <2>2. \A q \in Runs : row'[q] = row[q] \/ (q = r /\ row'[q].status \in Terminal)
    BY <1>1, <2>1 DEF TypeOK
  <2>3. row'[r].status \in Terminal /\ row[r].status \notin Terminal
    BY <1>1, <1>2, <2>1 DEF TypeOK, Active, NonTerminal, Terminal
  <2>4. RowsMove
    BY <2>2, <2>3 DEF RowsMove, Terminal
  <2>5. /\ live'[r] = live[r] \/ (live'[r] = NoLive /\ r \in retiring')
        /\ \A q \in Runs \ {r} : live'[q] = live[q] /\ (q \in retiring' <=> q \in retiring)
        /\ r \in retiring => r \in retiring'
    BY <1>1, <1>2, Settles DEF TypeOK
  <2>6. /\ live'[r] = NoLive
        /\ live[r] = NoLive => (r \in retiring' <=> r \in retiring)
        /\ live[r] # NoLive => r \in retiring'
    <3>1. live[r] # NoLive => f \in {0, live[r].attempt}
      BY <1>2 DEF RunsInv, RunOK, LiveOK
    <3> QED BY <1>1, <1>2, <3>1, Settles DEF TypeOK
  <2>7. RunsSteady
    <3>1. ~Active(row'[r])
      BY <2>3 DEF Active, NonTerminal, Terminal
    <3> QED BY <2>2, <2>5, <3>1 DEF RunsSteady, Up
  <2>8. RowsAllowed /\ ParentsKept
    <3>1. /\ row'[r].state = rw.state /\ row'[r].attempt = rw.attempt
          /\ row'[r].continues = rw.continues
      BY <1>1, <2>1, EndedEffects DEF TypeOK
    <3>2. RowMoveAllowed(row[r], row'[r])
      BY <2>3, <3>1 DEF SettleRow, RowMoveAllowed, Terminal
    <3>3. \A q \in Runs : q # r => row'[q] = row[q]
      BY <1>1, <2>1 DEF TypeOK
    <3> QED BY <3>1, <3>2, <3>3 DEF RowsAllowed, ParentsKept, SettleRow
  <2> QED BY <1>2, <2>2, <2>3, <2>4, <2>5, <2>6, <2>7, <2>8 DEF SettledRun
<1>3. CASE ~Active(rw)
  <2>1. UNCHANGED <<row, live, retiring>>
    BY <1>1, <1>3, Settles DEF TypeOK
  <2> QED BY <1>3, <2>1 DEF SettledRun, RowsMove, RunsSteady, RowsAllowed, ParentsKept, Up
<1> QED BY <1>2, <1>3

\* A row marked by a failed resume is as active as before.
LEMMA ResumeFailedActive ==
  ASSUME NEW rw \in Row, NEW n \in Nat
  PROVE  /\ ResumeFailedRow(rw, n) \in Row /\ ResumeFailedRow(rw, n).attempt = rw.attempt
         /\ Active(ResumeFailedRow(rw, n)) <=> Active(rw)
         /\ ~Active(rw) => ResumeFailedRow(rw, n) = rw
         /\ SettleRow(rw, ResumeFailedRow(rw, n))
<1>1. /\ ResumeFailedRow(rw, n).attempt = rw.attempt /\ ResumeFailedRow(rw, n).status = rw.status
      /\ SettleRow(rw, ResumeFailedRow(rw, n))
  BY ResumeFailedEffects DEF SettleRow
<1>2. ~Active(rw) => ResumeFailedRow(rw, n) = rw
  BY DEF ResumeFailedRow, Active, NonTerminal
<1> QED BY <1>1, <1>2, RowShapes DEF Active

\* The row an answer writes is as active as the row it finds.
LEMMA AnsweredActive ==
  ASSUME NEW rw \in Row
  PROVE  AnsweredRow(rw) \in Row /\ AnsweredRow(rw).attempt = rw.attempt /\ Active(AnsweredRow(rw))
<1>1. /\ AnsweredRow(rw).status \in {"running", "spawning"}
      /\ AnsweredRow(rw).attempt = rw.attempt
  BY RowEffects
<1> QED BY <1>1, RowShapes DEF Active, NonTerminal

LEMMA StartRefusedRuns ==
  ASSUME RunsInv, NEW r \in Runs, StartRefused(r) PROVE (\A q \in Runs : RunOK(q)') /\ SettledRun(r)
<1>1. /\ row[r] \in Row /\ "failed" \in Terminal /\ 0 \in Nat
      /\ SettleTerminal(r, row[r], "failed", "other", 0)
      /\ UNCHANGED <<revival, server>> /\ task' = [task EXCEPT ![r] = Idle]
  BY DEF StartRefused, RunsInv, TypeOK, Terminal
<1> QED BY <1>1, SettledRuns, SettledMoves DEF SettleRow

LEMMA MintFailsRuns ==
  ASSUME RunsInv, NEW r \in Runs, MintFails(r) PROVE (\A q \in Runs : RunOK(q)') /\ SettledRun(r)
<1> DEFINE n == task[r].attempt
           rw == ResumeFailedRow(row[r], n)
<1>1. /\ row[r] \in Row /\ "failed" \in Terminal /\ n \in Nat
      /\ SettleTerminal(r, rw, "failed", "other", n)
      /\ UNCHANGED <<revival, server>> /\ task' = [task EXCEPT ![r] = Idle]
  BY AwaitShapes DEF MintFails, RunsInv, TypeOK, Terminal
<1>2. Active(row[r]) => row[r].attempt = n
  BY DEF MintFails, RunsInv, RunOK, TaskOK, Active, NonTerminal, Terminal
<1>3. rw \in Row /\ rw.attempt = row[r].attempt /\ (Active(rw) <=> Active(row[r]))
      /\ (~Active(row[r]) => rw = row[r]) /\ SettleRow(row[r], rw)
  BY <1>1, ResumeFailedActive
<1> HIDE DEF n, rw
<1> QED BY <1>1, <1>2, <1>3, SettledRuns, SettledMoves

\* A turn of the installed runtime speaks with the attempt of its row.
LEMMA TurnOfRow ==
  ASSUME RunsInv, NEW r \in Runs, LiveIsCurrent(r)
  PROVE  /\ row[r] \in Row /\ "failed" \in Terminal /\ "completed" \in Terminal
         /\ live[r].attempt \in Nat /\ live[r].attempt = row[r].attempt
  BY RuntimeShapes DEF RunsInv, TypeOK, LiveIsCurrent, Terminal

LEMMA TurnBreaksRuns ==
  ASSUME RunsInv, NEW r \in Runs, TurnBreaks(r) PROVE (\A q \in Runs : RunOK(q)') /\ SettledRun(r)
<1> DEFINE n == live[r].attempt
           rw == ResumeFailedRow(row[r], n)
<1>1. LiveIsCurrent(r) /\ SettleTerminal(r, rw, "failed", "other", n)
      /\ UNCHANGED <<revival, server, task>>
  BY DEF TurnBreaks, InTurn
<1>2. row[r] \in Row /\ "failed" \in Terminal /\ n \in Nat /\ n = row[r].attempt
  BY <1>1, TurnOfRow
<1>3. rw \in Row /\ rw.attempt = row[r].attempt /\ (Active(rw) <=> Active(row[r]))
      /\ (~Active(row[r]) => rw = row[r]) /\ SettleRow(row[r], rw)
  BY <1>2, ResumeFailedActive
<1> HIDE DEF n, rw
<1> QED BY <1>1, <1>2, <1>3, SettledRuns, SettledMoves

LEMMA TurnFailsRuns ==
  ASSUME RunsInv, NEW r \in Runs, NEW cause \in {"turn-budget-exhausted", "other"},
         TurnFails(r, cause)
  PROVE  (\A q \in Runs : RunOK(q)') /\ SettledRun(r)
<1>1. LiveIsCurrent(r) /\ SettleTerminal(r, row[r], "failed", cause, live[r].attempt)
      /\ UNCHANGED <<revival, server, task>>
  BY DEF TurnFails, InTurn
<1>2. /\ row[r] \in Row /\ "failed" \in Terminal /\ live[r].attempt \in Nat
      /\ live[r].attempt = row[r].attempt /\ cause \in {"none", "turn-budget-exhausted", "other"}
  BY <1>1, TurnOfRow
<1> QED BY <1>1, <1>2, SettledRuns, SettledMoves DEF SettleRow

LEMMA DoorClosesRuns ==
  ASSUME RunsInv, NEW r \in Runs, NEW found \in {"file", "none", "invalid"}, DoorCloses(r, found)
  PROVE  (\A q \in Runs : RunOK(q)') /\ SettledRun(r)
<1> DEFINE rw == IF found = "file" /\ ~row[r].delivered
                 THEN [row[r] EXCEPT !.delivered = TRUE] ELSE row[r]
           s == IF found = "invalid" THEN "failed" ELSE "completed"
           c == IF found = "invalid" THEN "other" ELSE "none"
<1>1. LiveIsCurrent(r) /\ SettleTerminal(r, rw, s, c, live[r].attempt)
      /\ UNCHANGED <<revival, server, task>>
  BY DEF DoorCloses
<1>2. /\ row[r] \in Row /\ s \in Terminal /\ c \in {"none", "turn-budget-exhausted", "other"}
      /\ live[r].attempt \in Nat /\ live[r].attempt = row[r].attempt /\ Active(row[r])
  BY <1>1, TurnOfRow DEF LiveIsCurrent
<1>3. rw \in Row /\ rw.attempt = row[r].attempt /\ rw.status = row[r].status
      /\ SettleRow(row[r], rw)
  BY <1>2, RowShapes, RowEffects DEF SettleRow
<1>4. Active(rw)
  BY <1>2, <1>3 DEF Active
<1> HIDE DEF rw, s, c
<1> QED BY <1>1, <1>2, <1>3, <1>4, SettledRuns, SettledMoves

LEMMA AnswerUnsentRuns ==
  ASSUME RunsInv, NEW x \in answering, AnswerUnsent(x) PROVE (\A q \in Runs : RunOK(q)') /\ SettledRun(ask[x.ask].run)
<1> DEFINE r == ask[x.ask].run
           rw == ResumeFailedRow(AnsweredRow(row[r]), x.attempt)
<1>1. r \in Runs /\ x.attempt \in Nat /\ row[r] \in Row /\ "failed" \in Terminal
  BY AnswerRun DEF RunsInv, TypeOK, Terminal
<1>2. /\ SettleTerminal(r, rw, "failed", "other", x.attempt)
      /\ UNCHANGED <<revival, server, task>>
      /\ Active(row[r]) /\ x.at = "leasing"
  BY DEF AnswerUnsent, Resumable
<1>3. row[r].attempt = x.attempt
  BY <1>2 DEF RunsInv, AnswerOK
<1>4. rw \in Row /\ rw.attempt = row[r].attempt /\ Active(rw)
  BY <1>1, AnsweredActive, ResumeFailedActive
<1>5. SettleRow(row[r], rw)
  <2>1. row[r].status = "paused"
    BY <1>2, AnswerRun DEF RunsInv, AskOK, AnswerUnsent, Resumable, Active, NonTerminal, Terminal
  <2>2. /\ AnsweredRow(row[r]) \in Row /\ AnsweredRow(row[r]).state = row[r].state
        /\ AnsweredRow(row[r]).continues = row[r].continues
    BY <1>1, AnsweredActive, RowEffects
  <2> QED BY <1>1, <2>1, <2>2, ResumeFailedEffects DEF SettleRow
<1> SUFFICES (\A q \in Runs : RunOK(q)') /\ SettledRun(r)
  OBVIOUS
<1> HIDE DEF r, rw
<1> QED BY <1>1, <1>2, <1>3, <1>4, <1>5, SettledRuns, SettledMoves

\* A step that writes one row.
LEMMA OneRowMoves ==
  ASSUME TypeOK, NEW r \in Runs, NEW rw, row' = [row EXCEPT ![r] = rw],
         row[r].status \in Terminal => rw.status = row[r].status,
         row[r].status # "none" => rw.status # "none"
  PROVE  /\ RowsMove
         /\ /\ ask' = ask
            /\ row[r].status = "paused" => rw.status \in {"paused"} \cup Terminal
            /\ rw.status = "paused" => row[r].status = "paused"
            => RowsQuiet
<1>1. \A q \in Runs : row'[q] = IF q = r THEN rw ELSE row[q]
  BY DEF TypeOK
<1> QED BY <1>1 DEF RowsMove, RowsQuiet

LEMMA DispatchMoves == ASSUME RunsInv, NEW r \in Runs, Dispatch(r) PROVE RowsMove /\ RowsQuiet
<1> DEFINE rw == QueuedRow(NoRun, 0)
<1>1. /\ row' = [row EXCEPT ![r] = rw] /\ ask' = ask /\ row[r].status = "none"
      /\ rw.status = "queued" /\ TypeOK
  BY RowEffects DEF Dispatch, RunsInv
<1> HIDE DEF rw
<1> QED BY <1>1, OneRowMoves DEF Terminal

LEMMA DeliverMoves == ASSUME RunsInv, NEW r \in Runs, Deliver(r) PROVE RowsMove /\ RowsQuiet
  BY RowEffects, StatusOf DEF Deliver, RunsInv, TypeOK, RunOK, RowOK, TaskOK, RevivalOK, LiveOK,
     RowsMove, RowsQuiet, Active, NonTerminal, Terminal, Idle, InTurn, LiveIsCurrent

LEMMA KillRunMoves == ASSUME RunsInv, NEW r \in Runs, KillRun(r) PROVE RowsMove
<1> DEFINE rw == EndedRow(row[r], "cancelled", "other")
<1>1. /\ row' = [row EXCEPT ![r] = rw] /\ row[r] \in Row /\ TypeOK 
      /\ row[r].status \notin Terminal
  BY DEF KillRun, RunsInv, TypeOK, Active, NonTerminal, Terminal
<1>2. rw.status \in Terminal
  BY <1>1, EndedEffects DEF Terminal
<1> HIDE DEF rw
<1> QED BY <1>1, <1>2, OneRowMoves DEF Terminal

LEMMA DispatchContinueMoves == ASSUME RunsInv, NEW r \in Runs, DispatchContinue(r) PROVE RowsMove /\ RowsQuiet
  BY RowEffects, StatusOf DEF DispatchContinue, RunsInv, TypeOK, RunOK, RowOK, TaskOK, RevivalOK, LiveOK,
     RowsMove, RowsQuiet, Active, NonTerminal, Terminal, Idle, Continuable, Requested

LEMMA CreatePendingAskMoves == ASSUME RunsInv, NEW r \in Runs, NEW a \in Asks, CreatePendingAsk(r, a) PROVE RowsMove
  BY RowEffects, StatusOf DEF CreatePendingAsk, RunsInv, TypeOK, RunOK, RowOK, TaskOK, RevivalOK, LiveOK,
     RowsMove, RowsQuiet, Active, NonTerminal, Terminal, Idle, InTurn, LiveIsCurrent

LEMMA AnswerPendingAskMoves == ASSUME RunsInv, NEW a \in Asks, NEW by \in Answerers, AnswerPendingAsk(a, by) PROVE RowsMove /\ RowsQuiet
  BY RowEffects, StatusOf DEF AnswerPendingAsk, RunsInv, TypeOK, RunOK, RowOK, TaskOK, RevivalOK, LiveOK,
     RowsMove, RowsQuiet, Active, NonTerminal, Terminal, Idle, NeedsRevival, Revive, AnswerCall

LEMMA RevivalRefusedMoves == ASSUME RunsInv, NEW r \in Runs, RevivalRefused(r) PROVE RowsMove /\ RowsQuiet
  BY RowEffects, StatusOf DEF RevivalRefused, RunsInv, TypeOK, RunOK, RowOK, TaskOK, RevivalOK, LiveOK,
     RowsMove, RowsQuiet, Active, NonTerminal, Terminal, Idle

LEMMA RevivalMintFailsMoves == ASSUME RunsInv, NEW r \in Runs, RevivalMintFails(r) PROVE RowsMove /\ RowsQuiet
<1> DEFINE rw == ResumeFailedRow(row[r], revival[r].attempt)
<1>1. /\ row' = [row EXCEPT ![r] = rw] /\ ask' = ask /\ row[r] \in Row /\ TypeOK
      /\ revival[r].attempt \in Nat
  BY AwaitShapes DEF RevivalMintFails, RunsInv, TypeOK
<1>2. rw.status = row[r].status
  BY <1>1, ResumeFailedEffects
<1> HIDE DEF rw
<1> QED BY <1>1, <1>2, OneRowMoves

LEMMA ReceiptMoves == ASSUME RunsInv, NEW r \in Runs, Receipt(r) PROVE RowsMove /\ RowsQuiet
  BY RowEffects, StatusOf DEF Receipt, RunsInv, TypeOK, RunOK, RowOK, TaskOK, RevivalOK, LiveOK,
     RowsMove, RowsQuiet, Active, NonTerminal, Terminal, Idle, InTurn, LiveIsCurrent, ReceiptAccepted

LEMMA TurnEndsMoves == ASSUME RunsInv, NEW r \in Runs, TurnEnds(r) PROVE RowsMove /\ RowsQuiet
  BY RowEffects, StatusOf DEF TurnEnds, RunsInv, TypeOK, RunOK, RowOK, TaskOK, RevivalOK, LiveOK,
     RowsMove, RowsQuiet, Active, NonTerminal, Terminal, Idle, InTurn, LiveIsCurrent

LEMMA StartPreparesMoves == ASSUME RunsInv, NEW r \in Runs, StartPrepares(r) PROVE RowsMove /\ RowsQuiet
<1> DEFINE rw == [(IF row[r].continues = NoRun THEN PreparedCreate(row[r])
                                             ELSE PreparedResume(row[r]))
                    EXCEPT !.status = "spawning"]
<1>1. TypeOK /\ row[r] \in Row /\ ask' = ask
  BY DEF StartPrepares, RunsInv, TypeOK
<1>2. CASE row' = row
  BY <1>1, <1>2 DEF RowsMove, RowsQuiet
<1>3. CASE row' # row
  <2>1. /\ row' = [row EXCEPT ![r] = rw] /\ Active(row[r]) /\ row[r].status # "paused"
    <3>1. row' = [row EXCEPT ![r] = rw] /\ Active(row[r])
      BY <1>3 DEF StartPrepares
    <3>2. row[r].status # "paused"
      BY DEF StartPrepares, RunsInv, RunOK, TaskOK, Terminal
    <3> QED BY <3>1, <3>2
  <2>2. rw.status = "spawning"
    BY <1>1, RowShapes, RowEffects DEF NonTerminal
  <2> HIDE DEF rw
  <2> QED BY <1>1, <2>1, <2>2, OneRowMoves DEF Active, NonTerminal, Terminal
<1> QED BY <1>2, <1>3

LEMMA MintResolvesMoves == ASSUME RunsInv, NEW r \in Runs, MintResolves(r) PROVE RowsMove /\ RowsQuiet
  BY RowEffects, StatusOf DEF MintResolves, RunsInv, TypeOK, RunOK, RowOK, TaskOK, RevivalOK, LiveOK,
     RowsMove, RowsQuiet, Active, NonTerminal, Terminal, Idle, InstallAllowed

LEMMA RevivalPreparesMoves == ASSUME RunsInv, NEW r \in Runs, RevivalPrepares(r) PROVE RowsMove /\ RowsQuiet
  BY RowEffects, StatusOf DEF RevivalPrepares, RunsInv, TypeOK, RunOK, RowOK, TaskOK, RevivalOK, LiveOK,
     RowsMove, RowsQuiet, Active, NonTerminal, Terminal, Idle, ResumePreparable, ResumeReady, PreparedResume

LEMMA RevivalMintedMoves == ASSUME RunsInv, NEW r \in Runs, RevivalMinted(r) PROVE RowsMove /\ RowsQuiet
  BY RowEffects, StatusOf DEF RevivalMinted, RunsInv, TypeOK, RunOK, RowOK, TaskOK, RevivalOK, LiveOK,
     RowsMove, RowsQuiet, Active, NonTerminal, Terminal, Idle, RevivalInstallable

LEMMA RetiredMoves == ASSUME RunsInv, NEW r \in Runs, Retired(r) PROVE RowsMove /\ RowsQuiet
  BY RowEffects, StatusOf DEF Retired, RunsInv, TypeOK, RunOK, RowOK, TaskOK, RevivalOK, LiveOK,
     RowsMove, RowsQuiet, Active, NonTerminal, Terminal, Idle

LEMMA ReportedMoves == ASSUME RunsInv, NEW r \in Runs, Reported(r) PROVE RowsMove /\ RowsQuiet
  BY RowEffects, StatusOf DEF Reported, RunsInv, TypeOK, RunOK, RowOK, TaskOK, RevivalOK, LiveOK,
     RowsMove, RowsQuiet, Active, NonTerminal, Terminal, Idle

LEMMA FireAutoContinueMoves == ASSUME RunsInv, NEW r \in Runs, FireAutoContinue(r) PROVE RowsMove /\ RowsQuiet
  BY RowEffects, StatusOf DEF FireAutoContinue, RunsInv, TypeOK, RunOK, RowOK, TaskOK, RevivalOK, LiveOK,
     RowsMove, RowsQuiet, Active, NonTerminal, Terminal, Idle, Continuable, Requested

LEMMA AnswerRevivedMoves == ASSUME RunsInv, NEW x \in answering, AnswerRevived(x) PROVE RowsMove /\ RowsQuiet
  BY RowEffects, StatusOf, AnswerRun DEF AnswerRevived, RunsInv, TypeOK, RunOK, RowOK, TaskOK, RevivalOK, LiveOK,
     RowsMove, RowsQuiet, Active, NonTerminal, Terminal, Idle, AnswerCall

LEMMA AnswerRefusedMoves == ASSUME RunsInv, NEW x \in answering, AnswerRefused(x) PROVE RowsMove /\ RowsQuiet
  BY RowEffects, StatusOf, AnswerRun DEF AnswerRefused, RunsInv, TypeOK, RunOK, RowOK, TaskOK, RevivalOK, LiveOK,
     RowsMove, RowsQuiet, Active, NonTerminal, Terminal, Idle

LEMMA AnswerSentMoves == ASSUME RunsInv, NEW x \in answering, AnswerSent(x) PROVE RowsMove
  BY RowEffects, StatusOf, AnswerRun DEF AnswerSent, RunsInv, TypeOK, RunOK, RowOK, TaskOK, RevivalOK, LiveOK,
     RowsMove, RowsQuiet, Active, NonTerminal, Terminal, Idle, Resumable, SessionFree

LEMMA ContinueRefusedMoves == ASSUME RunsInv, NEW c \in continuing, ContinueRefused(c) PROVE RowsMove /\ RowsQuiet
  BY RowEffects, StatusOf DEF ContinueRefused, RunsInv, TypeOK, RunOK, RowOK, TaskOK, RevivalOK, LiveOK,
     RowsMove, RowsQuiet, Active, NonTerminal, Terminal, Idle

LEMMA ContinuePreflightedMoves == ASSUME RunsInv, NEW c \in continuing, ContinuePreflighted(c) PROVE RowsMove /\ RowsQuiet
  BY RowEffects, StatusOf DEF ContinuePreflighted, RunsInv, TypeOK, RunOK, RowOK, TaskOK, RevivalOK, LiveOK,
     RowsMove, RowsQuiet, Active, NonTerminal, Terminal, Idle

LEMMA ContinueInsertsMoves == ASSUME RunsInv, NEW c \in continuing, NEW r \in Runs, ContinueInserts(c, r) PROVE RowsMove /\ RowsQuiet
<1> DEFINE rw == QueuedRow(c.parent, IF c.auto THEN row[c.parent].count + 1 ELSE 0)
<1>1. /\ row' = [row EXCEPT ![r] = rw] /\ ask' = ask /\ row[r].status = "none" /\ TypeOK
  BY RowEffects DEF ContinueInserts, RunsInv
<1>2. rw.status = "queued"
  BY DEF QueuedRow, NoRow
<1> HIDE DEF rw
<1> QED BY <1>1, <1>2, OneRowMoves DEF Terminal

LEMMA SweepDoneMoves == ASSUME RunsInv, SweepDone PROVE RowsMove /\ RowsQuiet
  BY DEF SweepDone, durable, RowsMove, RowsQuiet

LEMMA AttachServerMoves == ASSUME RunsInv, AttachServer PROVE RowsMove /\ RowsQuiet
  BY DEF AttachServer, durable, RowsMove, RowsQuiet

LEMMA RecoverAgentRunMoves == ASSUME RunsInv, NEW r \in Runs, RecoverAgentRun(r) PROVE RowsMove
<1> DEFINE rw == EndedRow(row[r], "failed", "other")
<1>1. /\ row' = [row EXCEPT ![r] = rw] /\ row[r] \in Row /\ TypeOK 
      /\ row[r].status \notin Terminal
  BY DEF RecoverAgentRun, Swept, RunsInv, TypeOK, Active, NonTerminal, Terminal
<1>2. rw.status \in Terminal
  BY <1>1, EndedEffects DEF Terminal
<1> HIDE DEF rw
<1> QED BY <1>1, <1>2, OneRowMoves DEF Terminal

LEMMA RecoverSealedRunMoves == ASSUME RunsInv, NEW r \in Runs, RecoverSealedRun(r) PROVE RowsMove /\ RowsQuiet
<1> DEFINE rw == EndedRow(row[r], "completed", "none")
<1>1. /\ row' = [row EXCEPT ![r] = rw] /\ row[r] \in Row /\ TypeOK /\ ask' = ask
      /\ row[r].status \notin Terminal
  BY DEF RecoverSealedRun, SealedRun, RunsInv, TypeOK, Active, NonTerminal, Terminal
<1>2. rw.status \in Terminal
  BY <1>1, EndedEffects DEF Terminal
<1> HIDE DEF rw
<1> QED BY <1>1, <1>2, OneRowMoves DEF Terminal

LEMMA SealedVerifiedMoves == ASSUME RunsInv, NEW r \in Runs, SealedVerified(r) PROVE RowsMove
  BY RowEffects, StatusOf DEF SealedVerified, RunsInv, TypeOK, RunOK, RowOK, TaskOK, RevivalOK, LiveOK,
     RowsMove, RowsQuiet, Active, NonTerminal, Terminal, Idle, OpenAsks

LEMMA RecoverPausedAskMoves == ASSUME RunsInv, NEW r \in Runs, RecoverPausedAsk(r) PROVE RowsMove /\ RowsQuiet
  BY DEF RecoverPausedAsk, durable, RowsMove, RowsQuiet

LEMMA RecoverAutoContinueMoves == ASSUME RunsInv, NEW r \in Runs, RecoverAutoContinue(r) PROVE RowsMove /\ RowsQuiet
  BY DEF RecoverAutoContinue, durable, RowsMove, RowsQuiet

LEMMA DisposeAllMoves == ASSUME RunsInv, DisposeAll PROVE RowsMove /\ RowsQuiet
  BY RowEffects, StatusOf DEF DisposeAll, RunsInv, TypeOK, RunOK, RowOK, TaskOK, RevivalOK, LiveOK,
     RowsMove, RowsQuiet, Active, NonTerminal, Terminal, Idle

LEMMA CrashMoves == ASSUME RunsInv, Crash PROVE RowsMove /\ RowsQuiet
  BY RowEffects, StatusOf DEF Crash, RunsInv, TypeOK, RunOK, RowOK, TaskOK, RevivalOK, LiveOK,
     RowsMove, RowsQuiet, Active, NonTerminal, Terminal, Idle, Lost, durable

LEMMA CrashAfterAnswerMoves == ASSUME RunsInv, NEW x \in answering, CrashAfterAnswer(x) PROVE RowsMove
  BY RowEffects, StatusOf, AnswerRun DEF CrashAfterAnswer, RunsInv, TypeOK, RunOK, RowOK, TaskOK, RevivalOK, LiveOK,
     RowsMove, RowsQuiet, Active, NonTerminal, Terminal, Idle, Lost, Resumable

LEMMA DispatchSteady == ASSUME RunsInv, NEW r \in Runs, Dispatch(r) PROVE RunsSteady \/ answering' = {}
  BY RowEffects, StatusOf DEF Dispatch, RunsInv, TypeOK, RunOK, TaskOK, RevivalOK, LiveOK, BootOK,
     RunsSteady, Active, NonTerminal, Terminal, Idle, NoLive, Up, Process, Runtime

LEMMA DeliverSteady == ASSUME RunsInv, NEW r \in Runs, Deliver(r) PROVE RunsSteady \/ answering' = {}
  BY RowEffects, StatusOf DEF Deliver, RunsInv, TypeOK, RunOK, TaskOK, RevivalOK, LiveOK, BootOK,
     RunsSteady, Active, NonTerminal, Terminal, Idle, NoLive, Up, Process, Runtime, InTurn, LiveIsCurrent

LEMMA KillRunSteady == ASSUME RunsInv, NEW r \in Runs, KillRun(r) PROVE RunsSteady \/ answering' = {}
<1>1. /\ row' = [row EXCEPT ![r] = EndedRow(row[r], "cancelled", "other")] /\ row[r] \in Row
      /\ TypeOK /\ server' = server /\ revival' = revival /\ live' = [live EXCEPT ![r] = NoLive]
  BY DEF KillRun, RunsInv, TypeOK
<1>2. row'[r].status \in Terminal
  BY <1>1, EndedEffects DEF TypeOK, Terminal
<1>3. ~Active(row'[r])
  BY <1>2 DEF Active, NonTerminal, Terminal
<1>4. \A q \in Runs \ {r} : row'[q] = row[q] /\ live'[q] = live[q]
  BY <1>1 DEF TypeOK
<1> QED BY <1>1, <1>3, <1>4 DEF RunsSteady, Up

LEMMA DispatchContinueSteady == ASSUME RunsInv, NEW r \in Runs, DispatchContinue(r) PROVE RunsSteady \/ answering' = {}
  BY RowEffects, StatusOf DEF DispatchContinue, RunsInv, TypeOK, RunOK, TaskOK, RevivalOK, LiveOK, BootOK,
     RunsSteady, Active, NonTerminal, Terminal, Idle, NoLive, Up, Process, Runtime, Continuable, Requested

LEMMA CreatePendingAskSteady == ASSUME RunsInv, NEW r \in Runs, NEW a \in Asks, CreatePendingAsk(r, a) PROVE RunsSteady \/ answering' = {}
  BY RowEffects, StatusOf DEF CreatePendingAsk, RunsInv, TypeOK, RunOK, TaskOK, RevivalOK, LiveOK, BootOK,
     RunsSteady, Active, NonTerminal, Terminal, Idle, NoLive, Up, Process, Runtime, InTurn, LiveIsCurrent

LEMMA AnswerPendingAskSteady == ASSUME RunsInv, NEW a \in Asks, NEW by \in Answerers, AnswerPendingAsk(a, by) PROVE RunsSteady \/ answering' = {}
  BY RowEffects, StatusOf DEF AnswerPendingAsk, RunsInv, TypeOK, RunOK, TaskOK, RevivalOK, LiveOK, BootOK,
     RunsSteady, Active, NonTerminal, Terminal, Idle, NoLive, Up, Process, Runtime, NeedsRevival, Revive, AnswerCall

LEMMA RevivalRefusedSteady == ASSUME RunsInv, NEW r \in Runs, RevivalRefused(r) PROVE RunsSteady \/ answering' = {}
  BY RowEffects, StatusOf DEF RevivalRefused, RunsInv, TypeOK, RunOK, TaskOK, RevivalOK, LiveOK, BootOK,
     RunsSteady, Active, NonTerminal, Terminal, Idle, NoLive, Up, Process, Runtime

LEMMA RevivalMintFailsSteady == ASSUME RunsInv, NEW r \in Runs, RevivalMintFails(r) PROVE RunsSteady \/ answering' = {}
  BY RowEffects, StatusOf, ResumeFailedEffects DEF RevivalMintFails, RunsInv, TypeOK, RunOK, TaskOK, RevivalOK, LiveOK, BootOK,
     RunsSteady, Active, NonTerminal, Terminal, Idle, NoLive, Up, Process, Runtime

LEMMA ReceiptSteady == ASSUME RunsInv, NEW r \in Runs, Receipt(r) PROVE RunsSteady \/ answering' = {}
  BY RowEffects, StatusOf DEF Receipt, RunsInv, TypeOK, RunOK, TaskOK, RevivalOK, LiveOK, BootOK,
     RunsSteady, Active, NonTerminal, Terminal, Idle, NoLive, Up, Process, Runtime, InTurn, LiveIsCurrent, ReceiptAccepted

LEMMA TurnEndsSteady == ASSUME RunsInv, NEW r \in Runs, TurnEnds(r) PROVE RunsSteady \/ answering' = {}
  BY RowEffects, StatusOf DEF TurnEnds, RunsInv, TypeOK, RunOK, TaskOK, RevivalOK, LiveOK, BootOK,
     RunsSteady, Active, NonTerminal, Terminal, Idle, NoLive, Up, Process, Runtime, InTurn, LiveIsCurrent

LEMMA StartPreparesSteady == ASSUME RunsInv, NEW r \in Runs, StartPrepares(r) PROVE RunsSteady \/ answering' = {}
  BY RowEffects, StatusOf DEF StartPrepares, RunsInv, TypeOK, RunOK, TaskOK, RevivalOK, LiveOK, BootOK,
     RunsSteady, Active, NonTerminal, Terminal, Idle, NoLive, Up, Process, Runtime, CreatePreparable, ResumePreparable, ResumeReady, PreparedCreate, PreparedResume

LEMMA MintResolvesSteady == ASSUME RunsInv, NEW r \in Runs, MintResolves(r) PROVE RunsSteady \/ answering' = {}
  BY RowEffects, StatusOf DEF MintResolves, RunsInv, TypeOK, RunOK, TaskOK, RevivalOK, LiveOK, BootOK,
     RunsSteady, Active, NonTerminal, Terminal, Idle, NoLive, Up, Process, Runtime, InstallAllowed

LEMMA RevivalPreparesSteady == ASSUME RunsInv, NEW r \in Runs, RevivalPrepares(r) PROVE RunsSteady \/ answering' = {}
  BY RowEffects, StatusOf DEF RevivalPrepares, RunsInv, TypeOK, RunOK, TaskOK, RevivalOK, LiveOK, BootOK,
     RunsSteady, Active, NonTerminal, Terminal, Idle, NoLive, Up, Process, Runtime, ResumePreparable, ResumeReady, PreparedResume

LEMMA RevivalMintedSteady == ASSUME RunsInv, NEW r \in Runs, RevivalMinted(r) PROVE RunsSteady \/ answering' = {}
  BY RowEffects, StatusOf DEF RevivalMinted, RunsInv, TypeOK, RunOK, TaskOK, RevivalOK, LiveOK, BootOK,
     RunsSteady, Active, NonTerminal, Terminal, Idle, NoLive, Up, Process, Runtime, RevivalInstallable

LEMMA RetiredSteady == ASSUME RunsInv, NEW r \in Runs, Retired(r) PROVE RunsSteady \/ answering' = {}
  BY RowEffects, StatusOf DEF Retired, RunsInv, TypeOK, RunOK, TaskOK, RevivalOK, LiveOK, BootOK,
     RunsSteady, Active, NonTerminal, Terminal, Idle, NoLive, Up, Process, Runtime

LEMMA ReportedSteady == ASSUME RunsInv, NEW r \in Runs, Reported(r) PROVE RunsSteady \/ answering' = {}
  BY RowEffects, StatusOf DEF Reported, RunsInv, TypeOK, RunOK, TaskOK, RevivalOK, LiveOK, BootOK,
     RunsSteady, Active, NonTerminal, Terminal, Idle, NoLive, Up, Process, Runtime

LEMMA FireAutoContinueSteady == ASSUME RunsInv, NEW r \in Runs, FireAutoContinue(r) PROVE RunsSteady \/ answering' = {}
  BY RowEffects, StatusOf DEF FireAutoContinue, RunsInv, TypeOK, RunOK, TaskOK, RevivalOK, LiveOK, BootOK,
     RunsSteady, Active, NonTerminal, Terminal, Idle, NoLive, Up, Process, Runtime, Continuable, Requested

LEMMA AnswerRevivedSteady == ASSUME RunsInv, NEW x \in answering, AnswerRevived(x) PROVE RunsSteady \/ answering' = {}
  BY RowEffects, StatusOf, AnswerRun DEF AnswerRevived, RunsInv, TypeOK, RunOK, TaskOK, RevivalOK, LiveOK, BootOK,
     RunsSteady, Active, NonTerminal, Terminal, Idle, NoLive, Up, Process, Runtime, AnswerCall

LEMMA AnswerRefusedSteady == ASSUME RunsInv, NEW x \in answering, AnswerRefused(x) PROVE RunsSteady \/ answering' = {}
  BY RowEffects, StatusOf, AnswerRun DEF AnswerRefused, RunsInv, TypeOK, RunOK, TaskOK, RevivalOK, LiveOK, BootOK,
     RunsSteady, Active, NonTerminal, Terminal, Idle, NoLive, Up, Process, Runtime

LEMMA AnswerSentSteady == ASSUME RunsInv, NEW x \in answering, AnswerSent(x) PROVE RunsSteady \/ answering' = {}
  BY RowEffects, StatusOf, AnswerRun DEF AnswerSent, RunsInv, TypeOK, RunOK, TaskOK, RevivalOK, LiveOK, BootOK,
     RunsSteady, Active, NonTerminal, Terminal, Idle, NoLive, Up, Process, Runtime, Resumable, SessionFree

LEMMA ContinueRefusedSteady == ASSUME RunsInv, NEW c \in continuing, ContinueRefused(c) PROVE RunsSteady \/ answering' = {}
  BY RowEffects, StatusOf DEF ContinueRefused, RunsInv, TypeOK, RunOK, TaskOK, RevivalOK, LiveOK, BootOK,
     RunsSteady, Active, NonTerminal, Terminal, Idle, NoLive, Up, Process, Runtime

LEMMA ContinuePreflightedSteady == ASSUME RunsInv, NEW c \in continuing, ContinuePreflighted(c) PROVE RunsSteady \/ answering' = {}
  BY RowEffects, StatusOf DEF ContinuePreflighted, RunsInv, TypeOK, RunOK, TaskOK, RevivalOK, LiveOK, BootOK,
     RunsSteady, Active, NonTerminal, Terminal, Idle, NoLive, Up, Process, Runtime

LEMMA ContinueInsertsSteady == ASSUME RunsInv, NEW c \in continuing, NEW r \in Runs, ContinueInserts(c, r) PROVE RunsSteady \/ answering' = {}
  BY RowEffects, StatusOf DEF ContinueInserts, RunsInv, TypeOK, RunOK, TaskOK, RevivalOK, LiveOK, BootOK,
     RunsSteady, Active, NonTerminal, Terminal, Idle, NoLive, Up, Process, Runtime, Insertable

LEMMA SweepDoneSteady == ASSUME RunsInv, SweepDone PROVE RunsSteady \/ answering' = {}
  BY RowEffects, StatusOf DEF SweepDone, RunsInv, TypeOK, RunOK, TaskOK, RevivalOK, LiveOK, BootOK,
     RunsSteady, Active, NonTerminal, Terminal, Idle, NoLive, Up, Process, Runtime

LEMMA AttachServerSteady == ASSUME RunsInv, AttachServer PROVE RunsSteady \/ answering' = {}
  BY RowEffects, StatusOf DEF AttachServer, RunsInv, TypeOK, RunOK, TaskOK, RevivalOK, LiveOK, BootOK,
     RunsSteady, Active, NonTerminal, Terminal, Idle, NoLive, Up, Process, Runtime

LEMMA RecoverAgentRunSteady == ASSUME RunsInv, NEW r \in Runs, RecoverAgentRun(r) PROVE RunsSteady \/ answering' = {}
  BY RowEffects, StatusOf, EndedEffects DEF RecoverAgentRun, RunsInv, TypeOK, RunOK, TaskOK, RevivalOK, LiveOK, BootOK,
     RunsSteady, Active, NonTerminal, Terminal, Idle, NoLive, Up, Process, Runtime, OpenAsks

LEMMA RecoverSealedRunSteady == ASSUME RunsInv, NEW r \in Runs, RecoverSealedRun(r) PROVE RunsSteady \/ answering' = {}
  BY RowEffects, StatusOf, EndedEffects DEF RecoverSealedRun, RunsInv, TypeOK, RunOK, TaskOK, RevivalOK, LiveOK, BootOK,
     RunsSteady, Active, NonTerminal, Terminal, Idle, NoLive, Up, Process, Runtime

LEMMA SealedVerifiedSteady == ASSUME RunsInv, NEW r \in Runs, SealedVerified(r) PROVE RunsSteady \/ answering' = {}
  BY RowEffects, StatusOf DEF SealedVerified, RunsInv, TypeOK, RunOK, TaskOK, RevivalOK, LiveOK, BootOK,
     RunsSteady, Active, NonTerminal, Terminal, Idle, NoLive, Up, Process, Runtime, OpenAsks

LEMMA RecoverPausedAskSteady == ASSUME RunsInv, NEW r \in Runs, RecoverPausedAsk(r) PROVE RunsSteady \/ answering' = {}
<1>1. /\ UNCHANGED <<row, live>> /\ TypeOK /\ (Up' => Up)
      /\ \A q \in Runs : revival'[q] = revival[q] \/ (q = r /\ live[r] = NoLive)
  BY DEF RecoverPausedAsk, durable, NeedsRevival, Revive, TypeOK, RunsInv, Up
<1>2. Up
  BY DEF RecoverPausedAsk
<1> QED BY <1>1, <1>2 DEF RunsSteady

LEMMA RecoverAutoContinueSteady == ASSUME RunsInv, NEW r \in Runs, RecoverAutoContinue(r) PROVE RunsSteady \/ answering' = {}
<1>1. /\ UNCHANGED <<row, live, revival>> /\ Up
  BY DEF RecoverAutoContinue, durable
<1> QED BY <1>1 DEF RunsSteady

LEMMA DisposeAllSteady == ASSUME RunsInv, DisposeAll PROVE RunsSteady \/ answering' = {}
  BY RowEffects, StatusOf DEF DisposeAll, RunsInv, TypeOK, RunOK, TaskOK, RevivalOK, LiveOK, BootOK,
     RunsSteady, Active, NonTerminal, Terminal, Idle, NoLive, Up, Process, Runtime

LEMMA CrashSteady == ASSUME RunsInv, Crash PROVE RunsSteady \/ answering' = {}
  BY RowEffects, StatusOf DEF Crash, RunsInv, TypeOK, RunOK, TaskOK, RevivalOK, LiveOK, BootOK,
     RunsSteady, Active, NonTerminal, Terminal, Idle, NoLive, Up, Process, Runtime, Lost, durable

LEMMA CrashAfterAnswerSteady == ASSUME RunsInv, NEW x \in answering, CrashAfterAnswer(x) PROVE RunsSteady \/ answering' = {}
  BY RowEffects, StatusOf, AnswerRun DEF CrashAfterAnswer, RunsInv, TypeOK, RunOK, TaskOK, RevivalOK, LiveOK, BootOK,
     RunsSteady, Active, NonTerminal, Terminal, Idle, NoLive, Up, Process, Runtime, Lost, Resumable

-----------------------------------------------------------------------------
(* The questions and the calls.                                            *)

\* A step about no question leaves the questions in order.
LEMMA AsksKept ==
  ASSUME RunsInv, RowsMove, RowsQuiet
  PROVE  (\A a \in Asks : AskOK(a)') /\ (\A r \in Runs : PausedOK(r)')
<1>1. ASSUME NEW a \in Asks PROVE AskOK(a)'
  BY <1>1 DEF RunsInv, AskOK, RowsMove, RowsQuiet, Terminal
<1>2. ASSUME NEW r \in Runs PROVE PausedOK(r)'
  BY <1>2 DEF RunsInv, PausedOK, RowsQuiet, OpenAsks
<1> QED BY <1>1, <1>2

\* No question goes away or changes its run.
AsksStay ==
  \A a \in Asks : ask[a].status # "none" => /\ ask'[a].status # "none"
                                            /\ ask'[a].run = ask[a].run

\* A call stays in order when its run keeps the runtime.
LEMMA AnswersKept ==
  ASSUME RunsInv, TypeOK', RowsMove, RunsSteady, AsksStay, NEW x \in answering
  PROVE  AnswerOK(x)'
<1> DEFINE r == ask[x.ask].run
<1>1. r \in Runs /\ x.ask \in Asks /\ AnswerOK(x) /\ ask[x.ask].status # "none"
      /\ row[r].status # "none" /\ row[r] \in Row
  BY AnswerRun DEF RunsInv, AnswerOK, AskOK, TypeOK
<1>2. ask'[x.ask].run = r /\ ask'[x.ask].status # "none"
  BY <1>1 DEF AsksStay
<1>3. ASSUME x.at = "leasing", Active(row'[r])
      PROVE  /\ row'[r].attempt = x.attempt /\ revival'[r] = Idle
             /\ Up' => live'[r].attempt = x.attempt
  <2>1. Active(row[r])
    BY <1>1, <1>3, StatusOf DEF RowsMove, Active, NonTerminal, Terminal
  <2>2. /\ row[r].attempt = x.attempt /\ revival[r] = Idle /\ x.attempt > 0
        /\ Up => live[r].attempt = x.attempt
    BY <1>1, <1>3, <2>1 DEF AnswerOK
  <2>3. Up => live[r] # NoLive
    BY <2>2, AnswerRun DEF NoLive
  <2> QED BY <1>1, <1>3, <2>1, <2>2, <2>3 DEF RunsSteady
<1> HIDE DEF r
<1> QED BY <1>1, <1>2, <1>3 DEF AnswerOK, r

\* A request stays in order: its parent has ended.
LEMMA RequestsKept ==
  ASSUME RunsInv, RowsMove
  PROVE  /\ \A c \in continuing : ContinueOK(c)'
         /\ \A r \in server.resume : row'[r].status \in Terminal
<1>1. \A c \in continuing : c.parent \in Runs
  BY CallShapes DEF RunsInv, TypeOK
<1>2. server.resume \subseteq Runs
  BY DEF RunsInv, TypeOK, Process
<1> QED BY <1>1, <1>2 DEF RunsInv, ContinueOK, ResumeOK, RowsMove

\* A step that starts no runtime and parks no run.
RuntimesKept ==
  /\ \A q \in Runs : HasRuntime(q)' => HasRuntime(q)
  /\ Up' => \A q \in Runs : row'[q].status = "paused" /\ row[q].status = "paused"
                              /\ live[q] # NoLive => live'[q] # NoLive

LEMMA FirstKept ==
  ASSUME RunsInv, RuntimesKept, server' = server,
         \A q \in Runs : row'[q].status = "paused" => row[q].status = "paused" \/ live'[q] # NoLive
  PROVE  FirstProcessOK'
  BY DEF RunsInv, FirstProcessOK, OneRuntimePerWorktree, RuntimesKept, Up

\* An ordinary step: it asks, answers, continues and boots nothing.
OrdinaryStep ==
  /\ RuntimesKept /\ server' = server
  /\ answering' \subseteq answering /\ continuing' \subseteq continuing

LEMMA OrdinaryKept ==
  ASSUME RunsInv, TypeOK', \A r \in Runs : RunOK(r)', RowsMove, RowsQuiet,
         RunsSteady \/ answering' = {}, OrdinaryStep, BootOK'
  PROVE  RunsInv'
<1>1. (\A a \in Asks : AskOK(a)') /\ (\A r \in Runs : PausedOK(r)')
  BY AsksKept
<1>2. AsksStay
  BY DEF AsksStay, RowsQuiet
<1>3. \A x \in answering' : AnswerOK(x)'
  BY <1>2, AnswersKept DEF OrdinaryStep
<1>4. (\A c \in continuing' : ContinueOK(c)') /\ ResumeOK'
  BY RequestsKept DEF OrdinaryStep, ResumeOK
<1>5. FirstProcessOK'
  BY FirstKept DEF OrdinaryStep, RowsQuiet
<1> QED BY <1>1, <1>3, <1>4, <1>5 DEF RunsInv

LEMMA DeliverOrdinary == ASSUME RunsInv, NEW r \in Runs, Deliver(r) PROVE OrdinaryStep
  BY StatusOf DEF Deliver, RunsInv, TypeOK, RunOK, TaskOK, RevivalOK, OrdinaryStep, RuntimesKept,
     HasRuntime, RuntimeQuiescent, Idle, NoLive, Up, InTurn, LiveIsCurrent

LEMMA StartRefusedOrdinary ==
  ASSUME RunsInv, NEW r \in Runs, StartRefused(r) PROVE OrdinaryStep /\ RowsQuiet
<1>1. SettledRun(r)
  BY StartRefusedRuns
<1>2. /\ UNCHANGED <<ask, revival, answering, continuing, server>>
      /\ \A q \in Runs : task'[q] = task[q] \/ task'[q] = Idle
  BY DEF StartRefused, RunsInv, TypeOK
<1> QED BY <1>1, <1>2 DEF SettledRun, OrdinaryStep, RuntimesKept, RowsQuiet,
           HasRuntime, RuntimeQuiescent, Terminal, Active, NonTerminal

LEMMA MintFailsOrdinary ==
  ASSUME RunsInv, NEW r \in Runs, MintFails(r) PROVE OrdinaryStep /\ RowsQuiet
<1>1. SettledRun(r)
  BY MintFailsRuns
<1>2. /\ UNCHANGED <<ask, revival, answering, continuing, server>>
      /\ \A q \in Runs : task'[q] = task[q] \/ task'[q] = Idle
  BY DEF MintFails, RunsInv, TypeOK
<1> QED BY <1>1, <1>2 DEF SettledRun, OrdinaryStep, RuntimesKept, RowsQuiet,
           HasRuntime, RuntimeQuiescent, Terminal, Active, NonTerminal

LEMMA RevivalRefusedOrdinary == ASSUME RunsInv, NEW r \in Runs, RevivalRefused(r) PROVE OrdinaryStep
  BY StatusOf DEF RevivalRefused, RunsInv, TypeOK, RunOK, TaskOK, RevivalOK, OrdinaryStep, RuntimesKept,
     HasRuntime, RuntimeQuiescent, Idle, NoLive, Up

LEMMA RevivalMintFailsOrdinary == ASSUME RunsInv, NEW r \in Runs, RevivalMintFails(r) PROVE OrdinaryStep
  BY StatusOf DEF RevivalMintFails, RunsInv, TypeOK, RunOK, TaskOK, RevivalOK, OrdinaryStep, RuntimesKept,
     HasRuntime, RuntimeQuiescent, Idle, NoLive, Up

LEMMA ReceiptOrdinary == ASSUME RunsInv, NEW r \in Runs, Receipt(r) PROVE OrdinaryStep
  BY StatusOf DEF Receipt, RunsInv, TypeOK, RunOK, TaskOK, RevivalOK, OrdinaryStep, RuntimesKept,
     HasRuntime, RuntimeQuiescent, Idle, NoLive, Up, InTurn, LiveIsCurrent, ReceiptAccepted

LEMMA TurnBreaksOrdinary ==
  ASSUME RunsInv, NEW r \in Runs, TurnBreaks(r) PROVE OrdinaryStep /\ RowsQuiet
<1>1. SettledRun(r)
  BY TurnBreaksRuns
<1>2. /\ UNCHANGED <<ask, revival, answering, continuing, server>>
      /\ \A q \in Runs : task'[q] = task[q] \/ task'[q] = Idle
  BY DEF TurnBreaks, RunsInv, TypeOK
<1> QED BY <1>1, <1>2 DEF SettledRun, OrdinaryStep, RuntimesKept, RowsQuiet,
           HasRuntime, RuntimeQuiescent, Terminal, Active, NonTerminal

LEMMA TurnEndsOrdinary == ASSUME RunsInv, NEW r \in Runs, TurnEnds(r) PROVE OrdinaryStep
  BY StatusOf DEF TurnEnds, RunsInv, TypeOK, RunOK, TaskOK, RevivalOK, OrdinaryStep, RuntimesKept,
     HasRuntime, RuntimeQuiescent, Idle, NoLive, Up, InTurn, LiveIsCurrent

LEMMA TurnFailsOrdinary ==
  ASSUME RunsInv, NEW r \in Runs, NEW cause \in {"turn-budget-exhausted", "other"}, TurnFails(r, cause) PROVE OrdinaryStep /\ RowsQuiet
<1>1. SettledRun(r)
  BY TurnFailsRuns
<1>2. /\ UNCHANGED <<ask, revival, answering, continuing, server>>
      /\ \A q \in Runs : task'[q] = task[q] \/ task'[q] = Idle
  BY DEF TurnFails, RunsInv, TypeOK
<1> QED BY <1>1, <1>2 DEF SettledRun, OrdinaryStep, RuntimesKept, RowsQuiet,
           HasRuntime, RuntimeQuiescent, Terminal, Active, NonTerminal

LEMMA StartPreparesOrdinary == ASSUME RunsInv, NEW r \in Runs, StartPrepares(r) PROVE OrdinaryStep
  BY StatusOf DEF StartPrepares, RunsInv, TypeOK, RunOK, TaskOK, RevivalOK, OrdinaryStep, RuntimesKept,
     HasRuntime, RuntimeQuiescent, Idle, NoLive, Up, CreatePreparable, ResumePreparable, ResumeReady, PreparedCreate, PreparedResume

LEMMA MintResolvesOrdinary == ASSUME RunsInv, NEW r \in Runs, MintResolves(r) PROVE OrdinaryStep
<1>1. /\ task[r] # Idle /\ server' = server /\ revival' = revival /\ retiring' = retiring /\ row' = row
      /\ answering' = answering /\ continuing' = continuing
      /\ task' = [task EXCEPT ![r] = Idle] /\ TypeOK
      /\ \A q \in Runs \ {r} : live'[q] = live[q]
  BY DEF MintResolves, Idle, RunsInv, TypeOK
<1>2. live[r] = NoLive
  BY <1>1 DEF RunsInv, RunOK, TaskOK, RevivalOK
<1>3. \A q \in Runs \ {r} : task'[q] = task[q]
  BY <1>1 DEF TypeOK
<1>4. \A q \in Runs : HasRuntime(q)' => HasRuntime(q)
  <2> SUFFICES ASSUME NEW q \in Runs, HasRuntime(q)' PROVE HasRuntime(q)
    OBVIOUS
  <2> QED BY <1>1, <1>3 DEF HasRuntime, RuntimeQuiescent
<1> QED BY <1>1, <1>2, <1>4 DEF OrdinaryStep, RuntimesKept

LEMMA RevivalPreparesOrdinary == ASSUME RunsInv, NEW r \in Runs, RevivalPrepares(r) PROVE OrdinaryStep
  BY StatusOf DEF RevivalPrepares, RunsInv, TypeOK, RunOK, TaskOK, RevivalOK, OrdinaryStep, RuntimesKept,
     HasRuntime, RuntimeQuiescent, Idle, NoLive, Up, ResumePreparable, ResumeReady, PreparedResume

LEMMA RevivalMintedOrdinary == ASSUME RunsInv, NEW r \in Runs, RevivalMinted(r) PROVE OrdinaryStep
<1>1. /\ revival[r] # Idle /\ server' = server /\ task' = task /\ retiring' = retiring /\ row' = row
      /\ answering' = answering /\ continuing' = continuing
      /\ revival' = [revival EXCEPT ![r] = Idle] /\ TypeOK
      /\ \A q \in Runs \ {r} : live'[q] = live[q]
  BY DEF RevivalMinted, Idle, RunsInv, TypeOK
<1>2. live[r] = NoLive
  BY <1>1 DEF RunsInv, RunOK, TaskOK, RevivalOK
<1>3. \A q \in Runs \ {r} : revival'[q] = revival[q]
  BY <1>1 DEF TypeOK
<1>4. \A q \in Runs : HasRuntime(q)' => HasRuntime(q)
  <2> SUFFICES ASSUME NEW q \in Runs, HasRuntime(q)' PROVE HasRuntime(q)
    OBVIOUS
  <2> QED BY <1>1, <1>3 DEF HasRuntime, RuntimeQuiescent
<1> QED BY <1>1, <1>2, <1>4 DEF OrdinaryStep, RuntimesKept

LEMMA DoorClosesOrdinary ==
  ASSUME RunsInv, NEW r \in Runs, NEW found \in {"file", "none", "invalid"}, DoorCloses(r, found) PROVE OrdinaryStep /\ RowsQuiet
<1>1. SettledRun(r)
  BY DoorClosesRuns
<1>2. /\ UNCHANGED <<ask, revival, answering, continuing, server>>
      /\ \A q \in Runs : task'[q] = task[q] \/ task'[q] = Idle
  BY DEF DoorCloses, RunsInv, TypeOK
<1> QED BY <1>1, <1>2 DEF SettledRun, OrdinaryStep, RuntimesKept, RowsQuiet,
           HasRuntime, RuntimeQuiescent, Terminal, Active, NonTerminal

LEMMA RetiredOrdinary == ASSUME RunsInv, NEW r \in Runs, Retired(r) PROVE OrdinaryStep
  BY StatusOf DEF Retired, RunsInv, TypeOK, RunOK, TaskOK, RevivalOK, OrdinaryStep, RuntimesKept,
     HasRuntime, RuntimeQuiescent, Idle, NoLive, Up

LEMMA ReportedOrdinary == ASSUME RunsInv, NEW r \in Runs, Reported(r) PROVE OrdinaryStep
  BY StatusOf DEF Reported, RunsInv, TypeOK, RunOK, TaskOK, RevivalOK, OrdinaryStep, RuntimesKept,
     HasRuntime, RuntimeQuiescent, Idle, NoLive, Up

LEMMA AnswerRefusedOrdinary == ASSUME RunsInv, NEW x \in answering, AnswerRefused(x) PROVE OrdinaryStep
  BY StatusOf DEF AnswerRefused, RunsInv, TypeOK, RunOK, TaskOK, RevivalOK, OrdinaryStep, RuntimesKept,
     HasRuntime, RuntimeQuiescent, Idle, NoLive, Up

LEMMA ContinueRefusedOrdinary == ASSUME RunsInv, NEW c \in continuing, ContinueRefused(c) PROVE OrdinaryStep
  BY StatusOf DEF ContinueRefused, RunsInv, TypeOK, RunOK, TaskOK, RevivalOK, OrdinaryStep, RuntimesKept,
     HasRuntime, RuntimeQuiescent, Idle, NoLive, Up

LEMMA DeliverBoot == ASSUME RunsInv, NEW r \in Runs, Deliver(r) PROVE BootOK'
  BY DEF Deliver, RunsInv, BootOK, Idle, NoLive, Up, Swept, LeftPaused, Active, InTurn, LiveIsCurrent

LEMMA StartRefusedBoot == ASSUME RunsInv, NEW r \in Runs, StartRefused(r) PROVE BootOK'
  BY DEF StartRefused, RunsInv, BootOK, Idle, NoLive, Up, Swept, LeftPaused, Active

LEMMA MintFailsBoot == ASSUME RunsInv, NEW r \in Runs, MintFails(r) PROVE BootOK'
  BY DEF MintFails, RunsInv, BootOK, Idle, NoLive, Up, Swept, LeftPaused, Active

LEMMA RevivalRefusedBoot == ASSUME RunsInv, NEW r \in Runs, RevivalRefused(r) PROVE BootOK'
  BY DEF RevivalRefused, RunsInv, BootOK, Idle, NoLive, Up, Swept, LeftPaused, Active

LEMMA RevivalMintFailsBoot == ASSUME RunsInv, NEW r \in Runs, RevivalMintFails(r) PROVE BootOK'
  BY DEF RevivalMintFails, RunsInv, BootOK, Idle, NoLive, Up, Swept, LeftPaused, Active

LEMMA ReceiptBoot == ASSUME RunsInv, NEW r \in Runs, Receipt(r) PROVE BootOK'
  BY DEF Receipt, RunsInv, BootOK, Idle, NoLive, Up, Swept, LeftPaused, Active, InTurn, LiveIsCurrent, ReceiptAccepted

LEMMA TurnBreaksBoot == ASSUME RunsInv, NEW r \in Runs, TurnBreaks(r) PROVE BootOK'
  BY DEF TurnBreaks, RunsInv, BootOK, Idle, NoLive, Up, Swept, LeftPaused, Active, InTurn, LiveIsCurrent

LEMMA TurnEndsBoot == ASSUME RunsInv, NEW r \in Runs, TurnEnds(r) PROVE BootOK'
  BY DEF TurnEnds, RunsInv, BootOK, Idle, NoLive, Up, Swept, LeftPaused, Active, InTurn, LiveIsCurrent

LEMMA TurnFailsBoot == ASSUME RunsInv, NEW r \in Runs, NEW cause \in {"turn-budget-exhausted", "other"}, TurnFails(r, cause) PROVE BootOK'
  BY DEF TurnFails, RunsInv, BootOK, Idle, NoLive, Up, Swept, LeftPaused, Active, InTurn, LiveIsCurrent

LEMMA StartPreparesBoot == ASSUME RunsInv, NEW r \in Runs, StartPrepares(r) PROVE BootOK'
  BY DEF StartPrepares, RunsInv, BootOK, Idle, NoLive, Up, Swept, LeftPaused, Active, CreatePreparable, ResumePreparable, ResumeReady, PreparedCreate, PreparedResume

LEMMA MintResolvesBoot == ASSUME RunsInv, NEW r \in Runs, MintResolves(r) PROVE BootOK'
  BY DEF MintResolves, RunsInv, BootOK, Idle, NoLive, Up, Swept, LeftPaused, Active, InstallAllowed

LEMMA RevivalPreparesBoot == ASSUME RunsInv, NEW r \in Runs, RevivalPrepares(r) PROVE BootOK'
  BY DEF RevivalPrepares, RunsInv, BootOK, Idle, NoLive, Up, Swept, LeftPaused, Active, ResumePreparable, ResumeReady, PreparedResume

LEMMA RevivalMintedBoot == ASSUME RunsInv, NEW r \in Runs, RevivalMinted(r) PROVE BootOK'
  BY DEF RevivalMinted, RunsInv, BootOK, Idle, NoLive, Up, Swept, LeftPaused, Active, RevivalInstallable

LEMMA DoorClosesBoot == ASSUME RunsInv, NEW r \in Runs, NEW found \in {"file", "none", "invalid"}, DoorCloses(r, found) PROVE BootOK'
  BY DEF DoorCloses, RunsInv, BootOK, Idle, NoLive, Up, Swept, LeftPaused, Active, LiveIsCurrent

LEMMA RetiredBoot == ASSUME RunsInv, NEW r \in Runs, Retired(r) PROVE BootOK'
  BY DEF Retired, RunsInv, BootOK, Idle, NoLive, Up, Swept, LeftPaused, Active

LEMMA ReportedBoot == ASSUME RunsInv, NEW r \in Runs, Reported(r) PROVE BootOK'
  BY DEF Reported, RunsInv, BootOK, Idle, NoLive, Up, Swept, LeftPaused, Active

LEMMA AnswerRefusedBoot == ASSUME RunsInv, NEW x \in answering, AnswerRefused(x) PROVE BootOK'
  BY DEF AnswerRefused, RunsInv, BootOK, Idle, NoLive, Up, Swept, LeftPaused, Active

LEMMA ContinueRefusedBoot == ASSUME RunsInv, NEW c \in continuing, ContinueRefused(c) PROVE BootOK'
  BY DEF ContinueRefused, RunsInv, BootOK, Idle, NoLive, Up, Swept, LeftPaused, Active

-----------------------------------------------------------------------------
(* The steps that ask, answer, continue or boot.                           *)

\* The invariant after a step, from what the step can disturb.
LEMMA StepKeeps ==
  ASSUME RunsInv, TypeOK', \A r \in Runs : RunOK(r)', RowsMove,
         RunsSteady \/ answering' = {}, AsksStay,
         \A a \in Asks : AskOK(a)', \A r \in Runs : PausedOK(r)',
         \A x \in answering' \ answering : AnswerOK(x)',
         \A c \in continuing' \ continuing : ContinueOK(c)',
         ResumeOK', BootOK', FirstProcessOK'
  PROVE  RunsInv'
<1>1. \A x \in answering' : AnswerOK(x)'
  BY AnswersKept
<1>2. \A c \in continuing' : ContinueOK(c)'
  BY RequestsKept
<1> QED BY <1>1, <1>2 DEF RunsInv

\* The open questions of a run.
LEMMA OpenAskOf ==
  ASSUME TypeOK, NEW r \in Runs, NEW a \in Asks
  PROVE  a \in OpenAsks(r) <=> ask[a].status = "open" /\ ask[a].run = r
<1>1. ask[a] \in AskRow
  BY DEF TypeOK
<1> QED BY <1>1 DEF OpenAsks, AskRow

LEMMA OpenAskOfNext ==
  ASSUME TypeOK', NEW r \in Runs, NEW a \in Asks
  PROVE  a \in OpenAsks(r)' <=> ask'[a].status = "open" /\ ask'[a].run = r
<1>1. ask'[a] \in AskRow
  BY DEF TypeOK
<1> QED BY <1>1 DEF OpenAsks, AskRow

\* A step that withdraws the open questions of a run it does not leave paused.
LEMMA WithdrawnKeeps ==
  ASSUME RunsInv, TypeOK', NEW r \in Runs, RowsMove,
         ask' = [a \in Asks |-> IF a \in OpenAsks(r)
                                THEN [ask[a] EXCEPT !.status = "cancelled"] ELSE ask[a]],
         row'[r].status # "paused", \A q \in Runs \ {r} : row'[q] = row[q]
  PROVE  (\A a \in Asks : AskOK(a)') /\ (\A q \in Runs : PausedOK(q)') /\ AsksStay
<1>1. TypeOK
  BY DEF RunsInv
<1>2. ASSUME NEW a \in Asks
      PROVE  /\ ask'[a].run = ask[a].run
             /\ ask[a].status = "none" <=> ask'[a].status = "none"
             /\ ask'[a].status = "open" <=> ask[a].status = "open" /\ ask[a].run # r
  <2>1. ask[a] \in AskRow
    BY <1>1 DEF TypeOK
  <2>2. CASE a \in OpenAsks(r)
    BY <1>1, <2>1, <2>2, OpenAskOf DEF AskRow
  <2>3. CASE a \notin OpenAsks(r)
    BY <1>1, <2>1, <2>3, OpenAskOf
  <2> QED BY <2>2, <2>3
<1>3. ASSUME NEW a \in Asks PROVE AskOK(a)'
  <2>1. AskOK(a)
    BY DEF RunsInv
  <2> QED BY <1>2, <2>1 DEF AskOK, RowsMove
<1>4. ASSUME NEW q \in Runs PROVE PausedOK(q)'
  <2>1. CASE q = r
    BY <2>1 DEF PausedOK
  <2>2. CASE q # r
    <3>1. OpenAsks(q)' = OpenAsks(q)
      <4>1. \A a \in Asks : a \in OpenAsks(q)' <=> a \in OpenAsks(q)
        BY <1>1, <1>2, <2>2, OpenAskOf, OpenAskOfNext
      <4> QED BY <4>1 DEF OpenAsks
    <3> QED BY <2>2, <3>1 DEF RunsInv, PausedOK
  <2> QED BY <2>1, <2>2
<1> QED BY <1>2, <1>3, <1>4 DEF AsksStay

\* The question of an active run that can be answered is the one it waits for.
LEMMA AnsweredKeeps ==
  ASSUME RunsInv, TypeOK', NEW x \in answering, Resumable(x), RowsMove,
         ask' = [ask EXCEPT ![x.ask].status = "answered"],
         row'[ask[x.ask].run].status # "paused",
         \A q \in Runs \ {ask[x.ask].run} : row'[q] = row[q]
  PROVE  (\A a \in Asks : AskOK(a)') /\ (\A q \in Runs : PausedOK(q)') /\ AsksStay
<1> DEFINE r == ask[x.ask].run
<1>1. TypeOK /\ r \in Runs /\ x.ask \in Asks
  BY AnswerRun DEF RunsInv
<1>2. OpenAsks(r) = {x.ask}
  <2>1. ask[x.ask].status = "open" /\ Active(row[r])
    BY DEF Resumable
  <2>2. row[r].status = "paused"
    BY <1>1, <2>1 DEF RunsInv, AskOK, Active, NonTerminal, Terminal
  <2> QED BY <1>1, <2>1, <2>2, OpenAskOf DEF RunsInv, PausedOK
<1>3. ASSUME NEW a \in Asks
      PROVE  /\ ask'[a].run = ask[a].run
             /\ ask[a].status = "none" <=> ask'[a].status = "none"
             /\ ask'[a].status = "open" <=> ask[a].status = "open" /\ ask[a].run # r
  <2>1. ask[a] \in AskRow
    BY <1>1 DEF TypeOK
  <2>2. CASE a = x.ask
    BY <1>1, <1>2, <2>1, <2>2, OpenAskOf DEF TypeOK, AskRow, Resumable
  <2>3. CASE a # x.ask
    <3>1. ask'[a] = ask[a]
      BY <1>1, <2>3 DEF TypeOK
    <3> QED BY <1>1, <1>2, <2>3, <3>1, OpenAskOf
  <2> QED BY <2>2, <2>3
<1> HIDE DEF r
<1>4. row'[r].status # "paused" /\ \A q \in Runs \ {r} : row'[q] = row[q]
  BY DEF r
<1>5. ASSUME NEW a \in Asks PROVE AskOK(a)'
  <2>1. AskOK(a)
    BY DEF RunsInv
  <2> QED BY <1>3, <1>4, <2>1 DEF AskOK, RowsMove
<1>6. ASSUME NEW q \in Runs PROVE PausedOK(q)'
  <2>1. CASE q = r
    BY <1>4, <2>1 DEF PausedOK
  <2>2. CASE q # r
    <3>1. OpenAsks(q)' = OpenAsks(q)
      <4>1. \A a \in Asks : a \in OpenAsks(q)' <=> a \in OpenAsks(q)
        BY <1>1, <1>3, <2>2, OpenAskOf, OpenAskOfNext
      <4> QED BY <4>1 DEF OpenAsks
    <3> QED BY <1>4, <2>2, <3>1 DEF RunsInv, PausedOK
  <2> QED BY <2>1, <2>2
<1> QED BY <1>3, <1>5, <1>6 DEF AsksStay

LEMMA DispatchKeeps ==
  ASSUME RunsInv, NEW r \in Runs, Dispatch(r) PROVE RunsInv'
<1>1. TypeOK' /\ (\A q \in Runs : RunOK(q)')
  BY DispatchTypes, DispatchRuns DEF RunsInv
<1>2. RowsMove /\ RowsQuiet /\ (RunsSteady \/ answering' = {})
  BY DispatchMoves, DispatchSteady
<1>3. (\A a \in Asks : AskOK(a)') /\ (\A q \in Runs : PausedOK(q)') /\ AsksStay
  BY <1>2, AsksKept DEF AsksStay, RowsQuiet
<1>4. server' = server /\ ResumeOK'
  BY <1>2, RequestsKept DEF Dispatch, ResumeOK
<1>5. FirstProcessOK'
  <2>1. \A q \in Runs : ~HasRuntime(q)
    BY RowEffects DEF Dispatch, RunsInv, RunOK, AbsentOK, HasRuntime, RuntimeQuiescent
  <2>2. live' = live /\ retiring' = retiring /\ revival' = revival
        /\ \A q \in Runs \ {r} : task'[q] = task[q]
    BY <1>1 DEF Dispatch, RunsInv, TypeOK
  <2>3. \A q \in Runs : HasRuntime(q)' => q = r
    BY <2>1, <2>2 DEF HasRuntime, RuntimeQuiescent
  <2> QED BY <1>2, <1>4, <2>2, <2>3 DEF RunsInv, FirstProcessOK, OneRuntimePerWorktree, RowsQuiet, Up
<1>6. BootOK' /\ answering' = answering /\ continuing' = continuing
  BY DEF Dispatch, BootOK, Up
<1> QED BY <1>1, <1>2, <1>3, <1>4, <1>5, <1>6, StepKeeps

LEMMA DeliverKeeps ==
  ASSUME RunsInv, NEW r \in Runs, Deliver(r) PROVE RunsInv'
<1>1. TypeOK' /\ (\A q \in Runs : RunOK(q)')
  BY DeliverTypes, DeliverRuns DEF RunsInv
<1> QED BY <1>1, DeliverMoves, DeliverSteady, DeliverOrdinary, DeliverBoot, OrdinaryKept

LEMMA KillRunKeeps ==
  ASSUME RunsInv, NEW r \in Runs, KillRun(r) PROVE RunsInv'
<1>1. TypeOK' /\ (\A q \in Runs : RunOK(q)')
  BY KillRunTypes, KillRunRuns DEF RunsInv
<1>2. RowsMove /\ (RunsSteady \/ answering' = {}) /\ TypeOK
  BY KillRunMoves, KillRunSteady DEF RunsInv
<1>9. row'[r].status \in Terminal /\ \A q \in Runs \ {r} : row'[q] = row[q]
  BY <1>2, EndedEffects DEF KillRun, TypeOK, Terminal
<1>3. (\A a \in Asks : AskOK(a)') /\ (\A q \in Runs : PausedOK(q)') /\ AsksStay
  BY <1>1, <1>2, <1>9, WithdrawnKeeps DEF KillRun, Terminal
<1>4. server' = server /\ ResumeOK'
  BY <1>2, RequestsKept DEF KillRun, ResumeOK
<1>5. FirstProcessOK'
  <2>1. /\ UNCHANGED <<task, revival>> /\ live'[r] = NoLive
        /\ retiring' = IF live[r] # NoLive THEN retiring \cup {r} ELSE retiring
        /\ \A q \in Runs \ {r} : live'[q] = live[q]
    BY <1>2 DEF KillRun, TypeOK
  <2>2. RuntimesKept
    BY <1>9, <2>1 DEF RuntimesKept, HasRuntime, RuntimeQuiescent, Terminal
  <2> QED BY <1>4, <1>9, <2>2, FirstKept DEF Terminal
<1>6. BootOK' /\ answering' = answering /\ continuing' = continuing
  BY <1>2, <1>9 DEF KillRun, RunsInv, BootOK, TypeOK, Swept, LeftPaused, Active, NonTerminal, Terminal
<1> QED BY <1>1, <1>2, <1>3, <1>4, <1>5, <1>6, StepKeeps

LEMMA DispatchContinueKeeps ==
  ASSUME RunsInv, NEW r \in Runs, DispatchContinue(r) PROVE RunsInv'
<1>1. TypeOK' /\ (\A q \in Runs : RunOK(q)')
  BY DispatchContinueTypes, DispatchContinueRuns DEF RunsInv
<1>2. RowsMove /\ RowsQuiet /\ (RunsSteady \/ answering' = {})
  BY DispatchContinueMoves, DispatchContinueSteady
<1>3. (\A a \in Asks : AskOK(a)') /\ (\A q \in Runs : PausedOK(q)') /\ AsksStay
  BY <1>2, AsksKept DEF AsksStay, RowsQuiet
<1>4. server' = server /\ ResumeOK'
  BY <1>2, RequestsKept DEF DispatchContinue, ResumeOK
<1>5. FirstProcessOK'
  BY <1>2, FirstKept DEF DispatchContinue, RuntimesKept, RowsQuiet, HasRuntime, RuntimeQuiescent
<1>6. BootOK' /\ answering' = answering
  BY DEF DispatchContinue, Continuable, BootOK, Up
<1>7. \A c \in continuing' \ continuing : ContinueOK(c)'
  BY DEF DispatchContinue, Continuable, Requested, ContinueOK, Terminal
<1> QED BY <1>1, <1>2, <1>3, <1>4, <1>5, <1>6, <1>7, StepKeeps

LEMMA CreatePendingAskKeeps ==
  ASSUME RunsInv, NEW r \in Runs, NEW a \in Asks, CreatePendingAsk(r, a) PROVE RunsInv'
<1>1. TypeOK' /\ (\A q \in Runs : RunOK(q)')
  BY CreatePendingAskTypes, CreatePendingAskRuns DEF RunsInv
<1>2. RowsMove /\ (RunsSteady \/ answering' = {}) /\ TypeOK
  BY CreatePendingAskMoves, CreatePendingAskSteady DEF RunsInv
<1>3. (\A b \in Asks : AskOK(b)') /\ (\A q \in Runs : PausedOK(q)') /\ AsksStay
  <2>1. /\ row'[r].status = "paused" /\ \A q \in Runs \ {r} : row'[q] = row[q]
        /\ row[r].status \in {"spawning", "running"}
    BY <1>2, RowEffects DEF CreatePendingAsk, TypeOK, NonTerminal
  <2>2. /\ ask'[a].status = "open" /\ ask'[a].run = r /\ ask[a].status = "none"
        /\ \A b \in Asks \ {a} : ask'[b] = ask[b]
    BY <1>2 DEF CreatePendingAsk, TypeOK
  <2>3. \A b \in Asks : ask[b].status = "open" => ask[b].run # r
    BY <2>1 DEF RunsInv, AskOK, Terminal
  <2>4. ASSUME NEW b \in Asks PROVE AskOK(b)'
    BY <2>1, <2>2, <2>3 DEF RunsInv, AskOK
  <2>5. ASSUME NEW q \in Runs PROVE PausedOK(q)'
    <3>1. CASE q = r
      <4>1. \A b \in Asks : b \in OpenAsks(r)' <=> b = a
        BY <1>1, <2>2, <2>3, OpenAskOfNext
      <4>2. OpenAsks(r)' = {a}
        BY <4>1 DEF OpenAsks
      <4> QED BY <3>1, <4>2 DEF PausedOK
    <3>2. CASE q # r
      <4>1. \A b \in Asks : b \in OpenAsks(q)' <=> b \in OpenAsks(q)
        BY <1>1, <1>2, <2>2, <3>2, OpenAskOf, OpenAskOfNext
      <4>2. OpenAsks(q)' = OpenAsks(q)
        BY <4>1 DEF OpenAsks
      <4> QED BY <2>1, <3>2, <4>2 DEF RunsInv, PausedOK
    <3> QED BY <3>1, <3>2
  <2> QED BY <2>2, <2>4, <2>5 DEF AsksStay
<1>4. server' = server /\ ResumeOK'
  BY <1>2, RequestsKept DEF CreatePendingAsk, ResumeOK
<1>5. FirstProcessOK'
  <2>1. /\ UNCHANGED <<live, task, revival, retiring>> /\ live[r] # NoLive
        /\ \A q \in Runs \ {r} : row'[q] = row[q]
    BY <1>2 DEF CreatePendingAsk, ToolCall, InTurn, LiveIsCurrent, TypeOK
  <2> QED BY <1>4, <2>1, FirstKept DEF RuntimesKept, HasRuntime, RuntimeQuiescent
<1>6. BootOK' /\ answering' = answering /\ continuing' = continuing
  BY DEF CreatePendingAsk, ToolCall, InTurn, LiveIsCurrent, BootOK, Up
<1> QED BY <1>1, <1>2, <1>3, <1>4, <1>5, <1>6, StepKeeps

LEMMA AnswerPendingAskKeeps ==
  ASSUME RunsInv, NEW a \in Asks, NEW by \in Answerers, AnswerPendingAsk(a, by) PROVE RunsInv'
<1>1. TypeOK' /\ (\A q \in Runs : RunOK(q)')
  BY AnswerPendingAskTypes, AnswerPendingAskRuns DEF RunsInv
<1>2. RowsMove /\ RowsQuiet /\ (RunsSteady \/ answering' = {})
  BY AnswerPendingAskMoves, AnswerPendingAskSteady
<1>3. (\A d \in Asks : AskOK(d)') /\ (\A q \in Runs : PausedOK(q)') /\ AsksStay
  BY <1>2, AsksKept DEF AsksStay, RowsQuiet
<1>4. server' = server /\ ResumeOK'
  BY <1>2, RequestsKept DEF AnswerPendingAsk, ResumeOK
<1>5. FirstProcessOK'
  <2>1. CASE live[ask[a].run] # NoLive
    BY <1>2, <1>4, <2>1, FirstKept
       DEF AnswerPendingAsk, RuntimesKept, RowsQuiet, HasRuntime, RuntimeQuiescent
  <2>2. CASE live[ask[a].run] = NoLive
    <3>1. server.crashes # 0
      BY <2>2 DEF AnswerPendingAsk, NeedsRevival, RunsInv, FirstProcessOK, AskOK
    <3> QED BY <1>4, <3>1 DEF FirstProcessOK, OneRuntimePerWorktree
  <2> QED BY <2>1, <2>2
<1>6. BootOK' /\ continuing' = continuing
  BY DEF AnswerPendingAsk, BootOK, Up
<1>7. \A x \in answering' \ answering : AnswerOK(x)'
  <2> DEFINE r == ask[a].run
  <2>1. r \in Runs /\ row[r].status # "none" /\ ask[a].status # "none" /\ ask' = ask /\ row' = row
    BY DEF AnswerPendingAsk, RunsInv, AskOK
  <2>2. CASE live[r] = NoLive
    BY <2>1, <2>2 DEF AnswerPendingAsk, AnswerCall, AnswerOK
  <2>3. CASE live[r] # NoLive
    <3>1. /\ row[r].attempt > 0 /\ live[r].attempt = row[r].attempt /\ revival[r] = Idle
      BY <2>1, <2>3 DEF RunsInv, RunOK, RowOK, LiveOK, RevivalOK
    <3>2. /\ answering' = answering \cup {AnswerCall(a, by, "leasing", live[r].attempt)}
          /\ UNCHANGED <<live, revival>>
      BY <2>3 DEF AnswerPendingAsk
    <3> HIDE DEF r
    <3>3. ask[a].run = r
      BY DEF r
    <3> QED BY <2>1, <3>1, <3>2, <3>3 DEF AnswerCall, AnswerOK
  <2> QED BY <2>2, <2>3
<1> QED BY <1>1, <1>2, <1>3, <1>4, <1>5, <1>6, <1>7, StepKeeps

LEMMA StartRefusedKeeps ==
  ASSUME RunsInv, NEW r \in Runs, StartRefused(r) PROVE RunsInv'
<1>1. TypeOK' /\ (\A q \in Runs : RunOK(q)')
  BY StartRefusedTypes, StartRefusedRuns DEF RunsInv
<1>2. RowsMove /\ RunsSteady
  BY StartRefusedRuns DEF SettledRun
<1> QED BY <1>1, <1>2, StartRefusedOrdinary, StartRefusedBoot, OrdinaryKept

LEMMA MintFailsKeeps ==
  ASSUME RunsInv, NEW r \in Runs, MintFails(r) PROVE RunsInv'
<1>1. TypeOK' /\ (\A q \in Runs : RunOK(q)')
  BY MintFailsTypes, MintFailsRuns DEF RunsInv
<1>2. RowsMove /\ RunsSteady
  BY MintFailsRuns DEF SettledRun
<1> QED BY <1>1, <1>2, MintFailsOrdinary, MintFailsBoot, OrdinaryKept

LEMMA RevivalRefusedKeeps ==
  ASSUME RunsInv, NEW r \in Runs, RevivalRefused(r) PROVE RunsInv'
<1>1. TypeOK' /\ (\A q \in Runs : RunOK(q)')
  BY RevivalRefusedTypes, RevivalRefusedRuns DEF RunsInv
<1> QED BY <1>1, RevivalRefusedMoves, RevivalRefusedSteady, RevivalRefusedOrdinary, RevivalRefusedBoot, OrdinaryKept

LEMMA RevivalMintFailsKeeps ==
  ASSUME RunsInv, NEW r \in Runs, RevivalMintFails(r) PROVE RunsInv'
<1>1. TypeOK' /\ (\A q \in Runs : RunOK(q)')
  BY RevivalMintFailsTypes, RevivalMintFailsRuns DEF RunsInv
<1> QED BY <1>1, RevivalMintFailsMoves, RevivalMintFailsSteady, RevivalMintFailsOrdinary, RevivalMintFailsBoot, OrdinaryKept

LEMMA ReceiptKeeps ==
  ASSUME RunsInv, NEW r \in Runs, Receipt(r) PROVE RunsInv'
<1>1. TypeOK' /\ (\A q \in Runs : RunOK(q)')
  BY ReceiptTypes, ReceiptRuns DEF RunsInv
<1> QED BY <1>1, ReceiptMoves, ReceiptSteady, ReceiptOrdinary, ReceiptBoot, OrdinaryKept

LEMMA TurnBreaksKeeps ==
  ASSUME RunsInv, NEW r \in Runs, TurnBreaks(r) PROVE RunsInv'
<1>1. TypeOK' /\ (\A q \in Runs : RunOK(q)')
  BY TurnBreaksTypes, TurnBreaksRuns DEF RunsInv
<1>2. RowsMove /\ RunsSteady
  BY TurnBreaksRuns DEF SettledRun
<1> QED BY <1>1, <1>2, TurnBreaksOrdinary, TurnBreaksBoot, OrdinaryKept

LEMMA TurnEndsKeeps ==
  ASSUME RunsInv, NEW r \in Runs, TurnEnds(r) PROVE RunsInv'
<1>1. TypeOK' /\ (\A q \in Runs : RunOK(q)')
  BY TurnEndsTypes, TurnEndsRuns DEF RunsInv
<1> QED BY <1>1, TurnEndsMoves, TurnEndsSteady, TurnEndsOrdinary, TurnEndsBoot, OrdinaryKept

LEMMA TurnFailsKeeps ==
  ASSUME RunsInv, NEW r \in Runs, NEW cause \in {"turn-budget-exhausted", "other"}, TurnFails(r, cause) PROVE RunsInv'
<1>1. TypeOK' /\ (\A q \in Runs : RunOK(q)')
  BY TurnFailsTypes, TurnFailsRuns DEF RunsInv
<1>2. RowsMove /\ RunsSteady
  BY TurnFailsRuns DEF SettledRun
<1> QED BY <1>1, <1>2, TurnFailsOrdinary, TurnFailsBoot, OrdinaryKept

LEMMA StartPreparesKeeps ==
  ASSUME RunsInv, NEW r \in Runs, StartPrepares(r) PROVE RunsInv'
<1>1. TypeOK' /\ (\A q \in Runs : RunOK(q)')
  BY StartPreparesTypes, StartPreparesRuns DEF RunsInv
<1> QED BY <1>1, StartPreparesMoves, StartPreparesSteady, StartPreparesOrdinary, StartPreparesBoot, OrdinaryKept

LEMMA MintResolvesKeeps ==
  ASSUME RunsInv, NEW r \in Runs, MintResolves(r) PROVE RunsInv'
<1>1. TypeOK' /\ (\A q \in Runs : RunOK(q)')
  BY MintResolvesTypes, MintResolvesRuns DEF RunsInv
<1> QED BY <1>1, MintResolvesMoves, MintResolvesSteady, MintResolvesOrdinary, MintResolvesBoot, OrdinaryKept

LEMMA RevivalPreparesKeeps ==
  ASSUME RunsInv, NEW r \in Runs, RevivalPrepares(r) PROVE RunsInv'
<1>1. TypeOK' /\ (\A q \in Runs : RunOK(q)')
  BY RevivalPreparesTypes, RevivalPreparesRuns DEF RunsInv
<1> QED BY <1>1, RevivalPreparesMoves, RevivalPreparesSteady, RevivalPreparesOrdinary, RevivalPreparesBoot, OrdinaryKept

LEMMA RevivalMintedKeeps ==
  ASSUME RunsInv, NEW r \in Runs, RevivalMinted(r) PROVE RunsInv'
<1>1. TypeOK' /\ (\A q \in Runs : RunOK(q)')
  BY RevivalMintedTypes, RevivalMintedRuns DEF RunsInv
<1> QED BY <1>1, RevivalMintedMoves, RevivalMintedSteady, RevivalMintedOrdinary, RevivalMintedBoot, OrdinaryKept

LEMMA DoorClosesKeeps ==
  ASSUME RunsInv, NEW r \in Runs, NEW found \in {"file", "none", "invalid"}, DoorCloses(r, found) PROVE RunsInv'
<1>1. TypeOK' /\ (\A q \in Runs : RunOK(q)')
  BY DoorClosesTypes, DoorClosesRuns DEF RunsInv
<1>2. RowsMove /\ RunsSteady
  BY DoorClosesRuns DEF SettledRun
<1> QED BY <1>1, <1>2, DoorClosesOrdinary, DoorClosesBoot, OrdinaryKept

LEMMA RetiredKeeps ==
  ASSUME RunsInv, NEW r \in Runs, Retired(r) PROVE RunsInv'
<1>1. TypeOK' /\ (\A q \in Runs : RunOK(q)')
  BY RetiredTypes, RetiredRuns DEF RunsInv
<1> QED BY <1>1, RetiredMoves, RetiredSteady, RetiredOrdinary, RetiredBoot, OrdinaryKept

LEMMA ReportedKeeps ==
  ASSUME RunsInv, NEW r \in Runs, Reported(r) PROVE RunsInv'
<1>1. TypeOK' /\ (\A q \in Runs : RunOK(q)')
  BY ReportedTypes, ReportedRuns DEF RunsInv
<1> QED BY <1>1, ReportedMoves, ReportedSteady, ReportedOrdinary, ReportedBoot, OrdinaryKept

LEMMA FireAutoContinueKeeps ==
  ASSUME RunsInv, NEW r \in Runs, FireAutoContinue(r) PROVE RunsInv'
<1>1. TypeOK' /\ (\A q \in Runs : RunOK(q)')
  BY FireAutoContinueTypes, FireAutoContinueRuns DEF RunsInv
<1>2. RowsMove /\ RowsQuiet /\ (RunsSteady \/ answering' = {})
  BY FireAutoContinueMoves, FireAutoContinueSteady
<1>3. (\A a \in Asks : AskOK(a)') /\ (\A q \in Runs : PausedOK(q)') /\ AsksStay
  BY <1>2, AsksKept DEF AsksStay, RowsQuiet
<1>4. server' = server /\ ResumeOK'
  BY <1>2, RequestsKept DEF FireAutoContinue, ResumeOK
<1>5. FirstProcessOK'
  BY <1>2, FirstKept DEF FireAutoContinue, RuntimesKept, RowsQuiet, HasRuntime, RuntimeQuiescent
<1>6. BootOK' /\ answering' = answering
  BY DEF FireAutoContinue, Continuable, RunsInv, BootOK, Up, Swept, LeftPaused
<1>7. \A c \in continuing' \ continuing : ContinueOK(c)'
  <2>1. row' = row /\ (continuing' = continuing \/
          /\ continuing' = continuing \cup {Requested(r, TRUE)}
          /\ row[r].status \in Terminal)
    BY DEF FireAutoContinue, Continuable, Terminal
  <2> QED BY <2>1 DEF Requested, ContinueOK
<1> QED BY <1>1, <1>2, <1>3, <1>4, <1>5, <1>6, <1>7, StepKeeps

LEMMA AnswerRevivedKeeps ==
  ASSUME RunsInv, NEW x \in answering, AnswerRevived(x) PROVE RunsInv'
<1>1. TypeOK' /\ (\A q \in Runs : RunOK(q)')
  BY AnswerRevivedTypes, AnswerRevivedRuns DEF RunsInv
<1>2. RowsMove /\ RowsQuiet /\ (RunsSteady \/ answering' = {})
  BY AnswerRevivedMoves, AnswerRevivedSteady
<1>3. (\A a \in Asks : AskOK(a)') /\ (\A q \in Runs : PausedOK(q)') /\ AsksStay
  BY <1>2, AsksKept DEF AsksStay, RowsQuiet
<1>4. server' = server /\ ResumeOK'
  BY <1>2, RequestsKept DEF AnswerRevived, ResumeOK
<1>5. FirstProcessOK'
  BY <1>2, <1>4, FirstKept
     DEF AnswerRevived, RuntimesKept, RowsQuiet, HasRuntime, RuntimeQuiescent
<1>6. BootOK' /\ continuing' = continuing
  BY DEF AnswerRevived, RunsInv, BootOK, Swept, LeftPaused
<1>7. \A y \in answering' \ answering : AnswerOK(y)'
  <2> DEFINE r == ask[x.ask].run
  <2>1. r \in Runs /\ ask[x.ask].status # "none" /\ row[r].status # "none" /\ x.ask \in Asks
    BY AnswerRun DEF RunsInv, AnswerOK, AskOK
  <2>2. /\ UNCHANGED <<ask, row, live, revival>> /\ revival[r] = Idle
        /\ \A y \in answering' \ answering :
             y = AnswerCall(x.ask, x.by, "leasing", live[r].attempt) /\ live[r] # NoLive
    BY DEF AnswerRevived
  <2>3. live[r] # NoLive => row[r].attempt > 0 /\ live[r].attempt = row[r].attempt
    BY <2>1 DEF RunsInv, RunOK, RowOK, LiveOK
  <2> HIDE DEF r
  <2>4. ask[x.ask].run = r
    BY DEF r
  <2> QED BY <2>1, <2>2, <2>3, <2>4 DEF AnswerCall, AnswerOK
<1> QED BY <1>1, <1>2, <1>3, <1>4, <1>5, <1>6, <1>7, StepKeeps

LEMMA AnswerRefusedKeeps ==
  ASSUME RunsInv, NEW x \in answering, AnswerRefused(x) PROVE RunsInv'
<1>1. TypeOK' /\ (\A q \in Runs : RunOK(q)')
  BY AnswerRefusedTypes, AnswerRefusedRuns DEF RunsInv
<1> QED BY <1>1, AnswerRefusedMoves, AnswerRefusedSteady, AnswerRefusedOrdinary, AnswerRefusedBoot, OrdinaryKept

LEMMA AnswerSentKeeps ==
  ASSUME RunsInv, NEW x \in answering, AnswerSent(x) PROVE RunsInv'
<1>1. TypeOK' /\ (\A q \in Runs : RunOK(q)')
  BY AnswerSentTypes, AnswerSentRuns DEF RunsInv
<1> DEFINE r == ask[x.ask].run
<1>2. RowsMove /\ (RunsSteady \/ answering' = {}) /\ TypeOK /\ r \in Runs /\ x.ask \in Asks
  BY AnswerSentMoves, AnswerSentSteady, AnswerRun DEF RunsInv
<1>9. row'[r].status # "paused" /\ \A q \in Runs \ {r} : row'[q] = row[q]
  BY <1>2, RowEffects DEF AnswerSent, TypeOK
<1>3. (\A a \in Asks : AskOK(a)') /\ (\A q \in Runs : PausedOK(q)') /\ AsksStay
  BY <1>1, <1>2, <1>9, AnsweredKeeps DEF AnswerSent
<1>4. server' = server /\ ResumeOK'
  BY <1>2, RequestsKept DEF AnswerSent, ResumeOK
<1>5. FirstProcessOK'
  <2>1. /\ UNCHANGED <<task, revival, retiring>> /\ live[r] # NoLive
        /\ \A q \in Runs \ {r} : live'[q] = live[q]
    <3>1. x.attempt > 0 /\ live[r].attempt = x.attempt
      BY DEF AnswerSent, Resumable, SessionFree, RunsInv, AnswerOK
    <3> QED BY <1>2, <3>1, AnswerRun DEF AnswerSent, TypeOK, NoLive
  <2>2. RuntimesKept
    BY <1>9, <2>1 DEF RuntimesKept, HasRuntime, RuntimeQuiescent
  <2> QED BY <1>4, <1>9, <2>2, FirstKept
<1>6. BootOK' /\ answering' \subseteq answering /\ continuing' = continuing
  BY DEF AnswerSent, RunsInv, BootOK
<1> QED BY <1>1, <1>2, <1>3, <1>4, <1>5, <1>6, StepKeeps

LEMMA AnswerUnsentKeeps ==
  ASSUME RunsInv, NEW x \in answering, AnswerUnsent(x) PROVE RunsInv'
<1>1. TypeOK' /\ (\A q \in Runs : RunOK(q)')
  BY AnswerUnsentTypes, AnswerUnsentRuns DEF RunsInv
<1> DEFINE r == ask[x.ask].run
<1>2. SettledRun(r) /\ RowsMove /\ RunsSteady /\ TypeOK /\ r \in Runs /\ x.ask \in Asks /\ Active(row[r])
  BY AnswerUnsentRuns, AnswerRun DEF RunsInv, SettledRun, AnswerUnsent, Resumable
<1>9. row'[r].status # "paused" /\ \A q \in Runs \ {r} : row'[q] = row[q]
  BY <1>2 DEF SettledRun, Terminal
<1>3. (\A a \in Asks : AskOK(a)') /\ (\A q \in Runs : PausedOK(q)') /\ AsksStay
  BY <1>1, <1>2, <1>9, AnsweredKeeps DEF AnswerUnsent
<1>4. server' = server /\ ResumeOK'
  BY <1>2, RequestsKept DEF AnswerUnsent, ResumeOK
<1>5. FirstProcessOK'
  <2>1. UNCHANGED <<task, revival>>
    BY DEF AnswerUnsent
  <2>2. RuntimesKept
    BY <1>2, <1>9, <2>1 DEF SettledRun, RuntimesKept, HasRuntime, RuntimeQuiescent
  <2> QED BY <1>4, <1>9, <2>2, FirstKept
<1>6. BootOK' /\ answering' \subseteq answering /\ continuing' = continuing
  BY DEF AnswerUnsent, RunsInv, BootOK
<1> QED BY <1>1, <1>2, <1>3, <1>4, <1>5, <1>6, StepKeeps

LEMMA ContinueRefusedKeeps ==
  ASSUME RunsInv, NEW c \in continuing, ContinueRefused(c) PROVE RunsInv'
<1>1. TypeOK' /\ (\A q \in Runs : RunOK(q)')
  BY ContinueRefusedTypes, ContinueRefusedRuns DEF RunsInv
<1> QED BY <1>1, ContinueRefusedMoves, ContinueRefusedSteady, ContinueRefusedOrdinary, ContinueRefusedBoot, OrdinaryKept

LEMMA ContinuePreflightedKeeps ==
  ASSUME RunsInv, NEW c \in continuing, ContinuePreflighted(c) PROVE RunsInv'
<1>1. TypeOK' /\ (\A q \in Runs : RunOK(q)')
  BY ContinuePreflightedTypes, ContinuePreflightedRuns DEF RunsInv
<1>2. RowsMove /\ RowsQuiet /\ (RunsSteady \/ answering' = {})
  BY ContinuePreflightedMoves, ContinuePreflightedSteady
<1>3. (\A a \in Asks : AskOK(a)') /\ (\A q \in Runs : PausedOK(q)') /\ AsksStay
  BY <1>2, AsksKept DEF AsksStay, RowsQuiet
<1>4. server' = server /\ ResumeOK'
  BY <1>2, RequestsKept DEF ContinuePreflighted, ResumeOK
<1>5. FirstProcessOK'
  BY <1>2, FirstKept DEF ContinuePreflighted, RuntimesKept, RowsQuiet, HasRuntime, RuntimeQuiescent
<1>6. BootOK' /\ answering' = answering
  BY DEF ContinuePreflighted, BootOK, Up
<1>7. \A d \in continuing' \ continuing : ContinueOK(d)'
  <2>1. ContinueOK(c) /\ row' = row /\ c \in Requests
    BY DEF ContinuePreflighted, RunsInv, TypeOK
  <2>2. [c EXCEPT !.at = "lease", !.version = contract.version].parent = c.parent
    BY <2>1 DEF Requests
  <2> QED BY <2>1, <2>2 DEF ContinuePreflighted, ContinueOK
<1> QED BY <1>1, <1>2, <1>3, <1>4, <1>5, <1>6, <1>7, StepKeeps

LEMMA ContinueInsertsKeeps ==
  ASSUME RunsInv, NEW c \in continuing, NEW r \in Runs, ContinueInserts(c, r) PROVE RunsInv'
<1>1. TypeOK' /\ (\A q \in Runs : RunOK(q)')
  BY ContinueInsertsTypes, ContinueInsertsRuns DEF RunsInv
<1>2. RowsMove /\ RowsQuiet /\ (RunsSteady \/ answering' = {})
  BY ContinueInsertsMoves, ContinueInsertsSteady
<1>3. (\A a \in Asks : AskOK(a)') /\ (\A q \in Runs : PausedOK(q)') /\ AsksStay
  BY <1>2, AsksKept DEF AsksStay, RowsQuiet
<1>4. server' = server /\ ResumeOK'
  BY <1>2, RequestsKept DEF ContinueInserts, ResumeOK
<1>5. FirstProcessOK'
  <2>1. \A q \in Runs : ~HasRuntime(q)
    BY DEF ContinueInserts, Insertable, ContractQuiescent, RunQuiescent,
           RunsInv, RunOK, AbsentOK, HasRuntime, RuntimeQuiescent
  <2>2. live' = live /\ retiring' = retiring /\ revival' = revival
        /\ \A q \in Runs \ {r} : task'[q] = task[q]
    BY <1>1 DEF ContinueInserts, RunsInv, TypeOK
  <2>3. \A q \in Runs : HasRuntime(q)' => q = r
    BY <2>1, <2>2 DEF HasRuntime, RuntimeQuiescent
  <2> QED BY <1>2, <1>4, <2>2, <2>3 DEF RunsInv, FirstProcessOK, OneRuntimePerWorktree, RowsQuiet, Up
<1>6. BootOK' /\ answering' = answering /\ continuing' \subseteq continuing
  BY DEF ContinueInserts, Insertable, BootOK, Up
<1> QED BY <1>1, <1>2, <1>3, <1>4, <1>5, <1>6, StepKeeps

LEMMA SweepDoneKeeps ==
  ASSUME RunsInv, SweepDone PROVE RunsInv'
<1>1. TypeOK' /\ (\A q \in Runs : RunOK(q)')
  BY SweepDoneTypes, SweepDoneRuns DEF RunsInv
<1>2. RowsMove /\ RowsQuiet /\ (RunsSteady \/ answering' = {})
  BY SweepDoneMoves, SweepDoneSteady
<1>3. (\A a \in Asks : AskOK(a)') /\ (\A q \in Runs : PausedOK(q)') /\ AsksStay
  BY <1>2, AsksKept DEF AsksStay, RowsQuiet
<1>4. /\ server'.crashes = server.crashes /\ server'.phase = "sealed"
      /\ server'.resume = server.resume
  BY DEF SweepDone, RunsInv, TypeOK, Process
<1>5. BootOK' /\ ResumeOK' /\ FirstProcessOK'
  BY <1>4 DEF SweepDone, durable, RunsInv, BootOK, ResumeOK, FirstProcessOK, Swept, LeftPaused,
     OneRuntimePerWorktree
<1>6. answering' = answering /\ continuing' = continuing
  BY DEF SweepDone
<1> QED BY <1>1, <1>2, <1>3, <1>4, <1>5, <1>6, StepKeeps

LEMMA AttachServerKeeps ==
  ASSUME RunsInv, AttachServer PROVE RunsInv'
<1>1. TypeOK' /\ (\A q \in Runs : RunOK(q)')
  BY AttachServerTypes, AttachServerRuns DEF RunsInv
<1>2. RowsMove /\ RowsQuiet /\ (RunsSteady \/ answering' = {})
  BY AttachServerMoves, AttachServerSteady
<1>3. (\A a \in Asks : AskOK(a)') /\ (\A q \in Runs : PausedOK(q)') /\ AsksStay
  BY <1>2, AsksKept DEF AsksStay, RowsQuiet
<1>4. /\ server'.crashes = server.crashes /\ server'.phase = "up"
      /\ \A r \in server'.resume : row[r].status = "failed"
  BY DEF AttachServer, RunsInv, TypeOK, Process
<1>5. BootOK' /\ ResumeOK' /\ FirstProcessOK'
  BY <1>4 DEF AttachServer, durable, RunsInv, BootOK, ResumeOK, FirstProcessOK,
     OneRuntimePerWorktree, Terminal
<1>6. answering' = answering /\ continuing' = continuing
  BY DEF AttachServer
<1> QED BY <1>1, <1>2, <1>3, <1>4, <1>5, <1>6, StepKeeps

LEMMA RecoverAgentRunKeeps ==
  ASSUME RunsInv, NEW r \in Runs, RecoverAgentRun(r) PROVE RunsInv'
<1>1. TypeOK' /\ (\A q \in Runs : RunOK(q)')
  BY RecoverAgentRunTypes, RecoverAgentRunRuns DEF RunsInv
<1>2. RowsMove /\ (RunsSteady \/ answering' = {}) /\ TypeOK
  BY RecoverAgentRunMoves, RecoverAgentRunSteady DEF RunsInv
<1>9. row'[r].status \in Terminal /\ \A q \in Runs \ {r} : row'[q] = row[q]
  BY <1>2, EndedEffects DEF RecoverAgentRun, TypeOK, Terminal
<1>3. (\A a \in Asks : AskOK(a)') /\ (\A q \in Runs : PausedOK(q)') /\ AsksStay
  BY <1>1, <1>2, <1>9, WithdrawnKeeps DEF RecoverAgentRun, Terminal
<1>4. server' = server /\ ResumeOK'
  BY <1>2, RequestsKept DEF RecoverAgentRun, ResumeOK
<1>5. FirstProcessOK'
  BY <1>4 DEF RecoverAgentRun, RunsInv, FirstProcessOK
<1>6. BootOK' /\ answering' = answering /\ continuing' = continuing
  BY DEF RecoverAgentRun, RunsInv, BootOK
<1> QED BY <1>1, <1>2, <1>3, <1>4, <1>5, <1>6, StepKeeps

LEMMA RecoverSealedRunKeeps ==
  ASSUME RunsInv, NEW r \in Runs, RecoverSealedRun(r) PROVE RunsInv'
<1>1. TypeOK' /\ (\A q \in Runs : RunOK(q)')
  BY RecoverSealedRunTypes, RecoverSealedRunRuns DEF RunsInv
<1>2. RowsMove /\ RowsQuiet /\ (RunsSteady \/ answering' = {})
  BY RecoverSealedRunMoves, RecoverSealedRunSteady
<1>3. (\A a \in Asks : AskOK(a)') /\ (\A q \in Runs : PausedOK(q)') /\ AsksStay
  BY <1>2, AsksKept DEF AsksStay, RowsQuiet
<1>4. server' = server /\ ResumeOK'
  BY <1>2, RequestsKept DEF RecoverSealedRun, ResumeOK
<1>5. FirstProcessOK'
  BY <1>4 DEF RecoverSealedRun, RunsInv, FirstProcessOK
<1>6. BootOK' /\ answering' = answering /\ continuing' = continuing
  <2>1. TypeOK /\ row[r] \in Row /\ row' = [row EXCEPT ![r] = EndedRow(row[r], "completed", "none")]
    BY DEF RecoverSealedRun, RunsInv, TypeOK
  <2>2. row'[r].status \in Terminal /\ \A q \in Runs \ {r} : row'[q] = row[q]
    BY <2>1, EndedEffects DEF TypeOK, Terminal
  <2> QED BY <2>2 DEF RecoverSealedRun, RunsInv, BootOK, Swept, LeftPaused, Active, NonTerminal, Terminal
<1> QED BY <1>1, <1>2, <1>3, <1>4, <1>5, <1>6, StepKeeps

LEMMA SealedVerifiedKeeps ==
  ASSUME RunsInv, NEW r \in Runs, SealedVerified(r) PROVE RunsInv'
<1>1. TypeOK' /\ (\A q \in Runs : RunOK(q)')
  BY SealedVerifiedTypes, SealedVerifiedRuns DEF RunsInv
<1>2. RowsMove /\ (RunsSteady \/ answering' = {}) /\ row' = row
  BY SealedVerifiedMoves, SealedVerifiedSteady DEF SealedVerified
<1>3. (\A a \in Asks : AskOK(a)') /\ (\A q \in Runs : PausedOK(q)') /\ AsksStay
  <2>1. row'[r].status # "paused"
    BY <1>2 DEF SealedVerified, RunsInv, RunOK, PostOK, Terminal
  <2> QED BY <1>1, <1>2, <2>1, WithdrawnKeeps DEF SealedVerified
<1>4. server' = server /\ ResumeOK'
  BY <1>2, RequestsKept DEF SealedVerified, ResumeOK
<1>5. FirstProcessOK'
  BY <1>2, <1>4, FirstKept DEF SealedVerified, RuntimesKept, HasRuntime, RuntimeQuiescent
<1>6. BootOK' /\ answering' = answering /\ continuing' = continuing
  BY DEF SealedVerified, RunsInv, BootOK, Swept, LeftPaused
<1> QED BY <1>1, <1>2, <1>3, <1>4, <1>5, <1>6, StepKeeps

LEMMA RecoverPausedAskKeeps ==
  ASSUME RunsInv, NEW r \in Runs, RecoverPausedAsk(r) PROVE RunsInv'
<1>1. TypeOK' /\ (\A q \in Runs : RunOK(q)')
  BY RecoverPausedAskTypes, RecoverPausedAskRuns DEF RunsInv
<1>2. RowsMove /\ RowsQuiet /\ (RunsSteady \/ answering' = {})
  BY RecoverPausedAskMoves, RecoverPausedAskSteady
<1>3. (\A a \in Asks : AskOK(a)') /\ (\A q \in Runs : PausedOK(q)') /\ AsksStay
  BY <1>2, AsksKept DEF AsksStay, RowsQuiet
<1>4. /\ server'.crashes = server.crashes /\ server'.phase = "up"
      /\ server'.resume = server.resume /\ Up
  BY DEF RecoverPausedAsk, RunsInv, TypeOK, Process, Up
<1>5. BootOK' /\ ResumeOK'
  BY <1>4 DEF RecoverPausedAsk, durable, RunsInv, BootOK, ResumeOK
<1>6. FirstProcessOK'
  <2>1. CASE server.crashes # 0
    BY <1>4, <2>1 DEF FirstProcessOK, OneRuntimePerWorktree
  <2>2. CASE server.crashes = 0
    <3>1. revival' = revival
      BY <1>4, <2>2 DEF RecoverPausedAsk, NeedsRevival, RunsInv, FirstProcessOK
    <3> QED BY <1>4, <2>2, <3>1 DEF RecoverPausedAsk, durable, RunsInv, FirstProcessOK,
               OneRuntimePerWorktree, HasRuntime, RuntimeQuiescent
  <2> QED BY <2>1, <2>2
<1>7. answering' = answering /\ continuing' = continuing
  BY DEF RecoverPausedAsk
<1> QED BY <1>1, <1>2, <1>3, <1>4, <1>5, <1>6, <1>7, StepKeeps

LEMMA RecoverAutoContinueKeeps ==
  ASSUME RunsInv, NEW r \in Runs, RecoverAutoContinue(r) PROVE RunsInv'
<1>1. TypeOK' /\ (\A q \in Runs : RunOK(q)')
  BY RecoverAutoContinueTypes, RecoverAutoContinueRuns DEF RunsInv
<1>2. RowsMove /\ RowsQuiet /\ (RunsSteady \/ answering' = {})
  BY RecoverAutoContinueMoves, RecoverAutoContinueSteady
<1>3. (\A a \in Asks : AskOK(a)') /\ (\A q \in Runs : PausedOK(q)') /\ AsksStay
  BY <1>2, AsksKept DEF AsksStay, RowsQuiet
<1>4. /\ server'.crashes = server.crashes /\ server'.phase = "up"
      /\ server'.resume \subseteq server.resume /\ Up
  BY DEF RecoverAutoContinue, RunsInv, TypeOK, Process, Up
<1>5. BootOK' /\ ResumeOK' /\ FirstProcessOK'
  BY <1>4 DEF RecoverAutoContinue, durable, RunsInv, BootOK, ResumeOK, FirstProcessOK, Up,
     OneRuntimePerWorktree, HasRuntime, RuntimeQuiescent
<1>6. answering' = answering /\ continuing' = continuing
  BY DEF RecoverAutoContinue
<1> QED BY <1>1, <1>2, <1>3, <1>4, <1>5, <1>6, StepKeeps

LEMMA DisposeAllKeeps ==
  ASSUME RunsInv, DisposeAll PROVE RunsInv'
<1>1. TypeOK' /\ (\A q \in Runs : RunOK(q)')
  BY DisposeAllTypes, DisposeAllRuns DEF RunsInv
<1>2. RowsMove /\ RowsQuiet /\ (RunsSteady \/ answering' = {})
  BY DisposeAllMoves, DisposeAllSteady
<1>3. (\A a \in Asks : AskOK(a)') /\ (\A q \in Runs : PausedOK(q)') /\ AsksStay
  BY <1>2, AsksKept DEF AsksStay, RowsQuiet
<1>4. /\ server'.crashes = server.crashes /\ server'.phase = "closing"
      /\ server'.resume = server.resume
  BY DEF DisposeAll, RunsInv, TypeOK, Process
<1>5. BootOK' /\ ResumeOK' /\ FirstProcessOK'
  <2>1. \A q \in Runs : HasRuntime(q)' => HasRuntime(q)
    BY DEF DisposeAll, HasRuntime, RuntimeQuiescent
  <2> QED BY <1>4, <2>1 DEF DisposeAll, RunsInv, BootOK, ResumeOK, FirstProcessOK, Up,
     OneRuntimePerWorktree
<1>6. answering' = answering /\ continuing' = continuing
  BY DEF DisposeAll
<1> QED BY <1>1, <1>2, <1>3, <1>4, <1>5, <1>6, StepKeeps

LEMMA CrashKeeps ==
  ASSUME RunsInv, Crash PROVE RunsInv'
<1>1. TypeOK' /\ (\A q \in Runs : RunOK(q)')
  BY CrashTypes, CrashRuns DEF RunsInv
<1>2. RowsMove /\ RowsQuiet /\ (RunsSteady \/ answering' = {})
  BY CrashMoves, CrashSteady
<1>3. (\A a \in Asks : AskOK(a)') /\ (\A q \in Runs : PausedOK(q)') /\ AsksStay
  BY <1>2, AsksKept DEF AsksStay, RowsQuiet
<1>4. /\ server'.resume = {} /\ server'.phase = "sweep" /\ server'.crashes = server.crashes + 1
      /\ server.crashes \in Nat
  BY DEF Crash, Lost, RunsInv, TypeOK, Process
<1>5. BootOK' /\ ResumeOK' /\ FirstProcessOK' /\ answering' = {} /\ continuing' = {}
  BY <1>4 DEF Crash, Lost, BootOK, ResumeOK, FirstProcessOK, OneRuntimePerWorktree
<1> QED BY <1>1, <1>2, <1>3, <1>4, <1>5, StepKeeps

LEMMA CrashAfterAnswerKeeps ==
  ASSUME RunsInv, NEW x \in answering, CrashAfterAnswer(x) PROVE RunsInv'
<1>1. TypeOK' /\ (\A q \in Runs : RunOK(q)')
  BY CrashAfterAnswerTypes, CrashAfterAnswerRuns DEF RunsInv
<1> DEFINE r == ask[x.ask].run
<1>2. RowsMove /\ answering' = {} /\ continuing' = {} /\ TypeOK /\ r \in Runs /\ x.ask \in Asks
  BY CrashAfterAnswerMoves, AnswerRun DEF RunsInv, CrashAfterAnswer, Lost
<1>3. row'[r].status # "paused" /\ \A q \in Runs \ {r} : row'[q] = row[q]
  BY <1>2, RowEffects DEF CrashAfterAnswer, TypeOK, NonTerminal
<1>4. (\A a \in Asks : AskOK(a)') /\ (\A q \in Runs : PausedOK(q)') /\ AsksStay
  BY <1>1, <1>2, <1>3, AnsweredKeeps DEF CrashAfterAnswer
<1>5. /\ server'.resume = {} /\ server'.phase = "sweep" /\ server'.crashes = server.crashes + 1
      /\ server.crashes \in Nat
  BY <1>2 DEF CrashAfterAnswer, Lost, TypeOK, Process
<1>6. BootOK' /\ ResumeOK' /\ FirstProcessOK'
  BY <1>5 DEF CrashAfterAnswer, Lost, BootOK, ResumeOK, FirstProcessOK, OneRuntimePerWorktree
<1> QED BY <1>1, <1>2, <1>4, <1>6, StepKeeps

-----------------------------------------------------------------------------
(* The invariant.                                                          *)

LEMMA RunsInductive == RunsInv /\ [Next]_vars => RunsInv'
<1> SUFFICES ASSUME RunsInv, [Next]_vars PROVE RunsInv'
  OBVIOUS
<1>1. CASE UNCHANGED vars
  BY <1>1 DEF vars, RunsInv, TypeOK, RunOK, RowOK, AbsentOK, TaskOK, RevivalOK, LiveOK, DrivenOK,
     PostOK, AskOK, PausedOK, AnswerOK, ContinueOK, BootOK, ResumeOK, FirstProcessOK,
     OneRuntimePerWorktree, HasRuntime, RuntimeQuiescent, OpenAsks, Up, Swept, LeftPaused
<1>2. CASE ClientStep
  BY <1>2, DispatchKeeps, DeliverKeeps, KillRunKeeps, DispatchContinueKeeps,
     CreatePendingAskKeeps, AnswerPendingAskKeeps DEF ClientStep
<1>3. CASE BootStep
  BY <1>3, SweepDoneKeeps, AttachServerKeeps, RecoverAgentRunKeeps, RecoverSealedRunKeeps,
     SealedVerifiedKeeps, RecoverPausedAskKeeps, RecoverAutoContinueKeeps DEF BootStep
<1>4. CASE Stop
  BY <1>4, DisposeAllKeeps, CrashKeeps, CrashAfterAnswerKeeps DEF Stop
<1>5. ASSUME NEW r \in Runs, ProviderStep(r) PROVE RunsInv'
  BY <1>5, StartRefusedKeeps, MintFailsKeeps, RevivalRefusedKeeps, RevivalMintFailsKeeps,
     ReceiptKeeps, TurnBreaksKeeps, TurnEndsKeeps, TurnFailsKeeps DEF ProviderStep
<1>6. ASSUME NEW r \in Runs, RunStep(r) PROVE RunsInv'
  BY <1>6, StartPreparesKeeps, MintResolvesKeeps, RevivalPreparesKeeps, RevivalMintedKeeps,
     DoorClosesKeeps, RetiredKeeps, ReportedKeeps, FireAutoContinueKeeps DEF RunStep
<1>7. ASSUME NEW x \in answering, AnswerStep(x) PROVE RunsInv'
  BY <1>7, AnswerRevivedKeeps, AnswerRefusedKeeps, AnswerSentKeeps, AnswerUnsentKeeps
     DEF AnswerStep
<1>8. ASSUME NEW c \in continuing, ContinueStep(c) PROVE RunsInv'
  BY <1>8, ContinueRefusedKeeps, ContinuePreflightedKeeps, ContinueInsertsKeeps DEF ContinueStep
<1> QED BY <1>1, <1>2, <1>3, <1>4, <1>5, <1>6, <1>7, <1>8 DEF Next

LEMMA RunsInitially == Init => RunsInv
<1> SUFFICES ASSUME Init PROVE RunsInv
  OBVIOUS
<1>1. TypeOK
  <2>1. [version |-> 0, producer |-> NoRun] \in Contract
    BY DEF Contract
  <2>2. [phase |-> "up", revive |-> {}, resume |-> {}, crashes |-> 0] \in Process
    BY DEF Process
  <2>3. [status |-> "none", run |-> NoRun] \in AskRow
    BY DEF AskRow
  <2>4. NoLive \in Runtime /\ Idle \in Awaits
    BY DEF NoLive, Runtime, Idle, Awaits
  <2> QED BY <2>1, <2>2, <2>3, <2>4, RowShapes DEF Init, TypeOK, Followup
<1>2. \A r \in Runs : row[r].status = "none" /\ row[r] = NoRow /\ ~HasRuntime(r)
                        /\ live[r] = NoLive /\ task[r] = Idle /\ revival[r] = Idle
                        /\ post[r] = "none" /\ r \notin retiring
  BY DEF Init, NoRow, HasRuntime, RuntimeQuiescent
<1>3. ASSUME NEW r \in Runs PROVE RunOK(r) /\ PausedOK(r)
  BY <1>2 DEF RunOK, RowOK, AbsentOK, TaskOK, RevivalOK, LiveOK, DrivenOK, PostOK, PausedOK,
     Idle, Active, NonTerminal
<1>4. (\A a \in Asks : AskOK(a)) /\ answering = {} /\ continuing = {}
  BY DEF Init, AskOK
<1>5. BootOK /\ ResumeOK /\ FirstProcessOK
  BY <1>2 DEF Init, BootOK, ResumeOK, FirstProcessOK, OneRuntimePerWorktree
<1> QED BY <1>1, <1>3, <1>4, <1>5 DEF RunsInv

\* The invariant that carries every result below.
THEOREM RunsInvariant == Spec => []RunsInv
<1> QED BY RunsInitially, RunsInductive, PTL DEF Spec

\* Every variable keeps its type, whatever the order of the calls, of the
\* provider's answers and of the restarts.
THEOREM RunTypes == Spec => []TypeOK
<1>1. RunsInv => TypeOK
  BY DEF RunsInv
<1> QED BY <1>1, RunsInvariant, PTL

\* A run is paused exactly while one question of it is open: createPendingAsk,
\* answerAndResume, killRun and the sweeps change both in one transaction.
THEOREM PausedRunHasItsAsk == Spec => []PausedWithItsAsk
<1>1. RunsInv => PausedWithItsAsk
  <2> SUFFICES ASSUME RunsInv, NEW r \in Runs
               PROVE /\ row[r].status = "paused" => Cardinality(OpenAsks(r)) = 1
                     /\ Active(row[r]) /\ row[r].status # "paused" => OpenAsks(r) = {}
    BY DEF PausedWithItsAsk
  <2>1. ASSUME row[r].status = "paused" PROVE Cardinality(OpenAsks(r)) = 1
    <3>1. PICK a \in Asks : OpenAsks(r) = {a}
      BY <2>1 DEF RunsInv, PausedOK
    <3> QED BY <3>1, FS_Singleton
  <2>2. ASSUME Active(row[r]), row[r].status # "paused" PROVE OpenAsks(r) = {}
    <3>1. ASSUME NEW a \in OpenAsks(r) PROVE FALSE
      <4>1. a \in Asks /\ ask[a].status = "open" /\ ask[a].run = r
        BY OpenAskOf DEF RunsInv, OpenAsks
      <4> QED BY <2>2, <4>1 DEF RunsInv, AskOK, Active, NonTerminal, Terminal
    <3> QED BY <3>1
  <2> QED BY <2>1, <2>2
<1> QED BY <1>1, RunsInvariant, PTL

\* No callback of a replaced or ended runtime finds that runtime installed: the
\* installed one carries the attempt of a living row, and its receipt.
THEOREM RuntimesSpeakForTheirRows == Spec => []RuntimeSpeaksForItsRow
<1>1. RunsInv => RuntimeSpeaksForItsRow
  BY DEF RunsInv, RunOK, LiveOK, RuntimeSpeaksForItsRow, Active, NonTerminal
<1> QED BY <1>1, RunsInvariant, PTL

\* No run is left active with nobody to end it while the server is up: not by
\* a refused start, a failed mint, a refused revival, a lost answer or a boot.
THEOREM ActiveRunsAreDriven == Spec => []ActiveRunIsDriven
<1>1. RunsInv => ActiveRunIsDriven
  BY DEF RunsInv, RunOK, DrivenOK, ActiveRunIsDriven
<1> QED BY <1>1, RunsInvariant, PTL

\* Until the first restart, the quiescence checks of the continue path keep two
\* runs of one contract from having a runtime at once.
THEOREM OneRuntimeBeforeRestart == Spec => []OneRuntimePerWorktree
<1>1. RunsInv => OneRuntimePerWorktree
  BY DEF RunsInv, FirstProcessOK, OneRuntimePerWorktree
<1> QED BY <1>1, RunsInvariant, PTL

-----------------------------------------------------------------------------
(* The triggers and the exchange.                                          *)

\* One row written as the triggers allow.
LEMMA OneRowAllowed ==
  ASSUME TypeOK, NEW r \in Runs, NEW rw, row' = [row EXCEPT ![r] = rw],
         rw = row[r] \/ RowMoveAllowed(row[r], rw), rw.continues = row[r].continues
  PROVE  RowsAllowed /\ ParentsKept
<1>1. \A q \in Runs : row'[q] = IF q = r THEN rw ELSE row[q]
  BY DEF TypeOK
<1> QED BY <1>1 DEF RowsAllowed, ParentsKept

LEMMA DeliverAllowed ==
  ASSUME RunsInv, NEW r \in Runs, Deliver(r) PROVE RowsAllowed /\ ParentsKept
<1> DEFINE r0 == r
           rw == [row[r] EXCEPT !.delivered = TRUE]
<1>1. /\ row' = [row EXCEPT ![r0] = rw] /\ row[r0] \in Row /\ TypeOK /\ RowOK(r0) /\ r0 \in Runs
      /\ Active(row[r0])
  BY DEF Deliver, ToolCall, InTurn, LiveIsCurrent, RunsInv, RunOK, TypeOK
<1>2. /\ rw = row[r0] \/ RowMoveAllowed(row[r0], rw)
      /\ rw.continues = row[r0].continues
  BY <1>1, RowEffects, StatusOf DEF RowMoveAllowed, RowOK, Active, NonTerminal, Terminal
<1> HIDE DEF rw, r0
<1> QED BY <1>1, <1>2, OneRowAllowed

LEMMA KillRunAllowed ==
  ASSUME RunsInv, NEW r \in Runs, KillRun(r) PROVE RowsAllowed /\ ParentsKept
<1> DEFINE r0 == r
           rw == EndedRow(row[r], "cancelled", "other")
<1>1. /\ row' = [row EXCEPT ![r0] = rw] /\ row[r0] \in Row /\ TypeOK /\ RowOK(r0) /\ r0 \in Runs
      /\ Active(row[r0])
  BY DEF KillRun, RunsInv, RunOK, TypeOK
<1>2. /\ rw = row[r0] \/ RowMoveAllowed(row[r0], rw)
      /\ rw.continues = row[r0].continues
  BY <1>1, EndedEffects, StatusOf DEF RowMoveAllowed, RowOK, Active, NonTerminal, Terminal
<1> HIDE DEF rw, r0
<1> QED BY <1>1, <1>2, OneRowAllowed

LEMMA CreatePendingAskAllowed ==
  ASSUME RunsInv, NEW r \in Runs, NEW a \in Asks, CreatePendingAsk(r, a) PROVE RowsAllowed /\ ParentsKept
<1> DEFINE r0 == r
           rw == [row[r] EXCEPT !.status = "paused"]
<1>1. /\ row' = [row EXCEPT ![r0] = rw] /\ row[r0] \in Row /\ TypeOK /\ RowOK(r0) /\ r0 \in Runs
      /\ row[r0].status \in {"spawning", "running"}
  BY DEF CreatePendingAsk, RunsInv, RunOK, TypeOK
<1>2. /\ rw = row[r0] \/ RowMoveAllowed(row[r0], rw)
      /\ rw.continues = row[r0].continues
  BY <1>1, RowEffects, StatusOf DEF RowMoveAllowed, RowOK, Active, NonTerminal, Terminal
<1> HIDE DEF rw, r0
<1> QED BY <1>1, <1>2, OneRowAllowed

LEMMA RevivalMintFailsAllowed ==
  ASSUME RunsInv, NEW r \in Runs, RevivalMintFails(r) PROVE RowsAllowed /\ ParentsKept
<1> DEFINE r0 == r
           rw == ResumeFailedRow(row[r], revival[r].attempt)
<1>1. /\ row' = [row EXCEPT ![r0] = rw] /\ row[r0] \in Row /\ TypeOK /\ RowOK(r0) /\ r0 \in Runs
      /\ revival[r0].attempt \in Nat
  BY AwaitShapes DEF RevivalMintFails, RunsInv, RunOK, TypeOK
<1>2. /\ rw = row[r0] \/ RowMoveAllowed(row[r0], rw)
      /\ rw.continues = row[r0].continues
  BY <1>1, ResumeFailedEffects, StatusOf DEF RowMoveAllowed, RowOK, Active, NonTerminal, Terminal
<1> HIDE DEF rw, r0
<1> QED BY <1>1, <1>2, OneRowAllowed

LEMMA RevivalPreparesAllowed ==
  ASSUME RunsInv, NEW r \in Runs, RevivalPrepares(r) PROVE RowsAllowed /\ ParentsKept
<1> DEFINE rw == PreparedResume(row[r])
<1>1. /\ row' = [row EXCEPT ![r] = rw] /\ row[r] \in Row /\ TypeOK
      /\ row[r].status = "paused" /\ ResumeReady(row[r])
  BY DEF RevivalPrepares, ResumePreparable, RunsInv, TypeOK
<1>2. /\ rw.status = "paused" /\ rw.attempt = row[r].attempt + 1 /\ rw.state = "resume-pending"
      /\ rw.continues = row[r].continues /\ row[r].attempt \in Nat
  BY <1>1, RowEffects, StatusOf
<1> HIDE DEF rw
<1>3. rw.attempt # row[r].attempt
  BY <1>2
<1>4. RowMoveAllowed(row[r], rw)
  BY <1>1, <1>2, <1>3 DEF RowMoveAllowed, Active, NonTerminal, Terminal
<1> QED BY <1>1, <1>2, <1>4, OneRowAllowed

LEMMA RecoverAgentRunAllowed ==
  ASSUME RunsInv, NEW r \in Runs, RecoverAgentRun(r) PROVE RowsAllowed /\ ParentsKept
<1> DEFINE r0 == r
           rw == EndedRow(row[r], "failed", "other")
<1>1. /\ row' = [row EXCEPT ![r0] = rw] /\ row[r0] \in Row /\ TypeOK /\ RowOK(r0) /\ r0 \in Runs
      /\ Active(row[r0])
  BY DEF RecoverAgentRun, Swept, RunsInv, RunOK, TypeOK
<1>2. /\ rw = row[r0] \/ RowMoveAllowed(row[r0], rw)
      /\ rw.continues = row[r0].continues
  BY <1>1, EndedEffects, StatusOf DEF RowMoveAllowed, RowOK, Active, NonTerminal, Terminal
<1> HIDE DEF rw, r0
<1> QED BY <1>1, <1>2, OneRowAllowed

LEMMA RecoverSealedRunAllowed ==
  ASSUME RunsInv, NEW r \in Runs, RecoverSealedRun(r) PROVE RowsAllowed /\ ParentsKept
<1> DEFINE r0 == r
           rw == EndedRow(row[r], "completed", "none")
<1>1. /\ row' = [row EXCEPT ![r0] = rw] /\ row[r0] \in Row /\ TypeOK /\ RowOK(r0) /\ r0 \in Runs
      /\ Active(row[r0])
  BY DEF RecoverSealedRun, SealedRun, RunsInv, RunOK, TypeOK
<1>2. /\ rw = row[r0] \/ RowMoveAllowed(row[r0], rw)
      /\ rw.continues = row[r0].continues
  BY <1>1, EndedEffects, StatusOf DEF RowMoveAllowed, RowOK, Active, NonTerminal, Terminal
<1> HIDE DEF rw, r0
<1> QED BY <1>1, <1>2, OneRowAllowed

LEMMA AnswerSentAllowed ==
  ASSUME RunsInv, NEW x \in answering, AnswerSent(x) PROVE RowsAllowed /\ ParentsKept
<1> DEFINE r0 == ask[x.ask].run
           rw == AnsweredRow(row[ask[x.ask].run])
<1>1. /\ row' = [row EXCEPT ![r0] = rw] /\ row[r0] \in Row /\ TypeOK /\ RowOK(r0) /\ r0 \in Runs
      /\ Active(row[r0])
  BY AnswerRun DEF AnswerSent, Resumable, RunsInv, RunOK, TypeOK
<1>2. /\ rw = row[r0] \/ RowMoveAllowed(row[r0], rw)
      /\ rw.continues = row[r0].continues
  BY <1>1, RowEffects, StatusOf DEF RowMoveAllowed, RowOK, Active, NonTerminal, Terminal
<1> HIDE DEF rw, r0
<1> QED BY <1>1, <1>2, OneRowAllowed

LEMMA CrashAfterAnswerAllowed ==
  ASSUME RunsInv, NEW x \in answering, CrashAfterAnswer(x) PROVE RowsAllowed /\ ParentsKept
<1> DEFINE r0 == ask[x.ask].run
           rw == [row[ask[x.ask].run] EXCEPT !.status = "spawning"]
<1>1. /\ row' = [row EXCEPT ![r0] = rw] /\ row[r0] \in Row /\ TypeOK /\ RowOK(r0) /\ r0 \in Runs
      /\ Active(row[r0])
  BY AnswerRun DEF CrashAfterAnswer, Resumable, RunsInv, RunOK, TypeOK
<1>2. /\ rw = row[r0] \/ RowMoveAllowed(row[r0], rw)
      /\ rw.continues = row[r0].continues
  BY <1>1, RowEffects, StatusOf DEF RowMoveAllowed, RowOK, Active, NonTerminal, Terminal
<1> HIDE DEF rw, r0
<1> QED BY <1>1, <1>2, OneRowAllowed

LEMMA ReceiptAllowed ==
  ASSUME RunsInv, NEW r \in Runs, Receipt(r) PROVE RowsAllowed /\ ParentsKept
<1> DEFINE rw == [ConfirmedRow(row[r]) EXCEPT !.status = "running"]
<1>1. /\ row' = [row EXCEPT ![r] = rw] /\ row[r] \in Row /\ TypeOK
      /\ row[r].status = "spawning" /\ row[r].state \in Pending
  BY DEF Receipt, ReceiptAccepted, RunsInv, TypeOK, Pending
<1>2. /\ rw.status = "running" /\ rw.attempt = row[r].attempt /\ rw.continues = row[r].continues
      /\ rw.state = IF row[r].state = "clean-pending" THEN "clean-started" ELSE "native-resumed"
  BY <1>1, RowShapes, RowEffects DEF NonTerminal
<1> HIDE DEF rw
<1>3. RowMoveAllowed(row[r], rw)
  BY <1>1, <1>2 DEF RowMoveAllowed, Confirmed, Pending, Terminal
<1> QED BY <1>1, <1>2, <1>3, OneRowAllowed

LEMMA StartPreparesAllowed ==
  ASSUME RunsInv, NEW r \in Runs, StartPrepares(r) PROVE RowsAllowed /\ ParentsKept
<1> DEFINE prepared == IF row[r].continues = NoRun THEN PreparedCreate(row[r])
                                                   ELSE PreparedResume(row[r])
           rw == [prepared EXCEPT !.status = "spawning"]
<1>1. TypeOK /\ row[r] \in Row
  BY DEF RunsInv, TypeOK
<1>2. CASE row' = row
  BY <1>2 DEF RowsAllowed, ParentsKept
<1>3. CASE row' # row
  <2>1. /\ row' = [row EXCEPT ![r] = rw] /\ Active(row[r])
        /\ row[r].continues = NoRun => row[r].state = "clean-pending"
        /\ row[r].continues # NoRun => row[r].state # "clean-pending"
    BY <1>3 DEF StartPrepares, CreatePreparable, ResumePreparable, ResumeReady
  <2>2. /\ prepared \in Row /\ prepared.attempt = row[r].attempt + 1
        /\ prepared.continues = row[r].continues
        /\ prepared.state = IF row[r].continues = NoRun THEN row[r].state ELSE "resume-pending"
    BY <1>1, RowShapes, RowEffects
  <2> HIDE DEF prepared
  <2>3. /\ rw.status = "spawning" /\ rw.attempt = row[r].attempt + 1
        /\ rw.continues = row[r].continues
        /\ rw.state = IF row[r].continues = NoRun THEN row[r].state ELSE "resume-pending"
    BY <2>2, RowEffects DEF NonTerminal
  <2> HIDE DEF rw
  <2>4. RowMoveAllowed(row[r], rw)
    <3>1. row[r].attempt \in Nat /\ rw.attempt # row[r].attempt
      BY <1>1, <2>3, RowAttempt
    <3>2. Active(rw) /\ row[r].status \notin Terminal
      BY <2>1, <2>3 DEF Active, NonTerminal, Terminal
    <3>3. rw.state = IF ResumeReady(row[r]) THEN "resume-pending" ELSE "clean-pending"
      BY <2>1, <2>3 DEF ResumeReady
    <3>4. rw.state # row[r].state => rw.state = "resume-pending" /\ ResumeReady(row[r])
      BY <2>1, <2>3 DEF ResumeReady
    <3> QED BY <2>1, <2>3, <3>1, <3>2, <3>3, <3>4 DEF RowMoveAllowed
  <2> QED BY <1>1, <2>1, <2>3, <2>4, OneRowAllowed
<1> QED BY <1>2, <1>3

\* A row that is born.
LEMMA BornAllowed ==
  ASSUME TypeOK, NEW r \in Runs, NEW p \in Runs \cup {NoRun}, NEW n \in Nat, row[r] = NoRow,
         row' = [row EXCEPT ![r] = QueuedRow(p, n)]
  PROVE  RowsAllowed
<1> DEFINE rw == QueuedRow(p, n)
<1>1. rw.status = "queued" /\ rw.attempt = 1
  BY RowEffects
<1> HIDE DEF rw
<1>2. \A q \in Runs : row'[q] = IF q = r THEN rw ELSE row[q]
  BY DEF TypeOK, rw
<1> QED BY <1>1, <1>2 DEF RowsAllowed, RowMoveAllowed

LEMMA DispatchAllowed == ASSUME RunsInv, NEW r \in Runs, Dispatch(r) PROVE RowsAllowed
  BY BornAllowed DEF Dispatch, RunsInv

LEMMA ContinueInsertsAllowed ==
  ASSUME RunsInv, NEW c \in continuing, NEW r \in Runs, ContinueInserts(c, r) PROVE RowsAllowed
<1> DEFINE n == IF c.auto THEN row[c.parent].count + 1 ELSE 0
<1>1. c.parent \in Runs /\ TypeOK
  BY CallShapes DEF RunsInv, TypeOK
<1>2. row[c.parent].count \in Nat
  BY <1>1, RowShapes DEF TypeOK
<1>3. n \in Nat
  BY <1>2
<1>4. row[r] = NoRow /\ row' = [row EXCEPT ![r] = QueuedRow(c.parent, n)]
  BY DEF ContinueInserts
<1> HIDE DEF n
<1> QED BY <1>1, <1>3, <1>4, BornAllowed

\* No step of the component makes a trigger of agent_runs fire.
LEMMA StepsAllowed == ASSUME RunsInv, Next PROVE RowsAllowed
<1>1. CASE ClientStep
  BY <1>1, DispatchAllowed, DeliverAllowed, KillRunAllowed, CreatePendingAskAllowed
     DEF ClientStep, DispatchContinue, AnswerPendingAsk, RowsAllowed
<1>2. CASE BootStep
  BY <1>2, RecoverAgentRunAllowed, RecoverSealedRunAllowed
     DEF BootStep, SweepDone, AttachServer, SealedVerified, RecoverPausedAsk,
         RecoverAutoContinue, durable, RowsAllowed
<1>3. CASE Stop
  BY <1>3, CrashAfterAnswerAllowed DEF Stop, DisposeAll, Crash, durable, RowsAllowed
<1>4. ASSUME NEW r \in Runs, ProviderStep(r) PROVE RowsAllowed
  BY <1>4, StartRefusedRuns, MintFailsRuns, RevivalMintFailsAllowed, ReceiptAllowed,
     TurnBreaksRuns, TurnFailsRuns
     DEF ProviderStep, RevivalRefused, TurnEnds, SettledRun, RowsAllowed
<1>5. ASSUME NEW r \in Runs, RunStep(r) PROVE RowsAllowed
  BY <1>5, StartPreparesAllowed, RevivalPreparesAllowed, DoorClosesRuns
     DEF RunStep, MintResolves, RevivalMinted, Retired, Reported, FireAutoContinue,
         SettledRun, RowsAllowed
<1>6. ASSUME NEW x \in answering, AnswerStep(x) PROVE RowsAllowed
  BY <1>6, AnswerSentAllowed, AnswerUnsentRuns
     DEF AnswerStep, AnswerRevived, AnswerRefused, SettledRun, RowsAllowed
<1>7. ASSUME NEW c \in continuing, ContinueStep(c) PROVE RowsAllowed
  BY <1>7, ContinueInsertsAllowed
     DEF ContinueStep, ContinueRefused, ContinuePreflighted, RowsAllowed
<1> QED BY <1>1, <1>2, <1>3, <1>4, <1>5, <1>6, <1>7 DEF Next

\* A row is consistent, a delivered one holds its receipt until it ends, and a
\* turn that is at the file door had its receipt.
ConsistentOK(r) ==
  /\ row[r].status # "none" => RowConsistent(row[r])
  /\ row[r].delivered /\ Active(row[r]) =>
       /\ row[r].state \in Confirmed
       /\ Up => live[r] # NoLive
  /\ live[r].turn = "door" => live[r].confirmed

ConsistentInv == \A r \in Runs : ConsistentOK(r)

\* What the commands leave of the delivery stamp.
LEMMA DeliveredEffects ==
  ASSUME NEW rw \in Row
  PROVE  /\ \A s \in NonTerminal : [rw EXCEPT !.status = s].delivered = rw.delivered
         /\ PreparedCreate(rw).delivered = rw.delivered
         /\ PreparedResume(rw).delivered = rw.delivered
         /\ ConfirmedRow(rw).delivered = rw.delivered
         /\ AnsweredRow(rw).delivered = rw.delivered
         /\ \A n \in Nat : ResumeFailedRow(rw, n).delivered = rw.delivered
  BY DEF Row, PreparedCreate, PreparedResume, ConfirmedRow, AnsweredRow, ResumeFailedRow

\* A run that a step leaves alone stays consistent.
LEMMA ConsistentFrame ==
  ASSUME NEW q \in Runs, ConsistentOK(q), row'[q] = row[q],
         live'[q] = live[q] \/ (live'[q] = NoLive /\ (~Up' \/ ~Active(row[q]))), Up' => Up
  PROVE  ConsistentOK(q)'
  BY DEF ConsistentOK, NoLive

\* An ended row is consistent: only a confirmed run completes.
LEMMA EndedConsistent ==
  ASSUME NEW rw \in Row, NEW s \in Terminal,
         NEW c \in {"none", "turn-budget-exhausted", "other"},
         s = "completed" => rw.state \in Confirmed
  PROVE  RowConsistent(EndedRow(rw, s, c))
<1>1. /\ EndedRow(rw, s, c).state = rw.state /\ rw.state \in States
      /\ EndedRow(rw, s, c).status \in Terminal
      /\ EndedRow(rw, s, c).status = "completed" => s = "completed"
  BY EndedEffects, StatusOf DEF EndedRow, Row
<1> DEFINE ended == EndedRow(rw, s, c)
<1> HIDE DEF ended
<1>2. RowConsistent(ended)
  BY <1>1 DEF ended, RowConsistent, States, Terminal, Confirmed
<1> QED BY <1>2 DEF ended

\* A settlement keeps the rows consistent.
LEMMA SettledConsistent ==
  ASSUME RunsInv, ConsistentInv, NEW r \in Runs, NEW rw \in Row, NEW s \in Terminal,
         NEW c \in {"none", "turn-budget-exhausted", "other"}, NEW f \in Nat,
         SettleTerminal(r, rw, s, c, f), SettledRun(r), UNCHANGED server,
         Active(row[r]) => Active(rw), s = "completed" => rw.state \in Confirmed
  PROVE  ConsistentInv'
<1> SUFFICES ASSUME NEW q \in Runs PROVE ConsistentOK(q)'
  BY DEF ConsistentInv
<1>1. ConsistentOK(q) /\ (Up' <=> Up) /\ TypeOK
  BY DEF ConsistentInv, Up, RunsInv
<1>2. CASE q # r
  <2>1. row'[q] = row[q] /\ live'[q] = live[q]
    BY <1>2 DEF SettledRun
  <2> QED BY <1>1, <2>1, ConsistentFrame
<1>3. CASE q = r /\ ~Active(row[r])
  <2>1. row'[r] = row[r] /\ (live'[r] = live[r] \/ live'[r] = NoLive)
    BY <1>3 DEF SettledRun
  <2> QED BY <1>1, <1>3, <2>1, ConsistentFrame
<1>4. CASE q = r /\ Active(row[r])
  <2>1. row'[r].status \in Terminal /\ live'[r] = NoLive
    BY <1>4 DEF SettledRun
  <2>4. CASE Active(rw) /\ f \in {0, rw.attempt}
    <3>1. row'[r] = EndedRow(rw, s, c)
      BY <1>1, <2>4 DEF SettleTerminal, TypeOK
    <3>2. RowConsistent(row'[r])
      BY <3>1, EndedConsistent
    <3> QED BY <1>4, <2>1, <3>2 DEF ConsistentOK, NoLive, Active, NonTerminal, Terminal
  <2>5. CASE ~(Active(rw) /\ f \in {0, rw.attempt})
    <3>1. row'[r] = rw
      BY <1>1, <2>5 DEF SettleTerminal, TypeOK
    <3> QED BY <1>4, <2>1, <2>5, <3>1 DEF Active, NonTerminal, Terminal
  <2> QED BY <2>4, <2>5
<1> QED BY <1>2, <1>3, <1>4

LEMMA StartRefusedConsistent ==
  ASSUME RunsInv, ConsistentInv, NEW r \in Runs, StartRefused(r) PROVE ConsistentInv'
<1>1. /\ row[r] \in Row /\ "failed" \in Terminal /\ 0 \in Nat
      /\ SettleTerminal(r, row[r], "failed", "other", 0) /\ UNCHANGED server
  BY DEF StartRefused, RunsInv, TypeOK, Terminal
<1> QED BY <1>1, StartRefusedRuns, SettledConsistent

LEMMA MintFailsConsistent ==
  ASSUME RunsInv, ConsistentInv, NEW r \in Runs, MintFails(r) PROVE ConsistentInv'
<1> DEFINE n == task[r].attempt
           rw == ResumeFailedRow(row[r], n)
<1>1. /\ row[r] \in Row /\ "failed" \in Terminal /\ n \in Nat
      /\ SettleTerminal(r, rw, "failed", "other", n) /\ UNCHANGED server
  BY AwaitShapes DEF MintFails, RunsInv, TypeOK, Terminal
<1>2. rw \in Row /\ (Active(rw) <=> Active(row[r]))
  BY <1>1, ResumeFailedActive
<1> HIDE DEF n, rw
<1> QED BY <1>1, <1>2, MintFailsRuns, SettledConsistent

LEMMA TurnBreaksConsistent ==
  ASSUME RunsInv, ConsistentInv, NEW r \in Runs, TurnBreaks(r) PROVE ConsistentInv'
<1> DEFINE n == live[r].attempt
           rw == ResumeFailedRow(row[r], n)
<1>1. LiveIsCurrent(r) /\ SettleTerminal(r, rw, "failed", "other", n) /\ UNCHANGED server
  BY DEF TurnBreaks, InTurn
<1>2. row[r] \in Row /\ "failed" \in Terminal /\ n \in Nat
  BY <1>1, TurnOfRow
<1>3. rw \in Row /\ (Active(rw) <=> Active(row[r]))
  BY <1>2, ResumeFailedActive
<1> HIDE DEF n, rw
<1> QED BY <1>1, <1>2, <1>3, TurnBreaksRuns, SettledConsistent

LEMMA TurnFailsConsistent ==
  ASSUME RunsInv, ConsistentInv, NEW r \in Runs, NEW cause \in {"turn-budget-exhausted", "other"},
         TurnFails(r, cause)
  PROVE  ConsistentInv'
<1>1. LiveIsCurrent(r) /\ SettleTerminal(r, row[r], "failed", cause, live[r].attempt)
      /\ UNCHANGED server
  BY DEF TurnFails, InTurn
<1>2. /\ row[r] \in Row /\ "failed" \in Terminal /\ live[r].attempt \in Nat
      /\ cause \in {"none", "turn-budget-exhausted", "other"}
  BY <1>1, TurnOfRow
<1> QED BY <1>1, <1>2, TurnFailsRuns, SettledConsistent

\* A turn at the file door had its receipt, so its run may complete.
LEMMA DoorClosesConsistent ==
  ASSUME RunsInv, ConsistentInv, NEW r \in Runs, NEW found \in {"file", "none", "invalid"},
         DoorCloses(r, found)
  PROVE  ConsistentInv'
<1> DEFINE rw == IF found = "file" /\ ~row[r].delivered
                 THEN [row[r] EXCEPT !.delivered = TRUE] ELSE row[r]
           s == IF found = "invalid" THEN "failed" ELSE "completed"
           c == IF found = "invalid" THEN "other" ELSE "none"
<1>1. LiveIsCurrent(r) /\ SettleTerminal(r, rw, s, c, live[r].attempt)
      /\ UNCHANGED server /\ live[r].turn = "door"
  BY DEF DoorCloses
<1>2. /\ row[r] \in Row /\ s \in Terminal /\ c \in {"none", "turn-budget-exhausted", "other"}
      /\ live[r].attempt \in Nat
  BY <1>1, TurnOfRow
<1>3. row[r].state \in Confirmed
  BY <1>1 DEF ConsistentInv, ConsistentOK, RunsInv, RunOK, LiveOK, LiveIsCurrent
<1>4. rw \in Row /\ rw.status = row[r].status /\ rw.state = row[r].state
  BY <1>2, RowShapes, RowEffects
<1>5. (Active(row[r]) => Active(rw)) /\ rw.state \in Confirmed
  BY <1>3, <1>4 DEF Active
<1> HIDE DEF rw, s, c
<1> QED BY <1>1, <1>2, <1>4, <1>5, DoorClosesRuns, SettledConsistent

LEMMA AnswerUnsentConsistent ==
  ASSUME RunsInv, ConsistentInv, NEW x \in answering, AnswerUnsent(x) PROVE ConsistentInv'
<1> DEFINE r == ask[x.ask].run
           rw == ResumeFailedRow(AnsweredRow(row[r]), x.attempt)
<1>1. r \in Runs /\ x.attempt \in Nat /\ row[r] \in Row /\ "failed" \in Terminal
  BY AnswerRun DEF RunsInv, TypeOK, Terminal
<1>2. SettleTerminal(r, rw, "failed", "other", x.attempt) /\ UNCHANGED server
  BY DEF AnswerUnsent
<1>3. rw \in Row /\ Active(rw) /\ SettledRun(r)
  BY <1>1, AnsweredActive, ResumeFailedActive, AnswerUnsentRuns
<1> HIDE DEF r, rw
<1> QED BY <1>1, <1>2, <1>3, SettledConsistent

\* A step that writes one active row and leaves the process as it is.
LEMMA OneRowConsistent ==
  ASSUME RunsInv, ConsistentInv, NEW r \in Runs, NEW rw, row' = [row EXCEPT ![r] = rw],
         \A q \in Runs \ {r} : live'[q] = live[q] \/ (live'[q] = NoLive /\ ~Up'), Up' => Up,
         RowConsistent(rw), live'[r].turn = "door" => live'[r].confirmed,
         rw.delivered /\ Active(rw) => rw.state \in Confirmed /\ (Up' => live'[r] # NoLive)
  PROVE  ConsistentInv'
<1> SUFFICES ASSUME NEW q \in Runs PROVE ConsistentOK(q)'
  BY DEF ConsistentInv
<1>1. row'[q] = IF q = r THEN rw ELSE row[q]
  BY DEF RunsInv, TypeOK
<1>2. CASE q = r
  BY <1>1, <1>2 DEF ConsistentOK
<1>3. CASE q # r
  BY <1>1, <1>3, ConsistentFrame DEF ConsistentInv
<1> QED BY <1>2, <1>3

\* What the invariants say of one run.
LEMMA RunFacts ==
  ASSUME RunsInv, ConsistentInv, NEW r \in Runs
  PROVE  row[r] \in Row /\ TypeOK /\ RunOK(r) /\ ConsistentOK(r)
  BY DEF RunsInv, ConsistentInv, TypeOK

LEMMA DeliverConsistent ==
  ASSUME RunsInv, ConsistentInv, NEW r \in Runs, Deliver(r) PROVE ConsistentInv'
<1> DEFINE r0 == r
           rw == [row[r] EXCEPT !.delivered = TRUE]
<1>1. /\ r0 \in Runs /\ row' = [row EXCEPT ![r0] = rw]
      /\ \A q \in Runs \ {r0} : live'[q] = live[q] \/ (live'[q] = NoLive /\ ~Up')
      /\ Up' => Up
  BY AnswerRun DEF Deliver, ToolCall, InTurn, LiveIsCurrent, RunsInv, TypeOK, Up, NoLive
<1>2. row[r0] \in Row /\ TypeOK /\ RunOK(r0) /\ ConsistentOK(r0)
  BY <1>1, RunFacts
<1>3. /\ RowConsistent(rw)
      /\ rw.delivered /\ Active(rw) => rw.state \in Confirmed /\ (Up' => live'[r0] # NoLive)
      /\ live'[r0].turn = "door" => live'[r0].confirmed
  BY <1>1, <1>2, RowEffects, DeliveredEffects, EndedEffects, EndedConsistent, ResumeFailedEffects, AwaitShapes, StatusOf
     DEF Deliver, ToolCall, InTurn, LiveIsCurrent, RowConsistent, ConsistentOK, RunOK, RowOK, TaskOK, RevivalOK, LiveOK,
         TypeOK, Row, Runtime, Active, NonTerminal, Terminal, States, Confirmed, Pending, Idle, NoLive, Up
<1> HIDE DEF rw, r0
<1> QED BY <1>1, <1>3, OneRowConsistent

LEMMA CreatePendingAskConsistent ==
  ASSUME RunsInv, ConsistentInv, NEW r \in Runs, NEW a \in Asks, CreatePendingAsk(r, a) PROVE ConsistentInv'
<1> DEFINE r0 == r
           rw == [row[r] EXCEPT !.status = "paused"]
<1>1. /\ r0 \in Runs /\ row' = [row EXCEPT ![r0] = rw]
      /\ \A q \in Runs \ {r0} : live'[q] = live[q] \/ (live'[q] = NoLive /\ ~Up')
      /\ Up' => Up
  BY AnswerRun DEF CreatePendingAsk, ToolCall, InTurn, LiveIsCurrent, RunsInv, TypeOK, Up, NoLive
<1>2. row[r0] \in Row /\ TypeOK /\ RunOK(r0) /\ ConsistentOK(r0)
  BY <1>1, RunFacts
<1>3. /\ RowConsistent(rw)
      /\ rw.delivered /\ Active(rw) => rw.state \in Confirmed /\ (Up' => live'[r0] # NoLive)
      /\ live'[r0].turn = "door" => live'[r0].confirmed
  BY <1>1, <1>2, RowEffects, DeliveredEffects, EndedEffects, EndedConsistent, ResumeFailedEffects, AwaitShapes, StatusOf
     DEF CreatePendingAsk, ToolCall, InTurn, LiveIsCurrent, RowConsistent, ConsistentOK, RunOK, RowOK, TaskOK, RevivalOK, LiveOK,
         TypeOK, Row, Runtime, Active, NonTerminal, Terminal, States, Confirmed, Pending, Idle, NoLive, Up
<1> HIDE DEF rw, r0
<1> QED BY <1>1, <1>3, OneRowConsistent

LEMMA KillRunConsistent ==
  ASSUME RunsInv, ConsistentInv, NEW r \in Runs, KillRun(r) PROVE ConsistentInv'
<1> DEFINE r0 == r
           rw == EndedRow(row[r], "cancelled", "other")
<1>1. /\ r0 \in Runs /\ row' = [row EXCEPT ![r0] = rw]
      /\ \A q \in Runs \ {r0} : live'[q] = live[q] \/ (live'[q] = NoLive /\ ~Up')
      /\ Up' => Up
  BY AnswerRun DEF KillRun, RunsInv, TypeOK, Up, NoLive
<1>2. row[r0] \in Row /\ TypeOK /\ RunOK(r0) /\ ConsistentOK(r0)
  BY <1>1, RunFacts
<1>3. RowConsistent(rw) /\ rw.status \in Terminal
  BY <1>2, EndedConsistent, EndedEffects DEF Terminal
<1>4. live'[r0] = NoLive /\ ~Active(rw)
  BY <1>2, <1>3 DEF KillRun, TypeOK, Active, NonTerminal, Terminal
<1>5. live'[r0].turn # "door"
  BY <1>4 DEF NoLive
<1> HIDE DEF rw, r0
<1> QED BY <1>1, <1>3, <1>4, <1>5, OneRowConsistent

LEMMA RecoverAgentRunConsistent ==
  ASSUME RunsInv, ConsistentInv, NEW r \in Runs, RecoverAgentRun(r) PROVE ConsistentInv'
<1> DEFINE r0 == r
           rw == EndedRow(row[r], "failed", "other")
<1>1. /\ r0 \in Runs /\ row' = [row EXCEPT ![r0] = rw]
      /\ \A q \in Runs \ {r0} : live'[q] = live[q] \/ (live'[q] = NoLive /\ ~Up')
      /\ Up' => Up
  BY AnswerRun DEF RecoverAgentRun, Swept, RunsInv, TypeOK, Up, NoLive
<1>2. row[r0] \in Row /\ TypeOK /\ RunOK(r0) /\ ConsistentOK(r0)
  BY <1>1, RunFacts
<1>3. /\ RowConsistent(rw)
      /\ rw.delivered /\ Active(rw) => rw.state \in Confirmed /\ (Up' => live'[r0] # NoLive)
      /\ live'[r0].turn = "door" => live'[r0].confirmed
  BY <1>1, <1>2, RowEffects, DeliveredEffects, EndedEffects, EndedConsistent, ResumeFailedEffects, AwaitShapes, StatusOf
     DEF RecoverAgentRun, Swept, RowConsistent, ConsistentOK, RunOK, RowOK, TaskOK, RevivalOK, LiveOK,
         TypeOK, Row, Runtime, Active, NonTerminal, Terminal, States, Confirmed, Pending, Idle, NoLive, Up
<1> HIDE DEF rw, r0
<1> QED BY <1>1, <1>3, OneRowConsistent

LEMMA RecoverSealedRunConsistent ==
  ASSUME RunsInv, ConsistentInv, NEW r \in Runs, RecoverSealedRun(r) PROVE ConsistentInv'
<1> DEFINE r0 == r
           rw == EndedRow(row[r], "completed", "none")
<1>1. /\ r0 \in Runs /\ row' = [row EXCEPT ![r0] = rw]
      /\ \A q \in Runs \ {r0} : live'[q] = live[q] \/ (live'[q] = NoLive /\ ~Up')
      /\ Up' => Up
  BY AnswerRun DEF RecoverSealedRun, SealedRun, RunsInv, TypeOK, Up, NoLive
<1>2. row[r0] \in Row /\ TypeOK /\ RunOK(r0) /\ ConsistentOK(r0)
  BY <1>1, RunFacts
<1>3. /\ RowConsistent(rw)
      /\ rw.delivered /\ Active(rw) => rw.state \in Confirmed /\ (Up' => live'[r0] # NoLive)
      /\ live'[r0].turn = "door" => live'[r0].confirmed
  BY <1>1, <1>2, RowEffects, DeliveredEffects, EndedEffects, EndedConsistent, ResumeFailedEffects, AwaitShapes, StatusOf
     DEF RecoverSealedRun, SealedRun, RowConsistent, ConsistentOK, RunOK, RowOK, TaskOK, RevivalOK, LiveOK,
         TypeOK, Row, Runtime, Active, NonTerminal, Terminal, States, Confirmed, Pending, Idle, NoLive, Up
<1> HIDE DEF rw, r0
<1> QED BY <1>1, <1>3, OneRowConsistent

LEMMA RevivalMintFailsConsistent ==
  ASSUME RunsInv, ConsistentInv, NEW r \in Runs, RevivalMintFails(r) PROVE ConsistentInv'
<1> DEFINE r0 == r
           rw == ResumeFailedRow(row[r], revival[r].attempt)
<1>1. /\ r0 \in Runs /\ row' = [row EXCEPT ![r0] = rw]
      /\ \A q \in Runs \ {r0} : live'[q] = live[q] \/ (live'[q] = NoLive /\ ~Up')
      /\ Up' => Up
  BY AnswerRun DEF RevivalMintFails, RunsInv, TypeOK, Up, NoLive
<1>2. row[r0] \in Row /\ TypeOK /\ RunOK(r0) /\ ConsistentOK(r0)
  BY <1>1, RunFacts
<1>3. revival[r0].attempt \in Nat /\ live' = live /\ (Up' <=> Up)
  BY <1>2, AwaitShapes DEF RevivalMintFails, TypeOK, Up
<1>4. row[r0].status # "none"
  BY <1>2 DEF RevivalMintFails, RunOK, AbsentOK, Idle
<1>5. /\ rw.status = row[r0].status /\ rw.delivered = row[r0].delivered
      /\ \/ rw.state = row[r0].state
         \/ /\ rw.state = "resume-failed" /\ rw.status \in {"spawning", "paused"}
            /\ row[r0].state = "resume-pending"
  BY <1>2, <1>3, ResumeFailedEffects, DeliveredEffects
<1> HIDE DEF rw, r0
<1>6. /\ RowConsistent(rw)
      /\ rw.delivered /\ Active(rw) => rw.state \in Confirmed /\ (Up' => live'[r0] # NoLive)
      /\ live'[r0].turn = "door" => live'[r0].confirmed
  BY <1>2, <1>3, <1>5, <1>4 DEF ConsistentOK, RowConsistent, Active, Confirmed
<1> QED BY <1>1, <1>6, OneRowConsistent

LEMMA RevivalPreparesConsistent ==
  ASSUME RunsInv, ConsistentInv, NEW r \in Runs, RevivalPrepares(r) PROVE ConsistentInv'
<1> DEFINE r0 == r
           rw == PreparedResume(row[r])
<1>1. /\ r0 \in Runs /\ row' = [row EXCEPT ![r0] = rw]
      /\ \A q \in Runs \ {r0} : live'[q] = live[q] \/ (live'[q] = NoLive /\ ~Up')
      /\ Up' => Up
  BY AnswerRun DEF RevivalPrepares, ResumePreparable, RunsInv, TypeOK, Up, NoLive
<1>2. row[r0] \in Row /\ TypeOK /\ RunOK(r0) /\ ConsistentOK(r0)
  BY <1>1, RunFacts
<1>3. /\ RowConsistent(rw)
      /\ rw.delivered /\ Active(rw) => rw.state \in Confirmed /\ (Up' => live'[r0] # NoLive)
      /\ live'[r0].turn = "door" => live'[r0].confirmed
  BY <1>1, <1>2, RowEffects, DeliveredEffects, EndedEffects, EndedConsistent, ResumeFailedEffects, AwaitShapes, StatusOf
     DEF RevivalPrepares, ResumePreparable, RowConsistent, ConsistentOK, RunOK, RowOK, TaskOK, RevivalOK, LiveOK,
         TypeOK, Row, Runtime, Active, NonTerminal, Terminal, States, Confirmed, Pending, Idle, NoLive, Up
<1> HIDE DEF rw, r0
<1> QED BY <1>1, <1>3, OneRowConsistent

LEMMA ReceiptConsistent ==
  ASSUME RunsInv, ConsistentInv, NEW r \in Runs, Receipt(r) PROVE ConsistentInv'
<1> DEFINE r0 == r
           rw == [ConfirmedRow(row[r]) EXCEPT !.status = "running"]
<1>1. /\ r0 \in Runs /\ row' = [row EXCEPT ![r0] = rw]
      /\ \A q \in Runs \ {r0} : live'[q] = live[q] \/ (live'[q] = NoLive /\ ~Up')
      /\ Up' => Up
  BY AnswerRun DEF Receipt, InTurn, LiveIsCurrent, RunsInv, TypeOK, Up, NoLive
<1>2. row[r0] \in Row /\ TypeOK /\ RunOK(r0) /\ ConsistentOK(r0)
  BY <1>1, RunFacts
<1>3. /\ RowConsistent(rw)
      /\ rw.delivered /\ Active(rw) => rw.state \in Confirmed /\ (Up' => live'[r0] # NoLive)
      /\ live'[r0].turn = "door" => live'[r0].confirmed
  BY <1>1, <1>2, RowEffects, DeliveredEffects, EndedEffects, EndedConsistent, ResumeFailedEffects, AwaitShapes, StatusOf
     DEF Receipt, InTurn, LiveIsCurrent, RowConsistent, ConsistentOK, RunOK, RowOK, TaskOK, RevivalOK, LiveOK,
         TypeOK, Row, Runtime, Active, NonTerminal, Terminal, States, Confirmed, Pending, Idle, NoLive, Up
<1> HIDE DEF rw, r0
<1> QED BY <1>1, <1>3, OneRowConsistent

LEMMA AnswerSentConsistent ==
  ASSUME RunsInv, ConsistentInv, NEW x \in answering, AnswerSent(x) PROVE ConsistentInv'
<1> DEFINE r0 == ask[x.ask].run
           rw == AnsweredRow(row[ask[x.ask].run])
<1>1. /\ r0 \in Runs /\ row' = [row EXCEPT ![r0] = rw]
      /\ \A q \in Runs \ {r0} : live'[q] = live[q] \/ (live'[q] = NoLive /\ ~Up')
      /\ Up' => Up
  BY AnswerRun DEF AnswerSent, Resumable, SessionFree, RunsInv, TypeOK, Up, NoLive
<1>2. row[r0] \in Row /\ TypeOK /\ RunOK(r0) /\ ConsistentOK(r0)
  BY <1>1, RunFacts
<1>3. /\ rw.status = IF row[r0].state \in Confirmed THEN "running" ELSE "spawning"
      /\ rw.state = row[r0].state /\ rw.delivered = row[r0].delivered
      /\ rw.state \in States
  BY <1>2, RowEffects, DeliveredEffects, StatusOf
<1>4. /\ live' = [live EXCEPT ![r0].turn = "open"] /\ live \in [Runs -> Runtime]
      /\ (Up' <=> Up) /\ Active(row[r0])
  BY <1>2 DEF AnswerSent, Resumable, TypeOK, Up
<1> HIDE DEF rw, r0
<1>5. live'[r0].turn = "open"
  BY <1>1, <1>4 DEF Runtime
<1>6. /\ RowConsistent(rw)
      /\ rw.delivered /\ Active(rw) => rw.state \in Confirmed /\ (Up' => live'[r0] # NoLive)
      /\ live'[r0].turn = "door" => live'[r0].confirmed
  BY <1>2, <1>3, <1>5, <1>4 DEF ConsistentOK, RowConsistent, Confirmed, States, NoLive
<1> QED BY <1>1, <1>6, OneRowConsistent

LEMMA CrashAfterAnswerConsistent ==
  ASSUME RunsInv, ConsistentInv, NEW x \in answering, CrashAfterAnswer(x) PROVE ConsistentInv'
<1> DEFINE r0 == ask[x.ask].run
           rw == [row[ask[x.ask].run] EXCEPT !.status = "spawning"]
<1>1. /\ r0 \in Runs /\ row' = [row EXCEPT ![r0] = rw]
      /\ \A q \in Runs \ {r0} : live'[q] = live[q] \/ (live'[q] = NoLive /\ ~Up')
      /\ Up' => Up
  BY AnswerRun DEF CrashAfterAnswer, Lost, Resumable, RunsInv, TypeOK, Up, NoLive
<1>2. row[r0] \in Row /\ TypeOK /\ RunOK(r0) /\ ConsistentOK(r0)
  BY <1>1, RunFacts
<1>3. /\ rw.status = "spawning" /\ rw.delivered = row[r0].delivered
      /\ rw.state = row[r0].state /\ rw.state \in States /\ Active(row[r0])
  BY <1>2, RowEffects, DeliveredEffects, StatusOf DEF NonTerminal, CrashAfterAnswer, Resumable
<1>4. live'[r0] = NoLive /\ ~Up'
  BY <1>1 DEF CrashAfterAnswer, Lost, Up
<1> HIDE DEF rw, r0
<1>5. /\ RowConsistent(rw)
      /\ rw.delivered /\ Active(rw) => rw.state \in Confirmed /\ (Up' => live'[r0] # NoLive)
      /\ live'[r0].turn = "door" => live'[r0].confirmed
  BY <1>2, <1>3, <1>4 DEF ConsistentOK, RowConsistent, States, NoLive
<1> QED BY <1>1, <1>5, OneRowConsistent

\* A step that leaves the rows and uninstalls nothing, unless the server is down.
LEMMA RowsStandConsistent ==
  ASSUME RunsInv, ConsistentInv, row' = row, Up' => Up,
         \A q \in Runs : live'[q] = live[q] \/ (live'[q] = NoLive /\ ~Up')
  PROVE  ConsistentInv'
  BY ConsistentFrame DEF ConsistentInv

LEMMA DisposeAllConsistent == ASSUME RunsInv, ConsistentInv, DisposeAll PROVE ConsistentInv'
<1>1. row' = row /\ ~Up' /\ \A q \in Runs : live'[q] = NoLive
  BY ServerShapes DEF DisposeAll, Up, RunsInv, TypeOK, Process
<1> QED BY <1>1, RowsStandConsistent

LEMMA CrashConsistent == ASSUME RunsInv, ConsistentInv, Crash PROVE ConsistentInv'
<1>1. row' = row /\ ~Up' /\ \A q \in Runs : live'[q] = NoLive
  BY DEF Crash, Lost, durable, Up
<1> QED BY <1>1, RowsStandConsistent

\* The attach finds no active run that has delivered.
LEMMA AttachServerConsistent == ASSUME RunsInv, ConsistentInv, AttachServer PROVE ConsistentInv'
  BY DEF AttachServer, SealedRun, durable, ConsistentInv, ConsistentOK

LEMMA SweepDoneConsistent == ASSUME RunsInv, ConsistentInv, SweepDone PROVE ConsistentInv'
<1>1. row' = row /\ ~Up' /\ live' = live
  BY DEF SweepDone, durable, Up, RunsInv, TypeOK, Process
<1> QED BY <1>1, RowsStandConsistent

LEMMA TurnEndsConsistent ==
  ASSUME RunsInv, ConsistentInv, NEW r \in Runs, TurnEnds(r) PROVE ConsistentInv'
<1> SUFFICES ASSUME NEW q \in Runs PROVE ConsistentOK(q)'
  BY DEF ConsistentInv
<1>1. /\ row' = row /\ (Up' <=> Up) /\ live[q] \in Runtime /\ ConsistentOK(q)
      /\ live' = [live EXCEPT ![r].turn = IF row[r].status = "paused" THEN "none" ELSE "door"]
      /\ live[r].confirmed /\ live \in [Runs -> Runtime]
  BY DEF TurnEnds, RunsInv, TypeOK, Up, ConsistentInv
<1>2. live'[q] = live[q] \/ (q = r /\ live'[q].confirmed)
  BY <1>1 DEF Runtime
<1>3. CASE live'[q] = live[q]
  BY <1>1, <1>3, ConsistentFrame
<1>4. CASE q = r /\ live'[q].confirmed
  BY <1>1, <1>4 DEF ConsistentOK, NoLive
<1> QED BY <1>2, <1>3, <1>4

\* A runtime is installed over none, for a run that has not delivered.
LEMMA InstallConsistent ==
  ASSUME RunsInv, ConsistentInv, NEW r \in Runs, NEW rt \in Runtime, row' = row, Up' => Up,
         live' = [live EXCEPT ![r] = rt], Up, live[r] = NoLive, rt.turn # "door"
  PROVE  ConsistentInv'
<1> SUFFICES ASSUME NEW q \in Runs PROVE ConsistentOK(q)'
  BY DEF ConsistentInv
<1>1. live'[q] = IF q = r THEN rt ELSE live[q]
  BY DEF RunsInv, TypeOK
<1> QED BY <1>1 DEF ConsistentInv, ConsistentOK

LEMMA MintResolvesConsistent ==
  ASSUME RunsInv, ConsistentInv, NEW r \in Runs, MintResolves(r) PROVE ConsistentInv'
<1> DEFINE rt == [attempt |-> task[r].attempt, confirmed |-> FALSE, turn |-> "open"]
<1>1. row' = row /\ (Up' <=> Up) /\ live[r] = NoLive
  BY DEF MintResolves, Up, RunsInv, RunOK, TaskOK, Idle
<1>2. live' = live \/ (Up /\ live' = [live EXCEPT ![r] = rt])
  BY DEF MintResolves, InstallAllowed
<1>3. rt \in Runtime /\ rt.turn # "door"
  BY AwaitShapes DEF RunsInv, TypeOK, Runtime
<1> HIDE DEF rt
<1> QED BY <1>1, <1>2, <1>3, InstallConsistent, RowsStandConsistent

LEMMA RevivalMintedConsistent ==
  ASSUME RunsInv, ConsistentInv, NEW r \in Runs, RevivalMinted(r) PROVE ConsistentInv'
<1> DEFINE rt == [attempt |-> revival[r].attempt, confirmed |-> FALSE, turn |-> "none"]
<1>1. row' = row /\ (Up' <=> Up) /\ rt \in Runtime /\ rt.turn # "door"
  BY AwaitShapes DEF RevivalMinted, Up, RunsInv, TypeOK, Runtime
<1>2. live' = live \/ (Up /\ live[r] = NoLive /\ live' = [live EXCEPT ![r] = rt])
  BY DEF RevivalMinted, RevivalInstallable
<1> HIDE DEF rt
<1> QED BY <1>1, <1>2, InstallConsistent, RowsStandConsistent

\* A row is born queued.
LEMMA BornConsistent ==
  ASSUME RunsInv, ConsistentInv, NEW r \in Runs, NEW p \in Runs \cup {NoRun}, NEW n \in Nat,
         row[r] = NoRow, row' = [row EXCEPT ![r] = QueuedRow(p, n)], live' = live,
         server' = server
  PROVE  ConsistentInv'
<1> DEFINE rw == QueuedRow(p, n)
<1>1. /\ rw.status = "queued" /\ ~rw.delivered
      /\ rw.state = IF p = NoRun THEN "clean-pending" ELSE "resume-pending"
  BY RowEffects
<1> HIDE DEF rw
<1>2. RowConsistent(rw)
  BY <1>1 DEF RowConsistent
<1>3. row' = [row EXCEPT ![r] = rw] /\ (Up' => Up)
      /\ (live'[r].turn = "door" => live'[r].confirmed)
  BY DEF rw, Up, ConsistentInv, ConsistentOK
<1> QED BY <1>1, <1>2, <1>3, OneRowConsistent

LEMMA DispatchConsistent ==
  ASSUME RunsInv, ConsistentInv, NEW r \in Runs, Dispatch(r) PROVE ConsistentInv'
  BY BornConsistent DEF Dispatch

LEMMA ContinueInsertsConsistent ==
  ASSUME RunsInv, ConsistentInv, NEW c \in continuing, NEW r \in Runs, ContinueInserts(c, r)
  PROVE  ConsistentInv'
<1> DEFINE n == IF c.auto THEN row[c.parent].count + 1 ELSE 0
<1>1. c.parent \in Runs /\ TypeOK
  BY CallShapes DEF RunsInv, TypeOK
<1>2. row[c.parent].count \in Nat
  BY <1>1, RowShapes DEF TypeOK
<1>3. n \in Nat
  BY <1>2
<1>4. /\ row[r] = NoRow /\ row' = [row EXCEPT ![r] = QueuedRow(c.parent, n)]
      /\ live' = live /\ server' = server
  BY DEF ContinueInserts
<1> HIDE DEF n
<1> QED BY <1>1, <1>3, <1>4, BornConsistent

LEMMA StartPreparesConsistent ==
  ASSUME RunsInv, ConsistentInv, NEW r \in Runs, StartPrepares(r) PROVE ConsistentInv'
<1> DEFINE prepared == IF row[r].continues = NoRun THEN PreparedCreate(row[r])
                                                   ELSE PreparedResume(row[r])
           rw == [prepared EXCEPT !.status = "spawning"]
<1>1. /\ TypeOK /\ row[r] \in Row /\ RunOK(r) /\ ConsistentOK(r)
      /\ live' = live /\ server' = server /\ live[r] = NoLive
  BY RunFacts DEF StartPrepares, RunOK, TaskOK, Idle
<1>2. CASE row' = row
  BY <1>1, <1>2, RowsStandConsistent DEF Up
<1>3. CASE row' # row
  <2>1. /\ row' = [row EXCEPT ![r] = rw] /\ Active(row[r]) /\ Up
        /\ row[r].continues = NoRun => row[r].state = "clean-pending"
    BY <1>3 DEF StartPrepares, CreatePreparable
  <2>2. ~row[r].delivered
    BY <1>1, <2>1 DEF ConsistentOK
  <2>3. /\ prepared \in Row /\ ~prepared.delivered
        /\ prepared.state = IF row[r].continues = NoRun THEN row[r].state ELSE "resume-pending"
    BY <1>1, <2>2, RowShapes, RowEffects, DeliveredEffects
  <2> HIDE DEF prepared
  <2>4. /\ rw.status = "spawning" /\ ~rw.delivered
        /\ rw.state = IF row[r].continues = NoRun THEN row[r].state ELSE "resume-pending"
    BY <2>3, RowEffects, DeliveredEffects DEF NonTerminal
  <2> HIDE DEF rw
  <2>5. RowConsistent(rw)
    BY <2>1, <2>4 DEF RowConsistent
  <2>6. (Up' => Up) /\ (live'[r].turn = "door" => live'[r].confirmed)
    BY <1>1 DEF Up, NoLive
  <2> QED BY <1>1, <2>1, <2>4, <2>5, <2>6, OneRowConsistent
<1> QED BY <1>2, <1>3

LEMMA ConsistentInitially == Init => ConsistentInv
  BY DEF Init, ConsistentInv, ConsistentOK, NoRow, NoLive

LEMMA ConsistentInductive == RunsInv /\ ConsistentInv /\ [Next]_vars => ConsistentInv'
<1> SUFFICES ASSUME RunsInv, ConsistentInv, [Next]_vars PROVE ConsistentInv'
  OBVIOUS
<1>1. ASSUME row' = row, live' = live, server'.phase = server.phase PROVE ConsistentInv'
  BY <1>1, RowsStandConsistent DEF Up
<1>2. CASE UNCHANGED vars
  BY <1>1, <1>2 DEF vars
<1>3. CASE ClientStep
  BY <1>1, <1>3, DispatchConsistent, DeliverConsistent, KillRunConsistent, CreatePendingAskConsistent
     DEF ClientStep, DispatchContinue, AnswerPendingAsk
<1>4. CASE BootStep
  <2>1. CASE SweepDone \/ AttachServer
    BY <2>1, SweepDoneConsistent, AttachServerConsistent
  <2>2. ASSUME NEW r \in Runs, RecoverAgentRun(r) \/ RecoverSealedRun(r) PROVE ConsistentInv'
    BY <2>2, RecoverAgentRunConsistent, RecoverSealedRunConsistent
  <2>3. ASSUME NEW r \in Runs, SealedVerified(r) \/ RecoverPausedAsk(r) \/ RecoverAutoContinue(r)
        PROVE  ConsistentInv'
    <3>1. server \in Process
      BY DEF RunsInv, TypeOK
    <3>2. row' = row /\ live' = live /\ server'.phase = server.phase
      BY <2>3, <3>1 DEF SealedVerified, RecoverPausedAsk, RecoverAutoContinue, durable, Process
    <3> QED BY <1>1, <3>2
  <2> QED BY <1>4, <2>1, <2>2, <2>3 DEF BootStep
<1>5. CASE Stop
  BY <1>5, DisposeAllConsistent, CrashConsistent, CrashAfterAnswerConsistent DEF Stop
<1>6. ASSUME NEW r \in Runs, ProviderStep(r) PROVE ConsistentInv'
  BY <1>1, <1>6, StartRefusedConsistent, MintFailsConsistent, RevivalMintFailsConsistent,
     ReceiptConsistent, TurnBreaksConsistent, TurnEndsConsistent, TurnFailsConsistent
     DEF ProviderStep, RevivalRefused
<1>7. ASSUME NEW r \in Runs, RunStep(r) PROVE ConsistentInv'
  BY <1>1, <1>7, StartPreparesConsistent, MintResolvesConsistent, RevivalPreparesConsistent,
     RevivalMintedConsistent, DoorClosesConsistent
     DEF RunStep, Retired, Reported, FireAutoContinue
<1>8. ASSUME NEW x \in answering, AnswerStep(x) PROVE ConsistentInv'
  BY <1>1, <1>8, AnswerSentConsistent, AnswerUnsentConsistent
     DEF AnswerStep, AnswerRevived, AnswerRefused
<1>9. ASSUME NEW c \in continuing, ContinueStep(c) PROVE ConsistentInv'
  BY <1>1, <1>9, ContinueInsertsConsistent DEF ContinueStep, ContinueRefused, ContinuePreflighted
<1> QED BY <1>2, <1>3, <1>4, <1>5, <1>6, <1>7, <1>8, <1>9 DEF Next

\* The update triggers of migration 0013 never abort a write of the component.
THEOREM RowTriggersNeverFire == Spec => TriggersNeverFire
<1>1. RunsInv /\ RunsInv' /\ ConsistentInv' /\ [Next]_vars
        => [\A r \in Runs : row'[r] # row[r] => RowStepAllowed(row[r], row'[r])]_vars
  <2> SUFFICES ASSUME RunsInv, RunsInv', ConsistentInv', Next, NEW r \in Runs, row'[r] # row[r]
               PROVE  RowStepAllowed(row[r], row'[r])
    OBVIOUS
  <2>1. RowMoveAllowed(row[r], row'[r])
    BY StepsAllowed DEF RowsAllowed
  <2>2. row'[r].status # "none"
    <3> SUFFICES ASSUME row'[r].status = "none" PROVE FALSE
      OBVIOUS
    <3>1. row'[r] = NoRow /\ row[r].status # "none" /\ row[r].attempt > 0
      BY DEF RunsInv, RunOK, RowOK
    <3> QED BY <2>1, <3>1 DEF RowMoveAllowed, NoRow, Active, NonTerminal
  <2> QED BY <2>1, <2>2 DEF RowStepAllowed, ConsistentInv, ConsistentOK
<1>2. Spec => []ConsistentInv
  <2>1. Init => ConsistentInv
    BY RunsInitially, ConsistentInitially
  <2>2. RunsInv /\ ConsistentInv /\ [Next]_vars => ConsistentInv'
    BY ConsistentInductive
  <2> QED BY <2>1, <2>2, RunsInvariant, PTL DEF Spec
<1> QED BY <1>1, <1>2, RunsInvariant, PTL DEF Spec, TriggersNeverFire

\* The phases of the abstract run.
LEMMA Phases ==
  /\ Phase(NoRow) = "absent"
  /\ \A rw \in Row :
       /\ rw.status = "none" => Phase(rw) = "absent"
       /\ rw.status = "paused" => Phase(rw) = "waiting"
       /\ rw.status \in Terminal => Phase(rw) = "ended"
       /\ rw.status \in {"queued", "spawning", "running"} => Phase(rw) = "working"
       /\ Active(rw) <=> Phase(rw) \in {"working", "waiting"}
<1>1. Phase(NoRow) = "absent"
  BY DEF Phase, NoRow, Terminal
<1>2. ASSUME NEW rw \in Row
      PROVE  /\ rw.status = "none" => Phase(rw) = "absent"
             /\ rw.status = "paused" => Phase(rw) = "waiting"
             /\ rw.status \in Terminal => Phase(rw) = "ended"
             /\ rw.status \in {"queued", "spawning", "running"} => Phase(rw) = "working"
             /\ Active(rw) <=> Phase(rw) \in {"working", "waiting"}
  BY StatusOf DEF Phase, Active, NonTerminal, Terminal
<1> QED BY <1>1, <1>2

\* The states of the abstract question.
LEMMA Questions ==
  /\ \A q \in AskRow : /\ Question(q).run = q.run
                       /\ Question(q).state = "open" <=> q.status = "open"
                       /\ Question(q).state = "none" <=> q.status = "none"
                       /\ Question([q EXCEPT !.status = "answered"])
                            = [Question(q) EXCEPT !.state = "answered"]
                       /\ Question([q EXCEPT !.status = "cancelled"])
                            = [Question(q) EXCEPT !.state = "withdrawn"]
                       /\ \A r \in Runs : q = [status |-> "open", run |-> r]
                            <=> Question(q) = [state |-> "open", run |-> r]
  /\ \A r \in Runs : Question([status |-> "open", run |-> r]) = [state |-> "open", run |-> r]
  BY DEF Question, AskRow

\* A step that changes neither the phase of a run nor a question stutters.
LEMMA XStutters ==
  ASSUME \A q \in Runs : Phase(row'[q]) = Phase(row[q]), ParentsKept, ask' = ask
  PROVE  UNCHANGED X!xvars
<1>1. [r \in Runs |-> Phase(row[r])]' = [r \in Runs |-> Phase(row[r])]
  OBVIOUS
<1>2. [r \in Runs |-> row[r].continues]' = [r \in Runs |-> row[r].continues]
  BY DEF ParentsKept
<1>3. [a \in Asks |-> Question(ask[a])]' = [a \in Asks |-> Question(ask[a])]
  OBVIOUS
<1> QED BY <1>1, <1>2, <1>3 DEF X!xvars

\* A run begins.
LEMMA XBegins ==
  ASSUME TypeOK, NEW r \in Runs, NEW p \in Runs \cup {NoRun}, NEW n \in Nat, row[r] = NoRow,
         row' = [row EXCEPT ![r] = QueuedRow(p, n)], ask' = ask, QueuedRow(p, n) \in Row,
         p # NoRun => p \in Runs /\ row[p].status \in Terminal /\ ~ActiveContinuation(p)
  PROVE  X!Begin(r, p)
<1> DEFINE rw == QueuedRow(p, n)
<1>1. rw.status = "queued" /\ rw.continues = p /\ Phase(rw) = "working"
  BY RowEffects, Phases
<1> HIDE DEF rw
<1>2. \A q \in Runs : row'[q] = (IF q = r THEN rw ELSE row[q]) /\ row[q] \in Row
  BY DEF TypeOK, rw
<1>3. [q \in Runs |-> Phase(row[q])][r] = "absent"
  BY Phases
<1>4. p # NoRun => [q \in Runs |-> Phase(row[q])][p] = "ended"
  BY <1>2, Phases
<1>5. p # NoRun => ~X!ChildAlive(p)
  BY <1>2, Phases DEF X!ChildAlive, X!Alive, ActiveContinuation
<1>6. [q \in Runs |-> Phase(row[q])]' = [[q \in Runs |-> Phase(row[q])] EXCEPT ![r] = "working"]
  <2>1. \A q \in Runs : Phase(row'[q]) = IF q = r THEN "working" ELSE Phase(row[q])
    BY <1>1, <1>2
  <2> QED BY <2>1
<1>7. [q \in Runs |-> row[q].continues]' = [[q \in Runs |-> row[q].continues] EXCEPT ![r] = p]
  <2>1. \A q \in Runs : row'[q].continues = IF q = r THEN p ELSE row[q].continues
    BY <1>1, <1>2
  <2> QED BY <2>1
<1>8. UNCHANGED [a \in Asks |-> Question(ask[a])]
  OBVIOUS
<1> QED BY <1>3, <1>4, <1>5, <1>6, <1>7, <1>8 DEF X!Begin

\* A run ends, and some of its open questions with it.
LEMMA XEnds ==
  ASSUME TypeOK, TypeOK', NEW r \in Runs, NEW W \in SUBSET OpenAsks(r), Active(row[r]),
         row'[r].status \in Terminal, \A q \in Runs \ {r} : row'[q] = row[q], ParentsKept,
         ask' = [a \in Asks |-> IF a \in W THEN [ask[a] EXCEPT !.status = "cancelled"] ELSE ask[a]]
  PROVE  X!End(r)
<1>1. \A q \in Runs : row[q] \in Row /\ row'[q] \in Row
  BY DEF TypeOK
<1>2. X!Alive(r)
  BY <1>1, Phases DEF X!Alive
<1>3. [q \in Runs |-> Phase(row[q])]' = [[q \in Runs |-> Phase(row[q])] EXCEPT ![r] = "ended"]
  BY <1>1, Phases
<1>4. W \in SUBSET {a \in Asks : [b \in Asks |-> Question(ask[b])][a] = [state |-> "open", run |-> r]}
  BY Questions DEF OpenAsks, TypeOK
<1>5. [a \in Asks |-> Question(ask[a])]' =
        [a \in Asks |-> IF a \in W
                        THEN [[b \in Asks |-> Question(ask[b])][a] EXCEPT !.state = "withdrawn"]
                        ELSE [b \in Asks |-> Question(ask[b])][a]]
  BY Questions DEF TypeOK
<1>6. UNCHANGED [q \in Runs |-> row[q].continues]
  BY DEF ParentsKept
<1> QED BY <1>2, <1>3, <1>4, <1>5, <1>6 DEF X!End

\* The open question of a run is answered, and the run works on or ends.
LEMMA XReplies ==
  ASSUME RunsInv, TypeOK', NEW x \in answering, Resumable(x), ParentsKept,
         ask' = [ask EXCEPT ![x.ask].status = "answered"],
         row'[ask[x.ask].run].status \in {"spawning", "running"} \cup Terminal,
         \A q \in Runs \ {ask[x.ask].run} : row'[q] = row[q]
  PROVE  X!Reply(x.ask)
<1> DEFINE r == ask[x.ask].run
<1>1. /\ x.ask \in Asks /\ r \in Runs /\ ask[x.ask] \in AskRow /\ TypeOK
      /\ \A q \in Runs : row[q] \in Row /\ row'[q] \in Row
      /\ row[r].status = "paused" /\ ask[x.ask].status = "open"
  BY AnswerRun DEF RunsInv, TypeOK, AskOK, Resumable, Active, NonTerminal, Terminal
<1>2. /\ [a \in Asks |-> Question(ask[a])][x.ask].state = "open"
      /\ [a \in Asks |-> Question(ask[a])][x.ask].run = r
      /\ [q \in Runs |-> Phase(row[q])][r] = "waiting"
  BY <1>1, Questions, Phases
<1>3. Phase(row'[r]) \in {"working", "ended"}
  BY <1>1, Phases
<1>4. [q \in Runs |-> Phase(row[q])]' = [[q \in Runs |-> Phase(row[q])] EXCEPT ![r] = Phase(row'[r])]
  BY <1>1
<1>5. [a \in Asks |-> Question(ask[a])]' =
        [[a \in Asks |-> Question(ask[a])] EXCEPT ![x.ask].state = "answered"]
  <2>1. \A a \in Asks : ask'[a] = IF a = x.ask THEN [ask[a] EXCEPT !.status = "answered"] ELSE ask[a]
    BY <1>1 DEF TypeOK
  <2>2. Question([ask[x.ask] EXCEPT !.status = "answered"])
          = [Question(ask[x.ask]) EXCEPT !.state = "answered"]
    BY <1>1, Questions
  <2> QED BY <1>1, <2>1, <2>2
<1>6. UNCHANGED [q \in Runs |-> row[q].continues]
  BY DEF ParentsKept
<1> HIDE DEF r
<1> QED BY <1>2, <1>3, <1>4, <1>5, <1>6 DEF X!Reply

LEMMA XPoses ==
  ASSUME RunsInv, NEW r \in Runs, NEW a \in Asks, CreatePendingAsk(r, a) PROVE X!Pose(r, a)
<1>1. /\ ParentsKept /\ TypeOK' /\ TypeOK
      /\ \A q \in Runs : row[q] \in Row /\ row'[q] \in Row
  BY CreatePendingAskAllowed, CreatePendingAskTypes DEF RunsInv, TypeOK
<1>2. /\ row[r].status \in {"spawning", "running"} /\ row'[r].status = "paused"
      /\ \A q \in Runs \ {r} : row'[q] = row[q]
  BY <1>1, RowEffects DEF CreatePendingAsk, TypeOK, NonTerminal
<1>3. [q \in Runs |-> Phase(row[q])][r] = "working"
  BY <1>1, <1>2, Phases
<1>4. [q \in Runs |-> Phase(row[q])]' = [[q \in Runs |-> Phase(row[q])] EXCEPT ![r] = "waiting"]
  BY <1>1, <1>2, Phases
<1>5. [b \in Asks |-> Question(ask[b])][a].state = "none"
  <2>1. ask[a] \in AskRow /\ ask[a].status = "none"
    BY <1>1 DEF CreatePendingAsk, TypeOK
  <2> QED BY <2>1, Questions
<1>6. [b \in Asks |-> Question(ask[b])]' =
        [[b \in Asks |-> Question(ask[b])] EXCEPT ![a] = [state |-> "open", run |-> r]]
  BY <1>1, Questions DEF CreatePendingAsk, TypeOK
<1>7. UNCHANGED [q \in Runs |-> row[q].continues]
  BY <1>1 DEF ParentsKept
<1> QED BY <1>3, <1>4, <1>5, <1>6, <1>7 DEF X!Pose

LEMMA XWithdraws ==
  ASSUME RunsInv, NEW r \in Runs, SealedVerified(r) PROVE X!Withdraw(r)
<1>1. /\ TypeOK /\ row' = row /\ row[r] \in Row /\ row[r].status \in Terminal
      /\ \A a \in Asks : ask[a] \in AskRow
  BY DEF SealedVerified, RunsInv, RunOK, PostOK, TypeOK
<1>2. [q \in Runs |-> Phase(row[q])][r] = "ended"
  BY <1>1, Phases
<1>3. [a \in Asks |-> Question(ask[a])]' =
        [a \in Asks |-> IF [b \in Asks |-> Question(ask[b])][a] = [state |-> "open", run |-> r]
                        THEN [[b \in Asks |-> Question(ask[b])][a] EXCEPT !.state = "withdrawn"]
                        ELSE [b \in Asks |-> Question(ask[b])][a]]
  <2>1. \A a \in Asks : a \in OpenAsks(r)
                          <=> Question(ask[a]) = [state |-> "open", run |-> r]
    BY <1>1, Questions DEF OpenAsks
  <2> QED BY <1>1, <2>1, Questions DEF SealedVerified
<1>4. UNCHANGED <<[q \in Runs |-> Phase(row[q])], [q \in Runs |-> row[q].continues]>>
  BY <1>1
<1> QED BY <1>2, <1>3, <1>4 DEF X!Withdraw

\* A settlement ends the abstract run, or shows nothing.
LEMMA XSettles ==
  ASSUME RunsInv, TypeOK', NEW r \in Runs, SettledRun(r), ask' = ask
  PROVE  X!End(r) \/ UNCHANGED X!xvars
<1>1. CASE Active(row[r])
  <2>1. \A q \in Runs \ {r} : row'[q] = row[q]
    BY DEF SettledRun
  <2>2. ask' = [a \in Asks |-> IF a \in {} THEN [ask[a] EXCEPT !.status = "cancelled"] ELSE ask[a]]
    BY DEF RunsInv, TypeOK
  <2>3. {} \in SUBSET OpenAsks(r) /\ ParentsKept /\ row'[r].status \in Terminal /\ TypeOK
    BY <1>1 DEF SettledRun, RunsInv
  <2> QED BY <1>1, <2>1, <2>2, <2>3, XEnds
<1>2. CASE ~Active(row[r])
  BY <1>2, XStutters DEF SettledRun
<1> QED BY <1>1, <1>2

\* A step of the component as the abstract specification sees it.
XStep == X!XNext \/ UNCHANGED X!xvars

LEMMA XSettled ==
  ASSUME RunsInv, TypeOK', NEW r \in Runs, SettledRun(r), ask' = ask PROVE XStep
  BY XSettles DEF XStep, X!XNext

\* A row that is written without a change of phase.
LEMMA XSamePhase ==
  ASSUME TypeOK, TypeOK', NEW r \in Runs, ParentsKept, ask' = ask,
         \A q \in Runs \ {r} : row'[q] = row[q],
         \/ row'[r].status = row[r].status
         \/ /\ row[r].status \in {"queued", "spawning", "running"}
            /\ row'[r].status \in {"queued", "spawning", "running"}
  PROVE  XStep
<1>1. row[r] \in Row /\ row'[r] \in Row
  BY DEF TypeOK
<1>2. Phase(row'[r]) = Phase(row[r])
  BY <1>1, Phases, StatusOf DEF NonTerminal
<1>3. \A q \in Runs : Phase(row'[q]) = Phase(row[q])
  BY <1>2
<1> QED BY <1>3, XStutters DEF XStep

\* A run that is ended with all its open questions, or with none.
LEMMA XEndsAll ==
  ASSUME TypeOK, TypeOK', NEW r \in Runs, NEW s \in Terminal,
         NEW c \in {"none", "turn-budget-exhausted", "other"}, Active(row[r]), ParentsKept,
         row' = [row EXCEPT ![r] = EndedRow(row[r], s, c)],
         \/ ask' = ask
         \/ ask' = [a \in Asks |-> IF a \in OpenAsks(r)
                                   THEN [ask[a] EXCEPT !.status = "cancelled"] ELSE ask[a]]
  PROVE  XStep
<1>1. row'[r].status \in Terminal /\ \A q \in Runs \ {r} : row'[q] = row[q]
  BY EndedEffects DEF TypeOK, Terminal
<1>2. CASE ask' = ask
  <2>1. ask' = [a \in Asks |-> IF a \in {} THEN [ask[a] EXCEPT !.status = "cancelled"] ELSE ask[a]]
    BY <1>2 DEF TypeOK
  <2>2. {} \in SUBSET OpenAsks(r)
    OBVIOUS
  <2> QED BY <1>1, <2>1, <2>2, XEnds DEF XStep, X!XNext
<1>3. CASE ask' = [a \in Asks |-> IF a \in OpenAsks(r)
                                  THEN [ask[a] EXCEPT !.status = "cancelled"] ELSE ask[a]]
  <2>1. OpenAsks(r) \in SUBSET OpenAsks(r)
    OBVIOUS
  <2> QED BY <1>1, <1>3, <2>1, XEnds DEF XStep, X!XNext
<1> QED BY <1>2, <1>3

LEMMA DispatchMaps ==
  ASSUME RunsInv, NEW r \in Runs, Dispatch(r), TypeOK' PROVE XStep
<1>1. /\ row[r] = NoRow /\ row' = [row EXCEPT ![r] = QueuedRow(NoRun, 0)] /\ ask' = ask /\ TypeOK
      /\ QueuedRow(NoRun, 0) \in Row
  BY RowShapes DEF Dispatch, RunsInv
<1>2. X!Begin(r, NoRun)
  BY <1>1, XBegins
<1> QED BY <1>2 DEF XStep, X!XNext

LEMMA ContinueInsertsMaps ==
  ASSUME RunsInv, NEW c \in continuing, NEW r \in Runs, ContinueInserts(c, r), TypeOK' PROVE XStep
<1> DEFINE n == IF c.auto THEN row[c.parent].count + 1 ELSE 0
<1>1. c.parent \in Runs /\ TypeOK /\ row[c.parent].status \in Terminal /\ ~ActiveContinuation(c.parent)
  BY CallShapes DEF RunsInv, TypeOK, ContinueOK, ContinueInserts, Insertable
<1>2. row[c.parent].count \in Nat
  BY <1>1, RowShapes DEF TypeOK
<1>3. n \in Nat
  BY <1>2
<1>4. row[r] = NoRow /\ row' = [row EXCEPT ![r] = QueuedRow(c.parent, n)] /\ ask' = ask
  BY DEF ContinueInserts
<1> HIDE DEF n
<1>5. QueuedRow(c.parent, n) \in Row
  BY <1>1, <1>3, RowShapes
<1>6. X!Begin(r, c.parent)
  BY <1>1, <1>3, <1>4, <1>5, XBegins
<1> QED BY <1>1, <1>6 DEF XStep, X!XNext

LEMMA CreatePendingAskMaps ==
  ASSUME RunsInv, NEW r \in Runs, NEW a \in Asks, CreatePendingAsk(r, a), TypeOK' PROVE XStep
  BY XPoses DEF XStep, X!XNext

LEMMA SealedVerifiedMaps ==
  ASSUME RunsInv, NEW r \in Runs, SealedVerified(r), TypeOK' PROVE XStep
  BY XWithdraws DEF XStep, X!XNext

LEMMA KillRunMaps ==
  ASSUME RunsInv, NEW r \in Runs, KillRun(r), TypeOK' PROVE XStep
<1>1. /\ Active(row[r]) /\ TypeOK /\ ParentsKept
      /\ row' = [row EXCEPT ![r] = EndedRow(row[r], "cancelled", "other")]
      /\ \/ ask' = ask
         \/ ask' = [a \in Asks |-> IF a \in OpenAsks(r)
                                   THEN [ask[a] EXCEPT !.status = "cancelled"] ELSE ask[a]]
  BY KillRunAllowed DEF KillRun, RunsInv
<1>2. "cancelled" \in Terminal
  BY DEF Terminal
<1> QED BY <1>1, <1>2, XEndsAll

LEMMA RecoverAgentRunMaps ==
  ASSUME RunsInv, NEW r \in Runs, RecoverAgentRun(r), TypeOK' PROVE XStep
<1>1. /\ Active(row[r]) /\ TypeOK /\ ParentsKept
      /\ row' = [row EXCEPT ![r] = EndedRow(row[r], "failed", "other")]
      /\ \/ ask' = ask
         \/ ask' = [a \in Asks |-> IF a \in OpenAsks(r)
                                   THEN [ask[a] EXCEPT !.status = "cancelled"] ELSE ask[a]]
  BY RecoverAgentRunAllowed DEF RecoverAgentRun, RunsInv, Swept
<1>2. "failed" \in Terminal
  BY DEF Terminal
<1> QED BY <1>1, <1>2, XEndsAll

LEMMA RecoverSealedRunMaps ==
  ASSUME RunsInv, NEW r \in Runs, RecoverSealedRun(r), TypeOK' PROVE XStep
<1>1. /\ Active(row[r]) /\ TypeOK /\ ParentsKept
      /\ row' = [row EXCEPT ![r] = EndedRow(row[r], "completed", "none")]
      /\ \/ ask' = ask
         \/ ask' = [a \in Asks |-> IF a \in OpenAsks(r)
                                   THEN [ask[a] EXCEPT !.status = "cancelled"] ELSE ask[a]]
  BY RecoverSealedRunAllowed DEF RecoverSealedRun, RunsInv, SealedRun
<1>2. "completed" \in Terminal
  BY DEF Terminal
<1> QED BY <1>1, <1>2, XEndsAll

LEMMA AnswerSentMaps ==
  ASSUME RunsInv, NEW x \in answering, AnswerSent(x), TypeOK' PROVE XStep
<1> DEFINE r == ask[x.ask].run
<1>1. TypeOK /\ ParentsKept /\ r \in Runs /\ x.ask \in Asks
  BY AnswerSentAllowed, AnswerRun DEF RunsInv
<1>2. row'[r].status \in {"spawning", "running"} /\ \A q \in Runs \ {r} : row'[q] = row[q]
  BY <1>1, RowEffects DEF AnswerSent, TypeOK
<1>3. X!Reply(x.ask)
  BY <1>1, <1>2, XReplies DEF AnswerSent
<1> QED BY <1>1, <1>3 DEF XStep, X!XNext

LEMMA CrashAfterAnswerMaps ==
  ASSUME RunsInv, NEW x \in answering, CrashAfterAnswer(x), TypeOK' PROVE XStep
<1> DEFINE r == ask[x.ask].run
<1>1. TypeOK /\ ParentsKept /\ r \in Runs /\ x.ask \in Asks
  BY CrashAfterAnswerAllowed, AnswerRun DEF RunsInv
<1>2. row'[r].status \in {"spawning", "running"} /\ \A q \in Runs \ {r} : row'[q] = row[q]
  BY <1>1, RowEffects DEF CrashAfterAnswer, TypeOK, NonTerminal
<1>3. X!Reply(x.ask)
  BY <1>1, <1>2, XReplies DEF CrashAfterAnswer
<1> QED BY <1>1, <1>3 DEF XStep, X!XNext

LEMMA AnswerUnsentMaps ==
  ASSUME RunsInv, NEW x \in answering, AnswerUnsent(x), TypeOK' PROVE XStep
<1> DEFINE r == ask[x.ask].run
<1>1. SettledRun(r) /\ r \in Runs /\ x.ask \in Asks /\ Active(row[r])
  BY AnswerUnsentRuns, AnswerRun DEF AnswerUnsent, Resumable
<1>2. row'[r].status \in {"spawning", "running"} \cup Terminal /\ ParentsKept
      /\ \A q \in Runs \ {r} : row'[q] = row[q]
  BY <1>1 DEF SettledRun
<1>3. X!Reply(x.ask)
  BY <1>2, XReplies DEF AnswerUnsent
<1> QED BY <1>1, <1>3 DEF XStep, X!XNext

LEMMA StartRefusedMaps ==
  ASSUME RunsInv, NEW r \in Runs, StartRefused(r), TypeOK' PROVE XStep
  BY StartRefusedRuns, XSettled DEF StartRefused

LEMMA MintFailsMaps ==
  ASSUME RunsInv, NEW r \in Runs, MintFails(r), TypeOK' PROVE XStep
  BY MintFailsRuns, XSettled DEF MintFails

LEMMA TurnBreaksMaps ==
  ASSUME RunsInv, NEW r \in Runs, TurnBreaks(r), TypeOK' PROVE XStep
  BY TurnBreaksRuns, XSettled DEF TurnBreaks

LEMMA TurnFailsMaps ==
  ASSUME RunsInv, NEW r \in Runs, NEW cause \in {"turn-budget-exhausted", "other"}, TurnFails(r, cause), TypeOK' PROVE XStep
  BY TurnFailsRuns, XSettled DEF TurnFails

LEMMA DoorClosesMaps ==
  ASSUME RunsInv, NEW r \in Runs, NEW found \in {"file", "none", "invalid"}, DoorCloses(r, found), TypeOK' PROVE XStep
  BY DoorClosesRuns, XSettled DEF DoorCloses

LEMMA DeliverMaps ==
  ASSUME RunsInv, NEW r \in Runs, Deliver(r), TypeOK' PROVE XStep
<1>1. TypeOK /\ ParentsKept /\ ask' = ask
  BY DeliverAllowed DEF Deliver, RunsInv
<1>2. row'[r].status = row[r].status /\ \A q \in Runs \ {r} : row'[q] = row[q]
  BY <1>1, RowEffects DEF Deliver, TypeOK
<1> QED BY <1>1, <1>2, XSamePhase

LEMMA RevivalPreparesMaps ==
  ASSUME RunsInv, NEW r \in Runs, RevivalPrepares(r), TypeOK' PROVE XStep
<1>1. TypeOK /\ ParentsKept /\ ask' = ask
  BY RevivalPreparesAllowed DEF RevivalPrepares, RunsInv
<1>2. row'[r].status = row[r].status /\ \A q \in Runs \ {r} : row'[q] = row[q]
  BY <1>1, RowEffects DEF RevivalPrepares, TypeOK
<1> QED BY <1>1, <1>2, XSamePhase

LEMMA RevivalMintFailsMaps ==
  ASSUME RunsInv, NEW r \in Runs, RevivalMintFails(r), TypeOK' PROVE XStep
<1>1. TypeOK /\ ParentsKept /\ ask' = ask
  BY RevivalMintFailsAllowed DEF RevivalMintFails, RunsInv
<1>2. row'[r].status = row[r].status /\ \A q \in Runs \ {r} : row'[q] = row[q]
  BY <1>1, ResumeFailedEffects, AwaitShapes DEF RevivalMintFails, TypeOK
<1> QED BY <1>1, <1>2, XSamePhase

LEMMA ReceiptMaps ==
  ASSUME RunsInv, NEW r \in Runs, Receipt(r), TypeOK' PROVE XStep
<1>1. TypeOK /\ ParentsKept /\ ask' = ask /\ row[r].status = "spawning"
  BY ReceiptAllowed DEF Receipt, ReceiptAccepted, RunsInv
<1>2. row'[r].status = "running" /\ \A q \in Runs \ {r} : row'[q] = row[q]
  BY <1>1, RowShapes, RowEffects DEF Receipt, TypeOK, NonTerminal
<1> QED BY <1>1, <1>2, XSamePhase

LEMMA StartPreparesMaps ==
  ASSUME RunsInv, NEW r \in Runs, StartPrepares(r), TypeOK' PROVE XStep
<1>1. TypeOK /\ ParentsKept /\ ask' = ask
  BY StartPreparesAllowed DEF StartPrepares, RunsInv
<1>2. CASE row' = row
  BY <1>1, <1>2, XSamePhase
<1>3. CASE row' # row
  <2>1. /\ row[r].status \in {"queued", "spawning", "running"}
        /\ row' = [row EXCEPT ![r] = [(IF row[r].continues = NoRun THEN PreparedCreate(row[r])
                                       ELSE PreparedResume(row[r])) EXCEPT !.status = "spawning"]]
    <3>1. row[r].status \in {"queued"}
      BY <1>3 DEF StartPrepares, RunsInv, RunOK, TaskOK, Active, NonTerminal, Terminal
    <3> QED BY <1>3, <3>1 DEF StartPrepares
  <2>2. row'[r].status = "spawning" /\ \A q \in Runs \ {r} : row'[q] = row[q]
    BY <1>1, <2>1, RowShapes, RowEffects DEF TypeOK, NonTerminal
  <2> QED BY <1>1, <2>1, <2>2, XSamePhase
<1> QED BY <1>2, <1>3

\* A step that writes no row and no ask.
LEMMA XUnseen == ASSUME row' = row, ask' = ask PROVE XStep
  BY XStutters DEF XStep, ParentsKept

LEMMA XSteps == ASSUME RunsInv, TypeOK', Next PROVE XStep
<1>1. CASE ClientStep
  BY <1>1, DispatchMaps, DeliverMaps, KillRunMaps, CreatePendingAskMaps, XUnseen
     DEF ClientStep, DispatchContinue, AnswerPendingAsk
<1>2. CASE BootStep
  BY <1>2, RecoverAgentRunMaps, RecoverSealedRunMaps, SealedVerifiedMaps, XUnseen
     DEF BootStep, SweepDone, AttachServer, RecoverPausedAsk, RecoverAutoContinue, durable
<1>3. CASE Stop
  BY <1>3, CrashAfterAnswerMaps, XUnseen DEF Stop, DisposeAll, Crash, durable
<1>4. ASSUME NEW r \in Runs, ProviderStep(r) PROVE XStep
  BY <1>4, StartRefusedMaps, MintFailsMaps, RevivalMintFailsMaps, ReceiptMaps, TurnBreaksMaps,
     TurnFailsMaps, XUnseen DEF ProviderStep, RevivalRefused, TurnEnds
<1>5. ASSUME NEW r \in Runs, RunStep(r) PROVE XStep
  BY <1>5, StartPreparesMaps, RevivalPreparesMaps, DoorClosesMaps, XUnseen
     DEF RunStep, MintResolves, RevivalMinted, Retired, Reported, FireAutoContinue
<1>6. ASSUME NEW x \in answering, AnswerStep(x) PROVE XStep
  BY <1>6, AnswerSentMaps, AnswerUnsentMaps, XUnseen DEF AnswerStep, AnswerRevived, AnswerRefused
<1>7. ASSUME NEW c \in continuing, ContinueStep(c) PROVE XStep
  BY <1>7, ContinueInsertsMaps, XUnseen DEF ContinueStep, ContinueRefused, ContinuePreflighted
<1> QED BY <1>1, <1>2, <1>3, <1>4, <1>5, <1>6, <1>7 DEF Next

\* The rows, the asks and the parents implement the exchange of RunExchange:
\* kills, crashes, revivals and late answers included.
THEOREM RunsImplementExchange == Spec => ImplementsRunExchange
<1>1. Init => X!XInit
  <2> SUFFICES ASSUME Init PROVE X!XInit
    OBVIOUS
  <2>1. Phase(NoRow) = "absent" /\ NoRow.continues = NoRun
    BY Phases DEF NoRow
  <2>2. Question([status |-> "none", run |-> NoRun]) = [state |-> "none", run |-> NoRun]
    BY DEF Question
  <2> QED BY <2>1, <2>2 DEF Init, X!XInit
<1>2. RunsInv /\ RunsInv' /\ [Next]_vars => [X!XNext]_X!xvars
  <2>1. CASE UNCHANGED vars
    BY <2>1, XUnseen DEF vars, XStep
  <2>2. CASE RunsInv /\ RunsInv' /\ Next
    <3>1. TypeOK'
      BY <2>2 DEF RunsInv
    <3> QED BY <2>2, <3>1, XSteps DEF XStep
  <2> QED BY <2>1, <2>2, XUnseen DEF vars, XStep
<1> QED BY <1>1, <1>2, RunsInvariant, PTL DEF Spec, ImplementsRunExchange, X!XSpec

=============================================================================
