-------------------------- MODULE ConversationQueue --------------------------
(***************************************************************************)
(* The durable conversation store of one project: queued sends and their   *)
(* revisions, turns, interrupt requests, command receipts and queue heads, *)
(* with the app-session transitions that cancel or adopt them.             *)
(*                                                                         *)
(* Source: packages/db/src/repos/conversation-queue.ts.  Every exported    *)
(* mutator is one SQLite transaction, hence one action; a crash inside one *)
(* leaves no trace.  Commands come from any number of clients, which retry *)
(* them; the drain loop claims turns, the runtime driver settles them, and *)
(* boot recovers the ones a dead process left active.                      *)
(***************************************************************************)
EXTENDS OrchestratorSessions

CONSTANTS Command,      \* command ids the clients draw
          Client,       \* client message ids
          Text,         \* message texts
          MaxRevision,  \* bound on the revisions of one queued message
          MaxRejected   \* bound on the stored rejections

ASSUME CommandAssumption ==
  /\ IsFiniteSet(Command)
  /\ None \notin Command
  /\ MaxRevision \in Nat \ {0}
  /\ MaxRejected \in Nat

VARIABLES command,  \* conversation_commands: Command -> receipt
          item,     \* conversation_queue_items, named by the inserting command
          turn,     \* conversation_turns, named by their queue item
          request,  \* turn_interrupt_requests, named by their command
          head      \* conversation_queue_heads: Session -> [next, rev]

queueVars == <<command, item, turn, request, head>>
vars == <<sessVars, queueVars>>

Origin == {"user", "agent-envelope"}

SendInput == [kind : {"send"}, session : Session, client : Client,
              text : Text, blank : BOOLEAN, origin : Origin]
EditInput == [kind : {"edit"}, session : Session, item : Command,
              expected : 1..MaxRevision, blank : BOOLEAN]
RemoveInput == [kind : {"remove"}, session : Session, item : Command,
                expected : 1..MaxRevision]
Replacement == [kind : {"none"}]
                 \cup [kind : {"queued"}, item : Command, expected : 1..MaxRevision]
                 \cup [kind : {"new"}, client : Client, text : Text, blank : BOOLEAN]
InterruptInput == [kind : {"interrupt"}, session : Session, target : Command,
                   replacement : Replacement]
Input == SendInput \cup EditInput \cup RemoveInput \cup InterruptInput

\* What priorCommand finds under a command id.  The fingerprint is the input;
\* that of a rejection decides nothing any more.
NoReceipt == [status |-> "none"]
Rejection == [status |-> "rejected"]
Receipt == [status : {"applied"}, input : Input,
            item : Command \cup {None}, revision : 0..MaxRevision]
           \cup {Rejection}

ItemStatus == {"none", "queued", "delivering", "accepted", "failed", "cancelled"}
Item == [status : ItemStatus \ {"none"}, session : Session,
         client : Client, text : Text, origin : Origin,
         pos : Nat \ {0}, rev : 1..MaxRevision, drev : 0..MaxRevision,
         link : Command \cup {None}]   \* drev 0: deliveryRevision null
NoItem == [status |-> "none", session |-> None, client |-> None, text |-> None,
           origin |-> "user", pos |-> 0, rev |-> 0, drev |-> 0, link |-> None]

Outcome == {"none", "completed", "turn-failed", "aborted", "recovered"}
Turn == [status : {"none", "active", "ended"}, outcome : Outcome]
NoTurn == [status |-> "none", outcome |-> "none"]

FailureCode == {"none", "runtime-interrupt-failed", "runtime-interrupt-inconclusive",
                "target-ended"}
Request == [status : {"none", "requested", "confirmed", "failed"},
            target : Command \cup {None}, replacement : Command \cup {None},
            code : FailureCode]
NoRequest == [status |-> "none", target |-> None, replacement |-> None, code |-> "none"]

Init ==
  /\ SessInit
  /\ command = [c \in Command |-> NoReceipt]
  /\ item = [i \in Command |-> NoItem]
  /\ turn = [i \in Command |-> NoTurn]
  /\ request = [c \in Command |-> NoRequest]
  /\ head = [s \in Session |-> [next |-> 1, rev |-> 0]]

-----------------------------------------------------------------------------
Fresh(c) == command[c].status = "none"
Active(i) == turn[i].status = "active"
Queued(i) == item[i].status = "queued"
Requested(c) == request[c].status = "requested"

\* activeSession
SessionOpen(s) == live /\ IsActive(s)

NoActiveTurn(s) == \A i \in Command : item[i].session = s => ~Active(i)

\* Mutant: any queued message may be taken first.
IsQueuedAnywhere(i) == Queued(i)

IsFifoHead(i) ==
  /\ Queued(i)
  /\ \A j \in Command : Queued(j) /\ item[j].session = item[i].session
                          => item[i].pos <= item[j].pos

\* Mutant: only messages still waiting are compared.
SameQueuedMessage(s, client) ==
  {i \in Command : Queued(i) /\ item[i].session = s /\ item[i].client = client}

SameMessage(s, client) ==
  {i \in Command : item[i].status # "none" /\ item[i].session = s /\ item[i].client = client}

StoreCommand(c, input, i, revision) ==
  command' = [command EXCEPT ![c] = [status |-> "applied", input |-> input,
                                     item |-> i, revision |-> revision]]

\* insertQueueItem: allocates the position and bumps the queue revision.
QueuedItem(s, client, text, origin, link) ==
  [status |-> "queued", session |-> s, client |-> client, text |-> text,
   origin |-> origin, pos |-> head[s].next, rev |-> 1, drev |-> 0, link |-> link]

AllocatePosition(s) ==
  head' = [head EXCEPT ![s] = [next |-> @.next + 1, rev |-> @.rev + 1]]

BumpRevision(s, n) == head' = [head EXCEPT ![s].rev = @ + n]

-----------------------------------------------------------------------------
(***************************************************************************)
(* Client commands.  Each one first looks its id up (Replay), then decides, *)
(* then stores a receipt whether it was applied or rejected.               *)
(***************************************************************************)
SendAdmissible(in) == SessionOpen(in.session) /\ ~in.blank

Identical(in, i) == item[i].origin = in.origin /\ item[i].text = in.text

\* enqueueConversationSend, a new message.
EnqueueSend(c, in) ==
  /\ Fresh(c)
  /\ SendAdmissible(in)
  /\ SameMessage(in.session, in.client) = {}
  /\ item' = [item EXCEPT ![c] =
                QueuedItem(in.session, in.client, in.text, in.origin, None)]
  /\ AllocatePosition(in.session)
  /\ StoreCommand(c, in, c, 1)
  /\ UNCHANGED <<sessVars, turn, request>>

\* enqueueConversationSend, the same message under a new command id.
EnqueueDuplicate(c, in) ==
  /\ Fresh(c)
  /\ SendAdmissible(in)
  /\ \E i \in SameMessage(in.session, in.client) :
       Identical(in, i) /\ StoreCommand(c, in, i, item[i].rev)
  /\ UNCHANGED <<sessVars, item, turn, request, head>>

\* Mutant: the revision the client saw is not compared.
MutableAnyRevision(in, statuses) ==
  /\ live
  /\ item[in.item].session = in.session
  /\ item[in.item].status \in statuses
  /\ item[in.item].link = None \/ item[in.item].status = "failed"

\* mutableItemOrReject
Mutable(in, statuses) ==
  /\ live
  /\ item[in.item].session = in.session
  /\ item[in.item].status \in statuses
  /\ item[in.item].link = None \/ item[in.item].status = "failed"
  /\ item[in.item].rev = in.expected

EditAdmissible(in) ==
  /\ ~in.blank
  /\ Mutable(in, {"queued"})
  /\ item[in.item].origin = "user"

\* editQueuedConversationSend
Edit(c, in) ==
  /\ Fresh(c)
  /\ EditAdmissible(in)
  /\ in.expected < MaxRevision
  /\ item' = [item EXCEPT ![in.item].rev = in.expected + 1]
  /\ BumpRevision(in.session, 1)
  /\ StoreCommand(c, in, in.item, in.expected + 1)
  /\ UNCHANGED <<sessVars, turn, request>>

RemoveAdmissible(in) == Mutable(in, {"queued", "failed"})

\* removeQueuedConversationSend
Remove(c, in) ==
  /\ Fresh(c)
  /\ RemoveAdmissible(in)
  /\ item' = [item EXCEPT ![in.item].status = "cancelled"]
  /\ BumpRevision(in.session, 1)
  /\ StoreCommand(c, in, in.item, in.expected)
  /\ UNCHANGED <<sessVars, turn, request>>

\* A native interrupt of this turn is outstanding or ended inconclusive.
InterruptBlocked(target) ==
  \E c \in Command : /\ request[c].target = target
                     /\ \/ Requested(c)
                        \/ request[c].code = "runtime-interrupt-inconclusive"

ReplacementAdmissible(in) ==
  \/ in.replacement.kind = "none"
  \/ /\ in.replacement.kind = "queued"
     /\ IsFifoHead(in.replacement.item)
     /\ item[in.replacement.item].session = in.session
     /\ item[in.replacement.item].rev = in.replacement.expected
     /\ item[in.replacement.item].origin = "user"
     /\ item[in.replacement.item].link = None
  \/ /\ in.replacement.kind = "new"
     /\ ~in.replacement.blank
     /\ \A i \in Command : item[i].session = in.session => ~Queued(i)
     /\ SameMessage(in.session, in.replacement.client) = {}

InterruptAdmissible(in) ==
  /\ live
  /\ Active(in.target)
  /\ item[in.target].session = in.session
  /\ ~InterruptBlocked(in.target)
  /\ ReplacementAdmissible(in)

OpenRequest(c, target, replacement) ==
  request' = [request EXCEPT ![c] = [status |-> "requested", target |-> target,
                                     replacement |-> replacement, code |-> "none"]]

\* requestConversationInterrupt without a replacement.
Interrupt(c, in) ==
  /\ Fresh(c)
  /\ in.replacement.kind = "none"
  /\ InterruptAdmissible(in)
  /\ OpenRequest(c, in.target, None)
  /\ StoreCommand(c, in, None, 0)
  /\ UNCHANGED <<sessVars, item, turn, head>>

\* requestConversationInterrupt that locks the FIFO head as the replacement.
InterruptAndSendQueued(c, in) ==
  /\ Fresh(c)
  /\ in.replacement.kind = "queued"
  /\ InterruptAdmissible(in)
  /\ item' = [item EXCEPT ![in.replacement.item].link = c]
  /\ BumpRevision(in.session, 1)
  /\ OpenRequest(c, in.target, in.replacement.item)
  /\ StoreCommand(c, in, in.replacement.item, in.replacement.expected)
  /\ UNCHANGED <<sessVars, turn>>

\* requestConversationInterrupt that inserts its replacement, already locked.
InterruptAndSendNew(c, in) ==
  /\ Fresh(c)
  /\ in.replacement.kind = "new"
  /\ InterruptAdmissible(in)
  /\ item' = [item EXCEPT ![c] = QueuedItem(in.session, in.replacement.client,
                                            in.replacement.text, "user", c)]
  /\ AllocatePosition(in.session)
  /\ OpenRequest(c, in.target, c)
  /\ StoreCommand(c, in, c, 1)
  /\ UNCHANGED <<sessVars, turn>>

SendAnswered(in) ==
  /\ SendAdmissible(in)
  /\ \A i \in SameMessage(in.session, in.client) : Identical(in, i)

Admissible(in) ==
  \/ in.kind = "send" /\ SendAnswered(in)
  \/ in.kind = "edit" /\ EditAdmissible(in)
  \/ in.kind = "remove" /\ RemoveAdmissible(in)
  \/ in.kind = "interrupt" /\ InterruptAdmissible(in)

\* rejected: nothing changes but the stored receipt, which forgets the input.
Reject(c) ==
  /\ Fresh(c)
  /\ ~ \A in \in Input : Admissible(in)
  /\ Cardinality({d \in Command : command[d].status = "rejected"}) < MaxRejected
  /\ command' = [command EXCEPT ![c] = Rejection]
  /\ UNCHANGED <<sessVars, item, turn, request, head>>

\* priorCommand: a known id is answered from its receipt, or refused when the
\* input differs from the fingerprint; either way nothing is written.
Replay(c) == ~Fresh(c) /\ UNCHANGED vars

-----------------------------------------------------------------------------
(***************************************************************************)
(* The drain loop and the runtime driver.                                  *)
(***************************************************************************)
\* claimNextConversationTurn
Claim(i) ==
  /\ IsFifoHead(i)
  /\ NoActiveTurn(item[i].session)
  /\ item[i].link # None => request[item[i].link].status = "confirmed"
  /\ SessionOpen(item[i].session)
  /\ item' = [item EXCEPT ![i].status = "delivering", ![i].drev = item[i].rev]
  /\ turn' = [turn EXCEPT ![i] = [status |-> "active", outcome |-> "none"]]
  /\ BumpRevision(item[i].session, 1)
  /\ UNCHANGED <<sessVars, command, request>>

\* Mutant: a failed interrupt leaves its replacement queued.
NoFailedReplacement(failing) == {}

\* The queued replacements that failReplacement fails with these requests.
FailedReplacements(failing) ==
  {j \in Command : Queued(j) /\ \E c \in failing : request[c].replacement = j}

\* failConversationInterrupt
FailInterrupt(c, code) ==
  /\ Requested(c)
  /\ request' = [request EXCEPT ![c].status = "failed", ![c].code = code]
  /\ LET lost == FailedReplacements({c})
     IN  /\ item' = [j \in Command |-> IF j \in lost THEN [item[j] EXCEPT !.status = "failed"]
                                       ELSE item[j]]
         /\ BumpRevision(item[request[c].target].session, Cardinality(lost))
  /\ UNCHANGED <<sessVars, command, turn>>

Confirms(outcome) == outcome = "aborted"

\* settleConversationTurn
Settle(i, outcome, status) ==
  LET open == {c \in Command : Requested(c) /\ request[c].target = i}
      confirmed == Confirms(outcome)
      lost == IF confirmed THEN {} ELSE FailedReplacements(open)
  IN  /\ Active(i)
      /\ turn' = [turn EXCEPT ![i] = [status |-> "ended", outcome |-> outcome]]
      /\ item' = [j \in Command |->
                    IF j = i THEN [item[j] EXCEPT !.status = status]
                    ELSE IF j \in lost THEN [item[j] EXCEPT !.status = "failed"]
                    ELSE item[j]]
      /\ request' = [c \in Command |->
                       IF c \notin open THEN request[c]
                       ELSE IF confirmed THEN [request[c] EXCEPT !.status = "confirmed"]
                       ELSE [request[c] EXCEPT !.status = "failed", !.code = "target-ended"]]
      /\ BumpRevision(item[i].session, 1 + Cardinality(lost))
      /\ UNCHANGED <<sessVars, command>>

\* The callers of settleConversationTurn: a terminal of the runtime, an
\* infrastructure failure before or after the runtime accepted the message,
\* and recoverActiveConversationTurns at boot.
SettleTerminal(i) == \E outcome \in {"completed", "aborted", "turn-failed"} : Settle(i, outcome, "accepted")
SettleInfrastructureFailure(i) == Settle(i, "turn-failed", "failed")
RecoverTurn(i) == Settle(i, "recovered", "failed")

-----------------------------------------------------------------------------
(***************************************************************************)
(* App-session transitions: each one refuses while a turn of the active    *)
(* session runs, cancels its undelivered sends and moves the rows, in one  *)
(* transaction.                                                            *)
(***************************************************************************)
\* Mutant: leaving a session cancels its failed sends only.
CancellableFailed(s) == {i \in Command : item[i].session = s /\ item[i].status = "failed"}

Cancellable(s) ==
  {i \in Command : item[i].session = s /\ item[i].status \in {"queued", "failed"}}

\* cancelQueuedConversationSendsInDb; old = None has no queue.
CancelQueue(old) ==
  /\ item' = [i \in Command |-> IF old # None /\ i \in Cancellable(old)
                                THEN [item[i] EXCEPT !.status = "cancelled"] ELSE item[i]]
  /\ head' = [s \in Session |-> IF s = old
                                THEN [head[s] EXCEPT !.rev = @ + Cardinality(Cancellable(s))]
                                ELSE head[s]]
  /\ UNCHANGED <<command, turn, request>>

\* Mutant: a transition that does not look for a running turn.
IdleUnchecked(old) == TRUE

Idle(old) == old # None => NoActiveTurn(old)

ReplaceSession(old, new, handoff) == Idle(old) /\ ReplaceRow(old, new, handoff) /\ CancelQueue(old)
CloseSession(old) == Idle(old) /\ CloseRow(old) /\ CancelQueue(old)
ResumeSession(old, target) ==
  Idle(old) /\ NoActiveTurn(target) /\ ReactivateRow(old, target) /\ CancelQueue(old)
ContinueSession(old, new) == Idle(old) /\ ContinueRow(old, new) /\ CancelQueue(old)

\* softDeleteProjectConversationState
DeleteProject ==
  /\ \A i \in Command : ~Active(i)
  /\ \E old \in Session \cup {None} : Expected(old) /\ CancelQueue(old)
  /\ DeleteRows

-----------------------------------------------------------------------------
ClientCommand ==
  \E c \in Command :
    \/ \E in \in SendInput : EnqueueSend(c, in) \/ EnqueueDuplicate(c, in)
    \/ \E in \in EditInput : Edit(c, in)
    \/ \E in \in RemoveInput : Remove(c, in)
    \/ \E in \in InterruptInput :
         Interrupt(c, in) \/ InterruptAndSendQueued(c, in) \/ InterruptAndSendNew(c, in)
    \/ Reject(c)
    \/ Replay(c)

TurnStep ==
  \E i \in Command :
    \/ Claim(i)
    \/ SettleTerminal(i)
    \/ SettleInfrastructureFailure(i)
    \/ RecoverTurn(i)
    \/ \E code \in {"runtime-interrupt-failed", "runtime-interrupt-inconclusive"} :
         FailInterrupt(i, code)

SessionStep ==
  \/ \E old \in Session \cup {None}, new \in Session, handoff \in BOOLEAN :
       ReplaceSession(old, new, handoff)
  \/ \E old \in Session : CloseSession(old)
  \/ \E old \in Session \cup {None}, target \in Session : ResumeSession(old, target)
  \/ \E old, new \in Session : ContinueSession(old, new)
  \/ DeleteProject
  \/ Continuation /\ UNCHANGED queueVars

Next == ClientCommand \/ TurnStep \/ SessionStep

Spec == Init /\ [][Next]_vars
-----------------------------------------------------------------------------
TypeOK ==
  /\ SessTypeOK
  /\ command \in [Command -> Receipt \cup {NoReceipt}]
  /\ item \in [Command -> Item \cup {NoItem}]
  /\ turn \in [Command -> Turn]
  /\ request \in [Command -> Request]
  /\ head \in [Session -> [next : Nat \ {0}, rev : Nat]]

\* A message is delivering exactly while its turn is active, and a session has
\* at most one: the two partial unique indexes (one delivering item, one active
\* turn per session) describe the same fact and never abort a claim.
OneTurnPerSession ==
  /\ \A i \in Command : item[i].status = "delivering" <=> Active(i)
  /\ \A i, j \in Command : Active(i) /\ Active(j) /\ item[i].session = item[j].session => i = j

\* A running turn belongs to the active session of a live project: no switch,
\* close, handoff or deletion ever pulls the session from under its turn.
TurnKeepsItsSession ==
  \A i \in Command : Active(i) => SessionOpen(item[i].session)

\* No message waits in a session nobody drains: leaving a session cancels its
\* queue in the same transaction.
NothingStranded ==
  \A i \in Command : Queued(i) => SessionOpen(item[i].session)

\* A queued message locked by an interrupt is the FIFO head of its session, its
\* request knows it, and that request is either confirmed or still to be
\* settled together with the running turn.  Hence the head can never be blocked
\* by a request that nothing will settle.
LockedHeadIsReleasable ==
  \A i \in Command :
    Queued(i) /\ item[i].link # None =>
      LET r == request[item[i].link]
      IN  /\ IsFifoHead(i)
          /\ r.replacement = i
          /\ item[r.target].session = item[i].session
          /\ r.status = "confirmed" \/ (r.status = "requested" /\ Active(r.target))

\* An open request points at a running turn, and one turn has at most one; after
\* an inconclusive attempt none is opened again for that turn.
InterruptsAreSingle ==
  \A c \in Command :
    Requested(c) =>
      /\ Active(request[c].target)
      /\ \A d \in Command \ {c} : request[d].target = request[c].target =>
           request[d].code = "runtime-interrupt-failed"

\* Once a session delivered a message, no older message of that session is
\* still waiting: edits, removals, interrupts and failures never reorder.
FifoDelivery ==
  \A i, j \in Command :
    Queued(i) /\ item[j].drev # 0 /\ item[i].session = item[j].session
      => item[j].pos < item[i].pos

Applied(kinds) == {c \in Command : command[c].status = "applied" /\ command[c].input.kind \in kinds}

\* No lost update: two applied edits of one message never started from the same
\* revision, and a message that was removed is the revision its remover saw.
NoLostUpdate ==
  \A c \in Applied({"edit"}), d \in Applied({"edit", "remove"}) :
    c # d /\ command[c].item = command[d].item
      => command[c].input.expected # command[d].input.expected

\* A client message becomes at most one queue item of its session, however
\* often and under however many command ids it is sent.
OneItemPerClientMessage ==
  \A i, j \in Command :
    /\ item[i].status # "none" /\ item[j].status # "none"
    /\ item[i].session = item[j].session
    /\ item[i].client = item[j].client
    => i = j
=============================================================================
