------------------------ MODULE ConversationQueueProofs ------------------------
(***************************************************************************)
(* What holds of the conversation store for every finite set of commands   *)
(* and every set of sessions, clients and texts.                           *)
(***************************************************************************)
EXTENDS ConversationQueue, OrchestratorSessionsProofs, FiniteSetTheorems

-----------------------------------------------------------------------------
\* The store never moves the session rows except by a transition of the
\* session repository: what is proved of the rows alone holds inside the store.
LEMMA StepIsRowStep ==
  ASSUME [Next]_vars PROVE [SessNext]_sessVars
<1>1. CASE ClientCommand
  BY <1>1 DEF ClientCommand, EnqueueSend, EnqueueDuplicate, Edit, Remove, Interrupt,
     InterruptAndSendQueued, InterruptAndSendNew, Reject, Replay, vars
<1>2. CASE TurnStep
  BY <1>2 DEF TurnStep, Claim, SettleTerminal, SettleInfrastructureFailure, RecoverTurn,
     Settle, FailInterrupt
<1>3. CASE SessionStep
  BY <1>3 DEF SessionStep, ReplaceSession, CloseSession, ResumeSession, ContinueSession,
     DeleteProject, SessNext, RowTransition
<1>4. CASE UNCHANGED vars
  BY <1>4 DEF vars
<1> QED
  BY <1>1, <1>2, <1>3, <1>4 DEF Next

\* The conversation store implements the session rows.
LEMMA StoreImplementsRows == Spec => SessSpec
<1>1. Init => SessInit
  BY DEF Init
<1> QED
  BY <1>1, StepIsRowStep, PTL DEF Spec, SessSpec

-----------------------------------------------------------------------------
(***************************************************************************)
(* The store by itself: its types, the pairing of deliveries with turns,   *)
(* and the command ids nobody has used yet.  The three are inductive only  *)
(* together: a settlement keeps the type of the item because its turn is   *)
(* active, and an insertion because nothing lives under a fresh id.        *)
(***************************************************************************)
QueueTypes ==
  /\ command \in [Command -> Receipt \cup {NoReceipt}]
  /\ item \in [Command -> Item \cup {NoItem}]
  /\ turn \in [Command -> Turn]
  /\ request \in [Command -> Request]
  /\ head \in [Session -> [next : Nat \ {0}, rev : Nat]]

FreshUnused ==
  \A c \in Command : Fresh(c) => item[c] = NoItem /\ turn[c] = NoTurn /\ request[c] = NoRequest

StoreOK == QueueTypes /\ OneTurnPerSession /\ FreshUnused

\* A present item has every field in its range.
LEMMA PresentItem ==
  ASSUME QueueTypes, NEW i \in Command, item[i].status # "none"
  PROVE  /\ item[i] \in Item
         /\ item[i].session \in Session /\ item[i].rev \in 1..MaxRevision
  BY DEF QueueTypes, Item, NoItem

\* A status change touches the status alone.
WithStatus(it, status) == [it EXCEPT !.status = status]

\* Changing the status of a present message leaves it a message.
LEMMA StatusChange ==
  ASSUME NEW it \in Item, NEW status \in ItemStatus \ {"none"}
  PROVE  /\ WithStatus(it, status) \in Item
         /\ WithStatus(it, status).status = status
         /\ WithStatus(it, status).session = it.session
         /\ WithStatus(it, status).link = it.link
         /\ WithStatus(it, status).pos = it.pos
         /\ WithStatus(it, status).rev = it.rev
         /\ WithStatus(it, status).drev = it.drev
  BY DEF Item, WithStatus

\* Advancing a queue revision by a count keeps the heads in range.
LEMMA BumpTypes ==
  ASSUME QueueTypes, NEW s, NEW n \in Nat, BumpRevision(s, n)
  PROVE  head' \in [Session -> [next : Nat \ {0}, rev : Nat]]
<1> SUFFICES ASSUME s \in Session
             PROVE  head' \in [Session -> [next : Nat \ {0}, rev : Nat]]
  BY DEF QueueTypes, BumpRevision
<1>1. head[s] \in [next : Nat \ {0}, rev : Nat]
  BY DEF QueueTypes
<1>2. [head[s] EXCEPT !.rev = @ + n] \in [next : Nat \ {0}, rev : Nat]
  BY <1>1
<1> QED
  BY <1>2 DEF QueueTypes, BumpRevision

\* The next position of a session stays a positive number.
LEMMA AllocateTypes ==
  ASSUME QueueTypes, NEW s, AllocatePosition(s)
  PROVE  head' \in [Session -> [next : Nat \ {0}, rev : Nat]]
<1> SUFFICES ASSUME s \in Session
             PROVE  head' \in [Session -> [next : Nat \ {0}, rev : Nat]]
  BY DEF QueueTypes, AllocatePosition
<1>1. head[s].next + 1 \in Nat \ {0} /\ head[s].rev + 1 \in Nat
  BY DEF QueueTypes
<1> QED
  BY <1>1 DEF QueueTypes, AllocatePosition

\* A new item is well formed.
LEMMA QueuedItemTypes ==
  ASSUME QueueTypes, NEW s \in Session, NEW client \in Client, NEW text \in Text,
         NEW origin \in Origin, NEW link \in Command \cup {None}
  PROVE  QueuedItem(s, client, text, origin, link) \in Item
<1>1. head[s].next \in Nat \ {0}
  BY DEF QueueTypes
<1>2. 1 \in 1..MaxRevision /\ 0 \in 0..MaxRevision
  BY CommandAssumption
<1> QED
  BY <1>1, <1>2 DEF QueuedItem, Item, ItemStatus

\* A stored receipt is well formed.
LEMMA ReceiptTypes ==
  ASSUME QueueTypes, NEW c \in Command, NEW in \in Input, NEW i \in Command \cup {None},
         NEW revision \in 0..MaxRevision, StoreCommand(c, in, i, revision)
  PROVE  /\ command' \in [Command -> Receipt \cup {NoReceipt}]
         /\ command'[c].status = "applied"
         /\ \A d \in Command \ {c} : command'[d] = command[d]
  BY DEF QueueTypes, StoreCommand, Receipt

\* Sets of commands are finite, so their size counts.
LEMMA CommandsAreFinite ==
  ASSUME NEW S \in SUBSET Command
  PROVE  IsFiniteSet(S) /\ Cardinality(S) \in Nat
  BY CommandAssumption, FS_Subset, FS_CardinalityType

\* The type invariant of the store is that of its rows and that of the queue.
LEMMA TypesAreQueueTypes == TypeOK <=> SessTypeOK /\ QueueTypes
  BY DEF TypeOK, QueueTypes

\* A step that starts and ends no turn keeps deliveries and turns paired.
LEMMA NoTurnStep ==
  ASSUME StoreOK, QueueTypes', turn' = turn,
         \A i \in Command : item'[i].status = "delivering" <=> item[i].status = "delivering",
         \A i \in Command : item[i].status # "none" => item'[i].session = item[i].session,
         \A c \in Command : command'[c].status = "none" =>
           Fresh(c) /\ item'[c] = item[c] /\ request'[c] = request[c]
  PROVE  StoreOK'
<1>1. OneTurnPerSession'
  BY DEF StoreOK, OneTurnPerSession, Active
<1>2. FreshUnused'
  BY DEF StoreOK, FreshUnused, Fresh
<1> QED
  BY <1>1, <1>2 DEF StoreOK

\* A step of the session rows alone.
LEMMA UnchangedKeepsStore ==
  ASSUME StoreOK, UNCHANGED queueVars PROVE StoreOK'
  BY DEF StoreOK, QueueTypes, OneTurnPerSession, FreshUnused, Active, Fresh, queueVars

\* The two commands that insert a message.
LEMMA InsertKeepsStore ==
  ASSUME StoreOK, NEW c \in Command, Fresh(c), NEW new \in Item, new.status = "queued",
         NEW s, AllocatePosition(s),
         item' = [item EXCEPT ![c] = new], turn' = turn,
         request' \in [Command -> Request], \A d \in Command \ {c} : request'[d] = request[d],
         NEW in \in Input, StoreCommand(c, in, c, 1)
  PROVE  StoreOK'
<1>1. 1 \in 0..MaxRevision
  BY CommandAssumption
<1>2. /\ command' \in [Command -> Receipt \cup {NoReceipt}]
      /\ command'[c].status = "applied"
      /\ \A d \in Command \ {c} : command'[d] = command[d]
  BY <1>1, ReceiptTypes DEF StoreOK
<1>3. QueueTypes'
  BY <1>2, AllocateTypes DEF StoreOK, QueueTypes
<1>4. item[c] = NoItem /\ item[c].status = "none"
  BY DEF StoreOK, FreshUnused, NoItem
<1> QED
  BY <1>2, <1>3, <1>4, NoTurnStep DEF StoreOK, QueueTypes, Fresh

\* A send inserts its message under its own, unused, command.
LEMMA EnqueueSendKeepsStore ==
  ASSUME StoreOK, NEW c \in Command, NEW in \in SendInput, EnqueueSend(c, in)
  PROVE  StoreOK'
<1>1. in.session \in Session /\ in.client \in Client /\ in.text \in Text /\ in.origin \in Origin
  BY DEF SendInput
<1> DEFINE new == QueuedItem(in.session, in.client, in.text, in.origin, None)
<1>2. new \in Item /\ new.status = "queued"
  BY <1>1, QueuedItemTypes DEF StoreOK, QueuedItem
<1>3. in \in Input
  BY DEF Input
<1> QED
  BY <1>2, <1>3, InsertKeepsStore DEF EnqueueSend, StoreOK, QueueTypes

\* A duplicate send stores a receipt and no message.
LEMMA EnqueueDuplicateKeepsStore ==
  ASSUME StoreOK, NEW c \in Command, NEW in \in SendInput, EnqueueDuplicate(c, in)
  PROVE  StoreOK'
<1>1. PICK i \in SameMessage(in.session, in.client) : StoreCommand(c, in, i, item[i].rev)
  BY DEF EnqueueDuplicate
<1>2. in \in Input /\ i \in Command /\ item[i].rev \in 0..MaxRevision
  BY <1>1, PresentItem, CommandAssumption DEF SameMessage, StoreOK, Input
<1>3. /\ command' \in [Command -> Receipt \cup {NoReceipt}]
      /\ command'[c].status = "applied"
      /\ \A d \in Command \ {c} : command'[d] = command[d]
  BY <1>1, <1>2, ReceiptTypes DEF StoreOK
<1>4. QueueTypes'
  BY <1>3 DEF EnqueueDuplicate, StoreOK, QueueTypes
<1> QED
  BY <1>3, <1>4, NoTurnStep DEF EnqueueDuplicate, Fresh

\* An edit replaces the text of a message that still waits.
LEMMA EditKeepsStore ==
  ASSUME StoreOK, NEW c \in Command, NEW in \in EditInput, Edit(c, in)
  PROVE  StoreOK'
<1>1. /\ in \in Input /\ in.item \in Command /\ in.session \in Session
      /\ in.expected \in 1..MaxRevision
  BY DEF EditInput, Input
<1>2. in.expected + 1 \in 1..MaxRevision /\ in.expected + 1 \in 0..MaxRevision
  BY <1>1, CommandAssumption DEF Edit
<1>3. item[in.item].status = "queued"
  BY DEF Edit, EditAdmissible, Mutable
<1>4. item' \in [Command -> Item \cup {NoItem}]
  BY <1>1, <1>2, <1>3, PresentItem DEF Edit, StoreOK, QueueTypes, Item
<1>5. /\ command' \in [Command -> Receipt \cup {NoReceipt}]
      /\ command'[c].status = "applied"
      /\ \A d \in Command \ {c} : command'[d] = command[d]
  BY <1>1, <1>2, ReceiptTypes DEF StoreOK, Edit
<1>6. QueueTypes'
  BY <1>4, <1>5, BumpTypes DEF Edit, StoreOK, QueueTypes
<1>7. /\ item'[in.item].status = "queued" /\ item'[in.item].session = item[in.item].session
      /\ \A i \in Command \ {in.item} : item'[i] = item[i]
  BY <1>1, <1>3, PresentItem DEF Edit, StoreOK, QueueTypes, Item
<1>8. ~Fresh(in.item)
  BY <1>1, <1>3 DEF StoreOK, FreshUnused, NoItem
<1> QED
  BY <1>3, <1>5, <1>6, <1>7, <1>8, NoTurnStep DEF Edit, Fresh

\* A removal ends a message that still waits or was failed.
LEMMA RemoveKeepsStore ==
  ASSUME StoreOK, NEW c \in Command, NEW in \in RemoveInput, Remove(c, in)
  PROVE  StoreOK'
<1>1. /\ in \in Input /\ in.item \in Command /\ in.session \in Session
      /\ in.expected \in 0..MaxRevision
  BY CommandAssumption DEF RemoveInput, Input
<1>2. item[in.item].status \in {"queued", "failed"}
  BY DEF Remove, RemoveAdmissible, Mutable
<1>3. item' \in [Command -> Item \cup {NoItem}]
  BY <1>1, <1>2, PresentItem DEF Remove, StoreOK, QueueTypes, Item, ItemStatus
<1>4. /\ command' \in [Command -> Receipt \cup {NoReceipt}]
      /\ command'[c].status = "applied"
      /\ \A d \in Command \ {c} : command'[d] = command[d]
  BY <1>1, ReceiptTypes DEF StoreOK, Remove
<1>5. QueueTypes'
  BY <1>3, <1>4, BumpTypes DEF Remove, StoreOK, QueueTypes
<1>6. /\ item'[in.item].status = "cancelled" /\ item'[in.item].session = item[in.item].session
      /\ \A i \in Command \ {in.item} : item'[i] = item[i]
  BY <1>1, <1>2, PresentItem DEF Remove, StoreOK, QueueTypes, Item
<1>7. ~Fresh(in.item)
  BY <1>1, <1>2 DEF StoreOK, FreshUnused, NoItem
<1> QED
  BY <1>2, <1>4, <1>5, <1>6, <1>7, NoTurnStep DEF Remove, Fresh

\* The three forms of an interrupt open their request under the command id.
LEMMA OpenRequestTypes ==
  ASSUME QueueTypes, NEW c \in Command, NEW target \in Command,
         NEW replacement \in Command \cup {None}, OpenRequest(c, target, replacement)
  PROVE  /\ request' \in [Command -> Request]
         /\ \A d \in Command \ {c} : request'[d] = request[d]
  BY DEF QueueTypes, OpenRequest, Request, FailureCode

\* An interrupt opens a request and touches no message.
LEMMA InterruptKeepsStore ==
  ASSUME StoreOK, NEW c \in Command, NEW in \in InterruptInput, Interrupt(c, in)
  PROVE  StoreOK'
<1>1. in \in Input /\ in.target \in Command /\ 0 \in 0..MaxRevision
  BY CommandAssumption DEF InterruptInput, Input
<1>2. /\ command' \in [Command -> Receipt \cup {NoReceipt}]
      /\ command'[c].status = "applied"
      /\ \A d \in Command \ {c} : command'[d] = command[d]
  BY <1>1, ReceiptTypes DEF StoreOK, Interrupt
<1>3. /\ request' \in [Command -> Request]
      /\ \A d \in Command \ {c} : request'[d] = request[d]
  BY <1>1, OpenRequestTypes DEF StoreOK, Interrupt
<1>4. QueueTypes'
  BY <1>2, <1>3 DEF Interrupt, StoreOK, QueueTypes
<1> QED
  BY <1>2, <1>3, <1>4, NoTurnStep DEF Interrupt, Fresh

\* An interrupt that locks the waiting head leaves it waiting.
LEMMA InterruptAndSendQueuedKeepsStore ==
  ASSUME StoreOK, NEW c \in Command, NEW in \in InterruptInput, InterruptAndSendQueued(c, in)
  PROVE  StoreOK'
<1> DEFINE i == in.replacement.item
<1>1. /\ in \in Input /\ in.target \in Command /\ in.session \in Session
      /\ i \in Command /\ in.replacement.expected \in 0..MaxRevision
  BY CommandAssumption DEF InterruptAndSendQueued, InterruptInput, Input, Replacement
<1>2. item[i].status = "queued"
  BY DEF InterruptAndSendQueued, InterruptAdmissible, ReplacementAdmissible, IsFifoHead, Queued
<1> HIDE DEF i
<1>3. item' = [item EXCEPT ![i].link = c] /\ in.replacement.item = i
  BY DEF InterruptAndSendQueued, i
<1>4. item' \in [Command -> Item \cup {NoItem}]
  BY <1>1, <1>2, <1>3, PresentItem DEF StoreOK, QueueTypes, Item
<1>5. /\ command' \in [Command -> Receipt \cup {NoReceipt}]
      /\ command'[c].status = "applied"
      /\ \A d \in Command \ {c} : command'[d] = command[d]
  BY <1>1, <1>3, ReceiptTypes DEF StoreOK, InterruptAndSendQueued
<1>6. /\ request' \in [Command -> Request]
      /\ \A d \in Command \ {c} : request'[d] = request[d]
  BY <1>1, <1>3, OpenRequestTypes DEF StoreOK, InterruptAndSendQueued
<1>7. QueueTypes'
  BY <1>4, <1>5, <1>6, BumpTypes DEF InterruptAndSendQueued, StoreOK, QueueTypes
<1>8. /\ item'[i].status = "queued" /\ item'[i].session = item[i].session
      /\ \A j \in Command \ {i} : item'[j] = item[j]
  BY <1>1, <1>2, <1>3, PresentItem DEF StoreOK, QueueTypes, Item
<1>9. ~Fresh(i)
  BY <1>1, <1>2 DEF StoreOK, FreshUnused, NoItem
<1> QED
  BY <1>2, <1>5, <1>6, <1>7, <1>8, <1>9, NoTurnStep DEF InterruptAndSendQueued, Fresh

\* An interrupt with a new message inserts it like a send.
LEMMA InterruptAndSendNewKeepsStore ==
  ASSUME StoreOK, NEW c \in Command, NEW in \in InterruptInput, InterruptAndSendNew(c, in)
  PROVE  StoreOK'
<1>1. /\ in \in Input /\ in.target \in Command /\ in.session \in Session
      /\ in.replacement.client \in Client /\ in.replacement.text \in Text
  BY DEF InterruptAndSendNew, InterruptInput, Input, Replacement
<1> DEFINE new == QueuedItem(in.session, in.replacement.client, in.replacement.text, "user", c)
<1>2. new \in Item /\ new.status = "queued"
  BY <1>1, QueuedItemTypes DEF StoreOK, QueuedItem, Origin
<1>3. /\ request' \in [Command -> Request]
      /\ \A d \in Command \ {c} : request'[d] = request[d]
  BY <1>1, OpenRequestTypes DEF StoreOK, InterruptAndSendNew
<1> QED
  BY <1>1, <1>2, <1>3, InsertKeepsStore DEF InterruptAndSendNew

\* A refusal stores a receipt only.
LEMMA RejectKeepsStore ==
  ASSUME StoreOK, NEW c \in Command, Reject(c)
  PROVE  StoreOK'
<1>1. Rejection \in Receipt
  BY DEF Receipt
<1>2. QueueTypes'
  BY <1>1 DEF Reject, StoreOK, QueueTypes
<1>3. command'[c].status = "rejected" /\ \A d \in Command \ {c} : command'[d] = command[d]
  BY DEF Reject, Rejection, StoreOK, QueueTypes
<1> QED
  BY <1>2, <1>3, NoTurnStep DEF Reject, Fresh

\* Cancelling a queue touches waiting and failed messages only.
LEMMA CancelKeepsStore ==
  ASSUME StoreOK, NEW old, CancelQueue(old)
  PROVE  StoreOK'
<1>1. \A s \in Session : Cardinality(Cancellable(s)) \in Nat
  BY CommandsAreFinite DEF Cancellable
<1>2. head' \in [Session -> [next : Nat \ {0}, rev : Nat]]
  <2>1. \A s \in Session : head[s] \in [next : Nat \ {0}, rev : Nat]
    BY DEF StoreOK, QueueTypes
  <2>2. \A s \in Session : [head[s] EXCEPT !.rev = @ + Cardinality(Cancellable(s))]
                              \in [next : Nat \ {0}, rev : Nat]
    BY <1>1, <2>1
  <2> QED
    BY <2>1, <2>2 DEF CancelQueue
<1>3. \A i \in Command :
        \/ item'[i] = item[i]
        \/ /\ item[i].status \in {"queued", "failed"} /\ item[i] \in Item
           /\ item'[i] = WithStatus(item[i], "cancelled")
  BY PresentItem DEF CancelQueue, StoreOK, Cancellable, QueueTypes, WithStatus
<1>8. "cancelled" \in ItemStatus \ {"none"}
  BY DEF ItemStatus
<1>4. item' \in [Command -> Item \cup {NoItem}]
  <2>1. \A i \in Command : item'[i] \in Item \cup {NoItem}
    BY <1>3, <1>8, StatusChange DEF StoreOK, QueueTypes
  <2> QED
    BY <2>1 DEF CancelQueue
<1>5. QueueTypes'
  BY <1>2, <1>4 DEF CancelQueue, StoreOK, QueueTypes
<1>6. \A i \in Command : /\ item'[i].status = "delivering" <=> item[i].status = "delivering"
                         /\ item[i].status # "none" => item'[i].session = item[i].session
  BY <1>3, <1>8, StatusChange
<1>7. \A i \in Command : Fresh(i) => item'[i] = item[i]
  BY <1>3 DEF StoreOK, FreshUnused, NoItem
<1> QED
  BY <1>5, <1>6, <1>7, NoTurnStep DEF CancelQueue, Fresh

\* The items a failed or unconfirmed interrupt changes.
LEMMA LostItems ==
  ASSUME QueueTypes, NEW failing \in SUBSET Command, NEW i \in FailedReplacements(failing)
  PROVE  /\ i \in Command /\ item[i] \in Item /\ item[i].status = "queued"
         /\ "failed" \in ItemStatus \ {"none"}
  BY PresentItem DEF FailedReplacements, Queued, ItemStatus

\* A failed request ends its waiting replacement and no turn.
LEMMA FailInterruptKeepsStore ==
  ASSUME StoreOK, NEW c \in Command, NEW code \in FailureCode, FailInterrupt(c, code)
  PROVE  StoreOK'
<1> DEFINE lost == FailedReplacements({c})
           s == item[request[c].target].session
<1>1. lost \in SUBSET Command /\ Cardinality(lost) \in Nat
  BY CommandsAreFinite DEF FailedReplacements
<1>2. \A i \in Command :
        \/ i \notin lost /\ item'[i] = item[i]
        \/ /\ item[i] \in Item /\ item[i].status = "queued"
           /\ item'[i] = WithStatus(item[i], "failed")
  BY LostItems DEF FailInterrupt, StoreOK, WithStatus
<1>3. item' = [i \in Command |-> item'[i]]
  BY DEF FailInterrupt
<1>4. "failed" \in ItemStatus \ {"none"}
  BY DEF ItemStatus
<1>5. item' \in [Command -> Item \cup {NoItem}]
  BY <1>2, <1>3, <1>4, StatusChange DEF StoreOK, QueueTypes
<1>6. /\ request' \in [Command -> Request]
      /\ \A d \in Command \ {c} : request'[d] = request[d]
  BY DEF FailInterrupt, StoreOK, QueueTypes, Request
<1>7. BumpRevision(s, Cardinality(lost))
  BY DEF FailInterrupt
<1>8. QueueTypes'
  BY <1>1, <1>5, <1>6, <1>7, BumpTypes DEF FailInterrupt, StoreOK, QueueTypes
<1>9. \A i \in Command : /\ item'[i].status = "delivering" <=> item[i].status = "delivering"
                         /\ item[i].status # "none" => item'[i].session = item[i].session
                         /\ Fresh(i) => item'[i] = item[i]
  BY <1>2, <1>4, StatusChange DEF StoreOK, FreshUnused, NoItem
<1>10. ~Fresh(c)
  BY DEF FailInterrupt, StoreOK, FreshUnused, NoRequest, Requested
<1> QED
  BY <1>6, <1>8, <1>9, <1>10, NoTurnStep DEF FailInterrupt, Fresh

\* A claim finds no active turn in the session and starts the only one.
LEMMA ClaimKeepsStore ==
  ASSUME StoreOK, NEW i \in Command, Claim(i)
  PROVE  StoreOK'
<1> DEFINE new == [item[i] EXCEPT !.status = "delivering", !.drev = item[i].rev]
<1>1. item[i].status = "queued" /\ item[i] \in Item
  BY PresentItem DEF Claim, IsFifoHead, Queued, StoreOK
<1>2. item' = [item EXCEPT ![i] = new]
  BY DEF Claim, StoreOK, QueueTypes
<1>3. new \in Item /\ new.status = "delivering" /\ new.session = item[i].session
  <2>1. item[i].rev \in 0..MaxRevision
    BY <1>1, PresentItem, CommandAssumption DEF StoreOK
  <2>2. \A rev \in 0..MaxRevision :
          [item[i] EXCEPT !.status = "delivering", !.drev = rev] \in Item
    BY <1>1 DEF Item, ItemStatus
  <2>3. new.status = "delivering" /\ new.session = item[i].session
    BY <1>1 DEF Item
  <2> QED
    BY <2>1, <2>2, <2>3
<1> HIDE DEF new
<1>4. /\ item'[i] = new /\ \A j \in Command \ {i} : item'[j] = item[j]
      /\ item' \in [Command -> Item \cup {NoItem}]
  BY <1>2, <1>3 DEF StoreOK, QueueTypes
<1>5. /\ turn' \in [Command -> Turn] /\ turn'[i].status = "active"
      /\ \A j \in Command \ {i} : turn'[j] = turn[j]
  BY DEF Claim, StoreOK, QueueTypes, Turn, Outcome
<1>6. QueueTypes'
  BY <1>4, <1>5, BumpTypes DEF Claim, StoreOK, QueueTypes
<1>7. OneTurnPerSession'
  <2>1. \A j \in Command \ {i} : Active(j) => item[j].session # item[i].session
    BY DEF Claim, NoActiveTurn
  <2> QED
    BY <1>3, <1>4, <1>5, <2>1 DEF OneTurnPerSession, Active, StoreOK
<1>8. FreshUnused'
  <2>1. ~Fresh(i)
    BY <1>1 DEF StoreOK, FreshUnused, NoItem
  <2> QED
    BY <2>1, <1>4, <1>5 DEF Claim, StoreOK, FreshUnused, Fresh
<1> QED
  BY <1>6, <1>7, <1>8 DEF StoreOK

\* A settlement ends the turn together with its message.
LEMMA SettleKeepsStore ==
  ASSUME StoreOK, NEW i \in Command, NEW outcome \in Outcome,
         NEW status \in {"accepted", "failed"}, Settle(i, outcome, status)
  PROVE  StoreOK'
<1> DEFINE open == {c \in Command : Requested(c) /\ request[c].target = i}
           lost == IF Confirms(outcome) THEN {} ELSE FailedReplacements(open)
<1>1. open \in SUBSET Command /\ lost \in SUBSET Command /\ 1 + Cardinality(lost) \in Nat
  <2>1. open \in SUBSET Command /\ lost \in SUBSET Command
    BY DEF FailedReplacements
  <2> QED
    BY <2>1, CommandsAreFinite
<1>2. item[i].status = "delivering" /\ item[i] \in Item
  BY PresentItem DEF Settle, StoreOK, OneTurnPerSession
<1>3. item'[i] = WithStatus(item[i], status)
  BY DEF Settle, WithStatus
<1>4. \A j \in Command \ {i} :
        \/ item'[j] = item[j]
        \/ /\ item[j] \in Item /\ item[j].status = "queued"
           /\ item'[j] = WithStatus(item[j], "failed")
  BY <1>1, LostItems DEF Settle, StoreOK, WithStatus
<1>5. item' = [j \in Command |-> item'[j]]
  BY DEF Settle
<1>6. status \in ItemStatus \ {"none"} /\ "failed" \in ItemStatus \ {"none"}
  BY DEF ItemStatus
<1>7. item' \in [Command -> Item \cup {NoItem}]
  BY <1>2, <1>3, <1>4, <1>5, <1>6, StatusChange DEF StoreOK, QueueTypes
<1>8. /\ request' \in [Command -> Request]
      /\ \A c \in Command : ~Requested(c) => request'[c] = request[c]
  BY DEF Settle, StoreOK, QueueTypes, Request, FailureCode
<1>9. /\ turn' \in [Command -> Turn] /\ turn'[i].status = "ended"
      /\ \A j \in Command \ {i} : turn'[j] = turn[j]
  BY DEF Settle, StoreOK, QueueTypes, Turn
<1>10. BumpRevision(item[i].session, 1 + Cardinality(lost))
  BY DEF Settle
<1>11. QueueTypes'
  BY <1>1, <1>7, <1>8, <1>9, <1>10, BumpTypes DEF Settle, StoreOK, QueueTypes
<1>12. \A j \in Command \ {i} :
         /\ item'[j].status = "delivering" <=> item[j].status = "delivering"
         /\ item[j].status # "none" => item'[j].session = item[j].session
         /\ Fresh(j) => item'[j] = item[j]
  BY <1>4, <1>6, StatusChange DEF StoreOK, FreshUnused, NoItem
<1>13. item'[i].status # "delivering"
  BY <1>2, <1>3, <1>6, StatusChange
<1>14. OneTurnPerSession'
  BY <1>9, <1>12, <1>13 DEF StoreOK, OneTurnPerSession, Active
<1>15. FreshUnused'
  <2>1. ~Fresh(i)
    BY <1>2 DEF StoreOK, FreshUnused, NoItem
  <2>2. \A j \in Command : Fresh(j) => ~Requested(j)
    BY DEF StoreOK, FreshUnused, NoRequest, Requested
  <2>3. command' = command
    BY DEF Settle
  <2> QED
    BY <1>8, <1>9, <1>12, <2>1, <2>2, <2>3 DEF StoreOK, FreshUnused, Fresh
<1> QED
  BY <1>11, <1>14, <1>15 DEF StoreOK

\* The step case for the store by itself.
LEMMA StoreOKInductive ==
  ASSUME StoreOK, [Next]_vars
  PROVE  StoreOK'
<1>1. CASE ClientCommand
  BY <1>1, EnqueueSendKeepsStore, EnqueueDuplicateKeepsStore, EditKeepsStore, RemoveKeepsStore,
     InterruptKeepsStore, InterruptAndSendQueuedKeepsStore, InterruptAndSendNewKeepsStore,
     RejectKeepsStore, UnchangedKeepsStore DEF ClientCommand, Replay, vars, queueVars
<1>2. CASE TurnStep
  <2>1. PICK i \in Command :
          \/ Claim(i) \/ SettleTerminal(i) \/ SettleInfrastructureFailure(i) \/ RecoverTurn(i)
          \/ \E code \in {"runtime-interrupt-failed", "runtime-interrupt-inconclusive"} :
               FailInterrupt(i, code)
    BY <1>2 DEF TurnStep
  <2>2. {"completed", "aborted", "turn-failed", "recovered"} \subseteq Outcome
    BY DEF Outcome
  <2>3. {"runtime-interrupt-failed", "runtime-interrupt-inconclusive"} \subseteq FailureCode
    BY DEF FailureCode
  <2> QED
    BY <2>1, <2>2, <2>3, ClaimKeepsStore, SettleKeepsStore, FailInterruptKeepsStore
    DEF SettleTerminal, SettleInfrastructureFailure, RecoverTurn
<1>3. CASE SessionStep
  BY <1>3, CancelKeepsStore, UnchangedKeepsStore
  DEF SessionStep, ReplaceSession, CloseSession, ResumeSession, ContinueSession, DeleteProject
<1>4. CASE UNCHANGED vars
  BY <1>4, UnchangedKeepsStore DEF vars
<1> QED
  BY <1>1, <1>2, <1>3, <1>4 DEF Next

\* The store is empty initially.
LEMMA StoreOKInitial == Init => StoreOK
<1> SUFFICES ASSUME Init PROVE StoreOK
  OBVIOUS
<1>1. QueueTypes
  BY DEF Init, QueueTypes, NoTurn, Turn, Outcome, NoRequest, Request, FailureCode
<1>2. OneTurnPerSession
  BY DEF Init, OneTurnPerSession, Active, NoItem, NoTurn
<1>3. FreshUnused
  BY DEF Init, FreshUnused
<1> QED
  BY <1>1, <1>2, <1>3 DEF StoreOK

\* The session half of TypeOK comes from the session rows.
LEMMA SessionHalf == Spec => []SessionOK
  BY StoreImplementsRows, SessionTypes, SessionOKIsTypeOK, PTL

\* Type correctness of the whole store.
THEOREM StoreTypes == Spec => []TypeOK
  BY StoreOKInitial, StoreOKInductive, SessionHalf, SessionOKIsTypeOK, TypesAreQueueTypes, PTL
  DEF Spec, StoreOK

\* At most one turn of a session runs, and exactly its message is delivering,
\* for every number of commands and sessions.
THEOREM TurnsAreSingle == Spec => []OneTurnPerSession
  BY StoreOKInitial, StoreOKInductive, PTL DEF Spec, StoreOK

-----------------------------------------------------------------------------
(***************************************************************************)
(* Messages and sessions together.  Pending messages, waiting or being     *)
(* delivered, all live in the open session; the two halves of Served are   *)
(* TurnKeepsItsSession and NothingStranded.                                *)
(***************************************************************************)
Pending(i) == item[i].status \in {"queued", "delivering"}

Served == \A i \in Command : Pending(i) => SessionOpen(item[i].session)

\* Served says the two properties at once.
LEMMA ServedSplits ==
  ASSUME OneTurnPerSession
  PROVE  Served <=> TurnKeepsItsSession /\ NothingStranded
  BY DEF OneTurnPerSession, Served, Pending, TurnKeepsItsSession, NothingStranded, Queued

\* Leaving a session that runs no turn leaves nothing pending behind: all
\* pending messages are its own, and cancelling its queue covers them.
LEMMA NothingPendingAfter ==
  ASSUME StoreOK, SessionOK, OneActiveSession, Served,
         NEW old \in Session \cup {None}, Expected(old), Idle(old), CancelQueue(old)
  PROVE  \A i \in Command : ~Pending(i)'
<1> SUFFICES ASSUME NEW i \in Command PROVE ~Pending(i)'
  OBVIOUS
<1>1. CASE Pending(i)
  <2>1. item[i] \in Item /\ item[i].session \in Session /\ IsActive(item[i].session)
    BY <1>1, PresentItem DEF Served, Pending, SessionOpen, StoreOK
  <2>2. old # None /\ item[i].session = old
    BY <2>1 DEF Expected, NoneActive, OneActiveSession
  <2>3. item[i].status = "queued"
    BY <1>1, <2>2 DEF Pending, Idle, NoActiveTurn, StoreOK, OneTurnPerSession
  <2>4. item'[i] = WithStatus(item[i], "cancelled")
    BY <2>2, <2>3 DEF CancelQueue, Cancellable, WithStatus
  <2>5. item'[i].status = "cancelled"
    BY <2>1, <2>4, StatusChange DEF ItemStatus
  <2> QED
    BY <2>5 DEF Pending
<1>2. CASE ~Pending(i)
  <2>1. \/ item'[i] = item[i]
        \/ item[i].status = "failed" /\ item'[i] = WithStatus(item[i], "cancelled")
    BY <1>2 DEF CancelQueue, Cancellable, Pending, WithStatus
  <2>2. item[i].status = "failed" => item[i] \in Item
    BY PresentItem DEF StoreOK
  <2>3. item'[i] = item[i] \/ item'[i].status = "cancelled"
    <3>1. "cancelled" \in ItemStatus \ {"none"}
      BY DEF ItemStatus
    <3> QED
      BY <2>1, <2>2, <3>1, StatusChange
  <2> QED
    BY <1>2, <2>3 DEF Pending
<1> QED
  BY <1>1, <1>2

\* A step of a client or of the turn driver that adds nothing to a session.
LEMMA ServedWhenNothingNew ==
  ASSUME Served, UNCHANGED sessVars,
         \A i \in Command : Pending(i)' => Pending(i) /\ item'[i].session = item[i].session
  PROVE  Served'
  BY DEF Served, SessionOpen, IsActive, sessVars

\* A settled or failed message is no longer pending and stays where it was.
LEMMA SettledItems ==
  ASSUME \A j \in Command :
           \/ item'[j] = item[j]
           \/ item[j] \in Item /\ \E st \in {"accepted", "failed"} : item'[j] = WithStatus(item[j], st)
  PROVE  \A i \in Command : Pending(i)' => Pending(i) /\ item'[i].session = item[i].session
<1>1. {"accepted", "failed"} \subseteq ItemStatus \ {"none"}
  BY DEF ItemStatus
<1> QED
  BY <1>1, StatusChange DEF Pending

\* A message inserted into an open session.
LEMMA ServedWhenInserted ==
  ASSUME Served, StoreOK, UNCHANGED sessVars, NEW c \in Command, NEW new,
         SessionOpen(new.session), item' = [item EXCEPT ![c] = new]
  PROVE  Served'
  BY DEF Served, StoreOK, QueueTypes, SessionOpen, IsActive, Pending, sessVars

\* Commands insert messages into open sessions only.
LEMMA ServedByCommands ==
  ASSUME StoreOK, Served, ClientCommand
  PROVE  Served'
<1>1. CASE \E c \in Command, in \in SendInput : EnqueueSend(c, in)
  <2>1. PICK c \in Command, in \in SendInput : EnqueueSend(c, in)
    BY <1>1
  <2> DEFINE new == QueuedItem(in.session, in.client, in.text, in.origin, None)
  <2>2. SessionOpen(new.session)
    BY <2>1 DEF EnqueueSend, SendAdmissible, QueuedItem
  <2> QED
    BY <2>1, <2>2, ServedWhenInserted DEF EnqueueSend
<1>2. CASE \E c \in Command, in \in InterruptInput : InterruptAndSendNew(c, in)
  <2>1. PICK c \in Command, in \in InterruptInput : InterruptAndSendNew(c, in)
    BY <1>2
  <2> DEFINE new == QueuedItem(in.session, in.replacement.client, in.replacement.text, "user", c)
  <2>2. Active(in.target) /\ in.target \in Command /\ item[in.target].session = in.session
    BY <2>1 DEF InterruptAndSendNew, InterruptAdmissible, InterruptInput
  <2>3. SessionOpen(new.session)
    BY <2>2 DEF Served, Pending, StoreOK, OneTurnPerSession, QueuedItem
  <2> QED
    BY <2>1, <2>3, ServedWhenInserted DEF InterruptAndSendNew
<1>3. CASE \E c \in Command, in \in EditInput : Edit(c, in)
  <2>1. PICK c \in Command, in \in EditInput : Edit(c, in)
    BY <1>3
  <2>2. \A i \in Command : item'[i].status = item[i].status /\ item'[i].session = item[i].session
    <3>1. in.item \in Command /\ item[in.item] \in Item
      BY <2>1, PresentItem DEF Edit, EditAdmissible, Mutable, EditInput, StoreOK
    <3> QED
      BY <2>1, <3>1 DEF Edit, StoreOK, QueueTypes, Item
  <2> QED
    BY <2>1, <2>2, ServedWhenNothingNew DEF Edit, Pending
<1>4. CASE \E c \in Command, in \in RemoveInput : Remove(c, in)
  <2>1. PICK c \in Command, in \in RemoveInput : Remove(c, in)
    BY <1>4
  <2>2. in.item \in Command /\ item[in.item] \in Item
    BY <2>1, PresentItem DEF Remove, RemoveAdmissible, Mutable, RemoveInput, StoreOK
  <2>3. item'[in.item].status = "cancelled" /\ \A i \in Command \ {in.item} : item'[i] = item[i]
    BY <2>1, <2>2 DEF Remove, StoreOK, QueueTypes, Item
  <2> QED
    BY <2>1, <2>3, ServedWhenNothingNew DEF Remove, Pending
<1>5. CASE \E c \in Command, in \in InterruptInput : InterruptAndSendQueued(c, in)
  <2>1. PICK c \in Command, in \in InterruptInput : InterruptAndSendQueued(c, in)
    BY <1>5
  <2> DEFINE i == in.replacement.item
  <2>2. i \in Command /\ item[i] \in Item
    BY <2>1, PresentItem DEF InterruptAndSendQueued, InterruptAdmissible, ReplacementAdmissible,
       IsFifoHead, Queued, InterruptInput, Replacement, StoreOK
  <2>3. item' = [item EXCEPT ![i].link = c]
    BY <2>1 DEF InterruptAndSendQueued
  <2>4. \A j \in Command : item'[j].status = item[j].status /\ item'[j].session = item[j].session
    BY <2>2, <2>3 DEF StoreOK, QueueTypes, Item
  <2> QED
    BY <2>1, <2>4, ServedWhenNothingNew DEF InterruptAndSendQueued, Pending
<1>6. CASE UNCHANGED <<sessVars, item>>
  BY <1>6, ServedWhenNothingNew DEF Pending
<1> QED
  BY <1>1, <1>2, <1>3, <1>4, <1>5, <1>6
  DEF ClientCommand, EnqueueDuplicate, Interrupt, Reject, Replay, vars, queueVars

\* Claims and settlements never bring a message back to waiting.
LEMMA ServedByTurns ==
  ASSUME StoreOK, Served, TurnStep
  PROVE  Served'
<1>1. PICK i \in Command :
        \/ Claim(i) \/ SettleTerminal(i) \/ SettleInfrastructureFailure(i) \/ RecoverTurn(i)
        \/ \E code \in {"runtime-interrupt-failed", "runtime-interrupt-inconclusive"} :
             FailInterrupt(i, code)
  BY DEF TurnStep
<1>2. CASE Claim(i)
  <2>1. item[i] \in Item /\ Pending(i)
    BY <1>2, PresentItem DEF Claim, IsFifoHead, Queued, StoreOK, Pending
  <2>2. \A j \in Command : /\ item'[j].session = item[j].session
                           /\ j # i => item'[j] = item[j]
    BY <1>2, <2>1 DEF Claim, StoreOK, QueueTypes, Item
  <2> QED
    BY <1>2, <2>1, <2>2, ServedWhenNothingNew DEF Claim, Pending
<1>3. CASE SettleTerminal(i) \/ SettleInfrastructureFailure(i) \/ RecoverTurn(i)
  <2>1. PICK outcome \in Outcome, status \in {"accepted", "failed"} : Settle(i, outcome, status)
    BY <1>3 DEF SettleTerminal, SettleInfrastructureFailure, RecoverTurn, Outcome
  <2>2. item[i] \in Item
    BY <2>1, PresentItem DEF Settle, StoreOK, OneTurnPerSession
  <2>3. \A j \in Command :
          \/ item'[j] = item[j]
          \/ item[j] \in Item /\ \E st \in {"accepted", "failed"} : item'[j] = WithStatus(item[j], st)
    BY <2>1, <2>2, PresentItem DEF Settle, StoreOK, WithStatus, FailedReplacements, Queued
  <2> QED
    BY <2>1, <2>3, SettledItems, ServedWhenNothingNew DEF Settle
<1>4. CASE \E code \in {"runtime-interrupt-failed", "runtime-interrupt-inconclusive"} :
             FailInterrupt(i, code)
  <2>1. \A j \in Command :
          \/ item'[j] = item[j]
          \/ item[j] \in Item /\ \E st \in {"accepted", "failed"} : item'[j] = WithStatus(item[j], st)
    BY <1>4, PresentItem DEF FailInterrupt, StoreOK, WithStatus, FailedReplacements, Queued
  <2> QED
    BY <1>4, <2>1, SettledItems, ServedWhenNothingNew DEF FailInterrupt
<1> QED
  BY <1>1, <1>2, <1>3, <1>4

\* Deleting the project or moving to another session leaves nothing pending;
\* a continuation step leaves the open session open.
LEMMA ServedBySessions ==
  ASSUME StoreOK, SessionOK, OneActiveSession, Served, SessionStep
  PROVE  Served'
<1>1. CASE \E old \in Session \cup {None} : Expected(old) /\ Idle(old) /\ CancelQueue(old)
  BY <1>1, NothingPendingAfter DEF Served, Pending
<1>2. CASE Continuation /\ UNCHANGED queueVars
  <2>1. live' = live /\ \A s \in Session : IsActive(s) => IsActive(s)'
    BY <1>2, ContinuationKeepsStatus DEF IsActive
  <2>2. \A i \in Command : Pending(i) => item[i].session \in Session
    BY PresentItem DEF Pending, StoreOK
  <2> QED
    BY <1>2, <2>1, <2>2 DEF Served, SessionOpen, Pending, queueVars
<1>3. CASE DeleteProject
  BY <1>1, <1>3 DEF DeleteProject, Idle, NoActiveTurn
<1> QED
  BY <1>1, <1>2, <1>3, SessionAssumption
  DEF SessionStep, ReplaceSession, CloseSession, ResumeSession, ContinueSession,
      ReplaceRow, CloseRow, ReactivateRow, ContinueRow, Expected

\* The step case, operation by operation.
LEMMA ServedInductive ==
  ASSUME StoreOK, SessionOK, OneActiveSession, Served, [Next]_vars
  PROVE  Served'
<1>1. CASE UNCHANGED vars
  BY <1>1, ServedWhenNothingNew DEF Pending, vars, queueVars
<1> QED
  BY <1>1, ServedByCommands, ServedByTurns, ServedBySessions DEF Next

\* Served holds of every reachable store; the rows it speaks about keep their
\* one active session by the theorem of the refined specification.
LEMMA AlwaysServed == Spec => []Served
<1>1. Init => Served
  <2>1. NoItem.status = "none"
    BY DEF NoItem
  <2> QED
    BY <2>1 DEF Init, Served, Pending
<1> QED
  BY <1>1, StoreOKInitial, StoreOKInductive, SessionHalf, StoreImplementsRows,
     ActiveSessionIsUnique, ServedInductive, PTL DEF Spec

\* The two properties, read off Served.
LEMMA ServedImplies ==
  ASSUME StoreOK, Served PROVE TurnKeepsItsSession /\ NothingStranded
  BY ServedSplits DEF StoreOK

\* No session is left, closed, handed off or deleted under a running turn.
THEOREM TurnsKeepTheirSession == Spec => []TurnKeepsItsSession
  BY StoreOKInitial, StoreOKInductive, AlwaysServed, ServedImplies, PTL DEF Spec

\* No message is left waiting in a session that is not open.
THEOREM NothingIsStranded == Spec => []NothingStranded
  BY StoreOKInitial, StoreOKInductive, AlwaysServed, ServedImplies, PTL DEF Spec

-----------------------------------------------------------------------------
(***************************************************************************)
(* Interrupt requests.  A message still queued never had a turn, so a claim *)
(* never revives the target of an old request; and while a turn is active, *)
(* every request for it is open or was failed by its driver.               *)
(***************************************************************************)
\* Only a fresh command id becomes queued, and no step that leaves a message
\* queued touches its turn.
LEMMA QueuedStays ==
  ASSUME StoreOK, [Next]_vars
  PROVE  \A i \in Command : Queued(i)' => (Queued(i) \/ Fresh(i)) /\ turn'[i] = turn[i]
<1> SUFFICES ASSUME NEW i \in Command, Queued(i)'
             PROVE  (Queued(i) \/ Fresh(i)) /\ turn'[i] = turn[i]
  OBVIOUS
<1>1. CASE ClientCommand
  <2>1. turn' = turn
    BY <1>1 DEF ClientCommand, EnqueueSend, EnqueueDuplicate, Edit, Remove, Interrupt,
       InterruptAndSendQueued, InterruptAndSendNew, Reject, Replay, vars, queueVars
  <2>2. CASE \E c \in Command : Fresh(c) /\ \A j \in Command \ {c} : item'[j] = item[j]
    BY <2>1, <2>2 DEF Queued
  <2>3. CASE \E c \in Command, in \in EditInput : Edit(c, in)
    <3>1. PICK c \in Command, in \in EditInput : Edit(c, in)
      BY <2>3
    <3>2. item[in.item].status = "queued" /\ in.item \in Command
      BY <3>1 DEF Edit, EditAdmissible, Mutable, EditInput
    <3> QED
      BY <2>1, <3>1, <3>2 DEF Edit, Queued, StoreOK, QueueTypes
  <2>4. CASE \E c \in Command, in \in RemoveInput : Remove(c, in)
    <3>1. PICK c \in Command, in \in RemoveInput : Remove(c, in)
      BY <2>4
    <3>2. in.item \in Command /\ item[in.item] \in Item
      BY <3>1, PresentItem DEF Remove, RemoveAdmissible, Mutable, RemoveInput, StoreOK
    <3>3. item'[in.item].status = "cancelled" /\ \A j \in Command \ {in.item} : item'[j] = item[j]
      BY <3>1, <3>2 DEF Remove, StoreOK, QueueTypes, Item
    <3> QED
      BY <2>1, <3>3 DEF Queued
  <2>5. CASE \E c \in Command, in \in InterruptInput : InterruptAndSendQueued(c, in)
    <3>1. PICK c \in Command, in \in InterruptInput : InterruptAndSendQueued(c, in)
      BY <2>5
    <3>2. Queued(in.replacement.item)
      BY <3>1 DEF InterruptAndSendQueued, InterruptAdmissible, ReplacementAdmissible, IsFifoHead
    <3> QED
      BY <2>1, <3>1, <3>2 DEF InterruptAndSendQueued, Queued, StoreOK, QueueTypes
  <2>6. CASE item' = item
    BY <2>1, <2>6 DEF Queued
  <2>7. ASSUME NEW c \in Command, NEW in \in SendInput, EnqueueSend(c, in)
        PROVE  Fresh(c) /\ \A j \in Command \ {c} : item'[j] = item[j]
    BY <2>7 DEF EnqueueSend, StoreOK, QueueTypes
  <2>8. ASSUME NEW c \in Command, NEW in \in InterruptInput, InterruptAndSendNew(c, in)
        PROVE  Fresh(c) /\ \A j \in Command \ {c} : item'[j] = item[j]
    BY <2>8 DEF InterruptAndSendNew, StoreOK, QueueTypes
  <2>9. ASSUME NEW c \in Command
        PROVE  /\ \A in \in SendInput : EnqueueDuplicate(c, in) => item' = item
               /\ \A in \in InterruptInput : Interrupt(c, in) => item' = item
               /\ Reject(c) => item' = item
               /\ Replay(c) => item' = item
    BY DEF EnqueueDuplicate, Interrupt, Reject, Replay, vars, queueVars
  <2> QED
    BY <1>1, <2>2, <2>3, <2>4, <2>5, <2>6, <2>7, <2>8, <2>9 DEF ClientCommand
<1>2. CASE \E j \in Command : Claim(j)
  <2>1. PICK j \in Command : Claim(j)
    BY <1>2
  <2>2. item[j] \in Item
    BY <2>1, PresentItem DEF Claim, IsFifoHead, Queued, StoreOK
  <2>3. item'[j].status = "delivering" /\ \A k \in Command \ {j} : item'[k] = item[k]
    BY <2>1, <2>2 DEF Claim, StoreOK, QueueTypes, Item
  <2> QED
    BY <2>1, <2>3 DEF Claim, Queued, StoreOK, QueueTypes
<1>3. CASE \E j \in Command, outcome \in Outcome, status \in {"accepted", "failed"} :
             Settle(j, outcome, status)
  <2>1. PICK j \in Command, outcome \in Outcome, status \in {"accepted", "failed"} :
          Settle(j, outcome, status)
    BY <1>3
  <2>2. item[j] \in Item
    BY <2>1, PresentItem DEF Settle, StoreOK, OneTurnPerSession
  <2>3. item'[j].status = status
    BY <2>1, <2>2 DEF Settle, Item
  <2>4. i # j
    BY <2>3 DEF Queued
  <2>5. Queued(i)
    BY <2>1, <2>4 DEF Settle, FailedReplacements, Queued
  <2> QED
    BY <2>1, <2>4, <2>5 DEF Settle, StoreOK, QueueTypes
<1>4. CASE \E c \in Command, code \in FailureCode : FailInterrupt(c, code)
  BY <1>4 DEF FailInterrupt, FailedReplacements, Queued
<1>5. CASE SessionStep
  <2>1. ASSUME NEW old \in Session \cup {None}, CancelQueue(old)
        PROVE  Queued(i) /\ turn'[i] = turn[i]
    <3>1. turn' = turn
      BY <2>1 DEF CancelQueue
    <3>2. CASE old # None /\ i \in Cancellable(old)
      <4>1. item[i] \in Item
        BY <3>2, PresentItem DEF Cancellable, StoreOK
      <4>2. item'[i].status = "cancelled"
        BY <2>1, <3>2, <4>1 DEF CancelQueue, Item
      <4> QED
        BY <4>2 DEF Queued
    <3>3. CASE ~(old # None /\ i \in Cancellable(old))
      BY <2>1, <3>3 DEF CancelQueue, Queued
    <3> QED
      BY <3>1, <3>2, <3>3
  <2>2. CASE UNCHANGED queueVars
    BY <2>2 DEF queueVars, Queued
  <2> QED
    BY <1>5, <2>1, <2>2
    DEF SessionStep, ReplaceSession, CloseSession, ResumeSession, ContinueSession, DeleteProject
<1>6. CASE UNCHANGED vars
  BY <1>6 DEF vars, queueVars, Queued
<1>7. CASE TurnStep
  <2>1. {"completed", "aborted", "turn-failed", "recovered"} \subseteq Outcome
    BY DEF Outcome
  <2>2. {"runtime-interrupt-failed", "runtime-interrupt-inconclusive"} \subseteq FailureCode
    BY DEF FailureCode
  <2> QED
    BY <1>2, <1>3, <1>4, <1>7, <2>1, <2>2
    DEF TurnStep, SettleTerminal, SettleInfrastructureFailure, RecoverTurn
<1> QED
  BY <1>1, <1>5, <1>6, <1>7 DEF Next

Unclaimed == \A i \in Command : Queued(i) => turn[i].status = "none"

\* A message still queued has no turn.
LEMMA UnclaimedInductive ==
  ASSUME StoreOK, Unclaimed, [Next]_vars PROVE Unclaimed'
  BY QueuedStays DEF Unclaimed, StoreOK, FreshUnused, NoTurn

\* The codes a driver fails a request with, while its turn goes on.
DriverCode == {"runtime-interrupt-failed", "runtime-interrupt-inconclusive"}

RequestOK(c) ==
  IF request[c].status = "none" THEN request[c] = NoRequest
  ELSE /\ request[c].target \in Command
       /\ turn[request[c].target].status # "none"
       /\ Requested(c) => Active(request[c].target) /\ request[c].code = "none"
       /\ Active(request[c].target) => Requested(c) \/ request[c].code \in DriverCode

RequestsOK == \A c \in Command : RequestOK(c)

RequestsSingle ==
  \A c, d \in Command :
    Requested(c) /\ c # d /\ request[d].target = request[c].target
      => request[d].code = "runtime-interrupt-failed"

\* A step that touches neither requests nor turns.
LEMMA UntouchedRequests ==
  ASSUME RequestsOK, RequestsSingle, UNCHANGED <<turn, request>>
  PROVE  RequestsOK' /\ RequestsSingle'
  BY DEF RequestsOK, RequestOK, RequestsSingle, Requested, Active

\* A new request finds its turn active and no other request in its way.
LEMMA OpenedRequests ==
  ASSUME StoreOK, RequestsOK, RequestsSingle, NEW c \in Command, NEW in \in InterruptInput,
         NEW replacement, Fresh(c), InterruptAdmissible(in),
         OpenRequest(c, in.target, replacement), turn' = turn
  PROVE  RequestsOK' /\ RequestsSingle'
<1>1. request[c] = NoRequest
  BY DEF StoreOK, FreshUnused
<1>2. in.target \in Command /\ Active(in.target) /\ ~InterruptBlocked(in.target)
  BY DEF InterruptInput, InterruptAdmissible
<1>3. /\ request'[c] = [status |-> "requested", target |-> in.target,
                        replacement |-> replacement, code |-> "none"]
      /\ \A d \in Command \ {c} : request'[d] = request[d]
  BY DEF OpenRequest, StoreOK, QueueTypes
<1>4. RequestsOK'
  BY <1>2, <1>3 DEF RequestsOK, RequestOK, Requested, Active
<1>5. \A d \in Command \ {c} : request[d].target = in.target
                                => ~Requested(d) /\ request[d].code = "runtime-interrupt-failed"
  <2> SUFFICES ASSUME NEW d \in Command \ {c}, request[d].target = in.target
               PROVE  ~Requested(d) /\ request[d].code = "runtime-interrupt-failed"
    OBVIOUS
  <2>1. ~Requested(d) /\ request[d].code # "runtime-interrupt-inconclusive"
    BY <1>2 DEF InterruptBlocked
  <2>2. request[d].status # "none"
    BY <1>2, CommandAssumption DEF StoreOK, QueueTypes, RequestsOK, RequestOK, NoRequest
  <2> QED
    BY <1>2, <2>1, <2>2 DEF RequestsOK, RequestOK, DriverCode
<1>6. RequestsSingle'
  BY <1>3, <1>5 DEF RequestsSingle, Requested
<1> QED
  BY <1>4, <1>6

\* The step case: only commands open requests, and their driver or the end of
\* their turn settles them.
LEMMA RequestsInductive ==
  ASSUME StoreOK, Unclaimed, RequestsOK, RequestsSingle, [Next]_vars
  PROVE  RequestsOK' /\ RequestsSingle'
<1>1. CASE ClientCommand
  <2>1. ASSUME NEW c \in Command, NEW in \in InterruptInput,
               Interrupt(c, in) \/ InterruptAndSendQueued(c, in) \/ InterruptAndSendNew(c, in)
        PROVE  RequestsOK' /\ RequestsSingle'
    <3>1. PICK replacement : OpenRequest(c, in.target, replacement)
      BY <2>1 DEF Interrupt, InterruptAndSendQueued, InterruptAndSendNew
    <3>2. Fresh(c) /\ InterruptAdmissible(in) /\ turn' = turn
      BY <2>1 DEF Interrupt, InterruptAndSendQueued, InterruptAndSendNew
    <3> QED
      BY <3>1, <3>2, OpenedRequests
  <2>2. CASE UNCHANGED <<turn, request>>
    BY <2>2, UntouchedRequests
  <2> QED
    BY <1>1, <2>1, <2>2 DEF ClientCommand, EnqueueSend, EnqueueDuplicate, Edit, Remove, Reject,
       Replay, vars, queueVars
<1>2. CASE \E i \in Command : Claim(i)
  <2>1. PICK i \in Command : Claim(i)
    BY <1>2
  <2>2. /\ request' = request
        /\ turn[i].status = "none"
        /\ \A j \in Command : j # i => turn'[j] = turn[j]
        /\ turn'[i].status = "active"
    BY <2>1 DEF Claim, IsFifoHead, Unclaimed, StoreOK, QueueTypes
  <2> QED
    BY <2>2 DEF RequestsOK, RequestOK, RequestsSingle, Requested, Active
<1>3. CASE \E i \in Command, outcome \in Outcome, status \in {"accepted", "failed"} :
             Settle(i, outcome, status)
  <2>1. PICK i \in Command, outcome \in Outcome, status \in {"accepted", "failed"} :
          Settle(i, outcome, status)
    BY <1>3
  <2> DEFINE open == {c \in Command : Requested(c) /\ request[c].target = i}
  <2>2. /\ Active(i) /\ ~Active(i)'
        /\ \A j \in Command \ {i} : turn'[j] = turn[j]
        /\ turn'[i].status # "none"
    BY <2>1 DEF Settle, Active, StoreOK, QueueTypes
  <2>3. \A c \in Command :
          /\ c \notin open => request'[c] = request[c]
          /\ c \in open => /\ request'[c].status \in {"confirmed", "failed"}
                           /\ request'[c].target = i
    BY <2>1 DEF Settle, StoreOK, QueueTypes, Request
  <2>4. ASSUME NEW c \in Command PROVE RequestOK(c)'
    <3>1. CASE c \in open
      BY <2>2, <2>3, <3>1 DEF RequestOK, Requested
    <3>2. CASE c \notin open
      BY <2>2, <2>3, <3>2 DEF RequestsOK, RequestOK, Requested, Active
    <3> QED
      BY <3>1, <3>2
  <2>5. RequestsSingle'
    <3> SUFFICES ASSUME NEW c \in Command, NEW d \in Command, Requested(c)', c # d,
                        request'[d].target = request'[c].target
                 PROVE  request'[d].code = "runtime-interrupt-failed"
      BY DEF RequestsSingle
    <3>1. c \notin open /\ request'[c] = request[c] /\ Requested(c) /\ request[c].target # i
      BY <2>3 DEF Requested
    <3>2. d \notin open /\ request'[d] = request[d]
      BY <2>3, <3>1
    <3> QED
      BY <3>1, <3>2 DEF RequestsSingle
  <2> QED
    BY <2>4, <2>5 DEF RequestsOK
<1>4. CASE \E c \in Command, code \in DriverCode : FailInterrupt(c, code)
  <2>1. PICK c \in Command, code \in DriverCode : FailInterrupt(c, code)
    BY <1>4
  <2>2. /\ Requested(c) /\ turn' = turn
        /\ request'[c].status = "failed" /\ request'[c].target = request[c].target
        /\ request'[c].code = code
        /\ \A d \in Command \ {c} : request'[d] = request[d]
    BY <2>1 DEF FailInterrupt, StoreOK, QueueTypes, Request
  <2>3. RequestsOK'
    BY <2>2 DEF RequestsOK, RequestOK, Requested, Active
  <2>4. RequestsSingle'
    <3> SUFFICES ASSUME NEW a \in Command, NEW b \in Command, Requested(a)', a # b,
                        request'[b].target = request'[a].target
                 PROVE  request'[b].code = "runtime-interrupt-failed"
      BY DEF RequestsSingle
    <3>1. a # c /\ Requested(a) /\ request'[a] = request[a]
      BY <2>2 DEF Requested
    <3>2. b # c
      <4>1. SUFFICES ASSUME b = c PROVE FALSE
        OBVIOUS
      <4>2. request[a].code = "runtime-interrupt-failed"
        BY <2>2, <3>1, <4>1 DEF RequestsSingle
      <4> QED
        BY <3>1, <4>2 DEF RequestsOK, RequestOK, Requested
    <3> QED
      BY <2>2, <3>1, <3>2 DEF RequestsSingle
  <2> QED
    BY <2>3, <2>4
<1>5. CASE TurnStep
  <2>1. {"completed", "aborted", "turn-failed", "recovered"} \subseteq Outcome
    BY DEF Outcome
  <2> QED
    BY <1>2, <1>3, <1>4, <1>5, <2>1
    DEF TurnStep, SettleTerminal, SettleInfrastructureFailure, RecoverTurn, DriverCode
<1>6. CASE SessionStep \/ UNCHANGED vars
  <2>1. UNCHANGED <<turn, request>>
    BY <1>6 DEF SessionStep, ReplaceSession, CloseSession, ResumeSession, ContinueSession,
       DeleteProject, CancelQueue, queueVars, vars
  <2> QED
    BY <2>1, UntouchedRequests
<1> QED
  BY <1>1, <1>5, <1>6 DEF Next

\* No request exists initially.
LEMMA RequestsInitial == Init => Unclaimed /\ RequestsOK /\ RequestsSingle
<1> SUFFICES ASSUME Init PROVE Unclaimed /\ RequestsOK /\ RequestsSingle
  OBVIOUS
<1>1. \A c \in Command : item[c].status = "none" /\ request[c].status = "none"
  BY DEF Init, NoItem, NoRequest
<1> QED
  BY <1>1 DEF Init, Unclaimed, Queued, RequestsOK, RequestOK, RequestsSingle, Requested

\* The invariants of the requests hold of every reachable store.
LEMMA RequestsAlways == Spec => [](StoreOK /\ Unclaimed /\ RequestsOK /\ RequestsSingle)
  BY StoreOKInitial, StoreOKInductive, UnclaimedInductive, RequestsInitial, RequestsInductive, PTL
  DEF Spec

\* One open interrupt per running turn, for every number of commands and
\* interrupts: never a second one beside an open or inconclusive one.
THEOREM InterruptsStaySingle == Spec => []InterruptsAreSingle
<1>1. RequestsOK /\ RequestsSingle => InterruptsAreSingle
  BY DEF RequestsOK, RequestOK, RequestsSingle, InterruptsAreSingle, Requested
<1> QED
  BY <1>1, RequestsAlways, PTL

-----------------------------------------------------------------------------
(***************************************************************************)
(* The order of a queue, the identity of its messages and their revisions. *)
(* A step either inserts one message at the next position of its session   *)
(* or keeps what identifies every message; only a claim delivers.          *)
(***************************************************************************)
\* What a step may do to a message that is there.
Kept(i) ==
  /\ item'[i].status = "none" <=> item[i].status = "none"
  /\ item'[i].session = item[i].session /\ item'[i].client = item[i].client
  /\ item'[i].pos = item[i].pos
  /\ item'[i].rev \in Nat /\ item'[i].rev >= item[i].rev
  /\ Queued(i)' => Queued(i)

Undelivered(i) == item'[i].drev = item[i].drev

KeepsPositions == \A s \in Session : head'[s].next = head[s].next

\* The step inserts message c of that session and client.
Inserted(c, s, client) ==
  /\ Fresh(c) /\ SameMessage(s, client) = {}
  /\ item'[c].status = "queued" /\ item'[c].drev = 0
  /\ item'[c].session = s /\ item'[c].client = client /\ item'[c].pos = head[s].next
  /\ item'[c].rev \in Nat
  /\ \A d \in Command \ {c} : item'[d] = item[d]
  /\ head'[s].next = head[s].next + 1
  /\ \A t \in Session \ {s} : head'[t] = head[t]

\* Every revision is a number, 0 for a message that is not there.
LEMMA RevisionType ==
  ASSUME QueueTypes, NEW i \in Command
  PROVE  item[i].rev \in Nat
<1>1. CASE item[i] = NoItem
  BY <1>1 DEF NoItem
<1>2. CASE item[i] \in Item
  BY <1>2, CommandAssumption DEF Item
<1> QED
  BY <1>1, <1>2 DEF QueueTypes

\* A message that is left alone is kept.
LEMMA SameIsKept ==
  ASSUME QueueTypes, NEW i \in Command, item'[i] = item[i]
  PROVE  Kept(i) /\ Undelivered(i)
  BY RevisionType DEF Kept, Undelivered, Queued

\* So is one whose status is all that changes.
LEMMA StatusIsKept ==
  ASSUME QueueTypes, NEW i \in Command, item[i] \in Item,
         NEW status \in ItemStatus \ {"none", "queued"}, item'[i] = WithStatus(item[i], status)
  PROVE  Kept(i) /\ Undelivered(i)
<1>1. WithStatus(item[i], status).client = item[i].client
  BY DEF Item, WithStatus
<1>2. item[i].status # "none"
  BY DEF Item
<1> QED
  BY <1>1, <1>2, StatusChange, RevisionType DEF Kept, Undelivered, Queued

\* Bumping a queue revision allocates no position.
LEMMA BumpKeepsPositions ==
  ASSUME QueueTypes, NEW s, NEW n, BumpRevision(s, n)
  PROVE  KeepsPositions
<1> SUFFICES ASSUME NEW t \in Session PROVE head'[t].next = head[t].next
  BY DEF KeepsPositions
<1>1. head[t] \in [next : Nat \ {0}, rev : Nat]
  BY DEF QueueTypes
<1> QED
  BY <1>1 DEF QueueTypes, BumpRevision

\* An insertion takes the next position of its session.
LEMMA InsertIsInserted ==
  ASSUME StoreOK, NEW c \in Command, Fresh(c), NEW s \in Session, NEW client, NEW text,
         NEW origin, NEW link, SameMessage(s, client) = {}, AllocatePosition(s),
         item' = [item EXCEPT ![c] = QueuedItem(s, client, text, origin, link)]
  PROVE  Inserted(c, s, client)
<1>1. head[s] \in [next : Nat \ {0}, rev : Nat]
  BY DEF StoreOK, QueueTypes
<1>2. head'[s].next = head[s].next + 1 /\ \A t \in Session \ {s} : head'[t] = head[t]
  BY <1>1 DEF AllocatePosition, StoreOK, QueueTypes
<1>3. item'[c] = QueuedItem(s, client, text, origin, link)
  BY DEF StoreOK, QueueTypes
<1>4. \A d \in Command \ {c} : item'[d] = item[d]
  BY DEF StoreOK, QueueTypes
<1> QED
  BY <1>2, <1>3, <1>4 DEF Inserted, QueuedItem

\* What a command does to the messages.
LEMMA CommandEvolves ==
  ASSUME StoreOK, ClientCommand
  PROVE  \/ KeepsPositions /\ \A i \in Command : Kept(i) /\ Undelivered(i)
         \/ \E c \in Command, s \in Session, client \in Client : Inserted(c, s, client)
<1> DEFINE Goal == \/ KeepsPositions /\ \A i \in Command : Kept(i) /\ Undelivered(i)
                   \/ \E c \in Command, s \in Session, client \in Client : Inserted(c, s, client)
<1>1. ASSUME NEW c \in Command, NEW in \in SendInput, EnqueueSend(c, in)
      PROVE  Goal
  <2>1. in.session \in Session /\ in.client \in Client
    BY DEF SendInput
  <2>2. Inserted(c, in.session, in.client)
    BY <1>1, <2>1, InsertIsInserted DEF EnqueueSend
  <2> QED
    BY <2>1, <2>2
<1>2. ASSUME NEW c \in Command, NEW in \in InterruptInput, InterruptAndSendNew(c, in)
      PROVE  Goal
  <2>1. /\ in.session \in Session /\ in.replacement.client \in Client
        /\ SameMessage(in.session, in.replacement.client) = {}
    BY <1>2 DEF InterruptInput, Replacement, InterruptAndSendNew, InterruptAdmissible,
       ReplacementAdmissible
  <2>2. Inserted(c, in.session, in.replacement.client)
    BY <1>2, <2>1, InsertIsInserted DEF InterruptAndSendNew
  <2> QED
    BY <2>1, <2>2
<1>3. ASSUME NEW c \in Command, NEW in \in EditInput, Edit(c, in)
      PROVE  Goal
  <2>1. in.item \in Command /\ in.expected \in Nat
    BY CommandAssumption DEF EditInput
  <2>2. item[in.item] \in Item /\ item[in.item].status = "queued" /\ item[in.item].rev = in.expected
    BY <1>3, <2>1, PresentItem DEF Edit, EditAdmissible, Mutable, StoreOK
  <2>3. item' = [item EXCEPT ![in.item].rev = in.expected + 1] /\ BumpRevision(in.session, 1)
    BY <1>3 DEF Edit
  <2>4. \A i \in Command \ {in.item} : item'[i] = item[i]
    BY <2>3 DEF StoreOK, QueueTypes
  <2>5. Kept(in.item) /\ Undelivered(in.item)
    BY <2>1, <2>2, <2>3 DEF StoreOK, QueueTypes, Item, Kept, Undelivered, Queued
  <2>6. KeepsPositions
    BY <2>3, BumpKeepsPositions DEF StoreOK
  <2> QED
    BY <2>4, <2>5, <2>6, SameIsKept DEF StoreOK
<1>4. ASSUME NEW c \in Command, NEW in \in RemoveInput, Remove(c, in)
      PROVE  Goal
  <2>1. in.item \in Command
    BY DEF RemoveInput
  <2>2. item[in.item] \in Item
    BY <1>4, <2>1, PresentItem DEF Remove, RemoveAdmissible, Mutable, StoreOK
  <2>3. /\ item'[in.item] = WithStatus(item[in.item], "cancelled")
        /\ \A i \in Command \ {in.item} : item'[i] = item[i]
    BY <1>4, <2>1 DEF Remove, StoreOK, QueueTypes, WithStatus
  <2>4. Kept(in.item) /\ Undelivered(in.item)
    BY <2>1, <2>2, <2>3, StatusIsKept DEF StoreOK, ItemStatus
  <2>5. KeepsPositions
    BY <1>4, BumpKeepsPositions DEF Remove, StoreOK
  <2> QED
    BY <2>3, <2>4, <2>5, SameIsKept DEF StoreOK
<1>5. ASSUME NEW c \in Command, NEW in \in InterruptInput, InterruptAndSendQueued(c, in)
      PROVE  Goal
  <2> DEFINE i == in.replacement.item
  <2>1. i \in Command /\ item[i] \in Item
    BY <1>5, PresentItem DEF InterruptAndSendQueued, InterruptAdmissible, ReplacementAdmissible,
       IsFifoHead, Queued, InterruptInput, Replacement, StoreOK
  <2>2. item' = [item EXCEPT ![i].link = c] /\ BumpRevision(in.session, 1)
    BY <1>5 DEF InterruptAndSendQueued
  <2>3. item[i].rev \in Nat
    BY <2>1, RevisionType DEF StoreOK
  <2>4. /\ item'[i].status = item[i].status /\ item'[i].session = item[i].session
        /\ item'[i].client = item[i].client /\ item'[i].pos = item[i].pos
        /\ item'[i].rev = item[i].rev /\ item'[i].drev = item[i].drev
    BY <2>1, <2>2 DEF StoreOK, QueueTypes, Item
  <2>5. Kept(i) /\ Undelivered(i)
    BY <2>3, <2>4 DEF Kept, Undelivered, Queued
  <2>6. \A j \in Command \ {i} : item'[j] = item[j]
    BY <2>2 DEF StoreOK, QueueTypes
  <2>7. KeepsPositions
    BY <2>2, BumpKeepsPositions DEF StoreOK
  <2> QED
    BY <2>5, <2>6, <2>7, SameIsKept DEF StoreOK
<1>6. CASE UNCHANGED <<item, head>>
  BY <1>6, SameIsKept DEF StoreOK, KeepsPositions
<1> QED
  BY <1>1, <1>2, <1>3, <1>4, <1>5, <1>6
  DEF ClientCommand, EnqueueDuplicate, Interrupt, Reject, Replay, vars, queueVars

\* What a turn of the queue does to the messages: a claim delivers the head,
\* and everything else only ends messages.
Delivered(i) ==
  /\ IsFifoHead(i) /\ ~Queued(i)'
  /\ KeepsPositions
  /\ \A j \in Command : Kept(j)
  /\ \A j \in Command \ {i} : Undelivered(j)

Undisturbed == KeepsPositions /\ \A i \in Command : Kept(i) /\ Undelivered(i)

\* A claim delivers the first waiting message of its session.
LEMMA ClaimDelivers ==
  ASSUME StoreOK, NEW i \in Command, Claim(i) PROVE Delivered(i)
<1>1. item[i] \in Item
  BY PresentItem DEF StoreOK, Claim, IsFifoHead, Queued
<1>2. item' = [item EXCEPT ![i].status = "delivering", ![i].drev = item[i].rev]
  BY DEF Claim
<1>3. /\ item'[i].status = "delivering" /\ item'[i].session = item[i].session
      /\ item'[i].client = item[i].client /\ item'[i].pos = item[i].pos
      /\ item'[i].rev = item[i].rev
  BY <1>1, <1>2 DEF StoreOK, QueueTypes, Item
<1>4. \A j \in Command \ {i} : item'[j] = item[j]
  BY <1>2 DEF StoreOK, QueueTypes
<1>5. Kept(i) /\ ~Queued(i)'
  BY <1>3, RevisionType DEF Kept, Queued, Claim, IsFifoHead, StoreOK
<1>6. KeepsPositions
  BY BumpKeepsPositions DEF Claim, StoreOK
<1> QED
  BY <1>4, <1>5, <1>6, SameIsKept DEF Delivered, Claim, StoreOK

\* A failed interrupt only ends its waiting replacement.
LEMMA FailInterruptDisturbsNothing ==
  ASSUME StoreOK, NEW c \in Command, NEW code, FailInterrupt(c, code) PROVE Undisturbed
<1> DEFINE lost == FailedReplacements({c})
<1>1. ASSUME NEW i \in Command PROVE Kept(i) /\ Undelivered(i)
  <2>1. CASE i \notin lost
    BY <2>1, SameIsKept DEF FailInterrupt, StoreOK
  <2>2. CASE i \in lost
    <3>1. item[i] \in Item /\ item'[i] = WithStatus(item[i], "failed")
      BY <2>2, LostItems DEF FailInterrupt, StoreOK, WithStatus
    <3> QED
      BY <3>1, StatusIsKept DEF StoreOK, ItemStatus
  <2> QED
    BY <2>1, <2>2
<1>2. KeepsPositions
  BY BumpKeepsPositions DEF FailInterrupt, StoreOK
<1> QED
  BY <1>1, <1>2 DEF Undisturbed

\* A settlement ends the delivered message and the replacements it fails.
LEMMA SettleDisturbsNothing ==
  ASSUME StoreOK, NEW i \in Command, NEW outcome, NEW status \in {"accepted", "failed"},
         Settle(i, outcome, status)
  PROVE  Undisturbed
<1> DEFINE open == {c \in Command : Requested(c) /\ request[c].target = i}
           lost == IF Confirms(outcome) THEN {} ELSE FailedReplacements(open)
<1>1. item[i] \in Item
  BY PresentItem DEF StoreOK, OneTurnPerSession, Settle
<1>2. \A j \in lost : j \in Command /\ item[j] \in Item
  BY LostItems DEF StoreOK
<1>3. ASSUME NEW j \in Command PROVE Kept(j) /\ Undelivered(j)
  <2>1. CASE j = i
    <3>1. item'[i] = WithStatus(item[i], status)
      BY <2>1 DEF Settle, WithStatus
    <3> QED
      BY <1>1, <2>1, <3>1, StatusIsKept DEF StoreOK, ItemStatus
  <2>2. CASE j # i /\ j \in lost
    <3>1. item'[j] = WithStatus(item[j], "failed")
      BY <2>2 DEF Settle, WithStatus
    <3> QED
      BY <1>2, <2>2, <3>1, StatusIsKept DEF StoreOK, ItemStatus
  <2>3. CASE j # i /\ j \notin lost
    <3>1. item'[j] = item[j]
      BY <2>3 DEF Settle
    <3> QED
      BY <3>1, SameIsKept DEF StoreOK
  <2> QED
    BY <2>1, <2>2, <2>3
<1>4. KeepsPositions
  BY BumpKeepsPositions DEF Settle, StoreOK
<1> QED
  BY <1>3, <1>4 DEF Undisturbed

\* Leaving a session only ends its messages.
LEMMA CancelDisturbsNothing ==
  ASSUME StoreOK, NEW old, CancelQueue(old) PROVE Undisturbed
<1>1. ASSUME NEW i \in Command PROVE Kept(i) /\ Undelivered(i)
  <2>1. CASE item'[i] = item[i]
    BY <2>1, SameIsKept DEF StoreOK
  <2>2. CASE item[i] \in Item /\ item'[i] = WithStatus(item[i], "cancelled")
    BY <2>2, StatusIsKept DEF StoreOK, ItemStatus
  <2> QED
    BY <2>1, <2>2, PresentItem DEF CancelQueue, Cancellable, StoreOK, WithStatus
<1>2. KeepsPositions
  <2> SUFFICES ASSUME NEW s \in Session PROVE head'[s].next = head[s].next
    BY DEF KeepsPositions
  <2>1. head[s] \in [next : Nat \ {0}, rev : Nat]
    BY DEF StoreOK, QueueTypes
  <2> QED
    BY <2>1 DEF CancelQueue
<1> QED
  BY <1>1, <1>2 DEF Undisturbed

\* Every step inserts one message, delivers one, or does neither.
Evolves ==
  \/ Undisturbed
  \/ \E c \in Command, s \in Session, client \in Client : Inserted(c, s, client)
  \/ \E i \in Command : Delivered(i)

\* Every step is one of these.
LEMMA StepEvolves ==
  ASSUME StoreOK, [Next]_vars PROVE Evolves
<1>1. CASE ClientCommand
  BY <1>1, CommandEvolves DEF Evolves, Undisturbed
<1>2. CASE TurnStep
  <2>1. PICK i \in Command :
          \/ Claim(i)
          \/ \E outcome, status \in {"completed", "aborted", "turn-failed", "recovered", "accepted", "failed"} :
               status \in {"accepted", "failed"} /\ Settle(i, outcome, status)
          \/ \E code : FailInterrupt(i, code)
    BY <1>2 DEF TurnStep, SettleTerminal, SettleInfrastructureFailure, RecoverTurn
  <2> QED
    BY <2>1, ClaimDelivers, SettleDisturbsNothing, FailInterruptDisturbsNothing DEF Evolves
<1>3. CASE SessionStep
  <2>1. CASE \E old \in Session \cup {None} : CancelQueue(old)
    BY <2>1, CancelDisturbsNothing DEF Evolves
  <2>2. CASE UNCHANGED queueVars
    BY <2>2, SameIsKept DEF Evolves, Undisturbed, KeepsPositions, queueVars, StoreOK
  <2> QED
    BY <1>3, <2>1, <2>2 DEF SessionStep, ReplaceSession, CloseSession, ResumeSession,
       ContinueSession, DeleteProject
<1>4. CASE UNCHANGED vars
  BY <1>4, SameIsKept DEF Evolves, Undisturbed, KeepsPositions, vars, queueVars, StoreOK
<1> QED
  BY <1>1, <1>2, <1>3, <1>4 DEF Next

\* Initially there is no message, so nothing is out of order or twice there.
LEMMA NoMessageInitially ==
  ASSUME Init, NEW i \in Command
  PROVE  item[i].status = "none" /\ ~Queued(i) /\ item[i].drev = 0
  BY DEF Init, NoItem, Queued

\* One queue item per client message is kept by every step: an insertion looks
\* for the same client message first, in whatever state that message is.
LEMMA OneItemInductive ==
  ASSUME StoreOK, OneItemPerClientMessage, [Next]_vars PROVE OneItemPerClientMessage'
<1>1. CASE \E c \in Command, s \in Session, client \in Client : Inserted(c, s, client)
  <2>1. PICK c \in Command, s \in Session, client \in Client : Inserted(c, s, client)
    BY <1>1
  <2>2. \A d \in Command \ {c} : item'[d] = item[d]
    BY <2>1 DEF Inserted
  <2>3. \A d \in Command \ {c} : item'[d].status # "none" =>
          ~(item'[d].session = item'[c].session /\ item'[d].client = item'[c].client)
    BY <2>1 DEF Inserted, SameMessage
  <2> QED
    BY <2>2, <2>3 DEF OneItemPerClientMessage
<1>2. CASE \A i \in Command : Kept(i)
  BY <1>2 DEF Kept, OneItemPerClientMessage
<1> QED
  BY <1>1, <1>2, StepEvolves DEF Evolves, Undisturbed, Delivered

\* However often and under however many command ids a client message is sent,
\* it is one item of its session: for any number of commands and clients.
THEOREM ClientMessagesAreSingle == Spec => []OneItemPerClientMessage
<1>1. Init => OneItemPerClientMessage
  BY NoMessageInitially DEF OneItemPerClientMessage
<1> QED
  BY <1>1, OneItemInductive, StoreOKInitial, StoreOKInductive, PTL DEF Spec

-----------------------------------------------------------------------------
\* A position is allocated once: those in use lie below the queue head, and no
\* two messages of a session share one.
PositionsAllocated ==
  \A i \in Command : item[i].status # "none" => item[i].pos < head[item[i].session].next

PositionsUnique ==
  \A i, j \in Command :
    /\ item[i].status # "none" /\ item[j].status # "none"
    /\ item[i].session = item[j].session /\ item[i].pos = item[j].pos
    => i = j

OrderOK == PositionsAllocated /\ PositionsUnique /\ FifoDelivery

\* A message that is there has a session and a position; one that was delivered
\* or waits is there.
LEMMA PositionTypes ==
  ASSUME QueueTypes
  PROVE  /\ \A s \in Session : head[s].next \in Nat
         /\ \A i \in Command : item[i].status # "none" => item[i].session \in Session
         /\ \A i \in Command : item[i].pos \in Nat
         /\ \A i \in Command : item[i].drev # 0 => item[i].status # "none"
         /\ \A i \in Command : Queued(i) => item[i].status # "none"
<1>1. \A i \in Command : item[i] = NoItem \/ item[i] \in Item
  BY DEF QueueTypes
<1>2. \A i \in Command : item[i].pos \in Nat
  BY <1>1 DEF NoItem, Item
<1>3. \A i \in Command : item[i].drev # 0 => item[i].status # "none"
  BY <1>1 DEF NoItem, Item
<1> QED
  BY <1>2, <1>3, PresentItem DEF QueueTypes, Queued

\* An inserted message takes the place behind every other of its session.
LEMMA InsertedLast ==
  ASSUME StoreOK, OrderOK, NEW c \in Command, NEW s \in Session, NEW client, Inserted(c, s, client)
  PROVE  OrderOK'
<1>1. \A i \in Command \ {c} : item'[i] = item[i]
  BY DEF Inserted
<1>2. /\ item'[c].status = "queued" /\ item'[c].drev = 0
      /\ item'[c].session = s /\ item'[c].pos = head[s].next
  BY DEF Inserted
<1>3. head'[s].next = head[s].next + 1 /\ \A t \in Session \ {s} : head'[t] = head[t]
  BY DEF Inserted
<1>4. /\ \A t \in Session : head[t].next \in Nat
      /\ \A i \in Command : item[i].status # "none" => item[i].session \in Session
      /\ \A i \in Command : item[i].pos \in Nat
      /\ \A i \in Command : item[i].drev # 0 => item[i].status # "none"
  BY PositionTypes DEF StoreOK
<1>5. \A i \in Command \ {c} : item'[i].status # "none" /\ item'[i].session = s
                                => item'[i].pos < item'[c].pos
  BY <1>1, <1>2 DEF OrderOK, PositionsAllocated
<1>6. PositionsAllocated'
  BY <1>1, <1>2, <1>3, <1>4 DEF OrderOK, PositionsAllocated
<1>7. PositionsUnique'
  BY <1>1, <1>2, <1>4, <1>5 DEF OrderOK, PositionsUnique
<1>8. FifoDelivery'
  <2> SUFFICES ASSUME NEW i \in Command, NEW j \in Command, Queued(i)', item'[j].drev # 0,
                      item'[i].session = item'[j].session
               PROVE  item'[j].pos < item'[i].pos
    BY DEF FifoDelivery
  <2>1. j # c /\ item'[j] = item[j] /\ item'[j].status # "none"
    BY <1>1, <1>2, <1>4
  <2>2. CASE i = c
    BY <1>2, <1>5, <2>1, <2>2
  <2>3. CASE i # c
    BY <1>1, <2>1, <2>3 DEF OrderOK, FifoDelivery, Queued
  <2> QED
    BY <2>2, <2>3
<1> QED
  BY <1>6, <1>7, <1>8 DEF OrderOK

\* A delivery takes the first waiting message, so all that still wait come later.
LEMMA DeliveredFirst ==
  ASSUME StoreOK, OrderOK, NEW i \in Command, Delivered(i) PROVE FifoDelivery'
<1> SUFFICES ASSUME NEW w \in Command, NEW d \in Command, Queued(w)', item'[d].drev # 0,
                    item'[w].session = item'[d].session
             PROVE  item'[d].pos < item'[w].pos
  BY DEF FifoDelivery
<1>1. /\ Queued(w) /\ item'[w].pos = item[w].pos /\ item'[d].pos = item[d].pos
      /\ item[w].session = item[d].session
  BY DEF Delivered, Kept
<1>2. CASE d = i
  <2>1. w # i /\ item[i].pos <= item[w].pos
    BY <1>1, <1>2 DEF Delivered, IsFifoHead
  <2>2. item[i].pos # item[w].pos
    BY <1>1, <1>2, <2>1, PositionTypes DEF Delivered, IsFifoHead, OrderOK, PositionsUnique, StoreOK
  <2> QED
    BY <1>1, <1>2, <2>1, <2>2, PositionTypes DEF StoreOK
<1>3. CASE d # i
  BY <1>1, <1>3 DEF Delivered, Undelivered, OrderOK, FifoDelivery
<1> QED
  BY <1>2, <1>3

\* The order of the queue is kept by every step.
LEMMA OrderInductive ==
  ASSUME StoreOK, OrderOK, [Next]_vars PROVE OrderOK'
<1>1. CASE \E c \in Command, s \in Session, client \in Client : Inserted(c, s, client)
  BY <1>1, InsertedLast
<1>2. CASE KeepsPositions /\ \A i \in Command : Kept(i)
  <2>1. PositionsAllocated'
    BY <1>2, PositionTypes DEF KeepsPositions, Kept, OrderOK, PositionsAllocated, StoreOK
  <2>2. PositionsUnique'
    BY <1>2 DEF Kept, OrderOK, PositionsUnique
  <2>3. CASE \A i \in Command : Undelivered(i)
    <3>1. FifoDelivery'
      BY <1>2, <2>3 DEF Kept, Undelivered, OrderOK, FifoDelivery
    <3> QED
      BY <2>1, <2>2, <3>1 DEF OrderOK
  <2>4. CASE \E i \in Command : Delivered(i)
    BY <2>1, <2>2, <2>4, DeliveredFirst DEF OrderOK
  <2> QED
    BY <1>2, <2>3, <2>4, <1>1, StepEvolves, InsertedLast DEF Evolves, Undisturbed
<1> QED
  BY <1>1, <1>2, StepEvolves DEF Evolves, Undisturbed, Delivered

\* No message overtakes an older one of its session, for any number of
\* messages: edits, removals, interrupts, failures and recovery never reorder.
THEOREM DeliveryIsFifo == Spec => []FifoDelivery
<1>1. Init => OrderOK
  BY NoMessageInitially DEF OrderOK, PositionsAllocated, PositionsUnique, FifoDelivery
<1> QED
  BY <1>1, OrderInductive, StoreOKInitial, StoreOKInductive, PTL DEF Spec, OrderOK

-----------------------------------------------------------------------------
\* What an applied edit and an applied removal leave behind: a message whose
\* revision passed the one the editor saw, and one that never waits again.
EditIsPast(c) ==
  LET i == command[c].item
  IN  i \in Command /\ item[i].status # "none" /\ command[c].input.expected < item[i].rev

RemovalIsFinal(d) ==
  LET i == command[d].item
  IN  i \in Command /\ item[i].status # "none" /\ ~Queued(i)

UpdatesOK ==
  /\ \A c \in Applied({"edit"}) : EditIsPast(c)
  /\ \A d \in Applied({"remove"}) : RemovalIsFinal(d)
  /\ NoLostUpdate

\* The revision an edit or a removal names is a number.
LEMMA ExpectedType ==
  ASSUME QueueTypes, NEW c \in Applied({"edit", "remove"})
  PROVE  command[c].input.expected \in Nat
<1>1. c \in Command /\ command[c] \in Receipt \cup {NoReceipt}
  BY DEF Applied, QueueTypes
<1>2. command[c].input \in Input /\ command[c].input.kind \in {"edit", "remove"}
  BY <1>1 DEF Applied, Receipt, NoReceipt, Rejection
<1>3. command[c].input \in EditInput \cup RemoveInput
  BY <1>2 DEF Input, SendInput, InterruptInput
<1> QED
  BY <1>3, CommandAssumption DEF EditInput, RemoveInput

\* No step takes back what a stored receipt says of its message.
LEMMA PastStaysPast ==
  ASSUME StoreOK, UpdatesOK, Evolves, NEW c \in Command, command'[c] = command[c]
  PROVE  /\ c \in Applied({"edit"}) => EditIsPast(c)'
         /\ c \in Applied({"remove"}) => RemovalIsFinal(c)'
<1> DEFINE i == command[c].item
<1> SUFFICES ASSUME c \in Applied({"edit", "remove"})
             PROVE  /\ c \in Applied({"edit"}) => EditIsPast(c)'
                    /\ c \in Applied({"remove"}) => RemovalIsFinal(c)'
  BY DEF Applied
<1>1. i \in Command /\ item[i].status # "none"
  BY DEF UpdatesOK, EditIsPast, RemovalIsFinal, Applied
<1>2. /\ item'[i].status # "none" /\ item'[i].rev \in Nat /\ item'[i].rev >= item[i].rev
      /\ Queued(i)' => Queued(i)
  <2>1. CASE \E d \in Command, s \in Session, client \in Client : Inserted(d, s, client)
    <3>1. PICK d \in Command, s \in Session, client \in Client : Inserted(d, s, client)
      BY <2>1
    <3>2. item[d].status = "none"
      BY <3>1 DEF Inserted, StoreOK, FreshUnused, NoItem
    <3>3. item'[i] = item[i]
      BY <1>1, <3>1, <3>2 DEF Inserted
    <3> QED
      BY <1>1, <3>3, RevisionType DEF StoreOK, Queued
  <2>2. CASE \A j \in Command : Kept(j)
    BY <1>1, <2>2 DEF Kept
  <2> QED
    BY <2>1, <2>2 DEF Evolves, Undisturbed, Delivered
<1>3. item[i].rev \in Nat /\ command[c].input.expected \in Nat
  BY <1>1, RevisionType, ExpectedType DEF StoreOK
<1>4. c \in Applied({"edit"}) => EditIsPast(c)'
  <2> SUFFICES ASSUME c \in Applied({"edit"}) PROVE EditIsPast(c)'
    OBVIOUS
  <2>1. command[c].input.expected < item[i].rev
    BY DEF UpdatesOK, EditIsPast
  <2>2. command[c].input.expected < item'[i].rev
    BY <1>2, <1>3, <2>1
  <2> QED
    BY <1>1, <1>2, <2>2 DEF EditIsPast
<1>5. c \in Applied({"remove"}) => RemovalIsFinal(c)'
  BY <1>1, <1>2 DEF UpdatesOK, RemovalIsFinal
<1> QED
  BY <1>4, <1>5

\* A step that stores no receipt of an edit or a removal.
LEMMA NoUpdateStep ==
  ASSUME StoreOK, UpdatesOK, Evolves,
         \A c \in Command : /\ command'[c].status = "applied"
                            /\ command'[c].input.kind \in {"edit", "remove"}
                            => command'[c] = command[c]
  PROVE  UpdatesOK'
<1>1. \A c \in Applied({"edit", "remove"})' : c \in Command /\ command'[c] = command[c]
  BY DEF Applied
<1>2. /\ \A c \in Applied({"edit"})' : EditIsPast(c)'
      /\ \A c \in Applied({"remove"})' : RemovalIsFinal(c)'
  BY <1>1, PastStaysPast DEF Applied
<1>3. NoLostUpdate'
  BY <1>1 DEF UpdatesOK, NoLostUpdate, Applied
<1> QED
  BY <1>2, <1>3 DEF UpdatesOK

\* The receipt a command stores, and that it stores no other.
LEMMA StoredReceipt ==
  ASSUME QueueTypes, NEW c \in Command, NEW in, NEW i, NEW revision,
         StoreCommand(c, in, i, revision)
  PROVE  /\ command'[c] = [status |-> "applied", input |-> in, item |-> i, revision |-> revision]
         /\ \A d \in Command \ {c} : command'[d] = command[d]
  BY DEF QueueTypes, StoreCommand

\* An edit starts from the present revision, which every earlier edit left behind.
LEMMA EditLosesNothing ==
  ASSUME StoreOK, UpdatesOK, Evolves, NEW c \in Command, NEW in \in EditInput, Edit(c, in)
  PROVE  UpdatesOK'
<1> DEFINE i == in.item
<1>1. i \in Command /\ in.kind = "edit" /\ in.expected \in Nat
  BY CommandAssumption DEF EditInput
<1>2. Queued(i) /\ item[i].status # "none" /\ item[i].rev = in.expected
  BY DEF Edit, EditAdmissible, Mutable, Queued
<1>3. /\ command'[c].status = "applied" /\ command'[c].input = in /\ command'[c].item = i
      /\ \A d \in Command \ {c} : command'[d] = command[d]
  <2>1. StoreCommand(c, in, i, in.expected + 1)
    BY DEF Edit
  <2>2. /\ command'[c] = [status |-> "applied", input |-> in, item |-> i, revision |-> in.expected + 1]
        /\ \A d \in Command \ {c} : command'[d] = command[d]
    BY <2>1, StoredReceipt DEF StoreOK
  <2> QED
    BY <2>2
<1>4. item'[i].status = item[i].status /\ item'[i].rev = in.expected + 1
  BY <1>1, <1>2, PresentItem DEF Edit, StoreOK, QueueTypes, Item
<1>5. EditIsPast(c)'
  BY <1>1, <1>2, <1>3, <1>4 DEF EditIsPast
<1>6. \A d \in Command \ {c} : /\ d \in Applied({"edit"}) => EditIsPast(d)'
                               /\ d \in Applied({"remove"}) => RemovalIsFinal(d)'
  BY <1>3, PastStaysPast
<1>7. \A d \in Command : d \in Applied({"edit", "remove"})' /\ d # c =>
        d \in Applied({"edit", "remove"}) /\ command'[d] = command[d]
  BY <1>3 DEF Applied
<1>8. \A d \in Applied({"edit"}) : command[d].item = i => command[d].input.expected # in.expected
  <2> SUFFICES ASSUME NEW d \in Applied({"edit"}), command[d].item = i
               PROVE  command[d].input.expected # in.expected
    OBVIOUS
  <2>1. command[d].input.expected < item[i].rev
    BY DEF UpdatesOK, EditIsPast
  <2>2. command[d].input.expected \in Nat
    BY ExpectedType DEF StoreOK, Applied
  <2> QED
    BY <1>1, <1>2, <2>1, <2>2
<1>9. \A d \in Applied({"remove"}) : command[d].item # i
  BY <1>2 DEF UpdatesOK, RemovalIsFinal
<1>10. NoLostUpdate'
  BY <1>1, <1>3, <1>7, <1>8, <1>9 DEF UpdatesOK, NoLostUpdate, Applied
<1>11. /\ \A d \in Applied({"edit"})' : EditIsPast(d)'
       /\ \A d \in Applied({"remove"})' : RemovalIsFinal(d)'
  BY <1>1, <1>3, <1>5, <1>6 DEF Applied
<1> QED
  BY <1>10, <1>11 DEF UpdatesOK

\* A removal starts from the present revision as well, and ends the message.
LEMMA RemoveLosesNothing ==
  ASSUME StoreOK, UpdatesOK, Evolves, NEW c \in Command, NEW in \in RemoveInput, Remove(c, in)
  PROVE  UpdatesOK'
<1> DEFINE i == in.item
<1>1. i \in Command /\ in.kind = "remove" /\ in.expected \in Nat
  BY CommandAssumption DEF RemoveInput
<1>2. item[i].status # "none" /\ item[i].rev = in.expected
  BY DEF Remove, RemoveAdmissible, Mutable
<1>3. /\ command'[c].status = "applied" /\ command'[c].input = in /\ command'[c].item = i
      /\ \A d \in Command \ {c} : command'[d] = command[d]
  <2>1. StoreCommand(c, in, i, in.expected)
    BY DEF Remove
  <2>2. /\ command'[c] = [status |-> "applied", input |-> in, item |-> i, revision |-> in.expected]
        /\ \A d \in Command \ {c} : command'[d] = command[d]
    BY <2>1, StoredReceipt DEF StoreOK
  <2> QED
    BY <2>2
<1>4. item'[i].status = "cancelled"
  BY <1>1, <1>2, PresentItem DEF Remove, StoreOK, QueueTypes, Item
<1>5. RemovalIsFinal(c)'
  BY <1>1, <1>3, <1>4 DEF RemovalIsFinal, Queued
<1>6. \A d \in Command \ {c} : /\ d \in Applied({"edit"}) => EditIsPast(d)'
                               /\ d \in Applied({"remove"}) => RemovalIsFinal(d)'
  BY <1>3, PastStaysPast
<1>7. \A d \in Command : d \in Applied({"edit", "remove"})' /\ d # c =>
        d \in Applied({"edit", "remove"}) /\ command'[d] = command[d]
  BY <1>3 DEF Applied
<1>8. \A d \in Applied({"edit"}) : command[d].item = i => command[d].input.expected # in.expected
  <2> SUFFICES ASSUME NEW d \in Applied({"edit"}), command[d].item = i
               PROVE  command[d].input.expected # in.expected
    OBVIOUS
  <2>1. command[d].input.expected < item[i].rev
    BY DEF UpdatesOK, EditIsPast
  <2>2. command[d].input.expected \in Nat
    BY ExpectedType DEF StoreOK, Applied
  <2> QED
    BY <1>1, <1>2, <2>1, <2>2
<1>9. NoLostUpdate'
  BY <1>1, <1>3, <1>7, <1>8 DEF UpdatesOK, NoLostUpdate, Applied
<1>10. /\ \A d \in Applied({"edit"})' : EditIsPast(d)'
       /\ \A d \in Applied({"remove"})' : RemovalIsFinal(d)'
  BY <1>1, <1>3, <1>5, <1>6 DEF Applied
<1> QED
  BY <1>9, <1>10 DEF UpdatesOK

\* Edits and removals are the only steps that store such a receipt.
LEMMA UpdatesInductive ==
  ASSUME StoreOK, UpdatesOK, [Next]_vars PROVE UpdatesOK'
<1> USE StepEvolves
<1>1. CASE \E c \in Command, in \in EditInput : Edit(c, in)
  BY <1>1, EditLosesNothing
<1>2. CASE \E c \in Command, in \in RemoveInput : Remove(c, in)
  BY <1>2, RemoveLosesNothing
<1>3. CASE command' = command
  BY <1>3, NoUpdateStep
<1>4. ASSUME NEW c \in Command, NEW in \in SendInput \cup InterruptInput, NEW i, NEW revision,
             StoreCommand(c, in, i, revision)
      PROVE  UpdatesOK'
  <2>1. in.kind \notin {"edit", "remove"}
    BY DEF SendInput, InterruptInput
  <2>2. /\ command'[c] = [status |-> "applied", input |-> in, item |-> i, revision |-> revision]
        /\ \A d \in Command \ {c} : command'[d] = command[d]
    BY <1>4, StoredReceipt DEF StoreOK
  <2>3. command'[c].input = in
    BY <2>2
  <2> QED
    BY <2>1, <2>2, <2>3, NoUpdateStep
<1>5. ASSUME NEW c \in Command, Reject(c) PROVE UpdatesOK'
  <2>1. command'[c].status = "rejected" /\ \A d \in Command \ {c} : command'[d] = command[d]
    BY <1>5 DEF Reject, Rejection, StoreOK, QueueTypes
  <2> QED
    BY <2>1, NoUpdateStep
<1>6. ASSUME ClientCommand PROVE UpdatesOK'
  <2>1. PICK c \in Command :
          \/ \E in \in SendInput : EnqueueSend(c, in) \/ EnqueueDuplicate(c, in)
          \/ \E in \in EditInput : Edit(c, in)
          \/ \E in \in RemoveInput : Remove(c, in)
          \/ \E in \in InterruptInput :
               Interrupt(c, in) \/ InterruptAndSendQueued(c, in) \/ InterruptAndSendNew(c, in)
          \/ Reject(c)
          \/ Replay(c)
    BY <1>6 DEF ClientCommand
  <2>2. CASE \E in \in SendInput : EnqueueSend(c, in) \/ EnqueueDuplicate(c, in)
    BY <2>2, <1>4 DEF EnqueueSend, EnqueueDuplicate
  <2>3. CASE \E in \in InterruptInput :
               Interrupt(c, in) \/ InterruptAndSendQueued(c, in) \/ InterruptAndSendNew(c, in)
    BY <2>3, <1>4 DEF Interrupt, InterruptAndSendQueued, InterruptAndSendNew
  <2>4. CASE Replay(c)
    BY <2>4, <1>3 DEF Replay, vars, queueVars
  <2> QED
    BY <2>1, <2>2, <2>3, <2>4, <1>1, <1>2, <1>5
<1>7. CASE TurnStep
  BY <1>3, <1>7 DEF TurnStep, Claim, SettleTerminal, SettleInfrastructureFailure, RecoverTurn,
     Settle, FailInterrupt
<1>8. CASE SessionStep
  BY <1>3, <1>8 DEF SessionStep, ReplaceSession, CloseSession, ResumeSession, ContinueSession,
     DeleteProject, CancelQueue, queueVars
<1>9. CASE UNCHANGED vars
  BY <1>3, <1>9 DEF vars, queueVars
<1> QED
  BY <1>6, <1>7, <1>8, <1>9 DEF Next

\* Optimistic concurrency loses no update: two applied edits, or an edit and a
\* removal, of one message never started from the same revision.
THEOREM UpdatesAreNotLost == Spec => []NoLostUpdate
<1>1. Init => UpdatesOK
  BY DEF Init, UpdatesOK, NoLostUpdate, Applied, NoReceipt
<1> QED
  BY <1>1, UpdatesInductive, StoreOKInitial, StoreOKInductive, PTL DEF Spec, UpdatesOK

-----------------------------------------------------------------------------
(***************************************************************************)
(* The lock of a replacement: set on the head of a queue together with its *)
(* request, it ends with the request or is released by the abort of the    *)
(* turn.                                                                   *)
(***************************************************************************)
\* The step opens a request whose replacement is i, at the head of its queue.
Locks(i) ==
  \E c \in Command, in \in InterruptInput :
    /\ Fresh(c) /\ InterruptAdmissible(in) /\ OpenRequest(c, in.target, i) /\ turn' = turn
    /\ item'[i].link = c /\ item'[i].session = in.session /\ IsFifoHead(i)'

\* A message present keeps its session.
LEMMA SessionsStay ==
  ASSUME StoreOK, [Next]_vars, NEW i \in Command, ~Fresh(i)
  PROVE  item'[i].session = item[i].session
<1>1. CASE \E c \in Command, s \in Session, client \in Client : Inserted(c, s, client)
  BY <1>1 DEF Inserted
<1>2. CASE Kept(i)
  BY <1>2 DEF Kept
<1> QED
  BY <1>1, <1>2, StepEvolves DEF Evolves, Undisturbed, Delivered

\* Whoever stays in the queue stays at its head: others only leave or come last.
LEMMA HeadStays ==
  ASSUME StoreOK, OrderOK, [Next]_vars, NEW i \in Command, IsFifoHead(i), Queued(i)'
  PROVE  IsFifoHead(i)'
<1> SUFFICES ASSUME NEW j \in Command, Queued(j)', item'[j].session = item'[i].session
             PROVE  item'[i].pos <= item'[j].pos
  BY DEF IsFifoHead
<1>1. CASE \E c \in Command, s \in Session, client \in Client : Inserted(c, s, client)
  <2>1. PICK c \in Command, s \in Session, client \in Client : Inserted(c, s, client)
    BY <1>1
  <2>2. i # c /\ item'[i] = item[i] /\ item[i].status # "none"
    BY <2>1 DEF Inserted, IsFifoHead, Queued, StoreOK, FreshUnused, NoItem
  <2>3. item[i].pos \in Nat /\ head[item[i].session].next \in Nat
    BY <2>2, PositionTypes DEF StoreOK
  <2>4. CASE j = c
    <3>1. item'[j].pos = head[item[i].session].next
      BY <2>1, <2>2, <2>4 DEF Inserted
    <3>2. item[i].pos < head[item[i].session].next
      BY <2>2 DEF OrderOK, PositionsAllocated
    <3> QED
      BY <2>2, <2>3, <3>1, <3>2
  <2>5. CASE j # c
    BY <2>1, <2>2, <2>5 DEF Inserted, IsFifoHead, Queued
  <2> QED
    BY <2>4, <2>5
<1>2. CASE \A k \in Command : Kept(k)
  BY <1>2 DEF Kept, IsFifoHead
<1> QED
  BY <1>1, <1>2, StepEvolves DEF Evolves, Undisturbed, Delivered

\* A client command locks one head, or leaves the locks as they are.
LEMMA CommandLinks ==
  ASSUME StoreOK, ClientCommand, NEW i \in Command, Queued(i)', item'[i].link # None
  PROVE  (Queued(i) /\ item'[i].link = item[i].link) \/ Locks(i)
<1> DEFINE Goal == (Queued(i) /\ item'[i].link = item[i].link) \/ Locks(i)
<1>1. ASSUME NEW c \in Command, NEW in \in SendInput, EnqueueSend(c, in)
      PROVE  Goal
  <2>1. item'[c].link = None /\ \A j \in Command \ {c} : item'[j] = item[j]
    BY <1>1 DEF EnqueueSend, QueuedItem, StoreOK, QueueTypes
  <2> QED
    BY <2>1 DEF Queued
<1>2. ASSUME NEW c \in Command, NEW in \in EditInput, Edit(c, in)
      PROVE  Goal
  <2>1. in.item \in Command /\ Queued(in.item) /\ item[in.item] \in Item
    BY <1>2, PresentItem DEF Edit, EditAdmissible, Mutable, EditInput, Queued, StoreOK
  <2>2. /\ item'[in.item].link = item[in.item].link
        /\ \A j \in Command \ {in.item} : item'[j] = item[j]
    BY <1>2, <2>1 DEF Edit, StoreOK, QueueTypes, Item
  <2> QED
    BY <2>1, <2>2 DEF Queued
<1>3. ASSUME NEW c \in Command, NEW in \in RemoveInput, Remove(c, in)
      PROVE  Goal
  <2>1. in.item \in Command /\ item[in.item] \in Item
    BY <1>3, PresentItem DEF Remove, RemoveAdmissible, Mutable, RemoveInput, StoreOK
  <2>2. item'[in.item].status = "cancelled" /\ \A j \in Command \ {in.item} : item'[j] = item[j]
    BY <1>3, <2>1 DEF Remove, StoreOK, QueueTypes, Item
  <2> QED
    BY <2>2 DEF Queued
<1>4. ASSUME NEW c \in Command, NEW in \in InterruptInput, InterruptAndSendQueued(c, in)
      PROVE  Goal
  <2> DEFINE r == in.replacement.item
  <2>1. /\ IsFifoHead(r) /\ item[r].session = in.session /\ r \in Command
    BY <1>4 DEF InterruptAndSendQueued, InterruptAdmissible, ReplacementAdmissible,
       InterruptInput, Replacement
  <2>2. item[r] \in Item
    BY <2>1, PresentItem DEF IsFifoHead, Queued, StoreOK
  <2>3. item' = [item EXCEPT ![r].link = c]
    BY <1>4 DEF InterruptAndSendQueued
  <2>4. /\ item'[r].link = c /\ item'[r].status = item[r].status
        /\ item'[r].session = item[r].session /\ item'[r].pos = item[r].pos
        /\ \A j \in Command \ {r} : item'[j] = item[j]
    BY <2>1, <2>2, <2>3 DEF StoreOK, QueueTypes, Item
  <2>5. CASE i = r
    <3>1. IsFifoHead(i)'
      BY <2>1, <2>4, <2>5 DEF IsFifoHead, Queued
    <3>2. /\ Fresh(c) /\ InterruptAdmissible(in) /\ turn' = turn
          /\ OpenRequest(c, in.target, i)
      BY <1>4, <2>5 DEF InterruptAndSendQueued
    <3> QED
      BY <2>1, <2>4, <2>5, <3>1, <3>2 DEF Locks
  <2>6. CASE i # r
    BY <2>4, <2>6 DEF Queued
  <2> QED
    BY <2>5, <2>6
<1>5. ASSUME NEW c \in Command, NEW in \in InterruptInput, InterruptAndSendNew(c, in)
      PROVE  Goal
  <2>1. \A j \in Command : item[j].session = in.session => ~Queued(j)
    BY <1>5 DEF InterruptAndSendNew, InterruptAdmissible, ReplacementAdmissible
  <2>2. head[in.session].next \in Nat
    BY PositionTypes DEF InterruptInput, StoreOK
  <2>3. /\ item'[c].status = "queued" /\ item'[c].session = in.session
        /\ item'[c].link = c /\ item'[c].pos = head[in.session].next
        /\ \A j \in Command \ {c} : item'[j] = item[j]
    BY <1>5 DEF InterruptAndSendNew, QueuedItem, StoreOK, QueueTypes
  <2>4. CASE i = c
    <3>1. IsFifoHead(i)'
      BY <2>1, <2>2, <2>3, <2>4 DEF IsFifoHead, Queued
    <3>2. /\ Fresh(c) /\ InterruptAdmissible(in) /\ turn' = turn
          /\ OpenRequest(c, in.target, i)
      BY <1>5, <2>4 DEF InterruptAndSendNew
    <3> QED
      BY <2>3, <2>4, <3>1, <3>2 DEF Locks
  <2>5. CASE i # c
    BY <2>3, <2>5 DEF Queued
  <2> QED
    BY <2>4, <2>5
<1>6. CASE item' = item
  BY <1>6 DEF Queued
<1> QED
  BY <1>1, <1>2, <1>3, <1>4, <1>5, <1>6
  DEF ClientCommand, EnqueueDuplicate, Interrupt, Reject, Replay, vars, queueVars

\* What does not come from a client leaves a waiting message as it is.
LEMMA OthersLeaveQueued ==
  ASSUME StoreOK, TurnStep \/ SessionStep \/ UNCHANGED vars, NEW i \in Command, Queued(i)'
  PROVE  item'[i] = item[i]
<1>1. CASE TurnStep
  <2>1. PICK j \in Command :
          \/ Claim(j)
          \/ \E outcome, status \in {"completed", "aborted", "turn-failed", "recovered", "accepted", "failed"} :
               status \in {"accepted", "failed"} /\ Settle(j, outcome, status)
          \/ \E code : FailInterrupt(j, code)
    BY <1>1 DEF TurnStep, SettleTerminal, SettleInfrastructureFailure, RecoverTurn
  <2>2. CASE Claim(j)
    <3>1. ~Queued(j)'
      BY <2>2, ClaimDelivers DEF Delivered
    <3> QED
      BY <2>2, <3>1 DEF Claim, StoreOK, QueueTypes
  <2>3. ASSUME NEW outcome, NEW status \in {"accepted", "failed"}, Settle(j, outcome, status)
        PROVE  item'[i] = item[i]
    <3>1. item[j] \in Item
      BY <2>3, PresentItem DEF Settle, StoreOK, OneTurnPerSession
    <3>2. i # j
      BY <2>3, <3>1 DEF Settle, Item, Queued
    <3>3. CASE item'[i] = [item[i] EXCEPT !.status = "failed"] /\ Queued(i)
      <4>1. item[i] \in Item
        BY <3>3, PresentItem DEF Queued, StoreOK
      <4> QED
        BY <3>3, <4>1 DEF Queued, Item
    <3> QED
      BY <2>3, <3>2, <3>3 DEF Settle, FailedReplacements
  <2>4. ASSUME NEW code, FailInterrupt(j, code)
        PROVE  item'[i] = item[i]
    <3>1. CASE item'[i] = [item[i] EXCEPT !.status = "failed"] /\ Queued(i)
      <4>1. item[i] \in Item
        BY <3>1, PresentItem DEF Queued, StoreOK
      <4> QED
        BY <3>1, <4>1 DEF Queued, Item
    <3> QED
      BY <2>4, <3>1 DEF FailInterrupt, FailedReplacements
  <2> QED
    BY <2>1, <2>2, <2>3, <2>4
<1>2. CASE SessionStep
  <2>1. ASSUME NEW old, CancelQueue(old) PROVE item'[i] = item[i]
    <3>1. CASE old # None /\ i \in Cancellable(old)
      <4>1. item[i] \in Item
        BY <3>1, PresentItem DEF Cancellable, StoreOK
      <4> QED
        BY <2>1, <3>1, <4>1 DEF CancelQueue, Queued, Item
    <3> QED
      BY <2>1, <3>1 DEF CancelQueue
  <2>2. CASE UNCHANGED queueVars
    BY <2>2 DEF queueVars
  <2> QED
    BY <1>2, <2>1, <2>2 DEF SessionStep, ReplaceSession, CloseSession, ResumeSession,
       ContinueSession, DeleteProject
<1> QED
  BY <1>1, <1>2 DEF vars, queueVars

\* A request that is open or confirmed stays so, or ends what waits for it.
LEMMA EndedRequests ==
  ASSUME StoreOK, [Next]_vars, NEW c \in Command, request[c].status \in {"requested", "confirmed"}
  PROVE  /\ request'[c].target = request[c].target
         /\ request'[c].replacement = request[c].replacement
         /\ \/ request'[c].status \in {"requested", "confirmed"}
            \/ \A i \in Command : Queued(i) /\ request[c].replacement = i => ~Queued(i)'
<1> DEFINE Goal == /\ request'[c].target = request[c].target
                   /\ request'[c].replacement = request[c].replacement
                   /\ \/ request'[c].status \in {"requested", "confirmed"}
                      \/ \A i \in Command : Queued(i) /\ request[c].replacement = i => ~Queued(i)'
<1>0. request[c] \in Request
  BY DEF StoreOK, QueueTypes
<1>1. CASE request'[c] = request[c]
  BY <1>1
<1>2. ASSUME NEW d \in Command, NEW target, NEW replacement, Fresh(d), OpenRequest(d, target, replacement)
      PROVE  request'[c] = request[c]
  <2>1. d # c
    BY <1>2 DEF StoreOK, FreshUnused, NoRequest
  <2> QED
    BY <1>2, <2>1 DEF OpenRequest, StoreOK, QueueTypes
<1>3. ASSUME NEW d \in Command, NEW code, FailInterrupt(d, code) PROVE Goal
  <2>1. CASE d = c
    <3>1. /\ request'[c].target = request[c].target
          /\ request'[c].replacement = request[c].replacement
      BY <1>0, <1>3, <2>1 DEF FailInterrupt, StoreOK, QueueTypes, Request
    <3>2. ASSUME NEW i \in Command, Queued(i), request[c].replacement = i PROVE ~Queued(i)'
      <4>1. item'[i] = [item[i] EXCEPT !.status = "failed"]
        BY <1>3, <2>1, <3>2 DEF FailInterrupt, FailedReplacements
      <4>2. item[i] \in Item
        BY <3>2, PresentItem DEF Queued, StoreOK
      <4> QED
        BY <4>1, <4>2 DEF Queued, Item
    <3> QED
      BY <3>1, <3>2
  <2>2. CASE d # c
    BY <1>1, <1>3, <2>2 DEF FailInterrupt, StoreOK, QueueTypes
  <2> QED
    BY <2>1, <2>2
<1>4. ASSUME NEW t \in Command, NEW outcome, NEW status \in {"accepted", "failed"},
             Settle(t, outcome, status)
      PROVE  Goal
  <2> DEFINE open == {d \in Command : Requested(d) /\ request[d].target = t}
  <2>1. CASE c \notin open
    BY <1>1, <1>4, <2>1 DEF Settle
  <2>2. CASE c \in open /\ Confirms(outcome)
    <3>1. request'[c] = [request[c] EXCEPT !.status = "confirmed"]
      BY <1>4, <2>2 DEF Settle
    <3> QED
      BY <1>0, <3>1 DEF Request
  <2>3. CASE c \in open /\ ~Confirms(outcome)
    <3>1. request'[c] = [request[c] EXCEPT !.status = "failed", !.code = "target-ended"]
      BY <1>4, <2>3 DEF Settle
    <3>2. ASSUME NEW i \in Command, Queued(i), request[c].replacement = i PROVE ~Queued(i)'
      <4>1. i \in FailedReplacements(open)
        BY <2>3, <3>2 DEF FailedReplacements
      <4>2. \/ item'[i] = [item[i] EXCEPT !.status = status]
            \/ item'[i] = [item[i] EXCEPT !.status = "failed"]
        BY <1>4, <2>3, <4>1 DEF Settle
      <4>3. item[i] \in Item
        BY <3>2, PresentItem DEF Queued, StoreOK
      <4> QED
        BY <4>2, <4>3 DEF Queued, Item
    <3> QED
      BY <1>0, <3>1, <3>2 DEF Request
  <2> QED
    BY <2>1, <2>2, <2>3
<1>5. CASE ClientCommand
  BY <1>1, <1>2, <1>5 DEF ClientCommand, EnqueueSend, EnqueueDuplicate, Edit, Remove, Interrupt,
     InterruptAndSendQueued, InterruptAndSendNew, Reject, Replay, vars, queueVars
<1>6. CASE TurnStep
  <2>1. ASSUME NEW i \in Command, Claim(i) PROVE request'[c] = request[c]
    BY <2>1 DEF Claim
  <2> QED
    BY <1>1, <1>3, <1>4, <1>6, <2>1
    DEF TurnStep, SettleTerminal, SettleInfrastructureFailure, RecoverTurn
<1>7. CASE SessionStep \/ UNCHANGED vars
  BY <1>1, <1>7 DEF SessionStep, ReplaceSession, CloseSession, ResumeSession, ContinueSession,
     DeleteProject, CancelQueue, queueVars, vars
<1> QED
  BY <1>5, <1>6, <1>7 DEF Next

\* A lock is always at the head of its queue, and its request will be settled.
LEMMA LocksInductive ==
  ASSUME StoreOK, Unclaimed, RequestsOK, RequestsSingle, OrderOK, LockedHeadIsReleasable, [Next]_vars
  PROVE  LockedHeadIsReleasable'
<1> SUFFICES ASSUME NEW i \in Command, Queued(i)', item'[i].link # None
             PROVE  LET r == request'[item'[i].link]
                    IN  /\ IsFifoHead(i)'
                        /\ r.replacement = i
                        /\ item'[r.target].session = item'[i].session
                        /\ \/ r.status = "confirmed"
                           \/ r.status = "requested" /\ turn'[r.target].status = "active"
  BY DEF LockedHeadIsReleasable, IsFifoHead, Queued, Active
<1>1. RequestsOK'
  BY RequestsInductive
<1>2. CASE Queued(i) /\ item'[i].link = item[i].link
  <2> DEFINE c == item[i].link
             t == request[c].target
  <2>1. item[i] \in Item /\ c \in Command
    <3>1. item[i] \in Item
      BY <1>2, PresentItem DEF Queued, StoreOK
    <3> QED
      BY <1>2, <3>1 DEF Item
  <2>2. /\ IsFifoHead(i) /\ request[c].replacement = i /\ item[t].session = item[i].session
        /\ request[c].status \in {"requested", "confirmed"}
    BY <1>2 DEF LockedHeadIsReleasable
  <2>3. /\ request'[c].target = t /\ request'[c].replacement = i
        /\ request'[c].status \in {"requested", "confirmed"}
    BY <1>2, <2>1, <2>2, EndedRequests
  <2>4. t \in Command /\ turn[t].status # "none"
    BY <2>1, <2>2 DEF RequestsOK, RequestOK
  <2>5. ~Fresh(i) /\ ~Fresh(t)
    BY <1>2, <2>4 DEF StoreOK, FreshUnused, NoItem, NoTurn, Queued
  <2>6. item'[i].session = item[i].session /\ item'[t].session = item[t].session
    BY <2>4, <2>5, SessionsStay
  <2>7. IsFifoHead(i)'
    BY <2>2, HeadStays
  <2>8. request'[c].status = "requested" => turn'[t].status = "active"
    BY <1>1, <2>1, <2>3 DEF RequestsOK, RequestOK, Requested, Active
  <2> QED
    BY <1>2, <2>2, <2>3, <2>6, <2>7, <2>8
<1>3. CASE Locks(i)
  <2>1. PICK c \in Command, in \in InterruptInput :
          /\ Fresh(c) /\ InterruptAdmissible(in) /\ OpenRequest(c, in.target, i) /\ turn' = turn
          /\ item'[i].link = c /\ item'[i].session = in.session /\ IsFifoHead(i)'
    BY <1>3 DEF Locks
  <2>2. in.target \in Command /\ Active(in.target) /\ item[in.target].session = in.session
    BY <2>1 DEF InterruptInput, InterruptAdmissible
  <2>3. request'[c] = [status |-> "requested", target |-> in.target, replacement |-> i,
                       code |-> "none"]
    BY <2>1 DEF OpenRequest, StoreOK, QueueTypes
  <2>4. ~Fresh(in.target)
    BY <2>2 DEF StoreOK, FreshUnused, NoTurn, Active
  <2>5. item'[in.target].session = in.session /\ turn'[in.target].status = "active"
    BY <2>1, <2>2, <2>4, SessionsStay DEF Active
  <2> QED
    BY <2>1, <2>3, <2>5
<1>4. CASE ClientCommand
  BY <1>2, <1>3, <1>4, CommandLinks
<1>5. CASE TurnStep \/ SessionStep \/ UNCHANGED vars
  <2>1. item'[i] = item[i]
    BY <1>5, OthersLeaveQueued
  <2> QED
    BY <1>2, <2>1 DEF Queued
<1> QED
  BY <1>4, <1>5 DEF Next

\* A message locked by an interrupt waits at the head of its queue for a request
\* that is confirmed, or that is settled with the turn it interrupts: the queue
\* is never blocked by a lock that nothing releases, for any number of messages.
THEOREM LocksAreReleasable == Spec => []LockedHeadIsReleasable
<1>1. Init => OrderOK /\ LockedHeadIsReleasable
  BY NoMessageInitially DEF OrderOK, PositionsAllocated, PositionsUnique, FifoDelivery,
     LockedHeadIsReleasable
<1> QED
  BY <1>1, LocksInductive, OrderInductive, RequestsInductive, UnclaimedInductive, StoreOKInductive,
     RequestsInitial, StoreOKInitial, PTL DEF Spec
=============================================================================
