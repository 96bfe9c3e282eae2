------------------------------- MODULE Mailbox -------------------------------
(***************************************************************************)
(* The durable mailbox: messages enqueued once per idempotency key, the    *)
(* delivery each recipient gets, the leases under which workers attempt    *)
(* it, and the notice a dead letter mints.                                 *)
(*                                                                         *)
(* Source: packages/db/src/repos/mailbox.ts and packages/app-services/src/ *)
(* mailbox/mailbox-service.ts.  Each service method is one transaction.    *)
(* The delivery worker is external: the modules name it and fix the calls  *)
(* it makes, and it may crash between any two of them.  A clock comparison *)
(* is a flag that a timer action raises, since time only moves forward.    *)
(***************************************************************************)
EXTENDS Integers, FiniteSets

CONSTANTS Message,      \* messages of the product, one recipient each
          Worker,       \* delivery workers
          MaxAttempts,  \* attempts after which the worker gives up
          None          \* SQL NULL

ASSUME MailboxAssumption == MaxAttempts \in Nat \ {0} /\ None \notin Worker

VARIABLES row,   \* mailbox_deliveries: delivery -> its row
          dead,  \* mailbox_dead_letters, by delivery
          work   \* Worker -> the delivery it is attempting, or None

vars == <<row, dead, work>>

\* The delivery of a message, of the notice of its dead letter, and of the
\* notice that notice would get.
Delivery == Message \X (0..2)
NoticeOf(d) == <<d[1], d[2] + 1>>
IsNotice(d) == d[2] > 0

Status == {"none", "pending", "leased", "accepted", "retrying", "dead-lettered"}
Settled == {"accepted", "dead-lettered"}

Row == [status : Status, owner : Worker \cup {None}, lapsed : BOOLEAN,
        due : BOOLEAN, attempts : 0..MaxAttempts]

Absent == [status |-> "none", owner |-> None, lapsed |-> FALSE, due |-> FALSE, attempts |-> 0]
Enqueued == [Absent EXCEPT !.status = "pending", !.due = TRUE]

Init ==
  /\ row = [d \in Delivery |-> Absent]
  /\ dead = {}
  /\ work = [w \in Worker |-> None]

-----------------------------------------------------------------------------
\* enqueue: a replayed idempotency key finds its message and writes nothing.
Enqueue(m) ==
  LET d == <<m, 0>> IN
  /\ row[d].status = "none"
  /\ row' = [row EXCEPT ![d] = Enqueued]
  /\ UNCHANGED <<dead, work>>

\* Mutant: an expired lease is reclaimed, and its holder is still not checked.
LeasableOnceLapsed(r) ==
  /\ r.status \in {"pending", "retrying", "leased"}
  /\ r.owner = None \/ r.lapsed
  /\ r.due

\* The predicate of acquireDeliveryLease and of listDueDeliveries.
Leasable(r) ==
  /\ r.status \in {"pending", "retrying"}
  /\ r.owner = None \/ r.lapsed
  /\ r.due

\* A worker pass: a delivery listed as due, then won by the conditional update.
Lease(w, d) ==
  /\ work[w] = None
  /\ Leasable(row[d])
  /\ row' = [row EXCEPT ![d].status = "leased", ![d].owner = w, ![d].lapsed = FALSE]
  /\ work' = [work EXCEPT ![w] = d]
  /\ UNCHANGED dead

\* The four outcomes are updates by id alone: they read neither status nor owner.
Released(r, status) == [r EXCEPT !.status = status, !.owner = None, !.lapsed = FALSE]
Tried(r) == [r EXCEPT !.attempts = r.attempts + 1]
Postponed(r) == [r EXCEPT !.due = FALSE]

Accept(w) ==
  LET d == work[w] IN
  /\ d # None
  /\ row' = [row EXCEPT ![d] = Released(Tried(@), "accepted")]
  /\ work' = [work EXCEPT ![w] = None]
  /\ UNCHANGED dead

Retry(w) ==
  LET d == work[w] IN
  /\ d # None
  /\ row[d].attempts + 1 < MaxAttempts
  /\ row' = [row EXCEPT ![d] = Postponed(Released(Tried(@), "retrying"))]
  /\ work' = [work EXCEPT ![w] = None]
  /\ UNCHANGED dead

\* No live orchestrator: parked for a recheck, at no cost in attempts.
Defer(w) ==
  LET d == work[w] IN
  /\ d # None
  /\ row' = [row EXCEPT ![d] = Postponed(Released(@, "pending"))]
  /\ work' = [work EXCEPT ![w] = None]
  /\ UNCHANGED dead

\* Mutant: the notice is left to a transaction that a crash can lose.
WithNoNotice(rows, d) == rows

\* mintDeadLetterNotice, in the same transaction: idempotent per delivery, and
\* never for a notice.
WithNotice(rows, d) ==
  IF IsNotice(d) \/ rows[NoticeOf(d)].status # "none" THEN rows
  ELSE [rows EXCEPT ![NoticeOf(d)] = Enqueued]

\* A second dead-letter row of one delivery breaks its primary key, and the
\* whole transaction with it.
DeadLetter(w) ==
  LET d == work[w] IN
  /\ d # None
  /\ d \notin dead
  /\ row' = WithNotice([row EXCEPT ![d] = Released(@, "dead-lettered")], d)
  /\ dead' = dead \cup {d}
  /\ work' = [work EXCEPT ![w] = None]

-----------------------------------------------------------------------------
\* next_attempt_at <= now, and lease_expires_at <= now.
ComeDue(d) ==
  /\ row[d].status \in {"pending", "retrying"} /\ ~row[d].due
  /\ row' = [row EXCEPT ![d].due = TRUE]
  /\ UNCHANGED <<dead, work>>

Lapse(d) ==
  /\ row[d].owner # None /\ ~row[d].lapsed
  /\ row' = [row EXCEPT ![d].lapsed = TRUE]
  /\ UNCHANGED <<dead, work>>

\* The worker dies, and its successor starts without its memory.
Crash(w) ==
  /\ work[w] # None
  /\ work' = [work EXCEPT ![w] = None]
  /\ UNCHANGED <<row, dead>>

Next ==
  \/ \E m \in Message : Enqueue(m)
  \/ \E w \in Worker, d \in Delivery : Lease(w, d)
  \/ \E w \in Worker : Accept(w)
  \/ \E w \in Worker : Retry(w)
  \/ \E w \in Worker : Defer(w)
  \/ \E w \in Worker : DeadLetter(w)
  \/ \E d \in Delivery : ComeDue(d)
  \/ \E d \in Delivery : Lapse(d)
  \/ \E w \in Worker : Crash(w)

Spec == Init /\ [][Next]_vars

-----------------------------------------------------------------------------
\* Every row has its columns' types, and exactly the leased rows have an owner.
TypeOK ==
  /\ row \in [Delivery -> Row]
  /\ dead \subseteq Delivery
  /\ work \in [Worker -> Delivery \cup {None}]
  /\ \A d \in Delivery : row[d].owner # None <=> row[d].status = "leased"

\* Two workers never attempt one delivery at the same time, though a lease may
\* run out under its holder and no outcome checks who holds it.
AttemptIsExclusive ==
  \A w, v \in Worker : work[w] # None /\ work[w] = work[v] => w = v

\* An accepted or dead-lettered delivery never changes again: a late outcome of
\* a worker whose lease ran out does not reopen it.
SettledStays ==
  [][\A d \in Delivery : row[d].status \in Settled => row'[d] = row[d]]_vars

\* A delivery has a notice exactly when it is a dead-lettered product delivery:
\* letter and notice are one transaction, through retries and crashes, and a
\* notice never starts a chain of notices.
DeadLettersAreNoticed ==
  \A m \in Message :
    /\ row[<<m, 0>>].status = "dead-lettered" <=> row[<<m, 1>>].status # "none"
    /\ row[<<m, 2>>].status = "none"

\* The comments at mailbox.ts:9 and :298: an expired lease is reclaimable by a
\* later pass.  What the code does instead: a leased row matches no pass again.
ExpiredLeaseIsReclaimable ==
  \A d \in Delivery : row[d].status = "leased" /\ row[d].lapsed => Leasable(row[d])
=============================================================================
