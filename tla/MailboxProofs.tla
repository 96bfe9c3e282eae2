---------------------------- MODULE MailboxProofs ----------------------------
(***************************************************************************)
(* Proofs about Mailbox.  The invariant that carries them: a worker's      *)
(* memory of an attempt agrees with the row it holds, so that an outcome,  *)
(* which checks neither, still releases the row of its own lease.          *)
(***************************************************************************)
EXTENDS Mailbox, TLAPS

\* What a worker attempts is leased to it.
HeldByWorker ==
  \A w \in Worker : work[w] # None => row[work[w]].status = "leased" /\ row[work[w]].owner = w

\* Only an accepted delivery may have used up its attempts.
AttemptsLeft ==
  \A d \in Delivery : row[d].status # "accepted" => row[d].attempts < MaxAttempts

\* The dead-letter rows are those of the dead-lettered deliveries.
DeadAreLettered == \A d \in Delivery : d \in dead <=> row[d].status = "dead-lettered"

MailboxInv == TypeOK /\ HeldByWorker /\ AttemptsLeft /\ DeadAreLettered /\ DeadLettersAreNoticed

\* The three deliveries a message can have.
LEMMA DeliveryShape ==
  \A m \in Message : /\ <<m, 0>> \in Delivery
                     /\ <<m, 1>> \in Delivery
                     /\ <<m, 2>> \in Delivery
                     /\ \A n \in Message : /\ <<n, 1>> # <<m, 0>> /\ <<n, 2>> # <<m, 0>>
                                           /\ <<n, 0>> # <<m, 1>> /\ <<n, 2>> # <<m, 1>>
                     /\ \A n \in Message \ {m} : <<n, 0>> # <<m, 0>> /\ <<n, 1>> # <<m, 1>>
BY DEF Delivery

\* The initial state satisfies the invariant.
LEMMA MailboxInit == Init => MailboxInv
<1> SUFFICES ASSUME Init PROVE MailboxInv
  OBVIOUS
<1>1. Absent \in Row /\ Absent.owner = None /\ Absent.status = "none" /\ Absent.attempts = 0
  BY MailboxAssumption DEF Absent, Row, Status
<1>2. \A d \in Delivery : row[d] = Absent
  BY DEF Init
<1>3. TypeOK /\ HeldByWorker /\ AttemptsLeft /\ DeadAreLettered
  BY <1>1, <1>2, MailboxAssumption DEF Init, TypeOK, HeldByWorker, AttemptsLeft, DeadAreLettered
<1>4. \A m \in Message : row[<<m, 0>>] = Absent /\ row[<<m, 1>>] = Absent /\ row[<<m, 2>>] = Absent
  BY <1>2, DeliveryShape
<1>5. DeadLettersAreNoticed
  BY <1>1, <1>4 DEF DeadLettersAreNoticed
<1> QED BY <1>3, <1>5 DEF MailboxInv

\* The rows the store writes.
LEMMA RowShapes ==
  /\ /\ Enqueued \in Row
     /\ Enqueued.owner = None /\ Enqueued.status = "pending" /\ Enqueued.attempts = 0
  /\ \A r \in Row, s \in Status :
       /\ Released(r, s) \in Row
       /\ Released(r, s).owner = None
       /\ Released(r, s).status = s
       /\ Released(r, s).attempts = r.attempts
  /\ \A r \in Row :
       /\ Postponed(r) \in Row
       /\ Postponed(r).owner = r.owner
       /\ Postponed(r).status = r.status
       /\ Postponed(r).attempts = r.attempts
  /\ \A r \in Row :
       r.attempts < MaxAttempts => Tried(r) \in Row /\ Tried(r).attempts = r.attempts + 1
<1>1. Absent \in Row /\ Absent.owner = None /\ Absent.attempts = 0
  BY MailboxAssumption DEF Absent, Row, Status
<1>2. /\ Enqueued \in Row
      /\ Enqueued.owner = None /\ Enqueued.status = "pending" /\ Enqueued.attempts = 0
  BY <1>1 DEF Enqueued, Row, Status
<1>3. ASSUME NEW r \in Row, NEW s \in Status
      PROVE  /\ Released(r, s) \in Row
             /\ Released(r, s).owner = None
             /\ Released(r, s).status = s
             /\ Released(r, s).attempts = r.attempts
  BY DEF Released, Row
<1>4. ASSUME NEW r \in Row
      PROVE  /\ Postponed(r) \in Row
             /\ Postponed(r).owner = r.owner
             /\ Postponed(r).status = r.status
             /\ Postponed(r).attempts = r.attempts
  BY DEF Postponed, Row
<1>5. ASSUME NEW r \in Row, r.attempts < MaxAttempts
      PROVE  Tried(r) \in Row /\ Tried(r).attempts = r.attempts + 1
  BY <1>5, MailboxAssumption DEF Tried, Row
<1> QED BY <1>2, <1>3, <1>4, <1>5

\* One updated row: the others keep their value.
LEMMA RowUpdate ==
  ASSUME row \in [Delivery -> Row], NEW d \in Delivery, NEW r \in Row,
         row' = [row EXCEPT ![d] = r]
  PROVE  row' \in [Delivery -> Row] /\ row'[d] = r /\ \A e \in Delivery \ {d} : row'[e] = row[e]
OBVIOUS

\* Notices depend only on which rows exist and which are dead-lettered.
LEMMA NoticesKept ==
  ASSUME DeadLettersAreNoticed,
         \A e \in Delivery : row'[e].status = "none" <=> row[e].status = "none",
         \A e \in Delivery : row'[e].status = "dead-lettered" <=> row[e].status = "dead-lettered"
  PROVE  DeadLettersAreNoticed'
BY DeliveryShape DEF DeadLettersAreNoticed

\* A worker ends its attempt without a dead letter.
LEMMA AttemptEnds ==
  ASSUME MailboxInv, NEW w \in Worker, work[w] # None, NEW r \in Row,
         r.owner = None, r.status \in {"accepted", "retrying", "pending"},
         r.status # "accepted" => r.attempts < MaxAttempts,
         row' = [row EXCEPT ![work[w]] = r],
         work' = [work EXCEPT ![w] = None], dead' = dead
  PROVE  MailboxInv'
<1>1. PICK d \in Delivery : d = work[w] /\ row[d].status = "leased" /\ row[d].owner = w
  BY DEF MailboxInv, TypeOK, HeldByWorker
<1>2. /\ row' \in [Delivery -> Row]
      /\ row'[d] = r
      /\ \A e \in Delivery \ {d} : row'[e] = row[e]
  BY <1>1, RowUpdate DEF MailboxInv, TypeOK
<1>3. TypeOK'
  BY <1>1, <1>2 DEF MailboxInv, TypeOK
<1>4. HeldByWorker'
  BY <1>1, <1>2 DEF MailboxInv, TypeOK, HeldByWorker
<1>5. AttemptsLeft' /\ DeadAreLettered'
  BY <1>1, <1>2 DEF MailboxInv, AttemptsLeft, DeadAreLettered
<1>6. DeadLettersAreNoticed'
  BY <1>1, <1>2, NoticesKept DEF MailboxInv
<1> QED BY <1>3, <1>4, <1>5, <1>6 DEF MailboxInv

\* What a worker attempts is a leased row with attempts left.
LEMMA Held ==
  ASSUME MailboxInv, NEW w \in Worker, work[w] # None
  PROVE  /\ work[w] \in Delivery
         /\ row[work[w]] \in Row
         /\ row[work[w]].status = "leased"
         /\ row[work[w]].owner = w
         /\ row[work[w]].attempts \in 0..MaxAttempts
         /\ row[work[w]].attempts < MaxAttempts
BY DEF MailboxInv, TypeOK, HeldByWorker, AttemptsLeft, Row

\* enqueue keeps the invariant.
LEMMA EnqueueStep == ASSUME MailboxInv, NEW m \in Message, Enqueue(m) PROVE MailboxInv'
<1> DEFINE d == <<m, 0>>
<1>1. d \in Delivery /\ row[d].status = "none" /\ row' = [row EXCEPT ![d] = Enqueued]
  BY DeliveryShape DEF Enqueue
<1>2. Enqueued \in Row /\ Enqueued.owner = None /\ Enqueued.status = "pending" /\ Enqueued.attempts = 0
  BY RowShapes
<1>3. /\ row' \in [Delivery -> Row]
      /\ row'[d] = Enqueued
      /\ \A e \in Delivery \ {d} : row'[e] = row[e]
  BY <1>1, <1>2, RowUpdate DEF MailboxInv, TypeOK
<1>4. dead' = dead /\ work' = work
  BY DEF Enqueue
<1> HIDE DEF d
<1>5. TypeOK' /\ AttemptsLeft' /\ DeadAreLettered'
  BY <1>1, <1>2, <1>3, <1>4, MailboxAssumption DEF MailboxInv, TypeOK, AttemptsLeft, DeadAreLettered
<1>6. HeldByWorker'
  BY <1>1, <1>3, <1>4 DEF MailboxInv, TypeOK, HeldByWorker
<1>7. DeadLettersAreNoticed'
  <2>1. \A e \in Delivery : row'[e].status = "dead-lettered" <=> row[e].status = "dead-lettered"
    BY <1>1, <1>2, <1>3
  <2>2. \A n \in Message : row'[<<n, 1>>] = row[<<n, 1>>] /\ row'[<<n, 2>>] = row[<<n, 2>>]
    BY <1>3, DeliveryShape DEF d
  <2>3. \A n \in Message : <<n, 0>> \in Delivery
    BY DeliveryShape
  <2> QED BY <2>1, <2>2, <2>3 DEF MailboxInv, DeadLettersAreNoticed
<1> QED BY <1>5, <1>6, <1>7 DEF MailboxInv

\* A lease keeps the invariant: only a row without an owner is leased.
LEMMA LeaseStep ==
  ASSUME MailboxInv, NEW w \in Worker, NEW d \in Delivery, Lease(w, d) PROVE MailboxInv'
<1> DEFINE r == [row[d] EXCEPT !.status = "leased", !.owner = w, !.lapsed = FALSE]
<1>1. row[d] \in Row /\ row[d].status \in {"pending", "retrying"} /\ work[w] = None
  BY DEF MailboxInv, TypeOK, Lease, Leasable
<1>2. r \in Row /\ r.status = "leased" /\ r.owner = w /\ r.attempts = row[d].attempts
  BY <1>1 DEF Row, Status
<1>3. row' = [row EXCEPT ![d] = r] /\ work' = [work EXCEPT ![w] = d] /\ dead' = dead
  BY DEF Lease
<1> HIDE DEF r
<1>4. /\ row' \in [Delivery -> Row]
      /\ row'[d] = r
      /\ \A e \in Delivery \ {d} : row'[e] = row[e]
  BY <1>2, <1>3, RowUpdate DEF MailboxInv, TypeOK
<1>5. TypeOK'
  BY <1>1, <1>2, <1>3, <1>4, MailboxAssumption DEF MailboxInv, TypeOK
<1>6. HeldByWorker'
  BY <1>1, <1>2, <1>3, <1>4 DEF MailboxInv, TypeOK, HeldByWorker
<1>7. AttemptsLeft' /\ DeadAreLettered'
  BY <1>1, <1>2, <1>3, <1>4 DEF MailboxInv, AttemptsLeft, DeadAreLettered
<1>8. DeadLettersAreNoticed'
  BY <1>1, <1>2, <1>4, NoticesKept DEF MailboxInv
<1> QED BY <1>5, <1>6, <1>7, <1>8 DEF MailboxInv

\* Accepting, retrying and deferring keep the invariant.
LEMMA OutcomeStep ==
  ASSUME MailboxInv, NEW w \in Worker, Accept(w) \/ Retry(w) \/ Defer(w) PROVE MailboxInv'
<1> DEFINE R == row[work[w]]
<1>1. work[w] # None
  BY DEF Accept, Retry, Defer
<1>2. R \in Row /\ R.attempts \in 0..MaxAttempts /\ R.attempts < MaxAttempts
  BY <1>1, Held
<1>3. CASE Accept(w)
  <2> DEFINE r == Released(Tried(R), "accepted")
  <2>1. r \in Row /\ r.owner = None /\ r.status = "accepted"
    BY <1>2, RowShapes DEF Status
  <2>2. row' = [row EXCEPT ![work[w]] = r] /\ work' = [work EXCEPT ![w] = None] /\ dead' = dead
    BY <1>3 DEF Accept
  <2> HIDE DEF r
  <2> QED BY <1>1, <2>1, <2>2, AttemptEnds
<1>4. CASE Retry(w)
  <2> DEFINE r == Postponed(Released(Tried(R), "retrying"))
  <2>1. r \in Row /\ r.owner = None /\ r.status = "retrying" /\ r.attempts < MaxAttempts
    BY <1>2, <1>4, RowShapes DEF Retry, Status
  <2>2. row' = [row EXCEPT ![work[w]] = r] /\ work' = [work EXCEPT ![w] = None] /\ dead' = dead
    BY <1>4 DEF Retry
  <2> HIDE DEF r
  <2> QED BY <1>1, <2>1, <2>2, AttemptEnds
<1>5. CASE Defer(w)
  <2> DEFINE r == Postponed(Released(R, "pending"))
  <2>1. r \in Row /\ r.owner = None /\ r.status = "pending" /\ r.attempts < MaxAttempts
    BY <1>2, RowShapes DEF Status
  <2>2. row' = [row EXCEPT ![work[w]] = r] /\ work' = [work EXCEPT ![w] = None] /\ dead' = dead
    BY <1>5 DEF Defer
  <2> HIDE DEF r
  <2> QED BY <1>1, <2>1, <2>2, AttemptEnds
<1> QED BY <1>3, <1>4, <1>5

\* Dead-lettering keeps the invariant: the letter and its notice come together.
LEMMA DeadLetterStep ==
  ASSUME MailboxInv, NEW w \in Worker, DeadLetter(w) PROVE MailboxInv'
<1> DEFINE d == work[w]
           r == Released(row[d], "dead-lettered")
           rows == [row EXCEPT ![d] = r]
<1>1. /\ d # None /\ d \in Delivery /\ row[d] \in Row
      /\ row[d].status = "leased" /\ row[d].attempts < MaxAttempts
  BY Held DEF DeadLetter
<1>2. r \in Row /\ r.owner = None /\ r.status = "dead-lettered" /\ r.attempts = row[d].attempts
  BY <1>1, RowShapes DEF Status
<1>3. row' = WithNotice(rows, d) /\ dead' = dead \cup {d} /\ work' = [work EXCEPT ![w] = None]
  BY DEF DeadLetter
<1> HIDE DEF r
<1>4. rows \in [Delivery -> Row] /\ rows[d] = r /\ \A e \in Delivery \ {d} : rows[e] = row[e]
  BY <1>1, <1>2 DEF MailboxInv, TypeOK
<1> HIDE DEF rows
<1>5. PICK m \in Message, k \in 0..2 : d = <<m, k>>
  BY <1>1 DEF Delivery
<1>6. k # 2
  BY <1>1, <1>5 DEF MailboxInv, DeadLettersAreNoticed
<1>7. CASE k = 1
  <2>1. row' = rows
    BY <1>3, <1>5, <1>7 DEF WithNotice, IsNotice
  <2>2. TypeOK'
    BY <1>1, <1>2, <1>3, <1>4, <2>1 DEF MailboxInv, TypeOK
  <2>3. HeldByWorker'
    BY <1>1, <1>2, <1>3, <1>4, <2>1 DEF MailboxInv, TypeOK, HeldByWorker
  <2>4. AttemptsLeft' /\ DeadAreLettered'
    BY <1>1, <1>2, <1>3, <1>4, <2>1 DEF MailboxInv, AttemptsLeft, DeadAreLettered
  <2>5. DeadLettersAreNoticed'
    <3>1. \A n \in Message : row'[<<n, 0>>] = row[<<n, 0>>] /\ row'[<<n, 2>>] = row[<<n, 2>>]
      BY <1>4, <1>5, <1>7, <2>1, DeliveryShape
    <3>2. \A n \in Message : row'[<<n, 1>>].status = "none" <=> row[<<n, 1>>].status = "none"
      BY <1>1, <1>2, <1>4, <2>1, DeliveryShape
    <3> QED BY <3>1, <3>2 DEF MailboxInv, DeadLettersAreNoticed
  <2> QED BY <2>2, <2>3, <2>4, <2>5 DEF MailboxInv
<1>8. CASE k = 0
  <2> DEFINE n == <<m, 1>>
  <2>1. n \in Delivery /\ n # d /\ row[n].status = "none"
    BY <1>1, <1>5, <1>8, DeliveryShape DEF MailboxInv, DeadLettersAreNoticed
  <2>2. ~IsNotice(d) /\ NoticeOf(d) = n
    BY <1>5, <1>8 DEF IsNotice, NoticeOf
  <2>3. row' = [rows EXCEPT ![n] = Enqueued]
    BY <1>3, <1>4, <2>1, <2>2 DEF WithNotice
  <2>4. /\ Enqueued \in Row /\ Enqueued.owner = None
        /\ Enqueued.status = "pending" /\ Enqueued.attempts = 0
    BY RowShapes
  <2>5. /\ row' \in [Delivery -> Row]
        /\ row'[n] = Enqueued /\ row'[d] = r
        /\ \A e \in Delivery \ {d, n} : row'[e] = row[e]
    BY <1>1, <1>4, <2>1, <2>3, <2>4
  <2> HIDE DEF n
  <2>6. TypeOK'
    BY <1>1, <1>2, <1>3, <2>1, <2>4, <2>5 DEF MailboxInv, TypeOK
  <2>7. HeldByWorker'
    BY <1>1, <1>2, <1>3, <2>1, <2>4, <2>5 DEF MailboxInv, TypeOK, HeldByWorker
  <2>8. AttemptsLeft' /\ DeadAreLettered'
    BY <1>1, <1>2, <1>3, <2>1, <2>4, <2>5, MailboxAssumption
       DEF MailboxInv, AttemptsLeft, DeadAreLettered
  <2>9. DeadLettersAreNoticed'
    <3>1. \A q \in Message \ {m} :
            /\ row'[<<q, 0>>] = row[<<q, 0>>]
            /\ row'[<<q, 1>>] = row[<<q, 1>>]
      BY <1>5, <1>8, <2>5, DeliveryShape DEF n
    <3>2. \A q \in Message : row'[<<q, 2>>] = row[<<q, 2>>]
      BY <1>5, <1>8, <2>5, DeliveryShape DEF n
    <3>3. row'[<<m, 0>>].status = "dead-lettered" /\ row'[<<m, 1>>].status = "pending"
      BY <1>2, <1>5, <1>8, <2>4, <2>5 DEF n
    <3> QED BY <3>1, <3>2, <3>3 DEF MailboxInv, DeadLettersAreNoticed
  <2> QED BY <2>6, <2>7, <2>8, <2>9 DEF MailboxInv
<1> QED BY <1>5, <1>6, <1>7, <1>8

\* The clock and a worker's crash keep the invariant.
LEMMA EnvironmentStep ==
  ASSUME MailboxInv, \/ \E d \in Delivery : ComeDue(d) \/ Lapse(d)
                     \/ \E w \in Worker : Crash(w)
  PROVE  MailboxInv'
<1>1. ASSUME NEW d \in Delivery, ComeDue(d) \/ Lapse(d) PROVE MailboxInv'
  <2>1. PICK r \in Row : /\ row' = [row EXCEPT ![d] = r]
                         /\ r.status = row[d].status /\ r.owner = row[d].owner
                         /\ r.attempts = row[d].attempts
    <3>1. row[d] \in Row
      BY DEF MailboxInv, TypeOK
    <3> DEFINE due == [row[d] EXCEPT !.due = TRUE]
               lapsed == [row[d] EXCEPT !.lapsed = TRUE]
    <3>2. /\ due \in Row /\ due.status = row[d].status /\ due.owner = row[d].owner
          /\ due.attempts = row[d].attempts
      BY <3>1 DEF Row
    <3>3. /\ lapsed \in Row /\ lapsed.status = row[d].status /\ lapsed.owner = row[d].owner
          /\ lapsed.attempts = row[d].attempts
      BY <3>1 DEF Row
    <3>4. row' = [row EXCEPT ![d] = due] \/ row' = [row EXCEPT ![d] = lapsed]
      BY <1>1 DEF ComeDue, Lapse
    <3> HIDE DEF due, lapsed
    <3> QED BY <3>2, <3>3, <3>4
  <2>2. /\ row' \in [Delivery -> Row]
        /\ row'[d] = r
        /\ \A e \in Delivery \ {d} : row'[e] = row[e]
    BY <2>1, RowUpdate DEF MailboxInv, TypeOK
  <2>3. dead' = dead /\ work' = work
    BY <1>1 DEF ComeDue, Lapse
  <2>4. TypeOK'
    BY <2>1, <2>2, <2>3 DEF MailboxInv, TypeOK
  <2>5. HeldByWorker'
    BY <2>1, <2>2, <2>3 DEF MailboxInv, TypeOK, HeldByWorker
  <2>6. AttemptsLeft' /\ DeadAreLettered'
    BY <2>1, <2>2, <2>3 DEF MailboxInv, AttemptsLeft, DeadAreLettered
  <2>7. DeadLettersAreNoticed'
    BY <2>1, <2>2, NoticesKept DEF MailboxInv
  <2> QED BY <2>4, <2>5, <2>6, <2>7 DEF MailboxInv
<1>2. ASSUME NEW w \in Worker, Crash(w) PROVE MailboxInv'
  BY <1>2 DEF Crash, MailboxInv, TypeOK, HeldByWorker, AttemptsLeft, DeadAreLettered,
              DeadLettersAreNoticed
<1> QED BY <1>1, <1>2

\* Every step keeps the invariant.
LEMMA MailboxStep == MailboxInv /\ [Next]_vars => MailboxInv'
<1> SUFFICES ASSUME MailboxInv, [Next]_vars PROVE MailboxInv'
  OBVIOUS
<1>1. CASE Next
  BY <1>1, EnqueueStep, LeaseStep, OutcomeStep, DeadLetterStep, EnvironmentStep DEF Next
<1>2. CASE UNCHANGED vars
  BY <1>2 DEF vars, MailboxInv, TypeOK, HeldByWorker, AttemptsLeft, DeadAreLettered,
              DeadLettersAreNoticed
<1> QED BY <1>1, <1>2

\* The invariant holds in every reachable state.
LEMMA MailboxInvariance == Spec => []MailboxInv
BY MailboxInit, MailboxStep, PTL DEF Spec

\* Every row has its columns' types, and exactly the leased rows have an owner.
THEOREM MailboxTypes == Spec => []TypeOK
BY MailboxInvariance, PTL DEF MailboxInv

\* A delivery is attempted by one worker at a time, with any number of workers,
\* crashes and lapsed leases.
THEOREM AttemptsAreExclusive == Spec => []AttemptIsExclusive
<1>1. MailboxInv => AttemptIsExclusive
  BY DEF MailboxInv, HeldByWorker, AttemptIsExclusive
<1> QED BY <1>1, MailboxInvariance, PTL

\* A dead letter and its notice are never apart.
THEOREM NoticesComeWithLetters == Spec => []DeadLettersAreNoticed
BY MailboxInvariance, PTL DEF MailboxInv

\* An outcome that checks neither status nor owner still never reopens a
\* settled delivery, since no attempt of it is left when it settles.
THEOREM SettledDeliveriesStay == Spec => SettledStays
<1>1. MailboxInv /\ [Next]_vars
        => [\A d \in Delivery : row[d].status \in Settled => row'[d] = row[d]]_vars
  <2> SUFFICES ASSUME MailboxInv, Next, NEW d \in Delivery, row[d].status \in Settled
               PROVE  row'[d] = row[d]
    OBVIOUS
  <2>1. row \in [Delivery -> Row]
    BY DEF MailboxInv, TypeOK
  <2>2. ASSUME NEW w \in Worker, work[w] # None PROVE work[w] \in Delivery \ {d}
    BY <2>2, Held DEF Settled
  <2>3. CASE \E m \in Message : Enqueue(m)
    BY <2>1, <2>3 DEF Enqueue, Settled
  <2>4. CASE \E w \in Worker, e \in Delivery : Lease(w, e)
    BY <2>1, <2>4 DEF Lease, Leasable, Settled
  <2>5. CASE \E w \in Worker : Accept(w) \/ Retry(w) \/ Defer(w)
    BY <2>1, <2>2, <2>5 DEF Accept, Retry, Defer
  <2>6. CASE \E w \in Worker : DeadLetter(w)
    <3>1. PICK w \in Worker : DeadLetter(w)
      BY <2>6
    <3> DEFINE rows == [row EXCEPT ![work[w]] = Released(row[work[w]], "dead-lettered")]
    <3>2. rows[d] = row[d] /\ rows \in [Delivery -> Row]
      BY <2>1, <2>2, <3>1, Held, RowShapes DEF DeadLetter, Status
    <3>3. row' = WithNotice(rows, work[w])
      BY <3>1 DEF DeadLetter
    <3> HIDE DEF rows
    <3>4. WithNotice(rows, work[w])[d] = rows[d]
      BY <3>2 DEF WithNotice, Settled
    <3> QED BY <3>2, <3>3, <3>4
  <2>7. CASE \E e \in Delivery : ComeDue(e) \/ Lapse(e)
    BY <2>1, <2>7 DEF ComeDue, Lapse, Settled, MailboxInv, TypeOK
  <2>8. CASE \E w \in Worker : Crash(w)
    BY <2>8 DEF Crash
  <2> QED BY <2>3, <2>4, <2>5, <2>6, <2>7, <2>8 DEF Next
<1> QED BY <1>1, MailboxInvariance, PTL DEF Spec, SettledStays
=============================================================================
