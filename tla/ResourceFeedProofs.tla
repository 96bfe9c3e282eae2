-------------------------- MODULE ResourceFeedProofs --------------------------
(***************************************************************************)
(* What holds of the resource channel for any resources, any number of     *)
(* rows, broken sockets and failing requests, as long as nobody prunes.    *)
(***************************************************************************)
EXTENDS ResourceFeed, SequenceTheorems, TLAPS

-----------------------------------------------------------------------------
\* A resource's version is the row of its last change.
Versioned ==
  /\ \A r \in Resource : version[r] # 0 => log[version[r]] = r
  /\ \A n \in 1..HighWater : n <= version[log[n]]

\* A list answers for every listed run whose last change it was read after.
Truthful(list) ==
  /\ list.asOf <= HighWater
  /\ \A r \in Resource :
       /\ list.rows[r] <= version[r]
       /\ r \in listed /\ version[r] <= list.asOf => list.rows[r] = version[r]

OnWire(n) == \E k \in 1..Len(wire) : wire[k] = n

\* Whatever a list does not cover is still to be fanned, under way, or in the
\* store: the reason why a list fetched once the socket has joined is enough.
Accounted(asOf) ==
  \A n \in 1..HighWater :
    n <= asOf \/ delivered < n \/ OnWire(n) \/ n <= store[log[n]]

Covered ==
  conn = "open" =>
    /\ fetch["runs"].status = "answered" => Accounted(fetch["runs"].list.asOf)
    /\ fetch["runs"].status = "idle" => Accounted(seed["runs"].asOf)

FeedInv ==
  /\ TypeOK
  /\ Versioned
  /\ Truthful(fetch["runs"].list) /\ Truthful(seed["runs"])
  /\ Covered

-----------------------------------------------------------------------------
\* The rows after a cursor are all of them.
LEMMA AllRowsAfter ==
  ASSUME TypeOK, NEW c \in 0..HighWater
  PROVE  /\ RowsAfter(c) \in Seq(1..HighWater)
         /\ Len(RowsAfter(c)) = HighWater - c
         /\ \A n \in (c + 1)..HighWater : RowsAfter(c)[n - c] = n
<1> DEFINE rows == [n \in 1..HighWater |-> n]
<1>1. HighWater \in Nat
  BY LenProperties DEF TypeOK, HighWater
<1>2. RowsAfter(c) = SubSeq(rows, c + 1, HighWater)
  BY <1>1 DEF RowsAfter
<1>3. \A i \in (c + 1)..HighWater : rows[i] = i /\ rows[i] \in 1..HighWater
  BY <1>1
<1> HIDE DEF rows
<1>4. /\ SubSeq(rows, c + 1, HighWater) \in Seq(1..HighWater)
      /\ Len(SubSeq(rows, c + 1, HighWater)) = HighWater - c
      /\ \A i \in 1..(HighWater - c) : SubSeq(rows, c + 1, HighWater)[i] = rows[c + i]
  BY <1>1, <1>3, SubSeqProperties
<1> QED
  BY <1>1, <1>2, <1>3, <1>4

\* The constants of a request.
LEMMA RequestShapes ==
  /\ Sent \in Request /\ Nothing \in Snapshot
  /\ "runs" \in List /\ "contracts" \in List
  /\ [status |-> "idle", list |-> Nothing] \in Request
  /\ [status |-> "failed", list |-> Nothing] \in Request
  /\ \A q \in Request : q.list \in Snapshot
  /\ Silent \notin 0..MaxRows
<1>1. Nothing \in Snapshot
  BY FeedAssumption DEF Nothing, Snapshot
<1> QED
  BY <1>1, FeedAssumption DEF Request, Sent, List, Silent

\* Nothing is known of anything at first.
LEMMA FeedInitial == Init => FeedInv
<1> SUFFICES ASSUME Init PROVE FeedInv
  OBVIOUS
<1>1. HighWater = 0 /\ log \in Seq(Resource) /\ wire \in Seq(1..HighWater) /\ Len(wire) = 0
  BY DEF Init, HighWater
<1>2. TypeOK
  BY <1>1, RequestShapes, FeedAssumption DEF Init, TypeOK
<1>3. Versioned
  BY <1>1 DEF Init, Versioned
<1>4. Truthful(Nothing)
  BY <1>1 DEF Init, Truthful, Nothing
<1>5. fetch["runs"].list = Nothing /\ seed["runs"] = Nothing
  BY DEF Init, Sent, List
<1> QED
  BY <1>2, <1>3, <1>4, <1>5 DEF FeedInv, Covered, Init

-----------------------------------------------------------------------------
\* The numbers and sequences of a state.
LEMMA Shapes ==
  ASSUME TypeOK
  PROVE  /\ HighWater \in Nat /\ HighWater \in 0..MaxRows /\ Len(wire) \in Nat
         /\ \A n \in 1..HighWater : log[n] \in Resource
         /\ \A k \in 1..Len(wire) : wire[k] \in 1..HighWater
         /\ fetch["runs"] \in Request /\ fetch["runs"].list \in Snapshot
         /\ seed["runs"] \in Snapshot
         /\ \A r \in Resource : version[r] \in 0..HighWater /\ store[r] \in 0..HighWater
         /\ seed["runs"].asOf \in Nat /\ \A r \in Resource : seed["runs"].rows[r] \in Nat
<1>1. /\ HighWater \in Nat /\ HighWater \in 0..MaxRows /\ Len(wire) \in Nat
      /\ \A n \in 1..HighWater : log[n] \in Resource
      /\ \A k \in 1..Len(wire) : wire[k] \in 1..HighWater
      /\ fetch["runs"] \in Request /\ fetch["runs"].list \in Snapshot
      /\ seed["runs"] \in Snapshot
  <2>1. /\ log \in Seq(Resource) /\ wire \in Seq(1..HighWater) /\ HighWater = Len(log)
        /\ HighWater <= MaxRows
    BY DEF TypeOK, HighWater
  <2>2. /\ HighWater \in Nat /\ HighWater \in 0..MaxRows /\ Len(wire) \in Nat
    BY <2>1, LenProperties, FeedAssumption
  <2>3. \A n \in 1..HighWater : log[n] \in Resource
    BY <2>1, ElementOfSeq
  <2>4. \A k \in 1..Len(wire) : wire[k] \in 1..HighWater
    BY <2>1, ElementOfSeq
  <2>5. /\ fetch["runs"] \in Request /\ fetch["runs"].list \in Snapshot
        /\ seed["runs"] \in Snapshot
    BY RequestShapes DEF TypeOK
  <2> QED
    BY <2>2, <2>3, <2>4, <2>5
<1>2. \A r \in Resource : version[r] \in 0..HighWater /\ store[r] \in 0..HighWater
  BY DEF TypeOK
<1>3. seed["runs"].asOf \in 0..MaxRows /\ seed["runs"].rows \in [Resource -> 0..MaxRows]
  BY <1>1 DEF Snapshot
<1> QED
  BY <1>1, <1>2, <1>3, FeedAssumption

\* An event in the store is never newer than its resource.
LEMMA StoreIsOld ==
  ASSUME TypeOK, Versioned, NEW r \in Resource
  PROVE  store[r] <= version[r]
<1>1. store[r] \in 0..HighWater /\ version[r] \in 0..HighWater /\ HighWater \in Nat
  BY Shapes
<1>2. CASE store[r] = 0
  BY <1>1, <1>2
<1>3. CASE store[r] # 0
  <2>1. store[r] \in 1..HighWater /\ log[store[r]] = r
    BY <1>1, <1>3 DEF TypeOK
  <2> QED
    BY <2>1 DEF Versioned
<1> QED
  BY <1>2, <1>3

\* A new row touches nobody's knowledge: it is not delivered yet.
LEMMA CommitStep == ASSUME FeedInv, NEW r \in Resource, Commit(r) PROVE FeedInv'
<1>1. TypeOK /\ HighWater \in Nat /\ HighWater < MaxRows
  BY Shapes DEF FeedInv, Commit
<1>2. /\ log' \in Seq(Resource) /\ HighWater' = HighWater + 1
      /\ \A n \in 1..HighWater : log'[n] = log[n]
      /\ log'[HighWater + 1] = r
  BY <1>1 DEF Commit, TypeOK, HighWater
<1>3. wire' \in Seq(1..HighWater')
  <2>1. 0..HighWater \subseteq 0..HighWater' /\ 1..HighWater \subseteq 1..HighWater'
    BY <1>1, <1>2
  <2> QED
    BY <1>1, <2>1, SeqMonotonic DEF Commit, TypeOK, pageVars
<1>4. version' \in [Resource -> 0..HighWater'] /\ version'[r] = HighWater + 1
      /\ \A s \in Resource \ {r} : version'[s] = version[s]
  BY <1>1, <1>2 DEF Commit, TypeOK
<1>5. TypeOK'
  <2>1. 0..HighWater \subseteq 0..HighWater' /\ 1..HighWater \subseteq 1..HighWater'
    BY <1>1, <1>2
  <2>2. \A s \in Resource : store[s] # 0 => log'[store[s]] = s
    <3>1. ASSUME NEW s \in Resource, store[s] # 0 PROVE log'[store[s]] = s
      <4>1. store[s] \in 1..HighWater
        BY <1>1, <3>1, Shapes
      <4>2. log[store[s]] = s
        BY <1>1, <3>1 DEF TypeOK
      <4> QED
        BY <1>2, <4>1, <4>2
    <3> QED
      BY <3>1
  <2>3. HighWater' <= MaxRows /\ UNCHANGED <<listed, delivered, conn, wire, up, cursor,
          store, fetch, seed, breaks, failures>>
    BY <1>1, <1>2, FeedAssumption DEF Commit, pageVars
  <2> QED
    BY <1>1, <1>2, <1>3, <1>4, <2>1, <2>2, <2>3 DEF TypeOK
<1>6. Versioned'
  <2>1. ASSUME NEW s \in Resource, version'[s] # 0 PROVE log'[version'[s]] = s
    <3>1. CASE s = r
      BY <1>2, <1>4, <3>1
    <3>2. CASE s # r
      <4>1. version'[s] = version[s] /\ version[s] \in 1..HighWater
        BY <1>1, <1>4, <2>1, <3>2, Shapes
      <4>2. log[version[s]] = s
        BY <2>1, <4>1 DEF FeedInv, Versioned
      <4> QED
        BY <1>2, <4>1, <4>2
    <3> QED
      BY <3>1, <3>2
  <2>2. ASSUME NEW n \in 1..HighWater' PROVE n <= version'[log'[n]]
    <3>1. CASE n = HighWater + 1
      BY <1>1, <1>2, <1>4, <3>1
    <3>2. CASE n # HighWater + 1
      <4>1. n \in 1..HighWater /\ log'[n] = log[n] /\ log[n] \in Resource
        BY <1>1, <1>2, <2>2, <3>2, Shapes
      <4>2. n <= version[log[n]] /\ version[log[n]] \in 0..HighWater
        BY <1>1, <4>1, Shapes DEF FeedInv, Versioned
      <4> QED
        BY <1>1, <1>4, <4>1, <4>2
    <3> QED
      BY <3>1, <3>2
  <2> QED
    BY <2>1, <2>2 DEF Versioned
<1>7. ASSUME NEW list \in Snapshot, Truthful(list)
      PROVE  Truthful(list)'
  <2>1. listed' = listed
    BY DEF Commit
  <2>2. /\ list.asOf \in Nat /\ list.asOf <= HighWater
        /\ list.rows \in [Resource -> 0..MaxRows]
    BY <1>7, FeedAssumption DEF Snapshot, Truthful
  <2>3. ASSUME NEW s \in Resource
        PROVE  /\ list.rows[s] <= version'[s]
               /\ s \in listed /\ version'[s] <= list.asOf => list.rows[s] = version'[s]
    <3>1. /\ version[s] \in 0..HighWater /\ list.rows[s] \in Nat
          /\ list.rows[s] <= version[s]
          /\ s \in listed /\ version[s] <= list.asOf => list.rows[s] = version[s]
      BY <1>1, <1>7, <2>2, FeedAssumption, Shapes DEF Truthful
    <3>2. CASE s = r
      BY <1>1, <1>4, <2>2, <3>1, <3>2
    <3>3. CASE s # r
      BY <1>4, <3>1, <3>3
    <3> QED
      BY <3>2, <3>3
  <2> QED
    BY <1>1, <1>2, <2>1, <2>2, <2>3 DEF Truthful
<1>8. ASSUME NEW asOf \in 0..MaxRows, Accounted(asOf)
      PROVE  Accounted(asOf)'
  <2>1. UNCHANGED <<delivered, wire, store>> /\ delivered \in 0..HighWater
    BY <1>1 DEF Commit, TypeOK, pageVars
  <2>2. ASSUME NEW n \in 1..HighWater'
        PROVE  n <= asOf \/ delivered' < n \/ OnWire(n)' \/ n <= store'[log'[n]]
    <3>1. CASE n = HighWater + 1
      BY <1>1, <2>1, <3>1
    <3>2. CASE n # HighWater + 1
      <4>1. n \in 1..HighWater /\ log'[n] = log[n]
        BY <1>1, <1>2, <2>2, <3>2
      <4> QED
        BY <1>8, <2>1, <4>1 DEF Accounted, OnWire
    <3> QED
      BY <3>1, <3>2
  <2> QED
    BY <2>2 DEF Accounted
<1>9. Covered'
  BY <1>1, <1>8, Shapes DEF FeedInv, Covered, Commit, pageVars, Snapshot
<1> QED
  BY <1>1, <1>5, <1>6, <1>7, <1>9, Shapes DEF FeedInv, Commit, pageVars

\* A run that leaves the list makes it say less, not something else.
LEMMA AgeOutStep == ASSUME FeedInv, NEW r \in Run, AgeOut(r) PROVE FeedInv'
<1>1. TypeOK'
  BY DEF FeedInv, AgeOut, TypeOK, pageVars, HighWater
<1>2. Versioned'
  BY DEF FeedInv, AgeOut, Versioned, HighWater
<1>3. \A list : Truthful(list) => Truthful(list)'
  BY DEF AgeOut, Truthful, HighWater
<1>4. Covered'
  BY DEF FeedInv, AgeOut, Covered, Accounted, OnWire, HighWater, pageVars
<1> QED
  BY <1>1, <1>2, <1>3, <1>4 DEF FeedInv, AgeOut, pageVars

\* Steps that move frames, with the server's tables and the lists left alone.
LEMMA FramesMove ==
  ASSUME FeedInv, TypeOK',
         UNCHANGED <<log, version, listed, fetch, seed>>,
         \A n \in 1..HighWater :
           delivered < n \/ OnWire(n) \/ n <= store[log[n]]
             => (delivered < n \/ OnWire(n) \/ n <= store[log[n]])',
         conn' = "open" => conn = "open"
  PROVE  FeedInv'
<1>1. Versioned' /\ HighWater' = HighWater
  BY DEF FeedInv, Versioned, HighWater
<1>2. \A list : Truthful(list) => Truthful(list)'
  BY DEF Truthful, HighWater
<1>3. \A asOf : Accounted(asOf) => Accounted(asOf)'
  BY <1>1 DEF Accounted
<1> QED
  BY <1>1, <1>2, <1>3 DEF FeedInv, Covered

\* Frames appended to the wire keep what was there and bring what they carry.
LEMMA WireGrows ==
  ASSUME TypeOK, NEW rows \in Seq(1..HighWater), wire' = wire \o rows
  PROVE  /\ wire' \in Seq(1..HighWater)
         /\ \A n : OnWire(n) => OnWire(n)'
         /\ \A k \in 1..Len(rows) : OnWire(rows[k])'
<1>1. /\ wire \o rows \in Seq(1..HighWater)
      /\ Len(wire \o rows) = Len(wire) + Len(rows)
      /\ \A i \in 1..(Len(wire) + Len(rows)) :
           (wire \o rows)[i] = IF i <= Len(wire) THEN wire[i] ELSE rows[i - Len(wire)]
  BY ConcatProperties DEF TypeOK
<1>2. Len(wire) \in Nat /\ Len(rows) \in Nat
  BY LenProperties DEF TypeOK
<1>3. ASSUME NEW n, OnWire(n) PROVE OnWire(n)'
  BY <1>1, <1>2, <1>3 DEF OnWire
<1>4. ASSUME NEW k \in 1..Len(rows) PROVE OnWire(rows[k])'
  <2>1. Len(wire) + k \in 1..Len(wire') /\ wire'[Len(wire) + k] = rows[k]
    BY <1>1, <1>2
  <2> QED
    BY <2>1 DEF OnWire
<1> QED
  BY <1>1, <1>3, <1>4

\* Rows that are fanned move from the outbox onto the wire.
LEMMA DrainStep == ASSUME FeedInv, Drain PROVE FeedInv'
<1>1. TypeOK /\ delivered \in 0..HighWater /\ HighWater \in Nat
  BY Shapes DEF FeedInv, TypeOK
<1>2. HighWater' = HighWater
  BY DEF Drain, HighWater
<1>3. CASE conn = "closed"
  <2>1. TypeOK'
    BY <1>1, <1>2, <1>3 DEF Drain, TypeOK, pageVars
  <2>2. FeedInv'
    BY <1>2, <1>3, <2>1 DEF FeedInv, Drain, Versioned, Truthful, Covered, pageVars
  <2> QED
    BY <2>2
<1>4. CASE conn # "closed"
  <2>1. wire' = wire \o RowsAfter(delivered) /\ RowsAfter(delivered) \in Seq(1..HighWater)
    BY <1>1, <1>4, AllRowsAfter DEF Drain
  <2>2. TypeOK'
    BY <1>1, <1>2, <1>4, <2>1, WireGrows DEF Drain, TypeOK, pageVars
  <2>3. ASSUME NEW n \in 1..HighWater, delivered < n PROVE OnWire(n)'
    <3>1. /\ Len(RowsAfter(delivered)) = HighWater - delivered
          /\ \A k \in (delivered + 1)..HighWater : RowsAfter(delivered)[k - delivered] = k
      BY <1>1, AllRowsAfter
    <3>2. n \in (delivered + 1)..HighWater /\ n - delivered \in 1..(HighWater - delivered)
      BY <1>1, <2>3
    <3> QED
      BY <1>1, <2>1, <3>1, <3>2, WireGrows
  <2>4. \A n \in 1..HighWater : OnWire(n) => OnWire(n)'
    BY <1>1, <2>1, WireGrows
  <2> QED
    BY <2>2, <2>3, <2>4, FramesMove DEF Drain, pageVars
<1> QED
  BY <1>3, <1>4

\* A replay puts rows on the wire a second time, behind what is on it.
LEMMA CatchUpStep == ASSUME FeedInv, CatchUp PROVE FeedInv'
<1>1. TypeOK /\ up \in 0..HighWater /\ HighWater \in Nat
  BY Shapes DEF FeedInv, TypeOK, CatchUp
<1>2. HighWater' = HighWater
  BY DEF CatchUp, serverVars, HighWater
<1>3. /\ wire' \in Seq(1..HighWater)
      /\ \A n : OnWire(n) => OnWire(n)'
      /\ wire' = wire \/ conn # "closed"
  <2>2. wire' = wire \/ wire' = wire \o RowsAfter(up)
    BY DEF CatchUp
  <2>3. conn # "closed"
    BY <1>1 DEF TypeOK, CatchUp
  <2>4. RowsAfter(up) \in Seq(1..HighWater)
    BY <1>1, AllRowsAfter
  <2> QED
    BY <1>1, <2>2, <2>3, <2>4, WireGrows DEF TypeOK, OnWire
<1>4. TypeOK'
  BY <1>1, <1>2, <1>3 DEF CatchUp, TypeOK, pageVars, serverVars
<1> QED
  BY <1>3, <1>4, FramesMove DEF CatchUp, pageVars, serverVars

\* The first of a sequence.
LEMMA HeadIsFirst == ASSUME NEW S, NEW s \in Seq(S), s # <<>> PROVE Head(s) = s[1]
  OBVIOUS

\* The frame taken off the wire is in the store from then on.
LEMMA ReceiveStep == ASSUME FeedInv, ReceiveRow PROVE FeedInv'
<1> DEFINE m == Head(wire)
<1>1. TypeOK /\ HighWater \in Nat /\ \A n \in 1..HighWater : log[n] \in Resource
  BY Shapes DEF FeedInv
<1>2. HighWater' = HighWater
  BY DEF ReceiveRow, serverVars, HighWater
<1>3. /\ m \in 1..HighWater /\ m = wire[1]
      /\ Tail(wire) \in Seq(1..HighWater) /\ Len(Tail(wire)) = Len(wire) - 1
      /\ \A i \in 1..Len(Tail(wire)) : Tail(wire)[i] = wire[i + 1]
  <2>1. wire \in Seq(1..HighWater) /\ wire # <<>>
    BY <1>1 DEF ReceiveRow, TypeOK
  <2> QED
    BY <2>1, HeadTailProperties, HeadIsFirst
<1>4. m \in 1..HighWater /\ store \in [Resource -> 0..HighWater] /\ log[m] \in Resource
  BY <1>1, <1>3 DEF ReceiveRow, TypeOK
<1>5. /\ store' = [store EXCEPT ![log[m]] = Wins(@, m)]
      /\ wire' = Tail(wire) /\ cursor' = m
  BY DEF ReceiveRow
<1> HIDE DEF m
<1>6. /\ store' \in [Resource -> 0..HighWater]
      /\ m <= store'[log[m]]
      /\ \A r \in Resource : store[r] <= store'[r]
      /\ \A r \in Resource : store'[r] = store[r] \/ (store'[r] = m /\ r = log[m])
  BY <1>1, <1>4, <1>5 DEF Wins
<1>7. TypeOK'
  <2>1. /\ wire' \in Seq(1..HighWater') /\ cursor' \in 0..HighWater'
        /\ store' \in [Resource -> 0..HighWater']
    BY <1>1, <1>2, <1>3, <1>4, <1>5, <1>6
  <2>2. \A r \in Resource : store'[r] # 0 => log[store'[r]] = r
    BY <1>1, <1>6 DEF TypeOK
  <2> QED
    BY <1>1, <1>2, <2>1, <2>2 DEF ReceiveRow, TypeOK, serverVars
<1>8. ASSUME NEW n \in 1..HighWater, OnWire(n), n # m PROVE OnWire(n)'
  <2>1. PICK k \in 1..Len(wire) : wire[k] = n
    BY <1>8 DEF OnWire
  <2>2. Len(wire) \in Nat /\ k # 1
    BY <1>1, <1>3, <1>8, <2>1, LenProperties DEF TypeOK
  <2>3. k - 1 \in 1..Len(wire') /\ wire'[k - 1] = n
    BY <1>3, <1>5, <2>1, <2>2
  <2> QED
    BY <2>3 DEF OnWire
<1>9. \A n \in 1..HighWater : n <= store[log[n]] => n <= store'[log[n]]
  BY <1>1, <1>4, <1>6
<1> QED
  BY <1>6, <1>7, <1>8, <1>9, FramesMove DEF ReceiveRow, serverVars

\* An answer covers every row there is.
LEMMA AnswerStep == ASSUME FeedInv, NEW l \in List, Answer(l) PROVE FeedInv'
<1> DEFINE list == [asOf |-> HighWater, rows |-> Listing(l)]
<1>1. TypeOK /\ HighWater \in 0..MaxRows /\ HighWater \in Nat /\ HighWater' = HighWater
  BY Shapes DEF FeedInv, Answer, serverVars, HighWater
<1>2. Listing(l) \in [Resource -> 0..MaxRows] /\ list \in Snapshot
  BY <1>1, FeedAssumption DEF Listing, TypeOK, Snapshot
<1>3. [status |-> "answered", list |-> list] \in Request
  BY <1>2 DEF Request
<1>4. fetch' = [fetch EXCEPT ![l] = [status |-> "answered", list |-> list]]
  BY DEF Answer
<1>5. l = "runs" => Truthful(list)
  BY <1>1, FeedAssumption DEF Truthful, Listing, TypeOK
<1>6. Accounted(list.asOf)
  BY <1>1 DEF Accounted
<1> HIDE DEF list
<1>7. TypeOK'
  BY <1>1, <1>3, <1>4 DEF Answer, TypeOK, serverVars
<1>8. \A other : Truthful(other)' <=> Truthful(other)
  BY DEF Truthful, Answer, serverVars, HighWater
<1>9. \A asOf : Accounted(asOf)' <=> Accounted(asOf)
  BY DEF Accounted, OnWire, Answer, serverVars, HighWater
<1>10. CASE l = "runs"
  <2>1. fetch'["runs"] = [status |-> "answered", list |-> list]
    BY <1>1, <1>4, <1>10 DEF TypeOK
  <2> QED
    BY <1>1, <1>5, <1>6, <1>7, <1>8, <1>9, <2>1
    DEF FeedInv, Covered, Versioned, Answer, serverVars
<1>11. CASE l # "runs"
  <2>1. fetch'["runs"] = fetch["runs"]
    BY <1>1, <1>4, <1>11, RequestShapes DEF TypeOK
  <2> QED
    BY <1>1, <1>7, <1>8, <1>9, <2>1 DEF FeedInv, Covered, Versioned, Answer, serverVars
<1> QED
  BY <1>10, <1>11

\* Steps of the page that leave the server, the socket and the store alone.
LEMMA ListMoves ==
  ASSUME FeedInv, TypeOK',
         UNCHANGED <<serverVars, conn, wire, store>>,
         \/ fetch'["runs"] = fetch["runs"] /\ seed'["runs"] = seed["runs"]
         \/ fetch'["runs"] = Sent /\ seed'["runs"] = seed["runs"]
         \/ fetch'["runs"] = [status |-> "failed", list |-> Nothing] /\ seed'["runs"] = seed["runs"]
         \/ /\ fetch["runs"].status = "answered"
            /\ fetch'["runs"] = [status |-> "idle", list |-> Nothing]
            /\ seed'["runs"] = fetch["runs"].list
  PROVE  FeedInv'
<1>1. \A list : Truthful(list)' <=> Truthful(list)
  BY DEF Truthful, serverVars, HighWater
<1>2. \A asOf : Accounted(asOf)' <=> Accounted(asOf)
  BY DEF Accounted, OnWire, serverVars, HighWater
<1>3. Truthful(Nothing)
  BY Shapes DEF FeedInv, Truthful, Nothing, TypeOK
<1> QED
  BY <1>1, <1>2, <1>3 DEF FeedInv, Covered, Versioned, serverVars, HighWater, Sent

\* Lists adopted, failed or asked for again.
LEMMA PageStep ==
  ASSUME FeedInv, Retry \/ \E l \in List : Adopt(l) \/ FetchFails(l)
  PROVE  FeedInv'
<1>1. TypeOK /\ HighWater' = HighWater
  BY DEF FeedInv, Retry, Adopt, FetchFails, serverVars, HighWater
<1>2. CASE Retry
  <2>1. TypeOK'
    BY <1>1, <1>2, RequestShapes DEF Retry, TypeOK, serverVars
  <2>2. fetch'["runs"] = Sent
    BY <1>1, <1>2, RequestShapes DEF Retry, TypeOK
  <2> QED
    BY <1>2, <2>1, <2>2, ListMoves DEF Retry
<1>3. ASSUME NEW l \in List, Adopt(l) PROVE FeedInv'
  <2>1. fetch[l].list \in Snapshot
    BY <1>1, RequestShapes DEF TypeOK
  <2>2. TypeOK'
    BY <1>1, <1>3, <2>1, RequestShapes DEF Adopt, TypeOK, serverVars
  <2>3. CASE l = "runs"
    BY <1>1, <1>3, <2>2, <2>3, ListMoves DEF Adopt, TypeOK
  <2>4. CASE l # "runs"
    BY <1>1, <1>3, <2>2, <2>4, RequestShapes, ListMoves DEF Adopt, TypeOK
  <2> QED
    BY <2>3, <2>4
<1>4. ASSUME NEW l \in List, FetchFails(l) PROVE FeedInv'
  <2>1. TypeOK'
    BY <1>1, <1>4, RequestShapes, FeedAssumption DEF FetchFails, TypeOK, serverVars
  <2>2. CASE l = "runs"
    BY <1>1, <1>4, <2>1, <2>2, ListMoves DEF FetchFails, TypeOK
  <2>3. CASE l # "runs"
    BY <1>1, <1>4, <2>1, <2>3, RequestShapes, ListMoves DEF FetchFails, TypeOK
  <2> QED
    BY <2>2, <2>3
<1> QED
  BY <1>2, <1>3, <1>4

\* While the socket is not open nothing need be covered, and opening it asks for
\* the list again.
LEMMA SocketStep ==
  ASSUME FeedInv, Join \/ Open \/ Drop \/ Restart \/ \E kept \in BOOLEAN : Mount(kept)
  PROVE  FeedInv'
<1>1. TypeOK /\ HighWater' = HighWater /\ HighWater \in Nat
  BY Shapes, RequestShapes DEF FeedInv, Join, Open, Drop, Restart, Mount, serverVars, HighWater
<1>2. <<>> \in Seq(1..HighWater)
  OBVIOUS
<1>3. TypeOK'
  <2>1. CASE Join
    BY <1>1, <2>1 DEF Join, TypeOK, serverVars, pageVars
  <2>2. CASE Open
    BY <1>1, <2>2, RequestShapes DEF Open, Epoch, TypeOK, serverVars
  <2>3. CASE Drop
    BY <1>1, <1>2, <2>3, FeedAssumption DEF Drop, Break, Detached, TypeOK, serverVars, pageVars
  <2>4. CASE Restart
    BY <1>1, <1>2, <2>4, FeedAssumption DEF Restart, Break, Detached, TypeOK, pageVars
  <2>5. ASSUME NEW kept \in BOOLEAN, Mount(kept) PROVE TypeOK'
    <3>1. /\ store' \in [Resource -> 0..HighWater]
          /\ \A r \in Resource : store'[r] # 0 => log[store'[r]] = r
      BY <1>1, <2>5 DEF Mount, TypeOK
    <3>2. fetch' \in [List -> Request] /\ seed' \in [List -> Snapshot]
      BY <2>5, RequestShapes DEF Mount
    <3> QED
      BY <1>1, <1>2, <2>5, <3>1, <3>2, FeedAssumption DEF Mount, Break, Detached, TypeOK, serverVars
  <2> QED
    BY <2>1, <2>2, <2>3, <2>4, <2>5
<1>4. \A list : Truthful(list)' <=> Truthful(list)
  BY DEF Truthful, serverVars, HighWater, Join, Open, Drop, Restart, Mount
<1>5. Truthful(Nothing)
  BY <1>1 DEF Truthful, Nothing, TypeOK
<1>6. Versioned'
  BY DEF FeedInv, Versioned, HighWater, serverVars, Join, Open, Drop, Restart, Mount
<1>7. /\ fetch'["runs"] = fetch["runs"] \/ fetch'["runs"] = Sent
      /\ seed'["runs"] = seed["runs"] \/ seed'["runs"] = Nothing
      /\ conn' = "open" => fetch'["runs"] = Sent
  BY <1>1, RequestShapes DEF Join, Open, Drop, Restart, Mount, Detached, Epoch, TypeOK, pageVars
<1>8. Sent.list = Nothing /\ Sent.status = "sent"
  BY DEF Sent
<1> QED
  BY <1>3, <1>4, <1>5, <1>6, <1>7, <1>8 DEF FeedInv, Covered

\* Every step keeps the invariant.
LEMMA FeedStep == FeedInv /\ [Next]_vars => FeedInv'
<1> SUFFICES ASSUME FeedInv, [Next]_vars PROVE FeedInv'
  OBVIOUS
<1>1. CASE UNCHANGED vars
  BY <1>1 DEF vars, serverVars, pageVars, FeedInv, TypeOK, Versioned, Truthful, Covered,
     Accounted, OnWire, HighWater
<1> QED
  BY <1>1, CommitStep, AgeOutStep, DrainStep, CatchUpStep, ReceiveStep, AnswerStep,
     PageStep, SocketStep DEF Next

\* The invariant holds throughout.
LEMMA FeedInvariance == Spec => []FeedInv
  BY FeedInitial, FeedStep, PTL DEF Spec

-----------------------------------------------------------------------------
\* The tables, frames, store and lists keep their types, and an event in the
\* store is an event of its resource.
THEOREM FeedTypes == Spec => []TypeOK
<1>1. FeedInv => TypeOK
  BY DEF FeedInv
<1> QED
  BY <1>1, FeedInvariance, PTL

\* A settled page whose run list was fetched since its socket opened shows every
\* listed run as the server has it: the replay is not even needed for it.
THEOREM RunsAlwaysConverge == Spec => []RunsConverge
<1>1. ASSUME FeedInv, Settled, fetch["runs"].status = "idle", NEW r \in listed
      PROVE  ShownRun(r) = version[r]
  <2> DEFINE base == seed["runs"].rows[r]
             asOf == seed["runs"].asOf
  <2>1. /\ r \in Resource /\ version[r] \in 0..HighWater /\ HighWater \in Nat
        /\ store[r] \in 0..HighWater /\ asOf \in Nat /\ base \in Nat
    BY <1>1, Shapes DEF FeedInv, TypeOK, Resource
  <2>2. base <= version[r] /\ (version[r] <= asOf => base = version[r])
    BY <1>1, <2>1 DEF FeedInv, Truthful
  <2>3. store[r] <= version[r]
    BY <1>1, <2>1, StoreIsOld DEF FeedInv
  <2>4. asOf < version[r] => version[r] <= store[r]
    <3>1. asOf < version[r] => log[version[r]] = r /\ version[r] \in 1..HighWater
      BY <1>1, <2>1 DEF FeedInv, Versioned
    <3>2. Len(wire) = 0 /\ delivered = HighWater /\ Accounted(asOf)
      BY <1>1, EmptySeq DEF Settled, FeedInv, Covered
    <3> QED
      BY <2>1, <3>1, <3>2 DEF Accounted, OnWire
  <2>5. ShownRun(r) = Overlay(base, asOf, store[r])
    BY DEF ShownRun
  <2> HIDE DEF base, asOf
  <2> QED
    BY <2>1, <2>2, <2>3, <2>4, <2>5 DEF Overlay
<1>2. FeedInv => RunsConverge
  BY <1>1 DEF RunsConverge
<1> QED
  BY <1>2, FeedInvariance, PTL

\* No kept or replayed event brings back a run that a later list left out.
THEOREM AgedOutRunsStayGone == Spec => []AgedOutStaysGone
<1>1. ASSUME FeedInv, NEW r \in Run \ listed,
             seed["runs"].rows[r] = 0, version[r] <= seed["runs"].asOf
      PROVE  ShownRun(r) = 0
  <2>1. /\ r \in Resource /\ version[r] \in 0..HighWater /\ HighWater \in Nat
        /\ store[r] \in 0..HighWater /\ seed["runs"].asOf \in Nat
    BY <1>1, Shapes DEF FeedInv, TypeOK, Resource
  <2>2. store[r] <= version[r]
    BY <1>1, <2>1, StoreIsOld DEF FeedInv
  <2> QED
    BY <1>1, <2>1, <2>2 DEF ShownRun, Overlay
<1>2. FeedInv => AgedOutStaysGone
  BY <1>1 DEF AgedOutStaysGone
<1> QED
  BY <1>2, FeedInvariance, PTL
=============================================================================
