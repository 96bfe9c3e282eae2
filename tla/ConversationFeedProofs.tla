----------------------- MODULE ConversationFeedProofs -----------------------
(***************************************************************************)
(* Theorems about ConversationFeed, along five inductive invariants, each  *)
(* inductive together with the ones before it.                             *)
(*                                                                         *)
(* FeedInv: the types, what the phases of the server exclude (ServerOK),   *)
(* and the history the log tells of every turn (History), where Live names *)
(* the turns under way.                                                    *)
(* CallInv: every row of a call follows the row before it legally, and an  *)
(* ask waits exactly while the last row of its call says so.               *)
(* LogInv: the rows are well formed, claimed turns do not interleave, the  *)
(* context of a turn is observed once, and no row the relay has still to   *)
(* send is hidden.                                                         *)
(* ChannelInv: a tab fits the prefix of the log it has (Fits), and the     *)
(* rows behind the prefix, as far as the relay is, are under way in order. *)
(* CardsInv: where the card of every ask that waits is, and what will take *)
(* every other card away.                                                  *)
(*                                                                         *)
(* The lemmas before each say what a sequence of rows means when rows are  *)
(* appended, which rows the actions append, and what one row does to the   *)
(* tab.                                                                    *)
(***************************************************************************)
EXTENDS ConversationFeed, FiniteSetTheorems, WellFoundedInduction, TLAPS

-----------------------------------------------------------------------------
\* A set of rows has a last one.
LEMMA LastExists ==
  ASSUME NEW n \in Nat, NEW I, I \subseteq 1..n, I # {}
  PROVE  \E k \in I : \A j \in I : k >= j
<1> DEFINE R == OpToRel(<, Nat)
           D == {n - i : i \in I}
<1>1. IsWellFoundedOn(R, Nat)
  BY NatLessThanWellFounded
<1> HIDE DEF R
<1>2. D \subseteq Nat /\ D # {}
  <2>1. \A i \in I : n - i \in Nat
    BY SMT
  <2>2. \E i \in I : n - i \in D
    BY Zenon
  <2> QED
    BY <2>1, <2>2, Zenon
<1>3. PICK d \in D : \A e \in D : ~(<<e, d>> \in R)
  BY <1>1, <1>2, WFMin
<1>4. \A e \in D : ~(e < d)
  BY <1>2, <1>3 DEF R, OpToRel
<1>5. PICK k \in I : d = n - k
  OBVIOUS
<1>6. \A j \in I : n - j \in D
  OBVIOUS
<1>7. \A j \in I : k >= j
  BY <1>4, <1>5, <1>6
<1> QED
  BY <1>7

\* SetToSeq lists a finite set, each element once.
LEMMA SetToSeqLists ==
  ASSUME NEW S, IsFiniteSet(S)
  PROVE  LET s == SetToSeq(S)
         IN  /\ s \in Seq(S) /\ Len(s) = Cardinality(S)
             /\ \A a, b \in 1..Len(s) : s[a] = s[b] => a = b
             /\ \A x \in S : \E k \in 1..Len(s) : s[k] = x
<1> DEFINE n == Cardinality(S)
           s == SetToSeq(S)
<1>1. n \in Nat /\ \E f \in [1..n -> S] : IsInjective(f)
  BY FS_CardinalityType DEF ExistsBijection, Bijection, Injection
<1> HIDE DEF n
<1>2. s \in [1..n -> S] /\ IsInjective(s)
  BY <1>1 DEF SetToSeq, n
<1>3. s \in Injection(1..n, S)
  BY <1>2 DEF Injection
<1>4. Cardinality(1..n) = n
  BY <1>1, FS_Interval
<1>5. s \in Surjection(1..n, S)
  BY <1>3, <1>4, FS_Injection DEF n
<1>6. s \in Seq(S) /\ Len(s) = n
  BY <1>1, <1>2
<1> QED
  BY <1>2, <1>5, <1>6 DEF IsInjective, Surjection, n

-----------------------------------------------------------------------------
(***************************************************************************)
(* What a log says of a turn, for any sequence of rows.                    *)
(***************************************************************************)
Kind == {"hidden", "start", "marker", "tool", "end", "idle", "context", "notice"}
CallState == {"requested", "approval-needed", "running"} \cup Settled \cup {None}
Row == [kind : Kind, turn : AnyTurn \cup {None}, call : Call \cup {None}, state : CallState]

\* The kinds of rows a turn may have behind its end.
Trailing == {"idle", "context", "notice"}

HasRow(s, t) == \E i \in DOMAIN s : s[i].turn = t
HasEnd(s, t) == \E i \in DOMAIN s : s[i].turn = t /\ s[i].kind = "end"

\* The last row of a call.
LastRow(s, k) == s[k].call \in Call /\ \A j \in DOMAIN s : j > k => s[j].call # s[k].call

EndsWell(s, t) ==
  \A e \in DOMAIN s : s[e].turn = t /\ s[e].kind = "end" =>
    /\ \A i \in DOMAIN s : i > e /\ s[i].turn = t => s[i].kind \in Trailing
    /\ \A k \in DOMAIN s : s[k].turn = t /\ LastRow(s, k) => s[k].state \in Settled

\* The turns of L are the ones under way, X those the end of a process cut off.
History(s, L, X) ==
  \A t \in AnyTurn :
    /\ EndsWell(s, t)
    /\ t \in L => HasRow(s, t) /\ ~HasEnd(s, t)
    /\ HasRow(s, t) /\ ~HasEnd(s, t) => t \in L \cup X

\* The index the code looks up is that of the last row, in any log.
LastIn(s, c) == SelectLastInSeq(s, LAMBDA e : e.call = c)

\* It is zero for a call without a row.
LEMMA LastInIsLastRow ==
  ASSUME NEW s \in Seq(Row), NEW c \in Call
  PROVE  /\ LastIn(s, c) # 0 => LastIn(s, c) \in DOMAIN s /\ s[LastIn(s, c)].call = c
                                /\ LastRow(s, LastIn(s, c))
         /\ \A k \in DOMAIN s : s[k].call = c /\ LastRow(s, k) => LastIn(s, c) = k
<1> DEFINE I == {i \in 1..Len(s) : s[i].call = c}
<1>1. LastIn(s, c) = IF I # {} THEN Max(I) ELSE 0
  BY Zenon DEF LastIn, SelectLastInSeq
<1>2. Len(s) \in Nat /\ DOMAIN s = 1..Len(s)
  OBVIOUS
<1>3. I # {} => Max(I) \in I /\ \A j \in I : Max(I) >= j
  <2> SUFFICES ASSUME I # {} PROVE Max(I) \in I /\ \A j \in I : Max(I) >= j
    OBVIOUS
  <2>1. \E k \in I : \A j \in I : k >= j
    BY <1>2, LastExists
  <2> QED
    BY <2>1 DEF Max
<1>4. ASSUME NEW k \in DOMAIN s, s[k].call = c, LastRow(s, k) PROVE LastIn(s, c) = k
  <2>1. k \in I
    BY <1>2, <1>4
  <2>2. Max(I) \in I /\ Max(I) >= k
    BY <1>3, <2>1
  <2>3. ~(Max(I) > k)
    BY <1>2, <1>4, <2>2 DEF LastRow
  <2> QED
    BY <1>1, <1>2, <2>1, <2>2, <2>3
<1>5. ASSUME LastIn(s, c) # 0
      PROVE  LastIn(s, c) \in DOMAIN s /\ s[LastIn(s, c)].call = c /\ LastRow(s, LastIn(s, c))
  <2>1. LastIn(s, c) \in I /\ \A j \in I : LastIn(s, c) >= j
    BY <1>1, <1>3, <1>5
  <2> QED
    BY <1>2, <2>1 DEF LastRow
<1> QED
  BY <1>4, <1>5

\* So in the log of the server.
LEMMA LastOfIsLastRow ==
  ASSUME log \in Seq(Row), NEW c \in Call
  PROVE  /\ LastOf(c) # 0 => LastOf(c) \in DOMAIN log /\ log[LastOf(c)].call = c
                             /\ LastRow(log, LastOf(c))
         /\ \A k \in DOMAIN log : log[k].call = c /\ LastRow(log, k) => LastOf(c) = k
<1>1. LastOf(c) = LastIn(log, c)
  BY DEF LastOf, LastIn
<1> QED
  BY <1>1, LastInIsLastRow

\* The rows of a log that grew.
LEMMA Grown ==
  ASSUME NEW s \in Seq(Row), NEW rows \in Seq(Row)
  PROVE  /\ s \o rows \in Seq(Row)
         /\ DOMAIN s = 1..Len(s) /\ DOMAIN rows = 1..Len(rows)
         /\ DOMAIN (s \o rows) = 1..(Len(s) + Len(rows))
         /\ \A i \in DOMAIN s : (s \o rows)[i] = s[i]
         /\ \A i \in DOMAIN rows : (s \o rows)[Len(s) + i] = rows[i]
         /\ \A i \in DOMAIN (s \o rows) :
              i \in DOMAIN s \/ (i > Len(s) /\ i - Len(s) \in DOMAIN rows
                                 /\ (s \o rows)[i] = rows[i - Len(s)])
  OBVIOUS

\* What a turn has in a log that grew.
LEMMA GrownTurn ==
  ASSUME NEW s \in Seq(Row), NEW rows \in Seq(Row), NEW t
  PROVE  /\ HasRow(s \o rows, t) <=> HasRow(s, t) \/ HasRow(rows, t)
         /\ HasEnd(s \o rows, t) <=> HasEnd(s, t) \/ HasEnd(rows, t)
<1>1. /\ DOMAIN s \subseteq DOMAIN (s \o rows)
      /\ \A i \in DOMAIN rows : Len(s) + i \in DOMAIN (s \o rows)
  BY Grown
<1>2. HasRow(s \o rows, t) <=> HasRow(s, t) \/ HasRow(rows, t)
  BY <1>1, Grown DEF HasRow
<1>3. HasEnd(s \o rows, t) <=> HasEnd(s, t) \/ HasEnd(rows, t)
  BY <1>1, Grown DEF HasEnd
<1> QED
  BY <1>2, <1>3

\* Rows of others, and rows that may trail, leave a turn well ended.
LEMMA TrailingKeeps ==
  ASSUME NEW s \in Seq(Row), NEW rows \in Seq(Row), NEW t, EndsWell(s, t),
         \A i \in DOMAIN rows : rows[i].turn = t => rows[i].kind \in Trailing /\ rows[i].call = None
  PROVE  EndsWell(s \o rows, t)
<1> DEFINE z == s \o rows
<1> SUFFICES ASSUME NEW e \in DOMAIN z, z[e].turn = t, z[e].kind = "end"
             PROVE  /\ \A i \in DOMAIN z : i > e /\ z[i].turn = t => z[i].kind \in Trailing
                    /\ \A k \in DOMAIN z : z[k].turn = t /\ LastRow(z, k) => z[k].state \in Settled
  BY DEF EndsWell
<1>1. e \in DOMAIN s /\ s[e] = z[e]
  BY Grown DEF Trailing
<1>2. ASSUME NEW i \in DOMAIN z, i > e, z[i].turn = t PROVE z[i].kind \in Trailing
  BY <1>1, <1>2, Grown DEF EndsWell
<1>3. ASSUME NEW k \in DOMAIN z, z[k].turn = t, LastRow(z, k) PROVE z[k].state \in Settled
  <2>1. z[k].call # None
    BY <1>3, FeedAssumption DEF LastRow
  <2>2. k \in DOMAIN s /\ s[k] = z[k]
    BY <1>3, <2>1, Grown
  <2>3. LastRow(s, k)
    <3>1. \A j \in DOMAIN s : j \in DOMAIN z /\ z[j] = s[j]
      BY Grown
    <3> QED
      BY <1>3, <2>2, <3>1 DEF LastRow
  <2> QED
    BY <1>1, <1>3, <2>2, <2>3 DEF EndsWell
<1> QED
  BY <1>2, <1>3

\* A log that does not grow, when no turn is forgotten and none is revived.
LEMMA SameHistory ==
  ASSUME NEW s, NEW L, NEW X, NEW L2, NEW X2, History(s, L, X),
         L2 \cap AnyTurn \subseteq L, (L \cup X) \cap AnyTurn \subseteq L2 \cup X2
  PROVE  History(s, L2, X2)
  BY DEF History

\* Rows of one turn without its end: it is under way from now on.
LEMMA HistoryGoesOn ==
  ASSUME NEW s \in Seq(Row), NEW rows \in Seq(Row), NEW L, NEW X, NEW u, History(s, L, X),
         rows # <<>>, \A i \in DOMAIN rows : rows[i].turn = u /\ rows[i].kind # "end",
         u \in AnyTurn => ~HasEnd(s, u)
  PROVE  History(s \o rows, L \cup {u}, X)
<1> SUFFICES ASSUME NEW t \in AnyTurn
             PROVE  /\ EndsWell(s \o rows, t)
                    /\ t \in L \cup {u} => HasRow(s \o rows, t) /\ ~HasEnd(s \o rows, t)
                    /\ HasRow(s \o rows, t) /\ ~HasEnd(s \o rows, t) => t \in L \cup {u} \cup X
  BY DEF History
<1>1. HasRow(rows, u) /\ ~HasEnd(rows, t) /\ (t # u => ~HasRow(rows, t))
  BY DEF HasRow, HasEnd
<1>2. CASE t = u
  <2>1. ~HasEnd(s \o rows, t) /\ HasRow(s \o rows, t)
    BY <1>1, <1>2, GrownTurn
  <2>2. EndsWell(s \o rows, t)
    BY <2>1 DEF EndsWell, HasEnd
  <2> QED
    BY <1>2, <2>1, <2>2
<1>3. CASE t # u
  <2>1. EndsWell(s \o rows, t)
    BY <1>3, TrailingKeeps DEF History
  <2> QED
    BY <1>1, <1>3, <2>1, GrownTurn DEF History
<1> QED
  BY <1>2, <1>3

\* Rows that may trail, of a turn the log knows.
LEMMA HistoryTrails ==
  ASSUME NEW s \in Seq(Row), NEW rows \in Seq(Row), NEW L, NEW X, NEW u, History(s, L, X),
         \A i \in DOMAIN rows : rows[i].turn = u /\ rows[i].kind \in Trailing /\ rows[i].call = None,
         HasRow(s, u)
  PROVE  History(s \o rows, L, X)
<1> SUFFICES ASSUME NEW t \in AnyTurn
             PROVE  /\ EndsWell(s \o rows, t)
                    /\ t \in L => HasRow(s \o rows, t) /\ ~HasEnd(s \o rows, t)
                    /\ HasRow(s \o rows, t) /\ ~HasEnd(s \o rows, t) => t \in L \cup X
  BY DEF History
<1>1. ~HasEnd(rows, t) /\ (t # u => ~HasRow(rows, t))
  BY DEF HasRow, HasEnd, Trailing
<1>2. EndsWell(s \o rows, t)
  BY TrailingKeeps DEF History
<1> QED
  BY <1>1, <1>2, GrownTurn DEF History

\* Rows that end a turn: one end, behind it nothing but what may trail, and a
\* closing row for every call the turn left open.
Closing(s, rows, u) ==
  /\ \A i \in DOMAIN rows : rows[i].turn = u /\ (rows[i].call \in Call => rows[i].state \in Settled)
  /\ \E e \in DOMAIN rows :
       /\ rows[e].kind = "end"
       /\ \A i \in DOMAIN rows : i > e => rows[i].kind \in Trailing
       /\ \A i \in DOMAIN rows : i < e => rows[i].kind # "end"
  /\ \A k \in DOMAIN s : s[k].turn = u /\ LastRow(s, k) /\ s[k].state \notin Settled
       => \E i \in DOMAIN rows : rows[i].call = s[k].call

\* A turn that is ended so is ended well, and under way no more.
LEMMA HistoryEnds ==
  ASSUME NEW s \in Seq(Row), NEW rows \in Seq(Row), NEW L, NEW X, NEW u \in AnyTurn,
         History(s, L, X), Closing(s, rows, u), ~HasEnd(s, u)
  PROVE  History(s \o rows, L \ {u}, X)
<1> DEFINE z == s \o rows
<1> SUFFICES ASSUME NEW t \in AnyTurn
             PROVE  /\ EndsWell(z, t)
                    /\ t \in L \ {u} => HasRow(z, t) /\ ~HasEnd(z, t)
                    /\ HasRow(z, t) /\ ~HasEnd(z, t) => t \in (L \ {u}) \cup X
  BY DEF History
<1>1. CASE t # u
  <2>1. ~HasRow(rows, t) /\ ~HasEnd(rows, t)
    BY <1>1 DEF Closing, HasRow, HasEnd
  <2>2. EndsWell(z, t)
    BY <1>1, TrailingKeeps DEF History, Closing
  <2> QED
    BY <1>1, <2>1, <2>2, GrownTurn DEF History
<1>2. CASE t = u
  <2>1. HasEnd(z, u)
    <3>1. HasEnd(rows, u)
      BY DEF Closing, HasEnd
    <3> QED
      BY <3>1, GrownTurn
  <2>2. ASSUME NEW e \in DOMAIN z, z[e].turn = u, z[e].kind = "end",
               NEW i \in DOMAIN z, i > e, z[i].turn = u
        PROVE  z[i].kind \in Trailing
    <3>1. PICK m \in DOMAIN rows :
            /\ \A j \in DOMAIN rows : j > m => rows[j].kind \in Trailing
            /\ \A j \in DOMAIN rows : j < m => rows[j].kind # "end"
      BY DEF Closing
    <3>2. e \notin DOMAIN s
      BY <2>2, Grown DEF HasEnd
    <3>3. e > Len(s) /\ e - Len(s) \in DOMAIN rows /\ rows[e - Len(s)].kind = "end"
      BY <2>2, <3>2, Grown
    <3>4. ~(e - Len(s) < m)
      BY <3>1, <3>3
    <3>5. i - Len(s) > m
      BY <2>2, <3>1, <3>3, <3>4, Grown
    <3>6. i - Len(s) \in DOMAIN rows /\ z[i] = rows[i - Len(s)]
      BY <2>2, <3>3, Grown
    <3> QED
      BY <3>1, <3>5, <3>6
  <2>3. ASSUME NEW k \in DOMAIN z, z[k].turn = u, LastRow(z, k)
        PROVE  z[k].state \in Settled
    <3>1. CASE k \in DOMAIN s
      <4>1. s[k] = z[k] /\ \A j \in DOMAIN s : j \in DOMAIN z /\ z[j] = s[j]
        BY <3>1, Grown
      <4>2. LastRow(s, k)
        BY <2>3, <3>1, <4>1 DEF LastRow
      <4>3. ~ \E i \in DOMAIN rows : rows[i].call = s[k].call
        <5>1. \A i \in DOMAIN rows : Len(s) + i \in DOMAIN z /\ Len(s) + i > k /\ z[Len(s) + i] = rows[i]
          BY <3>1, Grown
        <5> QED
          BY <2>3, <4>1, <5>1 DEF LastRow
      <4> QED
        BY <2>3, <3>1, <4>1, <4>2, <4>3 DEF Closing
    <3>2. CASE k \notin DOMAIN s
      <4>1. k - Len(s) \in DOMAIN rows /\ z[k] = rows[k - Len(s)]
        BY <3>2, Grown
      <4> QED
        BY <2>3, <4>1 DEF Closing, LastRow
    <3> QED
      BY <3>1, <3>2
  <2> QED
    BY <1>2, <2>1, <2>2, <2>3 DEF EndsWell
<1> QED
  BY <1>1, <1>2

-----------------------------------------------------------------------------
(***************************************************************************)
(* The rows the actions write.                                             *)
(***************************************************************************)
\* Plain rows and tool rows have their type.
LEMMA RowTypes ==
  ASSUME NEW t \in AnyTurn \cup {None}
  PROVE  /\ \A kind \in Kind : Plain(kind, t) \in Row
         /\ \A c \in Call, st \in CallState : Tool(t, c, st) \in Row
  BY DEF Plain, Tool, Row, Kind, CallState

\* Closings settles every call the turn left open, and no other.
LEMMA ClosingsClose ==
  ASSUME log \in Seq(Row), NEW t \in AnyTurn
  PROVE  /\ Closings(t) \in Seq(Row)
         /\ \A i \in DOMAIN Closings(t) :
              /\ Closings(t)[i].kind = "tool" /\ Closings(t)[i].turn = t
              /\ Closings(t)[i].state \in Settled
         /\ \A k \in DOMAIN log : log[k].turn = t /\ LastRow(log, k) /\ log[k].state \notin Settled
              => \E i \in DOMAIN Closings(t) : Closings(t)[i].call = log[k].call
<1> DEFINE Open == {c \in CallsOf(t) : StateOf(c) \notin Settled}
           opened == SetToSeq(Open)
           rowOf(i) ==
             Tool(t, opened[i], IF StateOf(opened[i]) = "approval-needed" THEN "denied" ELSE "failed")
<1>1. Open \subseteq Call /\ IsFiniteSet(Open)
  BY FeedAssumption, FS_Subset DEF CallsOf
<1>2. /\ opened \in Seq(Open)
      /\ \A x \in Open : \E k \in 1..Len(opened) : opened[k] = x
  BY <1>1, SetToSeqLists
<1>3. Closings(t) = [i \in DOMAIN opened |-> rowOf(i)]
  BY DEF Closings
<1>4. ASSUME NEW k \in DOMAIN log, log[k].turn = t, LastRow(log, k), log[k].state \notin Settled
      PROVE  log[k].call \in Open
  <2>1. log[k].call \in Call /\ LastOf(log[k].call) = k
    BY <1>4, LastOfIsLastRow DEF LastRow
  <2>2. k # 0
    OBVIOUS
  <2> QED
    BY <1>4, <2>1, <2>2 DEF CallsOf, StateOf
<1> HIDE DEF opened, Open
<1>5. /\ DOMAIN opened = 1..Len(opened) /\ Len(opened) \in Nat
      /\ \A i \in DOMAIN opened : opened[i] \in Call
  BY <1>1, <1>2
<1>6. \A i \in DOMAIN opened : /\ rowOf(i) \in Row /\ rowOf(i).kind = "tool" /\ rowOf(i).turn = t
                               /\ rowOf(i).state \in Settled /\ rowOf(i).call = opened[i]
  BY <1>5 DEF Tool, Row, Kind, CallState, Settled
<1> HIDE DEF rowOf
<1>7. Closings(t) \in Seq(Row) /\ DOMAIN Closings(t) = DOMAIN opened
  BY <1>3, <1>5, <1>6
<1>8. \A i \in DOMAIN Closings(t) : Closings(t)[i] = rowOf(i)
  BY <1>3, <1>7
<1>9. ASSUME NEW k \in DOMAIN log, log[k].turn = t, LastRow(log, k), log[k].state \notin Settled
      PROVE  \E i \in DOMAIN Closings(t) : Closings(t)[i].call = log[k].call
  <2>1. PICK i \in DOMAIN opened : opened[i] = log[k].call
    BY <1>2, <1>4, <1>5, <1>9
  <2> QED
    BY <1>6, <1>7, <1>8, <2>1
<1> QED
  BY <1>6, <1>7, <1>8, <1>9

\* A turn ends with one end, behind its closings and before what may trail.
LEMMA EndRowsClose ==
  ASSUME log \in Seq(Row), NEW t \in AnyTurn
  PROVE  EndRows(t) \in Seq(Row) /\ Closing(log, EndRows(t), t)
<1> DEFINE closings == Closings(t)
           idle == IF t \in Turn THEN <<Plain("idle", t)>> ELSE <<>>
           n == Len(closings)
           rows == EndRows(t)
<1>1. /\ closings \in Seq(Row)
      /\ \A i \in DOMAIN closings :
           closings[i].kind = "tool" /\ closings[i].turn = t /\ closings[i].state \in Settled
      /\ \A k \in DOMAIN log : log[k].turn = t /\ LastRow(log, k) /\ log[k].state \notin Settled
           => \E i \in DOMAIN closings : closings[i].call = log[k].call
  BY ClosingsClose
<1> HIDE DEF closings
<1>2. Plain("end", t) \in Row /\ Plain("idle", t) \in Row
  BY RowTypes DEF Kind
<1>3. rows = closings \o <<Plain("end", t)>> \o idle
  BY DEF EndRows, closings
<1>4. idle \in Seq(Row) /\ \A i \in DOMAIN idle : idle[i] = Plain("idle", t)
  BY <1>2
<1> HIDE DEF idle
<1>5. DOMAIN closings = 1..n /\ n \in Nat
  BY <1>1
<1>6. /\ rows \in Seq(Row) /\ DOMAIN rows = 1..(n + 1 + Len(idle))
      /\ \A i \in 1..n : rows[i] = closings[i]
      /\ rows[n + 1] = Plain("end", t)
      /\ \A i \in DOMAIN rows : i > n + 1 => rows[i] = Plain("idle", t)
  BY <1>1, <1>2, <1>3, <1>4
<1> HIDE DEF rows
<1>7. \A i \in DOMAIN rows : i \in 1..n \/ i = n + 1 \/ i > n + 1
  BY <1>5, <1>6
<1>8. \A i \in DOMAIN rows : rows[i].turn = t /\ (rows[i].call \in Call => rows[i].state \in Settled)
  <2>1. None \notin Call
    BY FeedAssumption
  <2> QED
    BY <1>1, <1>5, <1>6, <1>7, <2>1 DEF Plain
<1>9. /\ n + 1 \in DOMAIN rows /\ rows[n + 1].kind = "end"
      /\ \A i \in DOMAIN rows : i > n + 1 => rows[i].kind \in Trailing
      /\ \A i \in DOMAIN rows : i < n + 1 => rows[i].kind # "end"
  <2>1. Plain("end", t).kind = "end" /\ Plain("idle", t).kind = "idle"
    BY DEF Plain
  <2>2. n + 1 \in DOMAIN rows
    BY <1>4, <1>5, <1>6
  <2>3. \A i \in DOMAIN rows : i < n + 1 => i \in 1..n
    BY <1>4, <1>5, <1>6
  <2>4. \A i \in DOMAIN rows : i < n + 1 => rows[i].kind = "tool"
    BY <1>1, <1>5, <1>6, <2>3
  <2> QED
    BY <1>6, <2>1, <2>2, <2>4 DEF Trailing
<1>10. \A k \in DOMAIN log : log[k].turn = t /\ LastRow(log, k) /\ log[k].state \notin Settled
         => \E i \in DOMAIN rows : rows[i].call = log[k].call
  <2>1. \A i \in DOMAIN closings : i \in DOMAIN rows /\ rows[i] = closings[i]
    BY <1>4, <1>5, <1>6
  <2> QED
    BY <1>1, <2>1
<1>11. Closing(log, rows, t)
  BY <1>8, <1>9, <1>10 DEF Closing
<1> QED
  BY <1>6, <1>11 DEF rows

\* A start in front of them changes nothing.
LEMMA StartedClose ==
  ASSUME NEW s \in Seq(Row), NEW rows \in Seq(Row), NEW t \in AnyTurn, Closing(s, rows, t)
  PROVE  /\ <<Plain("start", t)>> \o rows \in Seq(Row)
         /\ Closing(s, <<Plain("start", t)>> \o rows, t)
<1> DEFINE z == <<Plain("start", t)>> \o rows
<1>1. Plain("start", t) \in Row
  BY RowTypes DEF Kind
<1>2. /\ z \in Seq(Row) /\ DOMAIN z = 1..(1 + Len(rows)) /\ DOMAIN rows = 1..Len(rows)
      /\ z[1] = Plain("start", t) /\ \A i \in DOMAIN rows : i + 1 \in DOMAIN z /\ z[i + 1] = rows[i]
      /\ \A i \in DOMAIN z : i = 1 \/ (i - 1 \in DOMAIN rows /\ z[i] = rows[i - 1])
  BY <1>1
<1> HIDE DEF z
<1>3. None \notin Call
  BY FeedAssumption
<1>4. \A i \in DOMAIN z : i = 1 \/ \E j \in DOMAIN rows : i = j + 1 /\ z[i] = rows[j]
  <2> SUFFICES ASSUME NEW i \in DOMAIN z, i # 1
               PROVE  \E j \in DOMAIN rows : i = j + 1 /\ z[i] = rows[j]
    OBVIOUS
  <2>1. i - 1 \in DOMAIN rows /\ i = (i - 1) + 1 /\ z[i] = rows[i - 1]
    BY <1>2
  <2> QED
    BY <2>1
<1>5. z[1].turn = t /\ z[1].call \notin Call /\ z[1].kind = "start"
  BY <1>2, <1>3 DEF Plain
<1>6. /\ \A i \in DOMAIN z : z[i].turn = t /\ (z[i].call \in Call => z[i].state \in Settled)
      /\ \A k \in DOMAIN s : s[k].turn = t /\ LastRow(s, k) /\ s[k].state \notin Settled
           => \E i \in DOMAIN z : z[i].call = s[k].call
  <2>1. \A i \in DOMAIN z : z[i].turn = t /\ (z[i].call \in Call => z[i].state \in Settled)
    BY <1>4, <1>5 DEF Closing
  <2>2. \A k \in DOMAIN s : s[k].turn = t /\ LastRow(s, k) /\ s[k].state \notin Settled
          => \E i \in DOMAIN rows : rows[i].call = s[k].call
    BY DEF Closing
  <2>3. \A i \in DOMAIN rows : \E k \in DOMAIN z : z[k] = rows[i]
    BY <1>2
  <2>4. ASSUME NEW k \in DOMAIN s, s[k].turn = t, LastRow(s, k), s[k].state \notin Settled
        PROVE  \E i \in DOMAIN z : z[i].call = s[k].call
    BY <2>2, <2>3, <2>4
  <2> QED
    BY <2>1, <2>4
<1>7. \E e \in DOMAIN z :
        /\ z[e].kind = "end"
        /\ \A i \in DOMAIN z : i > e => z[i].kind \in Trailing
        /\ \A i \in DOMAIN z : i < e => z[i].kind # "end"
  <2>1. PICK e \in DOMAIN rows :
          /\ rows[e].kind = "end"
          /\ \A i \in DOMAIN rows : i > e => rows[i].kind \in Trailing
          /\ \A i \in DOMAIN rows : i < e => rows[i].kind # "end"
    BY DEF Closing
  <2>2. e + 1 \in DOMAIN z /\ z[e + 1].kind = "end" /\ e \in Nat \ {0}
    BY <1>2, <2>1
  <2>3. ASSUME NEW i \in DOMAIN z, i > e + 1 PROVE z[i].kind \in Trailing
    <3>1. PICK j \in DOMAIN rows : i = j + 1 /\ z[i] = rows[j]
      BY <1>4, <2>2, <2>3
    <3>2. j > e
      BY <1>2, <2>2, <2>3, <3>1
    <3> QED
      BY <2>1, <3>1, <3>2
  <2>4. ASSUME NEW i \in DOMAIN z, i < e + 1 PROVE z[i].kind # "end"
    <3>1. CASE i = 1
      BY <1>5, <3>1
    <3>2. CASE i # 1
      <4>1. PICK j \in DOMAIN rows : i = j + 1 /\ z[i] = rows[j]
        BY <1>4, <3>2
      <4>2. j < e
        BY <1>2, <2>2, <2>4, <4>1
      <4> QED
        BY <2>1, <4>1, <4>2
    <3> QED
      BY <3>1, <3>2
  <2> QED
    BY <2>2, <2>3, <2>4
<1>8. Closing(s, z, t)
  BY <1>6, <1>7 DEF Closing
<1> QED
  BY <1>2, <1>8 DEF z

\* Publishing appends the rows; a drain marks at most the rows there are.
LEMMA PublishAppends ==
  ASSUME log \in Seq(Row), relayed \in 0..Len(log), NEW rows \in Seq(Row), NEW after,
         Publish(rows, after)
  PROVE  log' = log \o rows /\ log' \in Seq(Row) /\ relayed' \in 0..Len(log')
<1>1. log' = log \o rows /\ Drain(Len(log) + Len(rows), after)
  BY DEF Publish
<1>2. log' \in Seq(Row) /\ Len(log') = Len(log) + Len(rows)
  BY <1>1
<1>3. relayed' \in 0..(Len(log) + Len(rows))
  <2> DEFINE n == Len(log) + Len(rows)
  <2>1. n \in Nat /\ relayed \in 0..n
    OBVIOUS
  <2>2. relayed' = n \/ \E i \in relayed..n : relayed' = IF i = relayed THEN i ELSE i - 1
    BY <1>1 DEF Drain
  <2> QED
    BY <2>1, <2>2
<1> QED
  BY <1>1, <1>2, <1>3

-----------------------------------------------------------------------------
(***************************************************************************)
(* The inductive invariant: the types, what the server's phases exclude,   *)
(* and the history of the turns, of which Live are under way.              *)
(***************************************************************************)
Reply == [call : Call, allow : BOOLEAN]

FeedTypes == TypeOK /\ log \in Seq(Row) /\ replies \in Seq(Reply)

\* Who has a runtime, and whose turn is open in it.
ServerOK ==
  /\ phase \in {"minting", "running", "observing", "compacting"} => turn \in Turn
  /\ phase \in {"observing", "compacting"} => HasRow(log, turn)
  /\ open # None => runtime = "up"
  /\ phase = "running" => open = turn
  /\ open \in Turn => phase = "running"
  /\ phase \in {"minting", "down"} \/ cut # {} => runtime = "none"
  /\ phase = "down" => cut = {}

Live == {ActiveTurn, open} \cup cut

FeedInv == FeedTypes /\ ServerOK /\ History(log, Live, lost)

\* The invariant holds at the first start, with the rows a migration left.
LEMMA FeedInvInitial == Init => FeedInv
<1> SUFFICES ASSUME Init PROVE FeedInv
  OBVIOUS
<1>1. Hidden \in Row /\ Hidden.turn = None
  BY RowTypes DEF Hidden, Plain, Kind
<1>2. Legacy \in Nat /\ None \notin AnyTurn
  BY FeedAssumption DEF AnyTurn
<1>3. log \in Seq(Row) /\ Len(log) = Legacy /\ \A i \in DOMAIN log : log[i] = Hidden
  BY <1>1, <1>2 DEF Init
<1>4. FeedTypes
  BY <1>2, <1>3 DEF Init, FeedTypes, TypeOK, NoAsks
<1>5. ServerOK /\ Live = {None}
  BY FeedAssumption DEF Init, ServerOK, Live, ActiveTurn
<1>6. \A t \in AnyTurn : ~HasRow(log, t) /\ EndsWell(log, t)
  BY <1>1, <1>2, <1>3 DEF HasRow, EndsWell
<1>7. History(log, Live, lost)
  BY <1>2, <1>5, <1>6 DEF History
<1> QED
  BY <1>4, <1>5, <1>7 DEF FeedInv

\* The turns under way are turns, and they have not ended.
LEMMA LiveTurns ==
  ASSUME FeedInv, NEW t \in Live
  PROVE  /\ t \in AnyTurn \cup {None}
         /\ t \in AnyTurn => HasRow(log, t) /\ ~HasEnd(log, t)
  BY DEF FeedInv, FeedTypes, TypeOK, Live, ActiveTurn, History, AnyTurn

\* A turn nobody used has no row.
LEMMA UnusedTurns ==
  ASSUME NEW t PROVE t \notin Used => ~HasRow(log, t)
  BY DEF Used, HasRow

\* A step of the server that leaves the log alone.
LEMMA LogKept ==
  ASSUME FeedInv, UNCHANGED <<log, replies>>, TypeOK', ServerOK',
         Live' \cap AnyTurn \subseteq Live, (Live \cup lost) \cap AnyTurn \subseteq Live' \cup lost'
  PROVE  FeedInv'
<1>1. History(log, Live', lost')
  BY SameHistory DEF FeedInv
<1> QED
  BY <1>1 DEF FeedInv, FeedTypes

\* A step that publishes rows of the open turn, of a turn that begins, or of none.
LEMMA RowsOfTurn ==
  ASSUME FeedInv, NEW rows \in Seq(Row), NEW u, rows # <<>>, log' = log \o rows,
         \A i \in DOMAIN rows : rows[i].turn = u /\ rows[i].kind # "end",
         u \in Live \/ ~HasRow(log, u),
         TypeOK', ServerOK', replies' \in Seq(Reply), lost' = lost,
         Live' \cap AnyTurn \subseteq Live \cup {u}, (Live \cup {u}) \cap AnyTurn \subseteq Live'
  PROVE  FeedInv'
<1>1. u \in AnyTurn => ~HasEnd(log, u)
  BY LiveTurns DEF HasRow, HasEnd
<1>2. log \in Seq(Row) /\ History(log, Live, lost)
  BY DEF FeedInv, FeedTypes
<1>3. History(log \o rows, Live \cup {u}, lost)
  BY <1>1, <1>2, HistoryGoesOn
<1>4. History(log', Live', lost') /\ log' \in Seq(Row)
  BY <1>2, <1>3, SameHistory
<1> QED
  BY <1>4 DEF FeedInv, FeedTypes

\* A step that ends a turn.
LEMMA TurnCloses ==
  ASSUME FeedInv, NEW rows \in Seq(Row), NEW u \in AnyTurn, log' = log \o rows,
         Closing(log, rows, u), u \in Live \/ ~HasRow(log, u),
         TypeOK', ServerOK', replies' = replies, lost' = lost,
         Live' \cap AnyTurn \subseteq Live \ {u}, (Live \ {u}) \cap AnyTurn \subseteq Live'
  PROVE  FeedInv'
<1>1. ~HasEnd(log, u)
  BY LiveTurns DEF HasRow, HasEnd
<1>2. History(log', Live \ {u}, lost) /\ log' \in Seq(Row)
  BY <1>1, HistoryEnds DEF FeedInv, FeedTypes
<1>3. History(log', Live', lost')
  BY <1>2, SameHistory
<1> QED
  BY <1>2, <1>3 DEF FeedInv, FeedTypes

\* The rows of a tool observation.
LEMMA ToolRow ==
  ASSUME FeedInv, NEW c \in Call, NEW st \in CallState
  PROVE  /\ <<Tool(open, c, st)>> \in Seq(Row) /\ <<Tool(open, c, st)>> # <<>>
         /\ \A i \in DOMAIN <<Tool(open, c, st)>> :
              /\ <<Tool(open, c, st)>>[i].turn = open
              /\ <<Tool(open, c, st)>>[i].kind # "end"
<1>1. Tool(open, c, st) \in Row
  BY RowTypes DEF FeedInv, FeedTypes, TypeOK
<1> QED
  BY <1>1 DEF Tool

\* A tool observation of the open turn keeps the invariant.
LEMMA ObservedKeeps ==
  ASSUME FeedInv, NEW c \in Call, NEW st \in CallState, NEW after, Observed(c, st, after),
         asks' \in [Call -> BOOLEAN], replies' \in Seq(Reply),
         UNCHANGED <<turn, phase, runtime, open, cut, link, lost>>
  PROVE  FeedInv'
<1> DEFINE rows == <<Tool(open, c, st)>>
<1>1. /\ rows \in Seq(Row) /\ rows # <<>>
      /\ \A i \in DOMAIN rows : rows[i].turn = open /\ rows[i].kind # "end"
  BY ToolRow
<1>2. Publish(rows, after)
  BY DEF Observed
<1> HIDE DEF rows
<1>3. log' = log \o rows /\ log' \in Seq(Row) /\ relayed' \in 0..Len(log')
  BY <1>1, <1>2, PublishAppends DEF FeedInv, FeedTypes, TypeOK
<1>4. TypeOK'
  BY <1>3 DEF FeedInv, FeedTypes, TypeOK
<1>5. ServerOK'
  BY <1>1, <1>3, GrownTurn DEF FeedInv, FeedTypes, ServerOK
<1>6. open \in Live /\ Live' = Live
  BY DEF Live, ActiveTurn
<1> QED
  BY <1>1, <1>3, <1>4, <1>5, <1>6, RowsOfTurn

\* A permission is asked for with two rows of its call.
LEMMA AskKeeps ==
  ASSUME FeedInv, Ask PROVE FeedInv'
<1>1. PICK c \in Call :
        /\ asks' = [asks EXCEPT ![c] = TRUE]
        /\ \E after : Publish(<<Tool(open, c, "requested"), Tool(open, c, "approval-needed")>>, after)
  <2>1. FreshCalls # {} /\ FreshCalls \subseteq Call
    BY DEF Ask, FreshCalls
  <2> QED
    BY <2>1 DEF Ask
<1> DEFINE rows == <<Tool(open, c, "requested"), Tool(open, c, "approval-needed")>>
<1>2. Tool(open, c, "requested") \in Row /\ Tool(open, c, "approval-needed") \in Row
  BY RowTypes DEF FeedInv, FeedTypes, TypeOK, CallState
<1>3. /\ rows \in Seq(Row) /\ rows # <<>>
      /\ \A i \in DOMAIN rows : rows[i].turn = open /\ rows[i].kind # "end"
  BY <1>2 DEF Tool
<1>4. \E after : Publish(rows, after)
  BY <1>1
<1> HIDE DEF rows
<1>5. log' = log \o rows /\ log' \in Seq(Row) /\ relayed' \in 0..Len(log')
  BY <1>3, <1>4, PublishAppends DEF FeedInv, FeedTypes, TypeOK
<1>6. UNCHANGED <<turn, phase, runtime, open, cut, link, replies, lost>>
  BY DEF Ask
<1>7. TypeOK'
  BY <1>1, <1>5, <1>6 DEF FeedInv, FeedTypes, TypeOK
<1>8. ServerOK'
  BY <1>3, <1>5, <1>6, GrownTurn DEF FeedInv, FeedTypes, ServerOK
<1>9. open \in Live /\ Live' = Live /\ replies' \in Seq(Reply)
  BY <1>6 DEF Live, ActiveTurn, FeedInv, FeedTypes
<1> QED
  BY <1>3, <1>5, <1>6, <1>7, <1>8, <1>9, RowsOfTurn

\* What publishing does, under the invariant.
LEMMA Published ==
  ASSUME FeedInv, NEW rows \in Seq(Row), NEW after, Publish(rows, after)
  PROVE  /\ log' = log \o rows /\ log' \in Seq(Row) /\ relayed' \in 0..Len(log')
         /\ \A t : HasRow(log, t) => HasRow(log', t)
<1>1. log \in Seq(Row) /\ relayed \in 0..Len(log)
  BY DEF FeedInv, FeedTypes, TypeOK
<1>2. log' = log \o rows /\ log' \in Seq(Row) /\ relayed' \in 0..Len(log')
  BY <1>1, PublishAppends
<1> QED
  BY <1>1, <1>2, GrownTurn

\* A server step that publishes the end of a turn under way.
LEMMA EndRowsKeep ==
  ASSUME FeedInv, NEW u \in AnyTurn, u \in Live, NEW after, Publish(EndRows(u), after),
         asks' \in [Call -> BOOLEAN],
         phase' \in {"idle", "minting", "running", "observing", "compacting"},
         turn' \in Turn \cup {None}, runtime' \in {"none", "up", "closed"},
         open' \in AnyTurn \cup {None}, cut' \subseteq SelfTurn, UNCHANGED <<link, replies, lost>>,
         (\A t : HasRow(log, t) => HasRow(log', t)) => ServerOK',
         Live' \cap AnyTurn \subseteq Live \ {u}, (Live \ {u}) \cap AnyTurn \subseteq Live'
  PROVE  FeedInv'
<1>1. EndRows(u) \in Seq(Row) /\ Closing(log, EndRows(u), u)
  BY EndRowsClose DEF FeedInv, FeedTypes
<1>2. /\ log' = log \o EndRows(u) /\ relayed' \in 0..Len(log')
      /\ \A t : HasRow(log, t) => HasRow(log', t)
  BY <1>1, Published
<1>3. TypeOK'
  BY <1>2 DEF FeedInv, FeedTypes, TypeOK
<1> QED
  BY <1>1, <1>2, <1>3, TurnCloses

\* A runtime that fails to start ends the claimed turn.
LEMMA MintFailsKeeps ==
  ASSUME FeedInv, MintFails PROVE FeedInv'
<1>1. turn \in Turn /\ turn \in Live /\ open = None /\ None \notin AnyTurn /\ turn \in AnyTurn
  BY FeedAssumption DEF FeedInv, ServerOK, MintFails, Live, ActiveTurn, AnyTurn
<1>2. Live' = {None} \cup cut /\ Live = {turn, None} \cup cut /\ cut = {}
  BY <1>1 DEF MintFails, Live, ActiveTurn, InTask
<1>3. (\A t : HasRow(log, t) => HasRow(log', t)) => ServerOK'
  BY <1>1, FeedAssumption DEF FeedInv, ServerOK, MintFails
<1>4. asks' \in [Call -> BOOLEAN]
  BY DEF MintFails, NoAsks
<1>5. /\ phase' = "idle" /\ turn' = None /\ UNCHANGED <<runtime, open, cut, link, replies, lost>>
      /\ Publish(EndRows(turn), <<StateFrame(None)>>)
  BY DEF MintFails
<1> QED
  BY <1>1, <1>2, <1>3, <1>4, <1>5, EndRowsKeep DEF FeedInv, FeedTypes, TypeOK

\* A quarantined runtime takes the claimed turn with it.
LEMMA QuarantinedKeeps ==
  ASSUME FeedInv, Quarantined PROVE FeedInv'
<1>1. turn \in Turn /\ turn \in Live /\ open = turn /\ None \notin AnyTurn /\ turn \in AnyTurn
  BY FeedAssumption DEF FeedInv, ServerOK, Quarantined, Live, ActiveTurn, AnyTurn
<1>2. Live' = {None} \cup cut /\ Live = {turn} \cup cut /\ cut = {}
  BY <1>1 DEF Quarantined, Live, ActiveTurn, InTask
<1>3. (\A t : HasRow(log, t) => HasRow(log', t)) => ServerOK'
  BY <1>1, FeedAssumption DEF FeedInv, ServerOK, Quarantined, AnyTurn
<1>4. asks' \in [Call -> BOOLEAN]
  BY DEF Quarantined, NoAsks
<1>5. /\ phase' = "idle" /\ turn' = None /\ runtime' = "none" /\ open' = None
      /\ UNCHANGED <<cut, link, replies, lost>>
      /\ Publish(EndRows(turn), <<StateFrame(None)>>)
  BY DEF Quarantined
<1> QED
  BY <1>1, <1>2, <1>3, <1>4, <1>5, EndRowsKeep DEF FeedInv, FeedTypes, TypeOK

\* A turn dispose cut off ends when its runner reads it.
LEMMA CutEndsKeeps ==
  ASSUME FeedInv, NEW u \in SelfTurn, CutEnds(u) PROVE FeedInv'
<1>1. u \in AnyTurn /\ u \in Live /\ open = None /\ u \notin Turn \cup {None} /\ None \notin AnyTurn
  BY FeedAssumption DEF FeedInv, ServerOK, CutEnds, Live, AnyTurn
<1>2. Live' = {ActiveTurn, None} \cup (cut \ {u}) /\ ActiveTurn \in Turn \cup {None}
  BY <1>1 DEF CutEnds, Live, ActiveTurn, FeedInv, FeedTypes, TypeOK
<1>3. Live' \cap AnyTurn \subseteq Live \ {u} /\ (Live \ {u}) \cap AnyTurn \subseteq Live'
  BY <1>1, <1>2 DEF Live
<1>4. (\A t : HasRow(log, t) => HasRow(log', t)) => ServerOK'
  BY <1>1 DEF FeedInv, ServerOK, CutEnds
<1>5. asks' \in [Call -> BOOLEAN]
  BY DEF CutEnds, NoAsks
<1>6. /\ cut' = cut \ {u} /\ UNCHANGED <<turn, phase, runtime, open, link, replies, lost>>
      /\ Publish(EndRows(u), <<>>) /\ phase # "down"
  BY DEF CutEnds
<1> QED
  BY <1>1, <1>3, <1>4, <1>5, <1>6, EndRowsKeep DEF FeedInv, FeedTypes, TypeOK

\* The open turn ends with its native result, or with the query.
LEMMA TurnEndsKeeps ==
  ASSUME FeedInv, NEW after \in {"up", "closed"}, TurnEnds(after) PROVE FeedInv'
<1>1. /\ open \in AnyTurn /\ open \in Live /\ None \notin AnyTurn /\ runtime = "up" /\ cut = {}
      /\ phase \notin {"minting", "down"} /\ turn \in Turn \cup {None}
  BY FeedAssumption DEF FeedInv, FeedTypes, TypeOK, ServerOK, TurnEnds, Live, InTask, AnyTurn
<1>2. /\ runtime' = after /\ open' = None /\ asks' = NoAsks
      /\ phase' = IF open \in Turn THEN "observing" ELSE phase
      /\ \E frames : Publish(EndRows(open), frames)
      /\ UNCHANGED <<turn, cut, link, replies, lost>>
  BY DEF TurnEnds
<1>3. CASE open \in Turn
  <2>1. phase = "running" /\ open = turn /\ phase' = "observing"
    BY <1>2, <1>3 DEF FeedInv, ServerOK
  <2>2. Live' = {None} /\ Live = {turn} /\ HasRow(log, turn)
    BY <1>1, <1>2, <2>1, LiveTurns DEF Live, ActiveTurn
  <2>3. (\A t : HasRow(log, t) => HasRow(log', t)) => ServerOK'
    BY <1>1, <1>2, <1>3, <2>1, <2>2, FeedAssumption DEF ServerOK
  <2> QED
    BY <1>1, <1>2, <2>1, <2>2, <2>3, EndRowsKeep DEF NoAsks
<1>4. CASE open \notin Turn
  <2>1. phase # "running" /\ phase' = phase
    BY <1>1, <1>2, <1>4 DEF FeedInv, ServerOK
  <2>2. Live' = {None} /\ Live \cap AnyTurn = {open}
    BY <1>1, <1>2, <2>1 DEF Live, ActiveTurn
  <2>3. (\A t : HasRow(log, t) => HasRow(log', t)) => ServerOK'
    BY <1>1, <1>2, <2>1, FeedAssumption DEF ServerOK, FeedInv
  <2>4. phase' \in {"idle", "minting", "running", "observing", "compacting"}
    BY <1>1, <2>1 DEF FeedInv, FeedTypes, TypeOK
  <2> QED
    BY <1>1, <1>2, <2>1, <2>2, <2>3, <2>4, EndRowsKeep DEF NoAsks
<1> QED
  BY <1>3, <1>4

\* Boot recovery ends the turn a dead process left active.
LEMMA BootKeeps ==
  ASSUME FeedInv, Boot PROVE FeedInv'
<1>0. /\ phase' = "idle" /\ turn' = None /\ relayed' = Len(log')
      /\ UNCHANGED <<asks, runtime, open, cut, link, replies, lost>>
      /\ log' = log \o (IF turn = None THEN <<>> ELSE EndRows(turn))
  BY DEF Boot
<1>1. /\ phase = "down" /\ open = None /\ cut = {} /\ turn \in Turn \cup {None}
      /\ None \notin AnyTurn /\ Turn \subseteq AnyTurn /\ log \in Seq(Row)
  BY FeedAssumption DEF FeedInv, FeedTypes, TypeOK, ServerOK, Boot, AnyTurn
<1>2. Live = {turn, None} /\ Live' = {None}
  BY <1>0, <1>1 DEF Live, ActiveTurn
<1>3. ServerOK'
  BY <1>0, <1>1, FeedAssumption DEF ServerOK
<1>4. CASE turn = None
  <2>1. log' = log
    BY <1>0, <1>1, <1>4
  <2>2. TypeOK'
    BY <1>0, <1>1, <2>1 DEF FeedInv, FeedTypes, TypeOK
  <2> QED
    BY <1>0, <1>2, <1>3, <1>4, <2>1, <2>2, LogKept
<1>5. CASE turn # None
  <2>1. EndRows(turn) \in Seq(Row) /\ Closing(log, EndRows(turn), turn) /\ turn \in AnyTurn
    BY <1>1, <1>5, EndRowsClose
  <2>2. log' = log \o EndRows(turn) /\ log' \in Seq(Row) /\ Len(log') \in Nat
    BY <1>0, <1>1, <1>5, <2>1
  <2>3. TypeOK'
    BY <1>0, <2>2 DEF FeedInv, FeedTypes, TypeOK
  <2> QED
    BY <1>0, <1>1, <1>2, <1>3, <2>1, <2>2, <2>3, TurnCloses
<1> QED
  BY <1>4, <1>5

\* A turn is claimed, or refused and ended at once.
LEMMA ClaimKeeps ==
  ASSUME FeedInv, Claim PROVE FeedInv'
<1>1. PICK t \in Turn \ Used :
        LET started == <<Plain("start", t)>>
        IN  \/ /\ runtime = "none"
               /\ turn' = t /\ phase' = "minting"
               /\ Publish(started, <<StateFrame(t)>>)
               /\ UNCHANGED <<asks, runtime, open, cut>>
            \/ /\ runtime = "up" /\ open = None
               /\ turn' = t /\ phase' = "running" /\ open' = t
               /\ Publish(started, <<StateFrame(t)>>)
               /\ UNCHANGED <<asks, runtime, cut>>
            \/ /\ runtime = "closed" \/ open # None
               /\ asks' = NoAsks /\ runtime' = "none"
               /\ open' = None /\ cut' = {open} \ {None}
               /\ Publish(started \o EndRows(t), <<StateFrame(None)>>)
               /\ UNCHANGED <<turn, phase>>
  <2>1. Turn \ Used # {}
    BY DEF Claim
  <2> QED
    BY <2>1 DEF Claim
<1> DEFINE started == <<Plain("start", t)>>
<1>2. /\ t \in AnyTurn /\ t # None /\ ~HasRow(log, t) /\ None \notin AnyTurn
      /\ Turn \cap SelfTurn = {} /\ AnyTurn = Turn \cup SelfTurn
  BY FeedAssumption, UnusedTurns DEF AnyTurn
<1>3. Plain("start", t) \in Row /\ Plain("start", t).turn = t /\ Plain("start", t).kind # "end"
  BY <1>2, RowTypes DEF Kind, Plain
<1>4. /\ started \in Seq(Row) /\ started # <<>>
      /\ \A i \in DOMAIN started : started[i].turn = t /\ started[i].kind # "end"
  BY <1>3
<1>5. /\ phase = "idle" /\ UNCHANGED <<link, replies, tab, lost>>
      /\ log \in Seq(Row) /\ TypeOK /\ ServerOK /\ replies' \in Seq(Reply)
  BY DEF Claim, FeedInv, FeedTypes
<1> HIDE DEF started
<1>6. CASE \/ /\ runtime = "none" /\ turn' = t /\ phase' = "minting"
              /\ Publish(started, <<StateFrame(t)>>)
              /\ UNCHANGED <<asks, runtime, open, cut>>
           \/ /\ runtime = "up" /\ open = None
              /\ turn' = t /\ phase' = "running" /\ open' = t
              /\ Publish(started, <<StateFrame(t)>>)
              /\ UNCHANGED <<asks, runtime, cut>>
  <2>1. /\ log' = log \o started /\ relayed' \in 0..Len(log')
    BY <1>4, <1>6, Published
  <2>2. TypeOK'
    BY <1>2, <1>5, <1>6, <2>1 DEF TypeOK
  <2>3. ServerOK'
    BY <1>2, <1>5, <1>6 DEF ServerOK
  <2>4. Live' \cap AnyTurn \subseteq Live \cup {t} /\ (Live \cup {t}) \cap AnyTurn \subseteq Live'
    BY <1>2, <1>5, <1>6 DEF Live, ActiveTurn
  <2> QED
    BY <1>2, <1>4, <1>5, <2>1, <2>2, <2>3, <2>4, RowsOfTurn
<1>7. CASE /\ runtime = "closed" \/ open # None
           /\ asks' = NoAsks /\ runtime' = "none"
           /\ open' = None /\ cut' = {open} \ {None}
           /\ Publish(started \o EndRows(t), <<StateFrame(None)>>)
           /\ UNCHANGED <<turn, phase>>
  <2>1. EndRows(t) \in Seq(Row) /\ Closing(log, EndRows(t), t)
    BY <1>2, <1>5, EndRowsClose
  <2>2. started \o EndRows(t) \in Seq(Row) /\ Closing(log, started \o EndRows(t), t)
    BY <1>2, <1>5, <2>1, StartedClose DEF started
  <2>3. log' = log \o (started \o EndRows(t)) /\ relayed' \in 0..Len(log')
    BY <1>7, <2>2, Published
  <2>4. cut = {} /\ open \in SelfTurn \cup {None}
    BY <1>2, <1>5, <1>7 DEF ServerOK, TypeOK
  <2>5. TypeOK'
    BY <1>2, <1>5, <1>7, <2>3, <2>4 DEF TypeOK, NoAsks
  <2>6. ServerOK'
    BY <1>2, <1>5, <1>7 DEF ServerOK
  <2>7. ActiveTurn = None /\ ActiveTurn' = None
    BY <1>5, <1>7 DEF ActiveTurn
  <2>8. t \notin Live
    BY <1>2, LiveTurns
  <2>9. Live' \cap AnyTurn \subseteq Live \ {t} /\ (Live \ {t}) \cap AnyTurn \subseteq Live'
    BY <1>2, <1>7, <2>4, <2>7, <2>8 DEF Live
  <2> QED
    BY <1>2, <1>5, <2>2, <2>3, <2>5, <2>6, <2>9, TurnCloses
<1> QED
  BY <1>1, <1>6, <1>7 DEF started

\* A runtime opens a turn of its own.
LEMMA SelfStartKeeps ==
  ASSUME FeedInv, SelfStart PROVE FeedInv'
<1>1. PICK u \in SelfTurn \ Used : open' = u /\ Publish(<<Plain("marker", u)>>, <<>>)
  BY DEF SelfStart
<1> DEFINE rows == <<Plain("marker", u)>>
<1>2. /\ u \in AnyTurn /\ u # None /\ ~HasRow(log, u) /\ None \notin AnyTurn
      /\ u \notin Turn /\ AnyTurn = Turn \cup SelfTurn
  BY FeedAssumption, UnusedTurns DEF AnyTurn
<1>3. Plain("marker", u) \in Row /\ Plain("marker", u).turn = u /\ Plain("marker", u).kind # "end"
  BY <1>2, RowTypes DEF Kind, Plain
<1>4. /\ rows \in Seq(Row) /\ rows # <<>>
      /\ \A i \in DOMAIN rows : rows[i].turn = u /\ rows[i].kind # "end"
  BY <1>3
<1>5. Publish(rows, <<>>)
  BY <1>1
<1> HIDE DEF rows
<1>6. /\ log' = log \o rows /\ relayed' \in 0..Len(log')
      /\ \A t : HasRow(log, t) => HasRow(log', t)
  BY <1>4, <1>5, Published
<1>7. /\ UNCHANGED <<turn, phase, asks, runtime, cut, link, replies, lost>>
      /\ runtime = "up" /\ open = None /\ cut = {} /\ phase # "down"
      /\ TypeOK /\ ServerOK /\ replies' \in Seq(Reply)
  BY DEF SelfStart, InTask, FeedInv, FeedTypes
<1>8. TypeOK'
  BY <1>1, <1>2, <1>6, <1>7 DEF TypeOK
<1>9. phase # "running"
  BY <1>2, <1>7 DEF ServerOK
<1>10. ServerOK'
  BY <1>1, <1>2, <1>6, <1>7, <1>9 DEF ServerOK
<1>11. Live' \cap AnyTurn \subseteq Live \cup {u} /\ (Live \cup {u}) \cap AnyTurn \subseteq Live'
  BY <1>1, <1>2, <1>7 DEF Live, ActiveTurn
<1> QED
  BY <1>2, <1>4, <1>6, <1>7, <1>8, <1>10, <1>11, RowsOfTurn

\* The context of a turn, and the notice about it, trail the turn.
LEMMA TrailingRowsKeep ==
  ASSUME FeedInv, NEW rows \in Seq(Row), NEW after, Publish(rows, after),
         \A i \in DOMAIN rows :
           rows[i].turn = turn /\ rows[i].kind \in Trailing /\ rows[i].call = None,
         phase \in {"observing", "compacting"},
         \/ phase' = "idle" /\ turn' = None
         \/ phase' = "compacting" /\ turn' = turn,
         UNCHANGED <<asks, runtime, open, cut, link, replies, lost>>
  PROVE  FeedInv'
<1>1. /\ log' = log \o rows /\ log' \in Seq(Row) /\ relayed' \in 0..Len(log')
      /\ \A t : HasRow(log, t) => HasRow(log', t)
  BY Published
<1>2. /\ log \in Seq(Row) /\ TypeOK /\ ServerOK /\ History(log, Live, lost)
      /\ replies' \in Seq(Reply) /\ HasRow(log, turn)
  BY DEF FeedInv, FeedTypes, ServerOK
<1>3. TypeOK'
  BY <1>1, <1>2 DEF TypeOK
<1>4. ServerOK'
  BY <1>1, <1>2 DEF ServerOK
<1>5. ActiveTurn = None /\ Live' = Live
  BY DEF ActiveTurn, Live
<1>6. History(log \o rows, Live, lost)
  BY <1>2, HistoryTrails
<1>7. History(log', Live', lost')
  BY <1>1, <1>5, <1>6
<1> QED
  BY <1>1, <1>2, <1>3, <1>4, <1>7 DEF FeedInv, FeedTypes

\* The context of a turn, and the policy behind it.
LEMMA ObservationsKeep ==
  ASSUME FeedInv, ObserveContext \/ CompactDone PROVE FeedInv'
<1>1. turn \in AnyTurn \cup {None}
  BY DEF FeedInv, FeedTypes, TypeOK, AnyTurn
<1>2. \A kind \in {"context", "notice"} :
        /\ <<Plain(kind, turn)>> \in Seq(Row)
        /\ \A i \in DOMAIN <<Plain(kind, turn)>> :
             /\ <<Plain(kind, turn)>>[i].turn = turn
             /\ <<Plain(kind, turn)>>[i].kind \in Trailing
             /\ <<Plain(kind, turn)>>[i].call = None
  <2> SUFFICES ASSUME NEW kind \in {"context", "notice"}
               PROVE  /\ <<Plain(kind, turn)>> \in Seq(Row)
                      /\ \A i \in DOMAIN <<Plain(kind, turn)>> :
                           /\ <<Plain(kind, turn)>>[i].turn = turn
                           /\ <<Plain(kind, turn)>>[i].kind \in Trailing
                           /\ <<Plain(kind, turn)>>[i].call = None
    OBVIOUS
  <2>1. Plain(kind, turn) \in Row
    BY <1>1, RowTypes DEF Kind
  <2> QED
    BY <2>1 DEF Plain, Trailing
<1>3. <<>> \in Seq(Row) /\ \A i \in DOMAIN <<>> : FALSE
  OBVIOUS
<1>4. CASE ObserveContext
  BY <1>2, <1>4, TrailingRowsKeep DEF ObserveContext
<1>5. CASE CompactDone
  <2>1. CASE Publish(<<>>, <<>>)
    BY <1>3, <1>5, <2>1, TrailingRowsKeep DEF CompactDone
  <2>2. CASE Publish(<<Plain("notice", turn)>>, <<>>)
    BY <1>2, <1>5, <2>2, TrailingRowsKeep DEF CompactDone
  <2> QED
    BY <1>5, <2>1, <2>2 DEF CompactDone
<1> QED
  BY <1>4, <1>5

\* A call returns, or its ask lapses.
LEMMA CallsGoOn ==
  ASSUME FeedInv, NEW c \in Call, ToolReturns(c) \/ AskLapses(c) PROVE FeedInv'
<1>1. asks \in [Call -> BOOLEAN] /\ replies \in Seq(Reply)
  BY DEF FeedInv, FeedTypes, TypeOK
<1>2. CASE ToolReturns(c)
  <2>1. Observed(c, "succeeded", <<>>) /\ UNCHANGED <<serverVars, link, replies, lost>>
    BY <1>2 DEF ToolReturns
  <2>2. "succeeded" \in CallState
    BY DEF CallState, Settled
  <2> QED
    BY <1>1, <2>1, <2>2, ObservedKeeps DEF serverVars
<1>3. CASE AskLapses(c)
  <2>1. /\ Observed(c, "denied", <<>>) /\ asks' = [asks EXCEPT ![c] = FALSE]
        /\ UNCHANGED <<turn, phase, runtime, open, cut, link, replies, lost>>
    BY <1>3 DEF AskLapses, Decide
  <2>2. "denied" \in CallState /\ asks' \in [Call -> BOOLEAN]
    BY <1>1, <2>1 DEF CallState, Settled
  <2> QED
    BY <1>1, <2>1, <2>2, ObservedKeeps
<1> QED
  BY <1>2, <1>3

\* The answer of a tab decides an ask that waits, or nothing.
LEMMA RepliesKeep ==
  ASSUME FeedInv, ReplyArrives PROVE FeedInv'
<1> DEFINE r == Head(replies)
           st == IF r.allow THEN "running" ELSE "denied"
<1>1. r \in Reply /\ replies' \in Seq(Reply)
  BY DEF ReplyArrives, FeedInv, FeedTypes
<1>2. r.call \in Call /\ st \in CallState /\ asks \in [Call -> BOOLEAN]
  BY <1>1 DEF Reply, CallState, Settled, FeedInv, FeedTypes, TypeOK
<1>3. /\ UNCHANGED <<turn, phase, runtime, open, cut, link, lost>>
      /\ IF asks[r.call] THEN Decide(r.call, st) ELSE UNCHANGED <<asks, storeVars>>
  BY DEF ReplyArrives
<1> HIDE DEF r, st
<1>4. CASE asks[r.call]
  <2>1. Observed(r.call, st, <<>>) /\ asks' = [asks EXCEPT ![r.call] = FALSE]
    BY <1>3, <1>4 DEF Decide
  <2>2. asks' \in [Call -> BOOLEAN]
    BY <1>2, <2>1
  <2> QED
    BY <1>1, <1>2, <1>3, <2>1, <2>2, ObservedKeeps
<1>5. CASE ~asks[r.call]
  <2>1. UNCHANGED <<log, relayed, asks>>
    BY <1>3, <1>5 DEF storeVars
  <2>2. TypeOK' /\ ServerOK' /\ Live' = Live /\ lost' = lost
    BY <1>3, <2>1 DEF FeedInv, FeedTypes, TypeOK, ServerOK, Live, ActiveTurn
  <2> QED
    BY <1>1, <2>1, <2>2 DEF FeedInv, FeedTypes
<1> QED
  BY <1>4, <1>5

\* Between processes nothing is under way but the active row; an unsolicited turn
\* that was open is lost.
LEMMA StopKeeps ==
  ASSUME FeedInv, StopServer PROVE FeedInv'
<1>1. /\ TypeOK /\ ServerOK /\ History(log, Live, lost) /\ log \in Seq(Row)
      /\ AnyTurn = Turn \cup SelfTurn /\ None \notin AnyTurn
  BY FeedAssumption DEF FeedInv, FeedTypes, AnyTurn
<1>2. /\ phase' = "down" /\ turn' = ActiveTurn /\ asks' = NoAsks /\ runtime' = "none"
      /\ lost' = lost \cup ((cut \cup {open}) \cap SelfTurn)
      /\ open' = None /\ cut' = {} /\ link' = "closed" /\ replies' = <<>>
      /\ UNCHANGED <<log, relayed>>
  BY DEF StopServer
<1>3. ActiveTurn \in Turn \cup {None}
  BY <1>1 DEF ActiveTurn, TypeOK
<1>4. TypeOK'
  BY <1>1, <1>2, <1>3 DEF TypeOK, NoAsks
<1>5. ServerOK'
  BY <1>2, FeedAssumption DEF ServerOK
<1>6. Live' = {ActiveTurn, None}
  BY <1>2 DEF Live, ActiveTurn
<1>7. open \in Turn => open = ActiveTurn
  BY <1>1 DEF ServerOK, ActiveTurn
<1>8. Live' \cap AnyTurn \subseteq Live
  BY <1>1, <1>6 DEF Live
<1>9. (Live \cup lost) \cap AnyTurn \subseteq Live' \cup lost'
  BY <1>1, <1>2, <1>6, <1>7 DEF Live, TypeOK
<1>10. History(log', Live', lost')
  BY <1>1, <1>2, <1>8, <1>9, SameHistory
<1> QED
  BY <1>1, <1>2, <1>4, <1>5, <1>10 DEF FeedInv, FeedTypes

\* The rest of the server's steps write no row and touch no turn's history.
LEMMA SilentSteps ==
  ASSUME FeedInv, Minted \/ RuntimeCloses \/ RelayTimer PROVE FeedInv'
<1>1. /\ TypeOK /\ ServerOK /\ log \in Seq(Row) /\ None \notin AnyTurn
      /\ Turn \subseteq AnyTurn
  BY FeedAssumption DEF FeedInv, FeedTypes, AnyTurn
<1>2. CASE Minted
  <2>1. /\ phase = "minting" /\ phase' = "running" /\ runtime' = "up" /\ open' = turn
        /\ turn \in Turn /\ open = None /\ cut = {}
        /\ UNCHANGED <<log, relayed, turn, asks, cut, link, replies, lost>>
    BY <1>1, <1>2 DEF Minted, InTask, storeVars, ServerOK
  <2>2. TypeOK' /\ ServerOK'
    BY <1>1, <2>1, FeedAssumption DEF TypeOK, ServerOK
  <2>3. Live = {turn, None} /\ Live' = {turn}
    BY <2>1 DEF Live, ActiveTurn
  <2> QED
    BY <1>1, <2>1, <2>2, <2>3, LogKept
<1>3. CASE RuntimeCloses
  <2>1. /\ runtime = "up" /\ open = None /\ runtime' = "closed"
        /\ UNCHANGED <<log, relayed, turn, phase, asks, open, cut, link, replies, lost>>
    BY <1>3 DEF RuntimeCloses, storeVars
  <2>2. TypeOK' /\ ServerOK' /\ Live' = Live
    BY <1>1, <2>1 DEF TypeOK, ServerOK, Live, ActiveTurn
  <2> QED
    BY <2>1, <2>2, LogKept
<1>4. CASE RelayTimer
  <2>1. Drain(Len(log), <<>>) /\ UNCHANGED <<log, serverVars, link, replies, lost>>
    BY <1>4 DEF RelayTimer
  <2>2. \/ relayed' = Len(log)
        \/ \E i \in relayed..Len(log) : relayed' = IF i = relayed THEN i ELSE i - 1
    BY <2>1 DEF Drain
  <2>3. relayed' \in 0..Len(log)
    <3>1. relayed \in 0..Len(log) /\ Len(log) \in Nat
      BY <1>1 DEF TypeOK
    <3> QED
      BY <2>2, <3>1
  <2>4. TypeOK' /\ ServerOK' /\ Live' = Live
    BY <1>1, <2>1, <2>3 DEF TypeOK, ServerOK, Live, ActiveTurn, serverVars
  <2> QED
    BY <2>1, <2>4, LogKept
<1> QED
  BY <1>2, <1>3, <1>4

\* Nothing the socket or the tab does reaches the log or the server's turns.
LEMMA TabSteps ==
  ASSUME FeedInv,
         \/ Connect \/ Drop \/ Deliver
         \/ \E c \in Call, allow \in BOOLEAN : Answer(c, allow)
         \/ UNCHANGED vars
  PROVE  FeedInv'
<1>1. /\ TypeOK /\ ServerOK /\ log \in Seq(Row) /\ replies \in Seq(Reply)
  BY DEF FeedInv, FeedTypes
<1>2. /\ UNCHANGED <<log, relayed, turn, phase, asks, runtime, open, cut, lost>>
      /\ link' \in {"closed", "joining", "live"} /\ replies' \in Seq(Reply)
  <2>1. CASE Connect
    BY <1>1, <2>1 DEF Connect, serverVars
  <2>2. CASE Drop
    BY <1>1, <2>2 DEF Drop, serverVars
  <2>3. CASE Deliver
    BY <1>1, <2>3 DEF Deliver, serverVars, TypeOK
  <2>4. CASE \E c \in Call, allow \in BOOLEAN : Answer(c, allow)
    <3>1. PICK c \in Call, allow \in BOOLEAN : Answer(c, allow)
      BY <2>4
    <3>2. [call |-> c, allow |-> allow] \in Reply
      BY DEF Reply
    <3>3. replies' = Append(replies, [call |-> c, allow |-> allow])
      BY <3>1 DEF Answer
    <3>4. replies' \in Seq(Reply)
      BY <1>1, <3>2, <3>3
    <3>5. UNCHANGED <<log, relayed, serverVars, link, lost>>
      BY <3>1 DEF Answer, storeVars
    <3> QED
      BY <1>1, <3>4, <3>5 DEF serverVars, TypeOK
  <2>5. CASE UNCHANGED vars
    BY <1>1, <2>5 DEF vars, serverVars, storeVars, TypeOK
  <2> QED
    BY <2>1, <2>2, <2>3, <2>4, <2>5
<1>3. TypeOK' /\ ServerOK' /\ Live' = Live
  BY <1>1, <1>2 DEF TypeOK, ServerOK, Live, ActiveTurn
<1> QED
  BY <1>1, <1>2, <1>3 DEF FeedInv, FeedTypes

\* Every step keeps the invariant.
LEMMA FeedInvInductive == FeedInv /\ [Next]_vars => FeedInv'
<1> SUFFICES ASSUME FeedInv, [Next]_vars PROVE FeedInv'
  OBVIOUS
<1>1. CASE Claim
  BY <1>1, ClaimKeeps
<1>2. CASE MintFails
  BY <1>2, MintFailsKeeps
<1>3. CASE Quarantined
  BY <1>3, QuarantinedKeeps
<1>4. CASE SelfStart
  BY <1>4, SelfStartKeeps
<1>5. CASE \E u \in SelfTurn : CutEnds(u)
  BY <1>5, CutEndsKeeps
<1>6. CASE \E after \in {"up", "closed"} : TurnEnds(after)
  BY <1>6, TurnEndsKeeps
<1>7. CASE Ask
  BY <1>7, AskKeeps
<1>8. CASE ReplyArrives
  BY <1>8, RepliesKeep
<1>9. CASE \E c \in Call : ToolReturns(c) \/ AskLapses(c)
  BY <1>9, CallsGoOn
<1>10. CASE ObserveContext \/ CompactDone
  BY <1>10, ObservationsKeep
<1>11. CASE Minted \/ RuntimeCloses \/ RelayTimer
  BY <1>11, SilentSteps
<1>12. CASE StopServer
  BY <1>12, StopKeeps
<1>13. CASE Boot
  BY <1>13, BootKeeps
<1>14. CASE \/ Connect \/ Drop \/ Deliver
            \/ \E c \in Call, allow \in BOOLEAN : Answer(c, allow)
            \/ UNCHANGED vars
  BY <1>14, TabSteps
<1> QED
  BY <1>1, <1>2, <1>3, <1>4, <1>5, <1>6, <1>7, <1>8, <1>9, <1>10, <1>11, <1>12, <1>13, <1>14
     DEF Next

\* The invariant holds always.
LEMMA FeedInvariant == Spec => []FeedInv
<1>1. Init => FeedInv
  BY FeedInvInitial
<1>2. FeedInv /\ [Next]_vars => FeedInv'
  BY FeedInvInductive
<1> QED
  BY <1>1, <1>2, PTL DEF Spec

\* The relay never marks a row that is not in the log, and the server's and the
\* socket's state stay within their types, whatever the interleaving.
THEOREM FeedTypesHold == Spec => []TypeOK
<1>1. FeedInv => TypeOK
  BY DEF FeedInv, FeedTypes
<1> QED
  BY <1>1, FeedInvariant, PTL

\* However a turn ends - by its result, a failed start, a quarantine, a disposed
\* runtime or the boot after a crash - it ends once, with no call of its own left
\* open and nothing but its context behind it; and a turn without an end is under
\* way or was cut off by the end of a process.
THEOREM TurnsAreClosedOnce == Spec => []TurnsEndOnce
<1>1. FeedInv => TurnsEndOnce
  <2> SUFFICES ASSUME FeedInv, NEW t \in AnyTurn
               PROVE  LET own == {i \in DOMAIN log : log[i].turn = t}
                          ends == {i \in own : log[i].kind = "end"}
                      IN  /\ \A e \in ends :
                               /\ \A i \in own : i > e => log[i].kind \in Trailing
                               /\ \A c \in CallsOf(t) : StateOf(c) \in Settled
                          /\ own # {} /\ ends = {} => t \in {ActiveTurn, open} \cup cut \cup lost
    BY DEF TurnsEndOnce, Trailing
  <2> DEFINE own == {i \in DOMAIN log : log[i].turn = t}
             ends == {i \in own : log[i].kind = "end"}
  <2>1. /\ log \in Seq(Row) /\ EndsWell(log, t)
        /\ HasRow(log, t) /\ ~HasEnd(log, t) => t \in Live \cup lost
    BY DEF FeedInv, FeedTypes, History
  <2>2. ASSUME NEW e \in ends, NEW i \in own, i > e PROVE log[i].kind \in Trailing
    BY <2>1, <2>2 DEF EndsWell
  <2>3. ASSUME NEW e \in ends, NEW c \in CallsOf(t) PROVE StateOf(c) \in Settled
    <3>1. c \in Call /\ LastOf(c) # 0 /\ log[LastOf(c)].turn = t
      BY DEF CallsOf
    <3>2. LastOf(c) \in DOMAIN log /\ LastRow(log, LastOf(c))
      BY <2>1, <3>1, LastOfIsLastRow
    <3> QED
      BY <2>1, <3>1, <3>2 DEF EndsWell, StateOf
  <2>4. own # {} /\ ends = {} => t \in {ActiveTurn, open} \cup cut \cup lost
    BY <2>1 DEF HasRow, HasEnd, Live
  <2> QED
    BY <2>2, <2>3, <2>4
<1> QED
  BY <1>1, FeedInvariant, PTL

-----------------------------------------------------------------------------
(***************************************************************************)
(* The calls: what the last row of each says, and how the rows an action   *)
(* appends move them.                                                      *)
(***************************************************************************)
StateIn(s, c) == IF LastIn(s, c) = 0 THEN None ELSE s[LastIn(s, c)].state
TurnIn(s, c) == IF LastIn(s, c) = 0 THEN None ELSE s[LastIn(s, c)].turn

NoCall(s, c) == \A i \in DOMAIN s : s[i].call # c

\* CallsMoveLegally of any sequence of rows, row by row.
LegalRow(s, j) ==
  s[j].call \in Call =>
    LET earlier == {i \in 1..(j - 1) : s[i].call = s[j].call}
    IN  /\ earlier = {} => ToolMove(None, s[j].state)
        /\ \A i \in earlier : (\A k \in earlier : k <= i) =>
             s[i].turn = s[j].turn /\ ToolMove(s[i].state, s[j].state)

LegalRows(s) == \A j \in DOMAIN s : LegalRow(s, j)

\* Every row of a call has a state.
ToolStates(s) == \A j \in DOMAIN s : s[j].call \in Call => s[j].state # None

\* Rows that may be appended: no call has two of them, and each follows the last
\* row of its call.
LegalNext(s, rows) ==
  /\ \A a, b \in DOMAIN rows : rows[a].call \in Call /\ rows[a].call = rows[b].call => a = b
  /\ \A m \in DOMAIN rows : rows[m].call \in Call =>
       /\ rows[m].state # None
       /\ NoCall(s, rows[m].call) => ToolMove(None, rows[m].state)
       /\ \A k \in DOMAIN s : s[k].call = rows[m].call /\ LastRow(s, k) =>
            s[k].turn = rows[m].turn /\ ToolMove(s[k].state, rows[m].state)

\* Appended, such rows leave every row of every call legal.
LEMMA LegalAppend ==
  ASSUME NEW s \in Seq(Row), NEW rows \in Seq(Row), LegalRows(s), ToolStates(s), LegalNext(s, rows)
  PROVE  LegalRows(s \o rows) /\ ToolStates(s \o rows)
<1> DEFINE z == s \o rows
<1>1. /\ DOMAIN s = 1..Len(s) /\ Len(s) \in Nat /\ DOMAIN s \subseteq DOMAIN z
      /\ \A i \in DOMAIN s : z[i] = s[i]
      /\ \A i \in DOMAIN z : i \in DOMAIN s
           \/ (i > Len(s) /\ i - Len(s) \in DOMAIN rows /\ z[i] = rows[i - Len(s)])
      /\ DOMAIN z \subseteq Nat
  BY Grown
<1> HIDE DEF z
<1>2. ASSUME NEW j \in DOMAIN z PROVE LegalRow(z, j)
  <2>1. CASE j \in DOMAIN s
    <3>1. /\ z[j] = s[j] /\ LegalRow(s, j) /\ 1..(j - 1) \subseteq DOMAIN s
          /\ \A i \in 1..(j - 1) : z[i] = s[i]
      BY <1>1, <2>1 DEF LegalRows
    <3>2. {i \in 1..(j - 1) : z[i].call = z[j].call} = {i \in 1..(j - 1) : s[i].call = s[j].call}
      BY <3>1
    <3> QED
      BY <3>1, <3>2 DEF LegalRow
  <2>2. CASE j \notin DOMAIN s
    <3> DEFINE m == j - Len(s)
               earlier == {i \in 1..(j - 1) : z[i].call = z[j].call}
    <3>1. j > Len(s) /\ m \in DOMAIN rows /\ z[j] = rows[m] /\ j \in Nat
      BY <1>1, <2>2
    <3> SUFFICES ASSUME z[j].call \in Call
                 PROVE  /\ earlier = {} => ToolMove(None, z[j].state)
                        /\ \A i \in earlier : (\A k \in earlier : k <= i) =>
                             z[i].turn = z[j].turn /\ ToolMove(z[i].state, z[j].state)
      BY DEF LegalRow
    <3>2. earlier \subseteq DOMAIN s
      <4> SUFFICES ASSUME NEW i \in earlier, i \notin DOMAIN s PROVE FALSE
        OBVIOUS
      <4>1. i \in DOMAIN z
        <5>1. DOMAIN z = 1..(Len(s) + Len(rows))
          BY Grown DEF z
        <5> QED
          BY <1>1, <3>1, <5>1
      <4>2. i - Len(s) \in DOMAIN rows /\ z[i] = rows[i - Len(s)]
        BY <1>1, <4>1
      <4>3. i - Len(s) = m
        BY <3>1, <4>2 DEF LegalNext
      <4> QED
        BY <1>1, <3>1, <4>3
    <3>3. DOMAIN s \subseteq 1..(j - 1)
      BY <1>1, <3>1
    <3>4. earlier = {i \in DOMAIN s : s[i].call = rows[m].call}
      BY <1>1, <3>1, <3>2, <3>3
    <3> HIDE DEF m, earlier
    <3>5. earlier = {} => ToolMove(None, z[j].state)
      BY <3>1, <3>4 DEF LegalNext, NoCall
    <3>6. ASSUME NEW i \in earlier, \A k \in earlier : k <= i
          PROVE  z[i].turn = z[j].turn /\ ToolMove(z[i].state, z[j].state)
      <4>1. i \in DOMAIN s /\ s[i].call = rows[m].call /\ z[i] = s[i]
        BY <1>1, <3>4, <3>6
      <4>2. LastRow(s, i)
        <5>1. \A k \in DOMAIN s : k > i => s[k].call # s[i].call
          BY <1>1, <3>4, <3>6, <4>1
        <5> QED
          BY <3>1, <4>1, <5>1 DEF LastRow
      <4> QED
        BY <3>1, <4>1, <4>2 DEF LegalNext
    <3> QED
      BY <3>5, <3>6
  <2> QED
    BY <2>1, <2>2
<1>3. ToolStates(z)
  BY <1>1 DEF ToolStates, LegalNext
<1> QED
  BY <1>2, <1>3 DEF LegalRows, z

\* Where a log that grew leaves a call: where it was, or at its only new row.
LEMMA CallGrown ==
  ASSUME NEW s \in Seq(Row), NEW rows \in Seq(Row), NEW c \in Call
  PROVE  /\ NoCall(rows, c) => /\ TurnIn(s \o rows, c) = TurnIn(s, c)
                               /\ StateIn(s \o rows, c) = StateIn(s, c)
         /\ \A m \in DOMAIN rows : rows[m].call = c /\ LastRow(rows, m) =>
              /\ TurnIn(s \o rows, c) = rows[m].turn
              /\ StateIn(s \o rows, c) = rows[m].state
<1> DEFINE z == s \o rows
<1>1. /\ z \in Seq(Row) /\ DOMAIN s = 1..Len(s) /\ Len(s) \in Nat /\ DOMAIN s \subseteq DOMAIN z
      /\ \A i \in DOMAIN s : z[i] = s[i]
      /\ \A i \in DOMAIN rows : Len(s) + i \in DOMAIN z /\ z[Len(s) + i] = rows[i]
      /\ \A i \in DOMAIN z : i \in DOMAIN s
           \/ (i > Len(s) /\ i - Len(s) \in DOMAIN rows /\ z[i] = rows[i - Len(s)])
      /\ DOMAIN rows \subseteq Nat \ {0}
  BY Grown
<1> HIDE DEF z
<1>2. ASSUME NoCall(rows, c) PROVE TurnIn(z, c) = TurnIn(s, c) /\ StateIn(z, c) = StateIn(s, c)
  <2>1. CASE LastIn(s, c) = 0
    <3>1. LastIn(z, c) = 0
      <4> SUFFICES ASSUME LastIn(z, c) # 0 PROVE FALSE
        OBVIOUS
      <4> DEFINE k == LastIn(z, c)
      <4>1. k \in DOMAIN z /\ z[k].call = c /\ LastRow(z, k)
        BY <1>1, LastInIsLastRow
      <4>2. k \in DOMAIN s /\ s[k].call = c
        BY <1>1, <1>2, <4>1 DEF NoCall
      <4>3. LastRow(s, k)
        BY <1>1, <4>1, <4>2 DEF LastRow
      <4>4. LastIn(s, c) = k
        BY <4>2, <4>3, LastInIsLastRow
      <4> QED
        BY <2>1, <4>4
    <3> QED
      BY <2>1, <3>1 DEF TurnIn, StateIn
  <2>2. CASE LastIn(s, c) # 0
    <3> DEFINE k == LastIn(s, c)
    <3>1. k \in DOMAIN s /\ s[k].call = c /\ LastRow(s, k)
      BY <2>2, LastInIsLastRow
    <3>2. k \in DOMAIN z /\ z[k] = s[k]
      BY <1>1, <3>1
    <3>3. LastRow(z, k)
      BY <1>1, <1>2, <3>1, <3>2 DEF LastRow, NoCall
    <3>4. LastIn(z, c) = k
      BY <1>1, <3>1, <3>2, <3>3, LastInIsLastRow
    <3> QED
      BY <2>2, <3>2, <3>4 DEF TurnIn, StateIn
  <2> QED
    BY <2>1, <2>2
<1>3. ASSUME NEW m \in DOMAIN rows, rows[m].call = c, LastRow(rows, m)
      PROVE  TurnIn(z, c) = rows[m].turn /\ StateIn(z, c) = rows[m].state
  <2> DEFINE k == Len(s) + m
  <2>1. k \in DOMAIN z /\ z[k] = rows[m] /\ k # 0
    BY <1>1
  <2>2. ASSUME NEW j \in DOMAIN z, j > k PROVE z[j].call # c
    <3>1. j - Len(s) \in DOMAIN rows /\ z[j] = rows[j - Len(s)] /\ j - Len(s) > m
      BY <1>1, <2>2
    <3> QED
      BY <1>3, <3>1 DEF LastRow
  <2>3. LastRow(z, k)
    BY <1>3, <2>1, <2>2 DEF LastRow
  <2>4. LastIn(z, c) = k
    BY <1>1, <1>3, <2>1, <2>3, LastInIsLastRow
  <2> QED
    BY <2>1, <2>4 DEF TurnIn, StateIn
<1> QED
  BY <1>2, <1>3 DEF z

\* A call nobody made has no turn; one a turn made has a row of that turn.
LEMMA CallRows ==
  ASSUME NEW s \in Seq(Row), NEW c \in Call
  PROVE  /\ LastIn(s, c) # 0 => ~NoCall(s, c) /\ HasRow(s, TurnIn(s, c))
         /\ \A k \in DOMAIN s : s[k].call = c /\ LastRow(s, k) =>
              s[k].turn = TurnIn(s, c) /\ s[k].state = StateIn(s, c)
<1>1. LastIn(s, c) # 0 => LastIn(s, c) \in DOMAIN s /\ s[LastIn(s, c)].call = c
  BY LastInIsLastRow
<1>2. ASSUME NEW k \in DOMAIN s, s[k].call = c, LastRow(s, k)
      PROVE  s[k].turn = TurnIn(s, c) /\ s[k].state = StateIn(s, c)
  <2>1. LastIn(s, c) = k /\ k # 0
    BY <1>2, LastInIsLastRow
  <2> QED
    BY <2>1 DEF TurnIn, StateIn
<1> QED
  BY <1>1, <1>2 DEF NoCall, HasRow, TurnIn

\* The words of the model for the same.
LEMMA CallWords ==
  ASSUME NEW c \in Call, NEW t
  PROVE  /\ StateOf(c) = StateIn(log, c)
         /\ t # None => (c \in CallsOf(t) <=> TurnIn(log, c) = t)
         /\ LastOf(c) = LastIn(log, c)
  BY DEF StateOf, StateIn, CallsOf, TurnIn, LastOf, LastIn

\* The invariant of the calls.
Waits(s, o, c) == o # None /\ TurnIn(s, c) = o /\ StateIn(s, c) = "approval-needed"

CallInv ==
  /\ LegalRows(log) /\ ToolStates(log)
  /\ \A c \in Call : asks[c] <=> Waits(log, open, c)
  /\ phase = "minting" => \A c \in Call : TurnIn(log, c) # turn

\* The two properties are read off it.
LEMMA CallInvImplies == CallInv => CallsMoveLegally /\ AsksAreTheWaitingCalls
<1> SUFFICES ASSUME CallInv PROVE CallsMoveLegally /\ AsksAreTheWaitingCalls
  OBVIOUS
<1>1. CallsMoveLegally
  BY DEF CallInv, LegalRows, LegalRow, CallsMoveLegally
<1>2. AsksAreTheWaitingCalls
  <2> SUFFICES ASSUME NEW c \in Call
               PROVE  asks[c] <=> open # None /\ c \in CallsOf(open) /\ StateOf(c) = "approval-needed"
    BY DEF AsksAreTheWaitingCalls
  <2>1. asks[c] <=> Waits(log, open, c)
    BY DEF CallInv
  <2> QED
    BY <2>1, CallWords DEF Waits
<1> QED
  BY <1>1, <1>2

\* Rows of no call move none.
LEMMA RowsOfNoCall ==
  ASSUME NEW s \in Seq(Row), NEW rows \in Seq(Row), LegalRows(s), ToolStates(s),
         \A i \in DOMAIN rows : rows[i].call \notin Call
  PROVE  /\ LegalRows(s \o rows) /\ ToolStates(s \o rows)
         /\ \A c \in Call : TurnIn(s \o rows, c) = TurnIn(s, c) /\ StateIn(s \o rows, c) = StateIn(s, c)
<1>1. LegalNext(s, rows)
  BY DEF LegalNext
<1>2. \A c \in Call : NoCall(rows, c)
  BY DEF NoCall
<1> QED
  BY <1>1, <1>2, LegalAppend, CallGrown

\* One row of one call, after its last.
LEMMA RowOfCall ==
  ASSUME NEW s \in Seq(Row), LegalRows(s), ToolStates(s), NEW c \in Call, NEW t \in AnyTurn,
         NEW st \in CallState \ {None}, ToolMove(StateIn(s, c), st),
         LastIn(s, c) = 0 \/ TurnIn(s, c) = t
  PROVE  LET z == s \o <<Tool(t, c, st)>>
         IN  /\ z \in Seq(Row) /\ LegalRows(z) /\ ToolStates(z)
             /\ TurnIn(z, c) = t /\ StateIn(z, c) = st
             /\ \A d \in Call \ {c} : TurnIn(z, d) = TurnIn(s, d) /\ StateIn(z, d) = StateIn(s, d)
<1> DEFINE rows == <<Tool(t, c, st)>>
<1>1. Tool(t, c, st) \in Row
  BY RowTypes
<1>2. /\ rows \in Seq(Row) /\ DOMAIN rows = {1} /\ rows[1].call = c
      /\ rows[1].turn = t /\ rows[1].state = st
  BY <1>1 DEF Tool
<1> HIDE DEF rows
<1>3. NoCall(s, c) => StateIn(s, c) = None
  BY CallRows DEF StateIn
<1>4. ASSUME NEW k \in DOMAIN s, s[k].call = c, LastRow(s, k)
      PROVE  s[k].turn = t /\ ToolMove(s[k].state, st)
  <2>1. LastIn(s, c) = k /\ k # 0
    BY <1>4, LastInIsLastRow
  <2> QED
    BY <1>4, <2>1, CallRows
<1>5. LegalNext(s, rows)
  BY <1>2, <1>3, <1>4 DEF LegalNext
<1>6. LastRow(rows, 1)
  BY <1>2 DEF LastRow
<1>7. \A d \in Call \ {c} : NoCall(rows, d)
  BY <1>2 DEF NoCall
<1>8. s \o rows \in Seq(Row) /\ LegalRows(s \o rows) /\ ToolStates(s \o rows)
  BY <1>2, <1>5, LegalAppend, Grown
<1>9. TurnIn(s \o rows, c) = t /\ StateIn(s \o rows, c) = st
  BY <1>2, <1>6, CallGrown
<1> QED
  BY <1>2, <1>7, <1>8, <1>9, CallGrown DEF rows

\* The closings of a turn move its open calls to their end, each once.
LEMMA ClosingsAreLegal ==
  ASSUME log \in Seq(Row), NEW t \in AnyTurn, ToolStates(log)
  PROVE  /\ Closings(t) \in Seq(Row) /\ LegalNext(log, Closings(t))
         /\ \A i \in DOMAIN Closings(t) : Closings(t)[i].turn = t
<1> DEFINE Open == {c \in CallsOf(t) : StateOf(c) \notin Settled}
           opened == SetToSeq(Open)
           rowOf(i) ==
             Tool(t, opened[i], IF StateOf(opened[i]) = "approval-needed" THEN "denied" ELSE "failed")
<1>1. Open \subseteq Call /\ IsFiniteSet(Open) /\ t # None
  BY FeedAssumption, FS_Subset DEF CallsOf, AnyTurn
<1>2. /\ opened \in Seq(Open)
      /\ \A a, b \in 1..Len(opened) : opened[a] = opened[b] => a = b
  BY <1>1, SetToSeqLists
<1>3. Closings(t) = [i \in DOMAIN opened |-> rowOf(i)]
  BY DEF Closings
<1>4. ASSUME NEW c \in Open
      PROVE  /\ LastIn(log, c) # 0 /\ TurnIn(log, c) = t
             /\ StateIn(log, c) \in {"requested", "approval-needed", "running"}
  <2>1. c \in Call /\ c \in CallsOf(t) /\ StateOf(c) \notin Settled
    BY <1>1
  <2>2. LastIn(log, c) # 0 /\ TurnIn(log, c) = t /\ StateIn(log, c) \notin Settled
    BY <1>1, <2>1, CallWords DEF CallsOf
  <2>3. LastIn(log, c) \in DOMAIN log /\ log[LastIn(log, c)].call = c
    BY <2>1, <2>2, LastInIsLastRow
  <2>4. log[LastIn(log, c)] \in Row /\ log[LastIn(log, c)].state # None
    BY <2>1, <2>3 DEF ToolStates
  <2>5. StateIn(log, c) \in CallState \ {None}
    BY <2>2, <2>4 DEF StateIn, Row
  <2> QED
    BY <2>2, <2>5 DEF CallState
<1> HIDE DEF opened, Open
<1>5. /\ DOMAIN opened = 1..Len(opened) /\ Len(opened) \in Nat
      /\ \A i \in DOMAIN opened : opened[i] \in Open
  BY <1>2
<1>6. ASSUME NEW i \in DOMAIN opened
      PROVE  /\ rowOf(i) \in Row /\ rowOf(i).turn = t /\ rowOf(i).call = opened[i]
             /\ rowOf(i).state \in {"denied", "failed"}
             /\ ToolMove(StateIn(log, opened[i]), rowOf(i).state)
  <2> DEFINE c == opened[i]
  <2>1. c \in Open /\ c \in Call /\ StateOf(c) = StateIn(log, c)
    BY <1>1, <1>5, CallWords
  <2> HIDE DEF c
  <2>2. StateIn(log, c) \in {"requested", "approval-needed", "running"}
    BY <1>4, <2>1
  <2>3. /\ rowOf(i).turn = t /\ rowOf(i).call = c
        /\ rowOf(i).state = IF StateIn(log, c) = "approval-needed" THEN "denied" ELSE "failed"
    BY <2>1 DEF Tool, c
  <2>4. rowOf(i) \in Row
    BY <2>1 DEF Tool, Row, Kind, CallState, Settled, c
  <2>5. \A from \in {"requested", "approval-needed", "running"} :
          ToolMove(from, IF from = "approval-needed" THEN "denied" ELSE "failed")
    BY StateAssumption DEF ToolMove
  <2>6. ToolMove(StateIn(log, c), rowOf(i).state)
    BY <2>2, <2>3, <2>5
  <2> QED
    BY <2>3, <2>4, <2>6 DEF c
<1> HIDE DEF rowOf
<1>7. Closings(t) \in Seq(Row) /\ DOMAIN Closings(t) = DOMAIN opened
  BY <1>3, <1>5, <1>6
<1>8. \A i \in DOMAIN opened : Closings(t)[i] = rowOf(i)
  BY <1>3
<1>9. ASSUME NEW m \in DOMAIN opened
      PROVE  LET r == Closings(t)[m]
             IN  /\ r.turn = t /\ r.state # None
                 /\ ~NoCall(log, r.call)
                 /\ \A k \in DOMAIN log : log[k].call = r.call /\ LastRow(log, k) =>
                      log[k].turn = r.turn /\ ToolMove(log[k].state, r.state)
  <2>1. opened[m] \in Open /\ opened[m] \in Call
    BY <1>1, <1>5
  <2>2. /\ Closings(t)[m].call = opened[m] /\ Closings(t)[m].turn = t
        /\ Closings(t)[m].state \in {"denied", "failed"}
        /\ ToolMove(StateIn(log, opened[m]), Closings(t)[m].state)
    BY <1>6, <1>8
  <2>3. TurnIn(log, opened[m]) = t /\ ~NoCall(log, opened[m])
    BY <1>4, <2>1, CallRows
  <2>4. Closings(t)[m].state # None
    BY <2>2, StateAssumption DEF Settled
  <2> QED
    BY <2>1, <2>2, <2>3, <2>4, CallRows
<1>10. \A a, b \in DOMAIN Closings(t) : Closings(t)[a].call = Closings(t)[b].call => a = b
  BY <1>2, <1>5, <1>6, <1>7, <1>8
<1>11. LegalNext(log, Closings(t))
  BY <1>7, <1>9, <1>10 DEF LegalNext
<1> QED
  BY <1>7, <1>9, <1>11

\* Rows of no call may follow rows that may be appended.
LEMMA PlainBehind ==
  ASSUME NEW s, NEW rows \in Seq(Row), NEW plain \in Seq(Row), LegalNext(s, rows),
         \A i \in DOMAIN plain : plain[i].call \notin Call
  PROVE  LegalNext(s, rows \o plain)
<1>1. \A m \in DOMAIN (rows \o plain) : (rows \o plain)[m].call \in Call =>
        m \in DOMAIN rows /\ (rows \o plain)[m] = rows[m]
  BY Grown
<1> QED
  BY <1>1 DEF LegalNext

\* And they may come before them.
LEMMA PlainBefore ==
  ASSUME NEW s, NEW rows \in Seq(Row), NEW plain \in Seq(Row), LegalNext(s, rows),
         \A i \in DOMAIN plain : plain[i].call \notin Call
  PROVE  LegalNext(s, plain \o rows)
<1> DEFINE z == plain \o rows
<1>1. \A m \in DOMAIN z : z[m].call \in Call =>
        m > Len(plain) /\ m - Len(plain) \in DOMAIN rows /\ z[m] = rows[m - Len(plain)] /\ m \in Nat
  <2>1. DOMAIN z \subseteq Nat
    BY Grown
  <2> QED
    BY <2>1, Grown
<1>2. Len(plain) \in Nat
  OBVIOUS
<1> HIDE DEF z
<1>3. ASSUME NEW a \in DOMAIN z, NEW b \in DOMAIN z, z[a].call \in Call, z[a].call = z[b].call
      PROVE  a = b
  <2>1. a - Len(plain) = b - Len(plain)
    BY <1>1, <1>3 DEF LegalNext
  <2> QED
    BY <1>1, <1>2, <1>3, <2>1
<1>4. \A m \in DOMAIN z : z[m].call \in Call => \E l \in DOMAIN rows : z[m] = rows[l]
  BY <1>1
<1>5. ASSUME NEW m \in DOMAIN z, z[m].call \in Call
      PROVE  /\ z[m].state # None
             /\ NoCall(s, z[m].call) => ToolMove(None, z[m].state)
             /\ \A k \in DOMAIN s : s[k].call = z[m].call /\ LastRow(s, k) =>
                  s[k].turn = z[m].turn /\ ToolMove(s[k].state, z[m].state)
  BY <1>4, <1>5 DEF LegalNext
<1> QED
  BY <1>3, <1>5 DEF LegalNext, z

\* The rows that end a turn may be appended.
LEMMA EndRowsAreLegal ==
  ASSUME log \in Seq(Row), NEW t \in AnyTurn, ToolStates(log)
  PROVE  /\ EndRows(t) \in Seq(Row) /\ LegalNext(log, EndRows(t))
         /\ \A i \in DOMAIN EndRows(t) : EndRows(t)[i].turn = t
<1> DEFINE closings == Closings(t)
           plain == <<Plain("end", t)>> \o (IF t \in Turn THEN <<Plain("idle", t)>> ELSE <<>>)
<1>1. closings \in Seq(Row) /\ LegalNext(log, closings)
  BY ClosingsAreLegal
<1> HIDE DEF closings
<1>2. Plain("end", t) \in Row /\ Plain("idle", t) \in Row
  BY RowTypes DEF Kind
<1>3. plain \in Seq(Row) /\ \A i \in DOMAIN plain : plain[i] \in {Plain("end", t), Plain("idle", t)}
  BY <1>2
<1>4. \A i \in DOMAIN plain : plain[i].call \notin Call
  BY <1>3, FeedAssumption DEF Plain
<1>5. EndRows(t) = closings \o plain
  BY <1>1, <1>2 DEF EndRows, closings
<1> HIDE DEF plain
<1>6. LegalNext(log, EndRows(t))
  BY <1>1, <1>3, <1>4, <1>5, PlainBehind
<1>7. EndRows(t) \in Seq(Row) /\ Closing(log, EndRows(t), t)
  BY EndRowsClose
<1> QED
  BY <1>6, <1>7 DEF Closing

\* While nothing is open, nothing waits.
LEMMA NothingWaits ==
  ASSUME CallInv, open = None, NEW c \in Call PROVE ~asks[c]
  BY DEF CallInv, Waits

\* A turn without a row has no call.
LEMMA NoCallYet ==
  ASSUME FeedInv, NEW t, t # None, ~HasRow(log, t), NEW c \in Call PROVE TurnIn(log, c) # t
<1>1. log \in Seq(Row)
  BY DEF FeedInv, FeedTypes
<1> QED
  BY <1>1, CallRows DEF TurnIn

\* A step that ends a turn, or several, and clears the asks.
LEMMA EndsKeepCalls ==
  ASSUME FeedInv, CallInv, NEW rows \in Seq(Row), NEW u, LegalNext(log, rows),
         \A i \in DOMAIN rows : rows[i].turn = u, log' = log \o rows,
         open' = None, \A c \in Call : ~asks'[c],
         phase' = "minting" => phase = "minting" /\ turn' = turn /\ u # turn
  PROVE  CallInv'
<1>1. log \in Seq(Row) /\ LegalRows(log) /\ ToolStates(log)
  BY DEF FeedInv, FeedTypes, CallInv
<1>2. LegalRows(log') /\ ToolStates(log')
  BY <1>1, LegalAppend
<1>3. \A c \in Call : ~Waits(log', open', c)
  BY DEF Waits
<1>4. ASSUME phase' = "minting", NEW c \in Call PROVE TurnIn(log', c) # turn'
  <2>1. CASE NoCall(rows, c)
    BY <1>1, <1>4, <2>1, CallGrown DEF CallInv
  <2>2. CASE ~NoCall(rows, c)
    <3>1. PICK m \in DOMAIN rows : rows[m].call = c
      BY <2>2 DEF NoCall
    <3>2. LastRow(rows, m)
      <4>1. DOMAIN rows \subseteq Nat
        OBVIOUS
      <4> QED
        BY <3>1, <4>1 DEF LastRow, LegalNext
    <3> QED
      BY <1>1, <1>4, <3>1, <3>2, CallGrown
  <2> QED
    BY <2>1, <2>2
<1> QED
  BY <1>2, <1>3, <1>4 DEF CallInv

\* A step that writes rows of no call, and opens nothing that has calls.
LEMMA PlainKeepsCalls ==
  ASSUME FeedInv, CallInv, NEW rows \in Seq(Row), log' = log \o rows,
         \A i \in DOMAIN rows : rows[i].call \notin Call, asks' = asks,
         open' = open \/ (open = None /\ \A c \in Call : TurnIn(log, c) # open'),
         phase' = "minting" => \/ phase = "minting" /\ turn' = turn
                               \/ \A c \in Call : TurnIn(log, c) # turn'
  PROVE  CallInv'
<1>1. log \in Seq(Row) /\ LegalRows(log) /\ ToolStates(log)
  BY DEF FeedInv, FeedTypes, CallInv
<1>2. /\ LegalRows(log') /\ ToolStates(log')
      /\ \A c \in Call : TurnIn(log', c) = TurnIn(log, c) /\ StateIn(log', c) = StateIn(log, c)
  BY <1>1, RowsOfNoCall
<1>3. \A c \in Call : asks'[c] <=> Waits(log', open', c)
  BY <1>2, NothingWaits DEF CallInv, Waits
<1> QED
  BY <1>2, <1>3 DEF CallInv

\* A step that moves one call of the open turn.
LEMMA MoveKeepsCalls ==
  ASSUME FeedInv, CallInv, NEW c \in Call, NEW st \in {"running", "denied", "succeeded"},
         ToolMove(StateIn(log, c), st), TurnIn(log, c) = open, open # None,
         log' = log \o <<Tool(open, c, st)>>, ~asks'[c],
         \A d \in Call \ {c} : asks'[d] = asks[d],
         UNCHANGED <<open, phase, turn>>
  PROVE  CallInv'
<1>1. /\ log \in Seq(Row) /\ LegalRows(log) /\ ToolStates(log) /\ open \in AnyTurn
      /\ phase # "minting"
  BY DEF FeedInv, FeedTypes, TypeOK, ServerOK, CallInv
<1>2. st \in CallState \ {None} /\ st # "approval-needed"
  BY StateAssumption DEF CallState, Settled
<1>3. /\ LegalRows(log') /\ ToolStates(log')
      /\ StateIn(log', c) = st
      /\ \A d \in Call \ {c} : TurnIn(log', d) = TurnIn(log, d) /\ StateIn(log', d) = StateIn(log, d)
  BY <1>1, <1>2, RowOfCall
<1>4. \A d \in Call : asks'[d] <=> Waits(log', open', d)
  <2>1. ~Waits(log', open', c)
    BY <1>2, <1>3 DEF Waits
  <2>2. \A d \in Call \ {c} : asks'[d] <=> Waits(log', open', d)
    BY <1>3 DEF CallInv, Waits
  <2> QED
    BY <2>1, <2>2
<1> QED
  BY <1>1, <1>3, <1>4 DEF CallInv

\* A step that writes no row.
LEMMA CallsStay ==
  ASSUME FeedInv, CallInv, UNCHANGED <<log, asks>>,
         open' = open \/ (open = None /\ \A c \in Call : TurnIn(log, c) # open'),
         phase' = "minting" => phase = "minting" /\ turn' = turn
  PROVE  CallInv'
<1>1. <<>> \in Seq(Row) /\ \A i \in DOMAIN <<>> : <<>>[i].call \notin Call
  OBVIOUS
<1>2. log' = log \o <<>>
  BY DEF FeedInv, FeedTypes
<1> QED
  BY <1>1, <1>2, PlainKeepsCalls

\* A step that publishes the end of one turn.
LEMMA EndOfTurnKeepsCalls ==
  ASSUME FeedInv, CallInv, NEW u \in AnyTurn, log' = log \o EndRows(u),
         open' = None, asks' = NoAsks \/ (open = None /\ asks' = asks),
         phase' = "minting" => phase = "minting" /\ turn' = turn /\ u # turn
  PROVE  CallInv'
<1>1. /\ EndRows(u) \in Seq(Row) /\ LegalNext(log, EndRows(u))
      /\ \A i \in DOMAIN EndRows(u) : EndRows(u)[i].turn = u
  BY EndRowsAreLegal DEF FeedInv, FeedTypes, CallInv
<1>2. \A c \in Call : ~asks'[c]
  BY NothingWaits DEF NoAsks
<1> QED
  BY <1>1, <1>2, EndsKeepCalls

\* Whoever ends a turn under way, every call stays legal and no ask is left.
LEMMA EndingStepsKeepCalls ==
  ASSUME FeedInv, CallInv,
         \/ MintFails \/ Quarantined \/ \E u \in SelfTurn : CutEnds(u)
         \/ \E after \in {"up", "closed"} : TurnEnds(after)
  PROVE  CallInv'
<1>1. /\ TypeOK /\ ServerOK /\ None \notin AnyTurn /\ AnyTurn = Turn \cup SelfTurn
      /\ Turn \cap SelfTurn = {}
  BY FeedAssumption DEF FeedInv, FeedTypes, AnyTurn
<1>2. CASE MintFails
  <2>1. /\ turn \in AnyTurn /\ open' = None /\ phase' = "idle" /\ asks' = NoAsks
        /\ log' = log \o EndRows(turn)
    BY <1>1, <1>2 DEF MintFails, ServerOK, Publish
  <2> QED
    BY <2>1, EndOfTurnKeepsCalls
<1>3. CASE Quarantined
  <2>1. /\ turn \in AnyTurn /\ open' = None /\ phase' = "idle" /\ asks' = NoAsks
        /\ log' = log \o EndRows(turn)
    BY <1>1, <1>3 DEF Quarantined, ServerOK, Publish
  <2> QED
    BY <2>1, EndOfTurnKeepsCalls
<1>4. CASE \E u \in SelfTurn : CutEnds(u)
  <2>1. PICK u \in SelfTurn : CutEnds(u)
    BY <1>4
  <2>2. /\ open' = None /\ UNCHANGED <<phase, turn>> /\ asks' = NoAsks
        /\ log' = log \o EndRows(u)
    BY <1>1, <2>1 DEF CutEnds, ServerOK, Publish
  <2>3. phase = "minting" => u # turn
    BY <1>1 DEF ServerOK
  <2> QED
    BY <1>1, <2>2, <2>3, EndOfTurnKeepsCalls
<1>5. CASE \E after \in {"up", "closed"} : TurnEnds(after)
  <2>1. PICK after \in {"up", "closed"} : TurnEnds(after)
    BY <1>5
  <2>2. /\ open \in AnyTurn /\ open' = None /\ asks' = NoAsks
        /\ log' = log \o EndRows(open) /\ phase' \in {"observing", phase}
    BY <1>1, <2>1 DEF TurnEnds, TypeOK, Publish
  <2>3. phase # "minting"
    BY <1>1, <2>1 DEF TurnEnds, ServerOK
  <2> QED
    BY <2>2, <2>3, EndOfTurnKeepsCalls
<1> QED
  BY <1>2, <1>3, <1>4, <1>5

\* The boot ends the turn a dead process left active: nothing waits by then.
LEMMA BootKeepsCalls ==
  ASSUME FeedInv, CallInv, Boot PROVE CallInv'
<1>1. /\ phase' = "idle" /\ UNCHANGED <<asks, open>> /\ open = None
      /\ log' = log \o (IF turn = None THEN <<>> ELSE EndRows(turn))
      /\ turn \in AnyTurn \cup {None} /\ log \in Seq(Row)
  BY DEF Boot, FeedInv, FeedTypes, TypeOK, ServerOK, AnyTurn
<1>2. CASE turn = None
  <2>1. log' = log
    BY <1>1, <1>2
  <2> QED
    BY <1>1, <2>1, CallsStay
<1>3. CASE turn # None
  BY <1>1, <1>3, EndOfTurnKeepsCalls
<1> QED
  BY <1>2, <1>3

\* A claimed turn has no call yet; one that is refused has none at its end.
LEMMA ClaimKeepsCalls ==
  ASSUME FeedInv, CallInv, Claim PROVE CallInv'
<1> DEFINE started(t) == <<Plain("start", t)>>
<1>1. PICK t \in Turn \ Used :
        \/ /\ runtime = "none"
           /\ turn' = t /\ phase' = "minting"
           /\ log' = log \o started(t)
           /\ UNCHANGED <<asks, open>>
        \/ /\ open = None /\ open' = t /\ phase' = "running"
           /\ log' = log \o started(t)
           /\ UNCHANGED asks
        \/ /\ asks' = NoAsks /\ open' = None
           /\ log' = log \o (started(t) \o EndRows(t))
           /\ UNCHANGED <<turn, phase>>
  <2>1. Turn \ Used # {}
    BY DEF Claim
  <2> QED
    BY <2>1 DEF Claim, Publish
<1>2. /\ t \in AnyTurn /\ t # None /\ None \notin AnyTurn /\ phase = "idle"
      /\ log \in Seq(Row) /\ ServerOK /\ ToolStates(log)
  BY FeedAssumption DEF AnyTurn, Claim, FeedInv, FeedTypes, CallInv
<1>3. \A c \in Call : TurnIn(log, c) # t
  BY <1>2, UnusedTurns, NoCallYet
<1>4. Plain("start", t) \in Row
  BY <1>2, RowTypes DEF Kind
<1>5. /\ started(t) \in Seq(Row)
      /\ \A i \in DOMAIN started(t) : started(t)[i].turn = t /\ started(t)[i].call \notin Call
  BY <1>4, FeedAssumption DEF Plain
<1> HIDE DEF started
<1>6. CASE /\ log' = log \o started(t) /\ asks' = asks
           /\ \/ phase' = "minting" /\ turn' = t /\ open' = open
              \/ phase' = "running" /\ open = None /\ open' = t
  BY <1>3, <1>5, <1>6, PlainKeepsCalls
<1>7. CASE /\ asks' = NoAsks /\ open' = None
           /\ log' = log \o (started(t) \o EndRows(t)) /\ phase' = phase
  <2> DEFINE ends == EndRows(t)
             rows == started(t) \o ends
  <2>1. ends \in Seq(Row) /\ LegalNext(log, ends) /\ \A i \in DOMAIN ends : ends[i].turn = t
    BY <1>2, EndRowsAreLegal
  <2> HIDE DEF ends
  <2>2. rows \in Seq(Row) /\ LegalNext(log, rows)
    BY <1>5, <2>1, PlainBefore
  <2>3. \A i \in DOMAIN rows : rows[i].turn = t
    BY <1>5, <2>1, Grown
  <2>4. \A c \in Call : ~asks'[c]
    BY <1>7 DEF NoAsks
  <2>5. log' = log \o rows
    BY <1>7 DEF ends
  <2> HIDE DEF rows
  <2> QED
    BY <1>2, <1>7, <2>2, <2>3, <2>4, <2>5, EndsKeepCalls
<1>8. \/ /\ log' = log \o started(t) /\ asks' = asks
         /\ \/ phase' = "minting" /\ turn' = t /\ open' = open
            \/ phase' = "running" /\ open = None /\ open' = t
      \/ /\ asks' = NoAsks /\ open' = None
         /\ log' = log \o (started(t) \o EndRows(t)) /\ phase' = phase
  BY <1>1, Zenon
<1> QED
  BY <1>6, <1>7, <1>8, Zenon

\* A turn of the runtime's own has no call yet; the context of a turn, and the
\* notice about it, are no rows of a call.
LEMMA PlainStepsKeepCalls ==
  ASSUME FeedInv, CallInv, SelfStart \/ ObserveContext \/ CompactDone PROVE CallInv'
<1>1. /\ turn \in AnyTurn \cup {None} /\ None \notin AnyTurn /\ SelfTurn \subseteq AnyTurn
      /\ log \in Seq(Row)
  BY FeedAssumption DEF FeedInv, FeedTypes, TypeOK, AnyTurn
<1>2. ASSUME NEW t \in AnyTurn \cup {None}, NEW kind \in Kind
      PROVE  /\ <<Plain(kind, t)>> \in Seq(Row)
             /\ \A i \in DOMAIN <<Plain(kind, t)>> : <<Plain(kind, t)>>[i].call \notin Call
  <2>1. Plain(kind, t) \in Row
    BY RowTypes
  <2> QED
    BY <2>1, FeedAssumption DEF Plain
<1>3. CASE SelfStart
  <2>1. PICK u \in SelfTurn \ Used : open' = u /\ Publish(<<Plain("marker", u)>>, <<>>)
    BY <1>3 DEF SelfStart
  <2>2. \A c \in Call : TurnIn(log, c) # u
    BY <1>1, UnusedTurns, NoCallYet
  <2>3. /\ open = None /\ UNCHANGED <<turn, phase, asks>>
        /\ log' = log \o <<Plain("marker", u)>>
    BY <1>3, <2>1 DEF SelfStart, Publish
  <2>4. /\ <<Plain("marker", u)>> \in Seq(Row)
        /\ \A i \in DOMAIN <<Plain("marker", u)>> : <<Plain("marker", u)>>[i].call \notin Call
    BY <1>1, <1>2 DEF Kind
  <2> QED
    BY <2>1, <2>2, <2>3, <2>4, PlainKeepsCalls
<1>4. ASSUME NEW kind \in {"context", "notice"}, log' = log \o <<Plain(kind, turn)>>,
             UNCHANGED <<asks, open>>, phase' # "minting"
      PROVE  CallInv'
  <2>1. /\ <<Plain(kind, turn)>> \in Seq(Row)
        /\ \A i \in DOMAIN <<Plain(kind, turn)>> : <<Plain(kind, turn)>>[i].call \notin Call
    BY <1>1, <1>2 DEF Kind
  <2> QED
    BY <1>4, <2>1, PlainKeepsCalls
<1>5. CASE ObserveContext
  <2>1. /\ log' = log \o <<Plain("context", turn)>> /\ UNCHANGED <<asks, open>>
        /\ phase' # "minting"
    BY <1>5 DEF ObserveContext, Publish
  <2> QED
    BY <1>4, <2>1
<1>6. CASE CompactDone
  <2>1. UNCHANGED <<asks, open>> /\ phase' = "idle"
    BY <1>6 DEF CompactDone
  <2>2. CASE Publish(<<>>, <<>>)
    <3>1. log' = log
      BY <1>1, <2>2 DEF Publish
    <3> QED
      BY <2>1, <3>1, CallsStay
  <2>3. CASE Publish(<<Plain("notice", turn)>>, <<>>)
    <3>1. log' = log \o <<Plain("notice", turn)>>
      BY <2>3 DEF Publish
    <3> QED
      BY <1>4, <2>1, <3>1
  <2> QED
    BY <1>6, <2>2, <2>3 DEF CompactDone
<1> QED
  BY <1>3, <1>5, <1>6

\* The decision of an ask that waits moves its call, and no other.
LEMMA DecideKeepsCalls ==
  ASSUME FeedInv, CallInv, NEW c \in Call, NEW st \in {"running", "denied"}, asks[c], Decide(c, st),
         UNCHANGED <<open, phase, turn>>
  PROVE  CallInv'
<1>1. Waits(log, open, c)
  BY DEF CallInv
<1>2. open # None /\ TurnIn(log, c) = open /\ StateIn(log, c) = "approval-needed"
  BY <1>1 DEF Waits
<1>3. ToolMove("approval-needed", st)
  BY StateAssumption DEF ToolMove
<1>4. log' = log \o <<Tool(open, c, st)>>
  BY DEF Decide, Observed, Publish
<1>5. asks \in [Call -> BOOLEAN] /\ asks' = [asks EXCEPT ![c] = FALSE]
  BY DEF Decide, FeedInv, FeedTypes, TypeOK
<1>6. ~asks'[c] /\ \A d \in Call \ {c} : asks'[d] = asks[d]
  BY <1>5
<1> QED
  BY <1>2, <1>3, <1>4, <1>6, MoveKeepsCalls

\* A call returns, its ask lapses, or the answer of a tab decides it.
LEMMA MovesKeepCalls ==
  ASSUME FeedInv, CallInv, ReplyArrives \/ \E c \in Call : ToolReturns(c) \/ AskLapses(c)
  PROVE  CallInv'
<1>1. asks \in [Call -> BOOLEAN] /\ replies \in Seq(Reply) /\ log \in Seq(Row)
  BY DEF FeedInv, FeedTypes, TypeOK
<1>2. ASSUME NEW c \in Call, ToolReturns(c) PROVE CallInv'
  <2>1. /\ open # None /\ c \in CallsOf(open) /\ StateOf(c) = "running"
        /\ log' = log \o <<Tool(open, c, "succeeded")>> /\ UNCHANGED <<asks, open, phase, turn>>
    BY <1>2 DEF ToolReturns, Observed, Publish, serverVars
  <2>2. TurnIn(log, c) = open /\ StateIn(log, c) = "running"
    BY <2>1, CallWords
  <2>3. ~asks[c]
    BY <2>2 DEF CallInv, Waits
  <2>4. ToolMove("running", "succeeded")
    BY StateAssumption DEF ToolMove
  <2> QED
    BY <2>1, <2>2, <2>3, <2>4, MoveKeepsCalls
<1>3. ASSUME NEW c \in Call, AskLapses(c) PROVE CallInv'
  <2>1. asks[c] /\ Decide(c, "denied") /\ UNCHANGED <<open, phase, turn>>
    BY <1>3 DEF AskLapses
  <2> QED
    BY <2>1, DecideKeepsCalls
<1>4. CASE ReplyArrives
  <2> DEFINE r == Head(replies)
             st == IF r.allow THEN "running" ELSE "denied"
  <2>1. r \in Reply
    BY <1>1, <1>4 DEF ReplyArrives
  <2>2. r.call \in Call /\ st \in {"running", "denied"}
    BY <2>1 DEF Reply
  <2>3. /\ UNCHANGED <<turn, phase, open>>
        /\ IF asks[r.call] THEN Decide(r.call, st) ELSE UNCHANGED <<asks, storeVars>>
    BY <1>4 DEF ReplyArrives
  <2> HIDE DEF r, st
  <2>4. CASE asks[r.call]
    BY <2>2, <2>3, <2>4, DecideKeepsCalls
  <2>5. CASE ~asks[r.call]
    <3>1. UNCHANGED <<log, asks>>
      BY <2>3, <2>5 DEF storeVars
    <3> QED
      BY <2>3, <3>1, CallsStay
  <2> QED
    BY <2>4, <2>5
<1> QED
  BY <1>2, <1>3, <1>4

\* A permission is asked for a call the turn has not made before.
LEMMA AskKeepsCalls ==
  ASSUME FeedInv, CallInv, Ask PROVE CallInv'
<1>1. PICK c \in FreshCalls :
        /\ asks' = [asks EXCEPT ![c] = TRUE]
        /\ log' = log \o <<Tool(open, c, "requested"), Tool(open, c, "approval-needed")>>
  <2>1. FreshCalls # {}
    BY DEF Ask
  <2> QED
    BY <2>1 DEF Ask, Publish
<1>2. /\ c \in Call /\ LastIn(log, c) = 0 /\ StateIn(log, c) = None
      /\ UNCHANGED <<turn, phase, open>> /\ open # None
  BY <1>1, CallWords DEF FreshCalls, StateIn, Ask
<1>3. /\ open \in AnyTurn /\ log \in Seq(Row) /\ LegalRows(log) /\ ToolStates(log)
      /\ asks \in [Call -> BOOLEAN] /\ phase # "minting"
  BY <1>2 DEF FeedInv, FeedTypes, TypeOK, ServerOK, CallInv
<1> DEFINE a == Tool(open, c, "requested")
           b == Tool(open, c, "approval-needed")
           s == log \o <<a>>
<1>4. /\ ToolMove(None, "requested") /\ ToolMove("requested", "approval-needed")
      /\ "requested" \in CallState \ {None} /\ "approval-needed" \in CallState \ {None}
  BY StateAssumption DEF ToolMove, CallState
<1>5. /\ s \in Seq(Row) /\ LegalRows(s) /\ ToolStates(s)
      /\ TurnIn(s, c) = open /\ StateIn(s, c) = "requested"
      /\ \A d \in Call \ {c} : TurnIn(s, d) = TurnIn(log, d) /\ StateIn(s, d) = StateIn(log, d)
  BY <1>2, <1>3, <1>4, RowOfCall
<1>6. a \in Row /\ b \in Row
  BY <1>2, <1>3, <1>4, RowTypes
<1>7. log' = s \o <<b>>
  BY <1>1, <1>3, <1>6
<1> HIDE DEF s
<1>8. /\ LegalRows(s \o <<b>>) /\ ToolStates(s \o <<b>>)
      /\ TurnIn(s \o <<b>>, c) = open /\ StateIn(s \o <<b>>, c) = "approval-needed"
      /\ \A d \in Call \ {c} : /\ TurnIn(s \o <<b>>, d) = TurnIn(s, d)
                               /\ StateIn(s \o <<b>>, d) = StateIn(s, d)
  BY <1>2, <1>3, <1>4, <1>5, RowOfCall
<1> HIDE DEF a, b
<1>9. asks'[c] /\ \A d \in Call \ {c} : asks'[d] = asks[d]
  BY <1>1, <1>2, <1>3
<1>10. Waits(log', open', c)
  BY <1>2, <1>7, <1>8 DEF Waits
<1>11. \A d \in Call \ {c} : asks'[d] <=> Waits(log', open', d)
  BY <1>2, <1>5, <1>7, <1>8, <1>9 DEF CallInv, Waits
<1>12. LegalRows(log') /\ ToolStates(log') /\ phase' # "minting"
  BY <1>2, <1>3, <1>7, <1>8
<1> QED
  BY <1>9, <1>10, <1>11, <1>12 DEF CallInv

\* The end of the process leaves no ask; a claimed turn that reaches its runtime
\* has no call yet; and the rest of the steps write no row.
LEMMA SilentStepsKeepCalls ==
  ASSUME FeedInv, CallInv,
         \/ StopServer \/ Minted \/ RuntimeCloses \/ RelayTimer \/ Connect \/ Drop \/ Deliver
         \/ \E c \in Call, allow \in BOOLEAN : Answer(c, allow)
         \/ UNCHANGED vars
  PROVE  CallInv'
<1>1. CASE StopServer
  <2>1. log' = log /\ open' = None /\ asks' = NoAsks /\ phase' = "down"
    BY <1>1 DEF StopServer
  <2>2. \A c \in Call : ~asks'[c] /\ ~Waits(log', open', c)
    BY <2>1 DEF NoAsks, Waits
  <2> QED
    BY <2>1, <2>2 DEF CallInv
<1>2. CASE Minted
  <2>1. /\ UNCHANGED <<log, asks>> /\ phase = "minting" /\ phase' = "running" /\ open' = turn
        /\ open = None
    BY <1>2 DEF Minted, storeVars, FeedInv, ServerOK
  <2> QED
    BY <2>1, CallsStay DEF CallInv
<1>3. CASE \/ RuntimeCloses \/ RelayTimer \/ Connect \/ Drop \/ Deliver
           \/ \E c \in Call, allow \in BOOLEAN : Answer(c, allow)
           \/ UNCHANGED vars
  <2>1. UNCHANGED <<log, asks, open, phase, turn>>
    BY <1>3 DEF RuntimeCloses, RelayTimer, Connect, Drop, Deliver, Answer, vars, serverVars, storeVars
  <2> QED
    BY <2>1, CallsStay
<1> QED
  BY <1>1, <1>2, <1>3

\* No call is made and none waits at the first start.
LEMMA CallInvInitial == Init => CallInv
<1> SUFFICES ASSUME Init PROVE CallInv
  OBVIOUS
<1>1. /\ log = [i \in 1..Legacy |-> Hidden] /\ Legacy \in Nat /\ Hidden.call = None
      /\ None \notin Call /\ asks = NoAsks /\ open = None /\ phase = "idle"
  BY FeedAssumption DEF Init, Hidden, Plain
<1>2. \A i \in DOMAIN log : log[i].call \notin Call
  BY <1>1
<1>3. LegalRows(log) /\ ToolStates(log)
  BY <1>2 DEF LegalRows, LegalRow, ToolStates
<1> QED
  BY <1>1, <1>3 DEF CallInv, Waits, NoAsks

\* Every step keeps the calls legal and the asks those that wait.
LEMMA CallInvInductive == FeedInv /\ CallInv /\ [Next]_vars => CallInv'
<1> SUFFICES ASSUME FeedInv, CallInv, [Next]_vars PROVE CallInv'
  OBVIOUS
<1>1. CASE Claim
  BY <1>1, ClaimKeepsCalls
<1>2. CASE \/ MintFails \/ Quarantined \/ \E u \in SelfTurn : CutEnds(u)
           \/ \E after \in {"up", "closed"} : TurnEnds(after)
  BY <1>2, EndingStepsKeepCalls
<1>3. CASE SelfStart \/ ObserveContext \/ CompactDone
  BY <1>3, PlainStepsKeepCalls
<1>4. CASE Ask
  BY <1>4, AskKeepsCalls
<1>5. CASE ReplyArrives \/ \E c \in Call : ToolReturns(c) \/ AskLapses(c)
  BY <1>5, MovesKeepCalls
<1>6. CASE Boot
  BY <1>6, BootKeepsCalls
<1>7. CASE \/ StopServer \/ Minted \/ RuntimeCloses \/ RelayTimer \/ Connect \/ Drop \/ Deliver
           \/ \E c \in Call, allow \in BOOLEAN : Answer(c, allow)
           \/ UNCHANGED vars
  BY <1>7, SilentStepsKeepCalls
<1> QED
  BY <1>1, <1>2, <1>3, <1>4, <1>5, <1>6, <1>7 DEF Next

\* So they are in every state.
LEMMA CallInvariant == Spec => []CallInv
<1>1. Init => CallInv
  BY CallInvInitial
<1>2. FeedInv /\ CallInv /\ [Next]_vars => CallInv'
  BY CallInvInductive
<1> QED
  BY <1>1, <1>2, FeedInvariant, PTL DEF Spec

\* The check of the commit never rejects a row of a call: whether it is written by
\* an observation, a decision, a lapse, the end of a turn or the boot after a
\* crash, it is a move toolStateTransitionError allows from the row before it, and
\* of the same turn.
THEOREM CallsAlwaysMoveLegally == Spec => []CallsMoveLegally
<1>1. CallInv => CallsMoveLegally
  BY CallInvImplies
<1> QED
  BY <1>1, CallInvariant, PTL

\* The registry holds an ask exactly while its call waits in the open turn,
\* however replies, watchdogs, ends of turns and ends of the process interleave.
THEOREM AsksAreAlwaysWaiting == Spec => []AsksAreTheWaitingCalls
<1>1. CallInv => AsksAreTheWaitingCalls
  BY CallInvImplies
<1> QED
  BY <1>1, CallInvariant, PTL

-----------------------------------------------------------------------------
(***************************************************************************)
(* The fold of the tab, row by row.                                        *)
(***************************************************************************)
\* A set of numbers has a least one.
LEMMA LeastExists ==
  ASSUME NEW I, I \subseteq Nat, I # {}
  PROVE  \E k \in I : \A j \in I : k <= j
<1> DEFINE R == OpToRel(<, Nat)
<1>1. IsWellFoundedOn(R, Nat)
  BY NatLessThanWellFounded
<1> HIDE DEF R
<1>2. PICK k \in I : \A e \in I : ~(<<e, k>> \in R)
  BY <1>1, WFMin
<1>3. \A e \in I : ~(e < k)
  BY <1>2 DEF R, OpToRel
<1> QED
  BY <1>3

\* The tabs the fold goes through, from s at row a to row b.
IsFold(f, s, a, b) ==
  f = [i \in a..b |-> IF i = a THEN s
                      ELSE IF log[i] = Hidden THEN f[i - 1]
                      ELSE FoldEvent(f[i - 1], i)]

\* What f tells of a fold, row by row.
Unfolds(f, s, a, b) ==
  /\ FoldRows(s, a, b) = f[b] /\ f[a] = s
  /\ \A i \in a..b : i # a =>
       f[i] = IF log[i] = Hidden THEN f[i - 1] ELSE FoldEvent(f[i - 1], i)

\* There are such tabs for every s, a and b.
LEMMA FoldExists ==
  ASSUME NEW s, NEW a \in Nat, NEW b \in Nat, a <= b
  PROVE  \E f : IsFold(f, s, a, b)
<1> DEFINE Bad == {n \in Nat : a <= n /\ ~ \E f : IsFold(f, s, a, n)}
<1> SUFFICES ASSUME Bad # {} PROVE FALSE
  OBVIOUS
<1>1. PICK n \in Bad : \A j \in Bad : n <= j
  BY LeastExists
<1>2. n \in Nat /\ a <= n /\ ~ \E f : IsFold(f, s, a, n)
  BY <1>1
<1>3. CASE n = a
  <2> DEFINE g == [i \in a..a |-> s]
  <2>1. IsFold(g, s, a, a)
    BY DEF IsFold
  <2> QED
    BY <1>2, <1>3, <2>1, Zenon
<1>4. CASE n # a
  <2>1. n - 1 \in Nat /\ a <= n - 1 /\ n - 1 \notin Bad
    BY <1>1, <1>2, <1>4
  <2>2. PICK f : IsFold(f, s, a, n - 1)
    BY <2>1
  <2> DEFINE last == IF log[n] = Hidden THEN f[n - 1] ELSE FoldEvent(f[n - 1], n)
             g == [i \in a..n |-> IF i = n THEN last ELSE f[i]]
  <2> HIDE DEF last
  <2>3. ASSUME NEW i \in a..n, i # a
        PROVE  i - 1 \in a..n /\ i - 1 # n /\ g[i - 1] = f[i - 1]
    BY <1>2, <2>3
  <2>4. ASSUME NEW i \in a..n, i # n, i # a
        PROVE  g[i] = IF log[i] = Hidden THEN g[i - 1] ELSE FoldEvent(g[i - 1], i)
    <3>1. i \in a..(n - 1) /\ g[i] = f[i] /\ g[i - 1] = f[i - 1]
      BY <1>2, <2>3, <2>4
    <3>2. f[i] = IF log[i] = Hidden THEN f[i - 1] ELSE FoldEvent(f[i - 1], i)
      BY <2>2, <2>4, <3>1, Zenon DEF IsFold
    <3> QED
      BY <3>1, <3>2, Zenon
  <2>5. g[n] = IF log[n] = Hidden THEN g[n - 1] ELSE FoldEvent(g[n - 1], n)
    <3>1. g[n] = last /\ g[n - 1] = f[n - 1]
      BY <1>2, <1>4, <2>3
    <3> QED
      BY <3>1, Zenon DEF last
  <2>6. g[a] = s
    <3>1. a \in a..(n - 1) /\ a \in a..n /\ a # n
      BY <1>2, <1>4, <2>1
    <3>2. f[a] = s
      BY <2>2, <3>1, Zenon DEF IsFold
    <3> QED
      BY <3>1, <3>2
  <2>7. IsFold(g, s, a, n)
    <3> DEFINE h == [i \in a..n |-> IF i = a THEN s
                      ELSE IF log[i] = Hidden THEN g[i - 1]
                      ELSE FoldEvent(g[i - 1], i)]
    <3>1. \A i \in a..n : g[i] = h[i]
      <4> SUFFICES ASSUME NEW i \in a..n PROVE g[i] = h[i]
        OBVIOUS
      <4>1. h[i] = IF i = a THEN s ELSE IF log[i] = Hidden THEN g[i - 1] ELSE FoldEvent(g[i - 1], i)
        BY Zenon
      <4> HIDE DEF g, h
      <4> QED
        BY <2>4, <2>5, <2>6, <4>1, Zenon
    <3>2. g = h
      <4>1. g = [i \in a..n |-> g[i]]
        OBVIOUS
      <4>2. h = [i \in a..n |-> h[i]]
        OBVIOUS
      <4> HIDE DEF g, h
      <4> QED
        BY <3>1, <4>1, <4>2, Zenon
    <3> QED
      BY <3>2, Zenon DEF IsFold
  <2> HIDE DEF g
  <2> QED
    BY <1>2, <2>7, Zenon
<1> QED
  BY <1>3, <1>4

\* FoldRows takes the last of them.
LEMMA FoldRowsUnfolds ==
  ASSUME NEW s, NEW a \in Nat, NEW b \in Nat, a <= b
  PROVE  \E f : Unfolds(f, s, a, b)
<1> DEFINE g[i \in a..b] == IF i = a THEN s
                            ELSE IF log[i] = Hidden THEN g[i - 1]
                            ELSE FoldEvent(g[i - 1], i)
<1>1. \E f : IsFold(f, s, a, b)
  BY FoldExists
<1>2. g = [i \in a..b |-> IF i = a THEN s
                          ELSE IF log[i] = Hidden THEN g[i - 1]
                          ELSE FoldEvent(g[i - 1], i)]
  BY <1>1, Zenon DEF IsFold
<1>3. FoldRows(s, a, b) = g[b]
  BY Zenon DEF FoldRows
<1> HIDE DEF g
<1>4. a \in a..b
  OBVIOUS
<1>5. g[a] = s
  BY <1>2, <1>4, Zenon
<1>6. \A i \in a..b : i # a =>
        g[i] = IF log[i] = Hidden THEN g[i - 1] ELSE FoldEvent(g[i - 1], i)
  BY <1>2, Zenon
<1>7. Unfolds(g, s, a, b)
  BY <1>3, <1>5, <1>6, Zenon DEF Unfolds
<1> QED
  BY <1>7, Zenon

-----------------------------------------------------------------------------
(***************************************************************************)
(* What the log says of the calls and the turns, row by row.               *)
(***************************************************************************)
\* A row is a tool row of its call and turn, or a plain row of its turn; the
\* rows of migrations have no turn, and what frames a claim has a claimed one.
Formed(e) ==
  /\ e.kind = "tool" => e.call \in Call /\ e.turn \in AnyTurn
  /\ e.kind # "tool" => e = Plain(e.kind, e.turn)
  /\ e.kind = "hidden" <=> e.turn = None
  /\ e.kind \in {"start", "idle", "context", "notice"} => e.turn \in Turn

\* So is every row.
FormedRows(L) == \A i \in DOMAIN L : Formed(L[i])

\* Which row comes after which of one call.
Rank(st) == CASE st = "requested" -> 1
              [] st = "approval-needed" -> 2
              [] st = "running" -> 3
              [] OTHER -> 4

\* Row k is the last of call c among the first n.
LastUpTo(L, c, n, k) ==
  k \in 1..n /\ L[k].call = c /\ \A j \in (k + 1)..n : L[j].call # c

\* A move raises the rank.
LEMMA MoveRanks ==
  ASSUME NEW from \in CallState, NEW to \in CallState, from # None, to # None, ToolMove(from, to)
  PROVE  Rank(from) \in Nat /\ Rank(to) \in Nat /\ Rank(from) < Rank(to)
<1>1. from \in {"requested", "approval-needed", "running"} \cup Settled
  BY DEF CallState
<1>2. from \in {"requested", "approval-needed", "running"}
  BY <1>1, Zenon DEF ToolMove, Settled
<1>3. CASE from = "requested"
  BY <1>3, StateAssumption DEF ToolMove, Rank
<1>4. CASE from = "approval-needed"
  BY <1>4, StateAssumption DEF ToolMove, Rank
<1>5. CASE from = "running"
  BY <1>5, StateAssumption DEF ToolMove, Rank
<1> QED
  BY <1>2, <1>3, <1>4, <1>5

\* A call with an earlier row has a last one, and follows it legally.
LEMMA EarlierRow ==
  ASSUME NEW L \in Seq(Row), LegalRows(L), NEW j \in DOMAIN L, L[j].call \in Call
  PROVE  /\ (\A i \in 1..(j - 1) : L[i].call # L[j].call) => ToolMove(None, L[j].state)
         /\ \A k \in 1..(j - 1) : LastUpTo(L, L[j].call, j - 1, k) =>
              L[k].turn = L[j].turn /\ ToolMove(L[k].state, L[j].state)
         /\ \A i \in 1..(j - 1) : L[i].call = L[j].call =>
              \E k \in 1..(j - 1) : i <= k /\ LastUpTo(L, L[j].call, j - 1, k)
<1> DEFINE earlier == {i \in 1..(j - 1) : L[i].call = L[j].call}
<1>1. /\ earlier = {} => ToolMove(None, L[j].state)
      /\ \A i \in earlier : (\A k \in earlier : k <= i) =>
           L[i].turn = L[j].turn /\ ToolMove(L[i].state, L[j].state)
  BY DEF LegalRows, LegalRow
<1>2. (\A i \in 1..(j - 1) : L[i].call # L[j].call) => earlier = {}
  OBVIOUS
<1>3. j \in Nat /\ earlier \subseteq 1..(j - 1)
  OBVIOUS
<1>4. ASSUME NEW k \in 1..(j - 1), LastUpTo(L, L[j].call, j - 1, k)
      PROVE  k \in earlier /\ \A m \in earlier : m <= k
  BY <1>3, <1>4 DEF LastUpTo
<1>5. ASSUME NEW i \in 1..(j - 1), L[i].call = L[j].call
      PROVE  \E k \in 1..(j - 1) : i <= k /\ LastUpTo(L, L[j].call, j - 1, k)
  <2>1. earlier # {} /\ j - 1 \in Nat /\ i \in earlier
    BY <1>3, <1>5
  <2>2. PICK k \in earlier : \A m \in earlier : k >= m
    BY <1>3, <2>1, LastExists
  <2>3. \A m \in (k + 1)..(j - 1) : m \notin earlier
    BY <1>3, <2>2
  <2>4. \A m \in (k + 1)..(j - 1) : m \in 1..(j - 1)
    BY <1>3
  <2>5. i <= k
    BY <1>3, <2>1, <2>2
  <2> QED
    BY <1>3, <2>2, <2>3, <2>4, <2>5 DEF LastUpTo
<1> QED
  BY <1>1, <1>2, <1>4, <1>5

\* The rows of one call are of one turn, and each ranks above the ones before it.
LEMMA CallsRise ==
  ASSUME NEW L \in Seq(Row), LegalRows(L), ToolStates(L)
  PROVE  \A j \in DOMAIN L : \A i \in 1..(j - 1) :
           L[j].call \in Call /\ L[i].call = L[j].call =>
             /\ L[i].turn = L[j].turn
             /\ Rank(L[i].state) \in Nat /\ Rank(L[j].state) \in Nat
             /\ Rank(L[i].state) < Rank(L[j].state)
<1> DEFINE Rises(j) ==
      \A i \in 1..(j - 1) :
        L[j].call \in Call /\ L[i].call = L[j].call =>
          /\ L[i].turn = L[j].turn
          /\ Rank(L[i].state) \in Nat /\ Rank(L[j].state) \in Nat
          /\ Rank(L[i].state) < Rank(L[j].state)
      Bad == {j \in DOMAIN L : ~Rises(j)}
<1> HIDE DEF Rises
<1>1. DOMAIN L = 1..Len(L) /\ Len(L) \in Nat /\ Bad \subseteq Nat
  OBVIOUS
<1>2. ASSUME NEW j \in DOMAIN L, \A m \in 1..(j - 1) : Rises(m) PROVE Rises(j)
  <2> SUFFICES ASSUME NEW i \in 1..(j - 1), L[j].call \in Call, L[i].call = L[j].call
               PROVE  /\ L[i].turn = L[j].turn
                      /\ Rank(L[i].state) \in Nat /\ Rank(L[j].state) \in Nat
                      /\ Rank(L[i].state) < Rank(L[j].state)
    BY DEF Rises
  <2>1. PICK k \in 1..(j - 1) : i <= k /\ LastUpTo(L, L[j].call, j - 1, k)
    BY EarlierRow
  <2>2. L[k].turn = L[j].turn /\ ToolMove(L[k].state, L[j].state)
    BY <2>1, EarlierRow
  <2>3. k \in DOMAIN L /\ L[k].call = L[j].call /\ i \in DOMAIN L
    BY <1>1, <2>1 DEF LastUpTo
  <2>4. /\ L[k].state \in CallState \ {None} /\ L[j].state \in CallState \ {None}
    <3>1. L[k] \in Row /\ L[j] \in Row
      BY <1>1, <2>3
    <3> QED
      BY <2>3, <3>1 DEF Row, ToolStates
  <2>5. Rank(L[k].state) \in Nat /\ Rank(L[j].state) \in Nat /\ Rank(L[k].state) < Rank(L[j].state)
    BY <2>2, <2>4, MoveRanks
  <2>6. CASE i = k
    BY <2>2, <2>5, <2>6
  <2>7. CASE i # k
    <3>1. i \in 1..(k - 1) /\ Rises(k)
      BY <1>1, <1>2, <2>1, <2>7
    <3>2. L[i].turn = L[k].turn /\ Rank(L[i].state) \in Nat /\ Rank(L[i].state) < Rank(L[k].state)
      BY <2>3, <3>1 DEF Rises
    <3> QED
      BY <2>2, <2>5, <3>2
  <2> QED
    BY <2>6, <2>7
<1>3. Bad = {}
  <2> SUFFICES ASSUME Bad # {} PROVE FALSE
    OBVIOUS
  <2>1. PICK j \in Bad : \A m \in Bad : j <= m
    BY <1>1, LeastExists
  <2>2. j \in DOMAIN L /\ \A m \in 1..(j - 1) : m \in DOMAIN L /\ m \notin Bad
    BY <1>1, <2>1
  <2>3. \A m \in 1..(j - 1) : Rises(m)
    BY <2>2
  <2> QED
    BY <1>2, <2>1, <2>2, <2>3
<1>4. \A j \in DOMAIN L : Rises(j)
  BY <1>3
<1> QED
  BY <1>4 DEF Rises

\* Behind the end of a turn its rows may only trail, and before it every call of
\* the turn is settled.
TurnsClose(L) ==
  \A e \in DOMAIN L : L[e].kind = "end" =>
    /\ \A i \in DOMAIN L : i > e /\ L[i].turn = L[e].turn => L[i].kind \in Trailing
    /\ \A c \in Call, k \in 1..(e - 1) :
         LastUpTo(L, c, e - 1, k) /\ L[k].turn = L[e].turn => L[k].state \in Settled

\* So it is in the log.
LEMMA TurnsAreClosed ==
  ASSUME FeedInv, CallInv, FormedRows(log)
  PROVE  TurnsClose(log)
<1>1. /\ log \in Seq(Row) /\ LegalRows(log) /\ ToolStates(log)
      /\ DOMAIN log = 1..Len(log) /\ Len(log) \in Nat
  BY DEF FeedInv, FeedTypes, CallInv
<1> SUFFICES ASSUME NEW e \in DOMAIN log, log[e].kind = "end"
             PROVE  /\ \A i \in DOMAIN log : i > e /\ log[i].turn = log[e].turn
                         => log[i].kind \in Trailing
                    /\ \A c \in Call, k \in 1..(e - 1) :
                         LastUpTo(log, c, e - 1, k) /\ log[k].turn = log[e].turn
                           => log[k].state \in Settled
  BY DEF TurnsClose
<1>2. log[e].turn \in AnyTurn
  <2>1. log[e] \in Row /\ log[e].turn # None
    BY <1>1 DEF FormedRows, Formed
  <2> QED
    BY <2>1 DEF Row
<1>3. EndsWell(log, log[e].turn)
  BY <1>2 DEF FeedInv, History
<1>4. \A i \in DOMAIN log : i > e /\ log[i].turn = log[e].turn => log[i].kind \in Trailing
  BY <1>3 DEF EndsWell
<1>5. ASSUME NEW c \in Call, NEW k \in 1..(e - 1), LastUpTo(log, c, e - 1, k),
             log[k].turn = log[e].turn
      PROVE  log[k].state \in Settled
  <2>1. k \in DOMAIN log /\ log[k].call = c /\ \A j \in (k + 1)..(e - 1) : log[j].call # c
    BY <1>1, <1>5 DEF LastUpTo
  <2>2. LastRow(log, k)
    <3> SUFFICES ASSUME NEW j \in DOMAIN log, j > k, log[j].call = c PROVE FALSE
      BY <2>1 DEF LastRow
    <3>1. j >= e
      BY <1>1, <2>1
    <3>2. log[j].turn = log[k].turn
      BY <1>1, <2>1, CallsRise
    <3>3. log[j].kind = "tool"
      BY <2>1, FeedAssumption DEF FormedRows, Formed, Plain
    <3>4. j # e
      BY <3>3
    <3>5. log[j].kind \in Trailing
      BY <1>1, <1>4, <1>5, <3>1, <3>2, <3>4
    <3> QED
      BY <3>3, <3>5 DEF Trailing
  <2> QED
    BY <1>3, <1>5, <2>1, <2>2 DEF EndsWell
<1> QED
  BY <1>4, <1>5

-----------------------------------------------------------------------------
(***************************************************************************)
(* What one row does to the tab.                                           *)
(***************************************************************************)
\* The tab's state, and what it keeps of a call and of the context.
ToolView == [state : CallState, turn : AnyTurn \cup {None}]
ContextView ==
  [valid : BOOLEAN, started : AnyTurn \cup {None}, observed : AnyTurn \cup {None}]

ChatState ==
  [through : Nat, held : SUBSET Nat, broken : BOOLEAN,
   tools : [Call -> ToolView], ended : SUBSET AnyTurn,
   activity : AnyTurn \cup {None}, busy : BOOLEAN,
   evidence : AnyTurn \cup {None}, superseded : SUBSET AnyTurn, context : ContextView,
   cards : SUBSET Call, waiting : SUBSET Call, answered : SUBSET Call,
   active : Turn \cup {None}]

\* What the reducers of calls and turns leave alone.
SameScreen(r, s) ==
  /\ r.through = s.through /\ r.held = s.held /\ r.broken = s.broken /\ r.tools = s.tools
  /\ r.ended = s.ended /\ r.active = s.active
SameCards(r, s) ==
  /\ r.cards = s.cards /\ r.waiting = s.waiting /\ r.answered = s.answered
  /\ r.activity = s.activity /\ r.busy = s.busy
SameContext(r, s) ==
  r.evidence = s.evidence /\ r.superseded = s.superseded /\ r.context = s.context

\* A row is evidence of its turn; of a turn that was superseded it is a conflict.
LEMMA EvidenceFields ==
  ASSUME NEW s \in ChatState, NEW e \in Row, e.turn \in AnyTurn,
         NEW r, r = FoldEvidence(s, e)
  PROVE  /\ r \in ChatState /\ SameScreen(r, s) /\ SameCards(r, s)
         /\ e.kind = "context" => SameContext(r, s)
         /\ e.kind # "context" /\ e.turn # s.evidence /\ e.turn \in s.superseded => ~r.context.valid
         /\ e.kind # "context" /\ ~(e.turn # s.evidence /\ e.turn \in s.superseded) =>
              /\ r.context = s.context /\ r.evidence = e.turn
              /\ r.superseded = s.superseded \cup ({s.evidence} \ {None, e.turn})
<1>1. Conflicted \in ContextView /\ ~Conflicted.valid
  BY DEF Conflicted, NoContext, ContextView
<1> HIDE DEF Conflicted
<1>2. CASE e.kind = "context"
  BY <1>2 DEF FoldEvidence, SameScreen, SameCards, SameContext
<1>3. CASE e.kind # "context" /\ e.turn # s.evidence /\ e.turn \in s.superseded
  <2>1. r = [s EXCEPT !.context = Conflicted]
    BY <1>3 DEF FoldEvidence
  <2> QED
    BY <1>1, <1>3, <2>1 DEF ChatState, SameScreen, SameCards
<1>4. CASE e.kind # "context" /\ ~(e.turn # s.evidence /\ e.turn \in s.superseded)
  <2>1. r = [s EXCEPT !.superseded = @ \cup ({s.evidence} \ {None, e.turn}), !.evidence = e.turn]
    BY <1>4 DEF FoldEvidence
  <2>2. s.superseded \cup ({s.evidence} \ {None, e.turn}) \subseteq AnyTurn
    BY DEF ChatState
  <2> QED
    BY <1>4, <2>1, <2>2 DEF ChatState, SameScreen, SameCards
<1> QED
  BY <1>2, <1>3, <1>4

\* What a row of turn t that is no observation does to the context projection.
Conflicts(s, t) == t # s.evidence /\ t \in s.superseded
Evidence(r, s, t) ==
  /\ Conflicts(s, t) => ~r.context.valid
  /\ ~Conflicts(s, t) =>
       /\ r.context = s.context /\ r.evidence = t
       /\ r.superseded = s.superseded \cup ({s.evidence} \ {None, t})

\* The fold of the row behind it, once the row is counted.
Seen(s, i) == [FoldEvidence(s, log[i]) EXCEPT !.through = i]

\* What it leaves alone.
LEMMA SeenFields ==
  ASSUME NEW s \in ChatState, NEW i \in DOMAIN log, log \in Seq(Row), log[i].turn \in AnyTurn,
         NEW r, r = Seen(s, i)
  PROVE  /\ r \in ChatState /\ SameCards(r, s)
         /\ r.through = i /\ r.held = s.held /\ r.broken = s.broken /\ r.tools = s.tools
         /\ r.ended = s.ended /\ r.active = s.active
         /\ log[i].kind = "context" => SameContext(r, s)
         /\ log[i].kind # "context" => Evidence(r, s, log[i].turn)
<1> DEFINE e == log[i]
           q == FoldEvidence(s, e)
<1>1. e \in Row /\ i \in Nat
  OBVIOUS
<1> HIDE DEF e
<1>2. /\ q \in ChatState /\ SameScreen(q, s) /\ SameCards(q, s)
      /\ e.kind = "context" => SameContext(q, s)
      /\ e.kind # "context" /\ e.turn # s.evidence /\ e.turn \in s.superseded => ~q.context.valid
      /\ e.kind # "context" /\ ~(e.turn # s.evidence /\ e.turn \in s.superseded) =>
           /\ q.context = s.context /\ q.evidence = e.turn
           /\ q.superseded = s.superseded \cup ({s.evidence} \ {None, e.turn})
  BY <1>1, EvidenceFields DEF e
<1>3. r = [q EXCEPT !.through = i]
  BY DEF Seen, e
<1> HIDE DEF q
<1>4. r \in ChatState /\ r.through = i /\ SameCards(r, q) /\ SameContext(r, q)
      /\ r.held = q.held /\ r.broken = q.broken /\ r.tools = q.tools
      /\ r.ended = q.ended /\ r.active = q.active
  BY <1>1, <1>2, <1>3 DEF ChatState, SameCards, SameContext
<1> QED
  BY <1>2, <1>4 DEF SameCards, SameContext, SameScreen, Conflicts, Evidence, e

\* A tool row the projector accepts.
Accepts(s, e) ==
  /\ ToolMove(s.tools[e.call].state, e.state) /\ e.turn \notin s.ended
  /\ s.tools[e.call].turn \in {None, e.turn}

\* It sets the call, and makes its card live or stale.
LEMMA ToolFields ==
  ASSUME NEW s \in ChatState, NEW e \in Row, e.turn \in AnyTurn, e.call \in Call,
         Accepts(s, e), NEW r, r = FoldTool(s, e)
  PROVE  /\ r \in ChatState /\ SameContext(r, s)
         /\ r.through = s.through /\ r.held = s.held /\ r.broken = s.broken
         /\ r.ended = s.ended /\ r.active = s.active
         /\ r.tools = [s.tools EXCEPT ![e.call] = [state |-> e.state, turn |-> e.turn]]
         /\ r.activity = e.turn
         /\ e.state = "requested" =>
              r.cards = s.cards /\ r.waiting = s.waiting /\ r.answered = s.answered
         /\ e.state = "approval-needed" =>
              /\ r.cards = s.cards \cup ({e.call} \cap (s.waiting \ s.answered))
              /\ r.waiting = s.waiting \ ({e.call} \ s.answered)
              /\ r.answered = s.answered
         /\ e.state \notin {"requested", "approval-needed"} =>
              /\ r.cards = s.cards \ {e.call} /\ r.waiting = s.waiting \ {e.call}
              /\ r.answered = s.answered \ ({e.call} \cap s.cards)
<1> DEFINE c == e.call
           view == [state |-> e.state, turn |-> e.turn]
           seen == [s EXCEPT !.tools[c] = view, !.activity = e.turn]
<1>1. view \in ToolView
  BY DEF ToolView, Row
<1>2. r = CASE e.state = "requested" -> seen
            [] e.state = "approval-needed" ->
                 [seen EXCEPT !.cards = @ \cup ({c} \cap (s.waiting \ s.answered)),
                              !.waiting = @ \ ({c} \ s.answered)]
            [] OTHER -> [seen EXCEPT !.cards = @ \ {c}, !.waiting = @ \ {c},
                                     !.answered = @ \ ({c} \cap s.cards)]
  BY Zenon DEF FoldTool, Accepts
<1> HIDE DEF view
<1>3. /\ seen \in ChatState /\ SameContext(seen, s)
      /\ seen.through = s.through /\ seen.held = s.held /\ seen.broken = s.broken
      /\ seen.ended = s.ended /\ seen.active = s.active
      /\ seen.tools = [s.tools EXCEPT ![c] = view] /\ seen.activity = e.turn
      /\ seen.cards = s.cards /\ seen.waiting = s.waiting /\ seen.answered = s.answered
  BY <1>1 DEF ChatState, SameContext
<1> HIDE DEF seen
<1>4. s.cards \subseteq Call /\ s.waiting \subseteq Call /\ s.answered \subseteq Call
  BY DEF ChatState
<1>5. CASE e.state = "requested"
  <2>1. r = seen
    BY <1>2, <1>5, Zenon
  <2> QED
    BY <1>3, <1>5, <2>1 DEF view
<1>6. CASE e.state = "approval-needed"
  <2> DEFINE up == s.cards \cup ({c} \cap (s.waiting \ s.answered))
             left == s.waiting \ ({c} \ s.answered)
  <2>1. r = [seen EXCEPT !.cards = @ \cup ({c} \cap (s.waiting \ s.answered)),
                         !.waiting = @ \ ({c} \ s.answered)]
    BY <1>2, <1>6
  <2>2. r = [seen EXCEPT !.cards = up, !.waiting = left, !.answered = s.answered]
    BY <1>3, <2>1 DEF ChatState
  <2>3. up \in SUBSET Call /\ left \in SUBSET Call
    BY <1>4
  <2> HIDE DEF up, left
  <2>4. /\ r \in ChatState /\ SameContext(r, seen)
        /\ r.through = seen.through /\ r.held = seen.held /\ r.broken = seen.broken
        /\ r.ended = seen.ended /\ r.active = seen.active
        /\ r.tools = seen.tools /\ r.activity = seen.activity
        /\ r.cards = up /\ r.waiting = left /\ r.answered = s.answered
    BY <1>3, <2>2, <2>3 DEF ChatState, SameContext
  <2> QED
    BY <1>3, <1>6, <2>4 DEF up, left, view, SameContext
<1>7. CASE e.state \notin {"requested", "approval-needed"}
  <2> DEFINE kept == s.answered \ ({c} \cap s.cards)
             up == s.cards \ {c}
             left == s.waiting \ {c}
  <2>1. r = [seen EXCEPT !.cards = @ \ {c}, !.waiting = @ \ {c},
                         !.answered = @ \ ({c} \cap s.cards)]
    BY <1>2, <1>7
  <2>2. r = [seen EXCEPT !.cards = up, !.waiting = left, !.answered = kept]
    BY <1>3, <2>1
  <2>3. up \in SUBSET Call /\ left \in SUBSET Call /\ kept \in SUBSET Call
    BY <1>4
  <2> HIDE DEF up, left, kept
  <2>4. /\ r \in ChatState /\ SameContext(r, seen)
        /\ r.through = seen.through /\ r.held = seen.held /\ r.broken = seen.broken
        /\ r.ended = seen.ended /\ r.active = seen.active
        /\ r.tools = seen.tools /\ r.activity = seen.activity
        /\ r.cards = up /\ r.waiting = left /\ r.answered = kept
    BY <1>3, <2>2, <2>3 DEF ChatState, SameContext
  <2> QED
    BY <1>3, <1>7, <2>4 DEF up, left, kept, view, SameContext
<1> QED
  BY <1>5, <1>6, <1>7

\* No card survives the end of a turn, or the idle session.
LEMMA NoCardsFields ==
  ASSUME NEW s \in ChatState, NEW r, r = NoCards(s)
  PROVE  /\ r \in ChatState /\ SameContext(r, s) /\ SameScreen(r, s)
         /\ r.cards = {} /\ r.waiting = {} /\ r.answered = {} /\ r.activity = None
  BY DEF NoCards, ChatState, SameContext, SameScreen

\* The row that is folded: visible, of a turn, and well formed.
FoldsRow(s, i) ==
  /\ s \in ChatState /\ log \in Seq(Row) /\ i \in DOMAIN log
  /\ Formed(log[i]) /\ log[i] # Hidden

\* What every row does.
Counted(r, s, i) ==
  r \in ChatState /\ r.through = i /\ r.held = s.held /\ r.active = s.active

\* A visible row has a turn.
LEMMA FoldedRow ==
  ASSUME NEW s, NEW i, FoldsRow(s, i)
  PROVE  /\ log[i] \in Row /\ log[i].turn \in AnyTurn /\ log[i].kind # "hidden" /\ i \in Nat
         /\ log[i].kind \in Kind
         /\ Seen(s, i) \in ChatState
         /\ FoldEvent(s, i) =
              LET e == log[i]
                  seen == Seen(s, i)
              IN  CASE e.kind = "tool" -> FoldTool(seen, e)
                    [] e.kind = "start" ->
                         IF e.turn \in s.ended THEN [seen EXCEPT !.broken = TRUE, !.context = Conflicted]
                         ELSE [seen EXCEPT !.activity = e.turn, !.busy = TRUE,
                                           !.context.started = IF seen.context.valid THEN e.turn
                                                               ELSE None]
                    [] e.kind = "end" ->
                         [NoCards(seen) EXCEPT !.ended = @ \cup {e.turn},
                            !.broken = @ \/ \E c \in Call : s.tools[c].turn = e.turn
                                                            /\ s.tools[c].state \notin Settled]
                    [] e.kind = "idle" -> [NoCards(seen) EXCEPT !.busy = FALSE]
                    [] e.kind = "context" -> FoldContext(seen, e)
                    [] OTHER -> seen
<1>1. log[i] \in Row /\ i \in Nat
  BY DEF FoldsRow
<1>2. log[i].kind # "hidden"
  <2> SUFFICES ASSUME log[i].kind = "hidden" PROVE FALSE
    OBVIOUS
  <2>1. log[i].turn = None /\ log[i] = Plain("hidden", log[i].turn)
    BY DEF FoldsRow, Formed
  <2>2. log[i] = Hidden
    BY <2>1, Zenon DEF Hidden
  <2> QED
    BY <2>2 DEF FoldsRow
<1>3. log[i].turn \in AnyTurn /\ log[i].kind \in Kind
  BY <1>1, <1>2 DEF Row, FoldsRow, Formed
<1>4. Seen(s, i) \in ChatState
  BY <1>3, SeenFields DEF FoldsRow
<1>5. FoldEvent(s, i) =
              LET e == log[i]
                  seen == Seen(s, i)
              IN  CASE e.kind = "tool" -> FoldTool(seen, e)
                    [] e.kind = "start" ->
                         IF e.turn \in s.ended THEN [seen EXCEPT !.broken = TRUE, !.context = Conflicted]
                         ELSE [seen EXCEPT !.activity = e.turn, !.busy = TRUE,
                                           !.context.started = IF seen.context.valid THEN e.turn
                                                               ELSE None]
                    [] e.kind = "end" ->
                         [NoCards(seen) EXCEPT !.ended = @ \cup {e.turn},
                            !.broken = @ \/ \E c \in Call : s.tools[c].turn = e.turn
                                                            /\ s.tools[c].state \notin Settled]
                    [] e.kind = "idle" -> [NoCards(seen) EXCEPT !.busy = FALSE]
                    [] e.kind = "context" -> FoldContext(seen, e)
                    [] OTHER -> seen
  BY Zenon DEF FoldEvent, Seen
<1> QED
  BY <1>1, <1>2, <1>3, <1>4, <1>5

\* A tool row the tab accepts.
LEMMA FoldOfTool ==
  ASSUME NEW s, NEW i, FoldsRow(s, i), NEW r, r = FoldEvent(s, i),
         log[i].kind = "tool", Accepts(s, log[i])
  PROVE  LET e == log[i] IN
         /\ Counted(r, s, i) /\ Evidence(r, s, e.turn)
         /\ r.broken = s.broken /\ r.ended = s.ended
         /\ r.tools = [s.tools EXCEPT ![e.call] = [state |-> e.state, turn |-> e.turn]]
         /\ r.activity = e.turn
         /\ e.state = "requested" =>
              r.cards = s.cards /\ r.waiting = s.waiting /\ r.answered = s.answered
         /\ e.state = "approval-needed" =>
              /\ r.cards = s.cards \cup ({e.call} \cap (s.waiting \ s.answered))
              /\ r.waiting = s.waiting \ ({e.call} \ s.answered)
              /\ r.answered = s.answered
         /\ e.state \notin {"requested", "approval-needed"} =>
              /\ r.cards = s.cards \ {e.call} /\ r.waiting = s.waiting \ {e.call}
              /\ r.answered = s.answered \ ({e.call} \cap s.cards)
<1> DEFINE e == log[i]
           q == Seen(s, i)
<1>1. e \in Row /\ e.turn \in AnyTurn /\ q \in ChatState /\ e.call \in Call /\ s \in ChatState
  BY FoldedRow DEF FoldsRow, Formed
<1>2. r = FoldTool(q, e)
  BY FoldedRow
<1>3. /\ SameCards(q, s) /\ q.through = i /\ q.held = s.held /\ q.broken = s.broken
      /\ q.tools = s.tools /\ q.ended = s.ended /\ q.active = s.active
      /\ Evidence(q, s, e.turn)
  BY <1>1, SeenFields DEF FoldsRow
<1> HIDE DEF e, q
<1>4. Accepts(q, e)
  BY <1>3 DEF Accepts, e
<1>5. /\ r \in ChatState /\ SameContext(r, q)
      /\ r.through = q.through /\ r.held = q.held /\ r.broken = q.broken
      /\ r.ended = q.ended /\ r.active = q.active
      /\ r.tools = [q.tools EXCEPT ![e.call] = [state |-> e.state, turn |-> e.turn]]
      /\ r.activity = e.turn
      /\ e.state = "requested" =>
           r.cards = q.cards /\ r.waiting = q.waiting /\ r.answered = q.answered
      /\ e.state = "approval-needed" =>
           /\ r.cards = q.cards \cup ({e.call} \cap (q.waiting \ q.answered))
           /\ r.waiting = q.waiting \ ({e.call} \ q.answered)
           /\ r.answered = q.answered
      /\ e.state \notin {"requested", "approval-needed"} =>
           /\ r.cards = q.cards \ {e.call} /\ r.waiting = q.waiting \ {e.call}
           /\ r.answered = q.answered \ ({e.call} \cap q.cards)
  BY <1>1, <1>2, <1>4, ToolFields
<1>6. Evidence(r, s, e.turn)
  BY <1>3, <1>5 DEF Evidence, SameContext, Conflicts
<1>7. Counted(r, s, i)
  BY <1>3, <1>5 DEF Counted
<1> QED
  BY <1>3, <1>5, <1>6, <1>7 DEF SameCards, e

\* The start of a turn that has not ended.
LEMMA FoldOfStart ==
  ASSUME NEW s, NEW i, FoldsRow(s, i), NEW r, r = FoldEvent(s, i),
         log[i].kind = "start", log[i].turn \notin s.ended
  PROVE  LET t == log[i].turn IN
         /\ Counted(r, s, i)
         /\ r.broken = s.broken /\ r.ended = s.ended /\ r.tools = s.tools /\ r.activity = t
         /\ r.cards = s.cards /\ r.waiting = s.waiting /\ r.answered = s.answered
         /\ Conflicts(s, t) => ~r.context.valid
         /\ ~Conflicts(s, t) =>
              /\ r.evidence = t /\ r.superseded = s.superseded \cup ({s.evidence} \ {None, t})
              /\ r.context.valid = s.context.valid
              /\ s.context.valid => r.context.started = t /\ r.context.observed = s.context.observed
<1> DEFINE t == log[i].turn
           q == Seen(s, i)
           started == IF q.context.valid THEN t ELSE None
<1>1. t \in AnyTurn /\ q \in ChatState /\ s \in ChatState
  BY FoldedRow DEF FoldsRow
<1>2. r = [q EXCEPT !.activity = t, !.busy = TRUE, !.context.started = started]
  BY FoldedRow
<1>3. /\ SameCards(q, s) /\ q.through = i /\ q.held = s.held /\ q.broken = s.broken
      /\ q.tools = s.tools /\ q.ended = s.ended /\ q.active = s.active
      /\ Evidence(q, s, t)
  BY <1>1, SeenFields DEF FoldsRow
<1>4. started \in AnyTurn \cup {None} /\ (q.context.valid => started = t)
  BY <1>1
<1> HIDE DEF started, q, t
<1>5. /\ r.context = [q.context EXCEPT !.started = started] /\ r.evidence = q.evidence
      /\ r.superseded = q.superseded /\ r.activity = t /\ r.through = q.through
      /\ r.held = q.held /\ r.broken = q.broken /\ r.tools = q.tools /\ r.ended = q.ended
      /\ r.active = q.active /\ r.cards = q.cards /\ r.waiting = q.waiting
      /\ r.answered = q.answered
  BY <1>1, <1>2 DEF ChatState
<1>6. q.context \in ContextView
  BY <1>1 DEF ChatState
<1>7. /\ r.context \in ContextView /\ r.context.valid = q.context.valid
      /\ r.context.started = started /\ r.context.observed = q.context.observed
  BY <1>4, <1>5, <1>6 DEF ContextView
<1>8. r \in ChatState
  BY <1>1, <1>2, <1>5, <1>7 DEF ChatState
<1>9. Counted(r, s, i)
  BY <1>3, <1>5, <1>8 DEF Counted
<1> QED
  BY <1>3, <1>4, <1>5, <1>7, <1>9 DEF SameCards, Evidence, Conflicts, t

\* The end of a turn.
LEMMA FoldOfEnd ==
  ASSUME NEW s, NEW i, FoldsRow(s, i), NEW r, r = FoldEvent(s, i), log[i].kind = "end"
  PROVE  LET t == log[i].turn IN
         /\ Counted(r, s, i) /\ Evidence(r, s, t)
         /\ r.broken <=> \/ s.broken
                         \/ \E c \in Call : s.tools[c].turn = t /\ s.tools[c].state \notin Settled
         /\ r.ended = s.ended \cup {t} /\ r.tools = s.tools /\ r.activity = None
         /\ r.cards = {} /\ r.waiting = {} /\ r.answered = {}
<1> DEFINE t == log[i].turn
           q == Seen(s, i)
           n == NoCards(q)
           broken == \E c \in Call : s.tools[c].turn = t /\ s.tools[c].state \notin Settled
<1>1. t \in AnyTurn /\ q \in ChatState /\ s \in ChatState
  BY FoldedRow DEF FoldsRow
<1>2. r = [n EXCEPT !.ended = @ \cup {t}, !.broken = @ \/ broken]
  BY FoldedRow
<1>3. /\ SameCards(q, s) /\ q.through = i /\ q.held = s.held /\ q.broken = s.broken
      /\ q.tools = s.tools /\ q.ended = s.ended /\ q.active = s.active
      /\ Evidence(q, s, t)
  BY <1>1, SeenFields DEF FoldsRow
<1>4. broken \in BOOLEAN
  OBVIOUS
<1> HIDE DEF broken, q, t
<1>5. /\ n \in ChatState /\ SameContext(n, q) /\ SameScreen(n, q)
      /\ n.cards = {} /\ n.waiting = {} /\ n.answered = {} /\ n.activity = None
  BY <1>1, NoCardsFields
<1> HIDE DEF n
<1>6. n.broken \in BOOLEAN /\ n.ended \subseteq AnyTurn
  BY <1>5 DEF ChatState
<1> DEFINE ended == n.ended \cup {t}
           isBroken == n.broken \/ broken
<1>7. ended \in SUBSET AnyTurn /\ isBroken \in BOOLEAN
  BY <1>1, <1>6
<1>8. r = [n EXCEPT !.ended = ended, !.broken = isBroken]
  BY <1>2
<1> HIDE DEF ended, isBroken
<1>9. /\ r \in ChatState /\ SameContext(r, n) /\ r.through = n.through /\ r.held = n.held
      /\ r.active = n.active /\ r.tools = n.tools /\ r.activity = n.activity
      /\ r.cards = n.cards /\ r.waiting = n.waiting /\ r.answered = n.answered
      /\ r.broken = isBroken /\ r.ended = ended
  BY <1>5, <1>7, <1>8 DEF ChatState, SameContext
<1>10. Counted(r, s, i)
  BY <1>3, <1>5, <1>9 DEF Counted, SameScreen
<1>11. Evidence(r, s, t)
  BY <1>3, <1>5, <1>9 DEF Evidence, SameContext, Conflicts
<1>12. r.broken <=> s.broken \/ broken
  BY <1>3, <1>5, <1>9 DEF isBroken, SameScreen
<1>13. /\ r.ended = s.ended \cup {t} /\ r.tools = s.tools /\ r.activity = None
       /\ r.cards = {} /\ r.waiting = {} /\ r.answered = {}
  BY <1>3, <1>5, <1>9 DEF ended, SameScreen
<1> QED
  BY <1>10, <1>11, <1>12, <1>13 DEF t, broken

\* The session is idle.
LEMMA FoldOfIdle ==
  ASSUME NEW s, NEW i, FoldsRow(s, i), NEW r, r = FoldEvent(s, i), log[i].kind = "idle"
  PROVE  /\ Counted(r, s, i) /\ Evidence(r, s, log[i].turn)
         /\ r.broken = s.broken /\ r.ended = s.ended /\ r.tools = s.tools /\ r.activity = None
         /\ r.cards = {} /\ r.waiting = {} /\ r.answered = {}
<1> DEFINE t == log[i].turn
           q == Seen(s, i)
           n == NoCards(q)
<1>1. t \in AnyTurn /\ q \in ChatState /\ s \in ChatState
  BY FoldedRow DEF FoldsRow
<1>2. r = [n EXCEPT !.busy = FALSE]
  BY FoldedRow
<1>3. /\ SameCards(q, s) /\ q.through = i /\ q.held = s.held /\ q.broken = s.broken
      /\ q.tools = s.tools /\ q.ended = s.ended /\ q.active = s.active
      /\ Evidence(q, s, t)
  BY <1>1, SeenFields DEF FoldsRow
<1> HIDE DEF q, t
<1>4. /\ n \in ChatState /\ SameContext(n, q) /\ SameScreen(n, q)
      /\ n.cards = {} /\ n.waiting = {} /\ n.answered = {} /\ n.activity = None
  BY <1>1, NoCardsFields
<1> HIDE DEF n
<1>5. /\ r \in ChatState /\ SameContext(r, n) /\ SameScreen(r, n) /\ r.activity = n.activity
      /\ r.cards = n.cards /\ r.waiting = n.waiting /\ r.answered = n.answered
  BY <1>2, <1>4 DEF ChatState, SameContext, SameScreen
<1>6. Counted(r, s, i)
  BY <1>3, <1>4, <1>5 DEF Counted, SameScreen
<1>7. Evidence(r, s, t)
  BY <1>3, <1>4, <1>5 DEF Evidence, SameContext, Conflicts
<1> QED
  BY <1>3, <1>4, <1>5, <1>6, <1>7 DEF SameScreen, t

\* A context observation.
LEMMA FoldOfContext ==
  ASSUME NEW s, NEW i, FoldsRow(s, i), NEW r, r = FoldEvent(s, i), log[i].kind = "context"
  PROVE  LET t == log[i].turn
             accepted == /\ s.context.valid /\ s.context.started = t /\ s.evidence = t
                         /\ t \in s.ended /\ s.context.observed # t
         IN
         /\ Counted(r, s, i)
         /\ r.broken = s.broken /\ r.ended = s.ended /\ r.tools = s.tools /\ SameCards(r, s)
         /\ r.evidence = s.evidence /\ r.superseded = s.superseded
         /\ accepted => /\ r.context.valid /\ r.context.started = t /\ r.context.observed = t
         /\ ~accepted => ~r.context.valid
<1> DEFINE t == log[i].turn
           q == Seen(s, i)
           accepts == /\ q.context.valid /\ q.context.started = t /\ q.evidence = t
                      /\ t \in q.ended /\ q.context.observed # t
<1>1. t \in AnyTurn /\ q \in ChatState /\ s \in ChatState
  BY FoldedRow DEF FoldsRow
<1>2. r = IF accepts THEN [q EXCEPT !.context.observed = t] ELSE [q EXCEPT !.context = Conflicted]
  <2>1. r = FoldContext(q, log[i])
    BY FoldedRow
  <2> QED
    BY <2>1 DEF FoldContext
<1>3. /\ SameCards(q, s) /\ q.through = i /\ q.held = s.held /\ q.broken = s.broken
      /\ q.tools = s.tools /\ q.ended = s.ended /\ q.active = s.active
      /\ SameContext(q, s)
  BY <1>1, SeenFields DEF FoldsRow
<1>4. Conflicted \in ContextView /\ ~Conflicted.valid
  BY DEF Conflicted, NoContext, ContextView
<1>5. q.context \in ContextView
  BY <1>1 DEF ChatState
<1> HIDE DEF q, t
<1>6. \E context \in ContextView :
        /\ r = [q EXCEPT !.context = context]
        /\ accepts => context.valid /\ context.started = t /\ context.observed = t
        /\ ~accepts => ~context.valid
  <2>1. CASE accepts
    <3> DEFINE context == [q.context EXCEPT !.observed = t]
    <3>1. context \in ContextView /\ context.valid /\ context.started = t /\ context.observed = t
      BY <1>1, <1>5, <2>1 DEF ContextView
    <3>2. r = [q EXCEPT !.context = context]
      BY <1>1, <1>2, <2>1 DEF ChatState
    <3> QED
      BY <2>1, <3>1, <3>2
  <2>2. CASE ~accepts
    BY <1>2, <1>4, <2>2
  <2> QED
    BY <2>1, <2>2
<1>7. PICK context \in ContextView :
        /\ r = [q EXCEPT !.context = context]
        /\ accepts => context.valid /\ context.started = t /\ context.observed = t
        /\ ~accepts => ~context.valid
  BY <1>6
<1>8. /\ r \in ChatState /\ SameScreen(r, q) /\ SameCards(r, q)
      /\ r.evidence = q.evidence /\ r.superseded = q.superseded /\ r.context = context
  BY <1>1, <1>7 DEF ChatState, SameScreen, SameCards
<1>9. Counted(r, s, i) /\ SameCards(r, s)
  BY <1>3, <1>8 DEF Counted, SameScreen, SameCards
<1> QED
  BY <1>3, <1>7, <1>8, <1>9 DEF SameContext, SameScreen, t

\* A marker or a notice.
LEMMA FoldOfOther ==
  ASSUME NEW s, NEW i, FoldsRow(s, i), NEW r, r = FoldEvent(s, i),
         log[i].kind \in {"marker", "notice"}
  PROVE  /\ Counted(r, s, i) /\ Evidence(r, s, log[i].turn)
         /\ r.broken = s.broken /\ r.ended = s.ended /\ r.tools = s.tools /\ SameCards(r, s)
<1> DEFINE q == Seen(s, i)
<1>1. log[i].turn \in AnyTurn /\ q \in ChatState /\ s \in ChatState
  BY FoldedRow DEF FoldsRow
<1>2. r = q
  BY FoldedRow
<1>3. /\ SameCards(q, s) /\ q.through = i /\ q.held = s.held /\ q.broken = s.broken
      /\ q.tools = s.tools /\ q.ended = s.ended /\ q.active = s.active
      /\ Evidence(q, s, log[i].turn)
  BY <1>1, SeenFields DEF FoldsRow
<1> HIDE DEF q
<1> QED
  BY <1>1, <1>2, <1>3 DEF Counted

-----------------------------------------------------------------------------
(***************************************************************************)
(* What the tab shows of the first n rows.                                 *)
(***************************************************************************)
\* The calls and the turns.
Shows(L, s, n) ==
  /\ s.held = {} /\ ~s.broken
  /\ \A t \in AnyTurn : t \in s.ended <=> \E i \in 1..n : L[i] = Plain("end", t)
  /\ \A c \in Call :
       /\ (\A i \in 1..n : L[i].call # c) => s.tools[c] = NoTool
       /\ \A k \in 1..n : LastUpTo(L, c, n, k) =>
            s.tools[c] = [state |-> L[k].state, turn |-> L[k].turn]

\* The commit accepted the rows of the log one by one.
LogAccepted(L) ==
  L \in Seq(Row) /\ FormedRows(L) /\ LegalRows(L) /\ ToolStates(L) /\ TurnsClose(L)

\* A call has no row, or a last one, among the first n.
LEMMA LastUpToExists ==
  ASSUME NEW L, NEW n \in Nat, NEW c
  PROVE  (\A i \in 1..n : L[i].call # c) \/ \E k \in 1..n : LastUpTo(L, c, n, k)
<1> DEFINE I == {i \in 1..n : L[i].call = c}
<1> SUFFICES ASSUME I # {} PROVE \E k \in 1..n : LastUpTo(L, c, n, k)
  OBVIOUS
<1>1. PICK k \in I : \A j \in I : k >= j
  BY LastExists
<1>2. \A j \in (k + 1)..n : j \in 1..n /\ j \notin I
  BY <1>1
<1> QED
  BY <1>1, <1>2 DEF LastUpTo

\* The last rows among the first n + 1, where the call of row n + 1 is known.
LEMMA LastUpToStep ==
  ASSUME NEW L, NEW n \in Nat, NEW c
  PROVE  /\ L[n + 1].call = c => \A k : LastUpTo(L, c, n + 1, k) => k = n + 1
         /\ L[n + 1].call # c => \A k : LastUpTo(L, c, n + 1, k) => LastUpTo(L, c, n, k)
<1>1. ASSUME NEW k, LastUpTo(L, c, n + 1, k), k # n + 1
      PROVE  k \in 1..n /\ n + 1 \in (k + 1)..(n + 1) /\ (k + 1)..n \subseteq (k + 1)..(n + 1)
  BY <1>1 DEF LastUpTo
<1>2. ASSUME NEW k, LastUpTo(L, c, n + 1, k), L[n + 1].call = c PROVE k = n + 1
  BY <1>1, <1>2 DEF LastUpTo
<1>3. ASSUME NEW k, LastUpTo(L, c, n + 1, k), L[n + 1].call # c PROVE LastUpTo(L, c, n, k)
  <2>1. k # n + 1 /\ L[k].call = c /\ \A j \in (k + 1)..(n + 1) : L[j].call # c
    BY <1>3 DEF LastUpTo
  <2> QED
    BY <1>1, <1>3, <2>1 DEF LastUpTo
<1> QED
  BY <1>2, <1>3

\* A turn that starts, or whose call moves, has not ended.
LEMMA NotEnded ==
  ASSUME NEW L, LogAccepted(L), NEW s, NEW n \in Nat, n + 1 \in DOMAIN L, Shows(L, s, n),
         L[n + 1].turn \in AnyTurn, L[n + 1].kind \in {"start", "tool"}
  PROVE  L[n + 1].turn \notin s.ended
<1> DEFINE t == L[n + 1].turn
<1> SUFFICES ASSUME t \in s.ended PROVE FALSE
  OBVIOUS
<1>1. PICK i \in 1..n : L[i] = Plain("end", t)
  BY DEF Shows
<1>2. i \in DOMAIN L /\ L[i].kind = "end" /\ L[i].turn = t /\ n + 1 > i
  BY <1>1 DEF Plain, LogAccepted
<1>3. L[n + 1].kind \in Trailing
  BY <1>2 DEF LogAccepted, TurnsClose
<1> QED
  BY <1>3 DEF Trailing

\* A tab that shows the rows before it accepts a tool row.
LEMMA TabAccepts ==
  ASSUME NEW L, LogAccepted(L), NEW s, NEW n \in Nat, n + 1 \in DOMAIN L, Shows(L, s, n),
         L[n + 1].kind = "tool"
  PROVE  Accepts(s, L[n + 1]) /\ L[n + 1].call \in Call /\ L[n + 1].turn \in AnyTurn
<1> DEFINE e == L[n + 1]
           c == e.call
<1>1. /\ c \in Call /\ e.turn \in AnyTurn /\ L \in Seq(Row) /\ LegalRows(L)
      /\ DOMAIN L = 1..Len(L) /\ (n + 1) - 1 = n
  BY DEF LogAccepted, FormedRows, Formed
<1>2. e.turn \notin s.ended
  BY <1>1, NotEnded
<1>3. ToolMove(s.tools[c].state, e.state) /\ s.tools[c].turn \in {None, e.turn}
  <2>1. CASE \A i \in 1..n : L[i].call # c
    <3>1. s.tools[c] = NoTool
      BY <1>1, <2>1 DEF Shows
    <3>2. ToolMove(None, e.state)
      BY <1>1, <2>1, EarlierRow
    <3> QED
      BY <3>1, <3>2 DEF NoTool
  <2>2. CASE \E k \in 1..n : LastUpTo(L, c, n, k)
    <3>1. PICK k \in 1..n : LastUpTo(L, c, n, k)
      BY <2>2
    <3>2. L[k].turn = e.turn /\ ToolMove(L[k].state, e.state)
      BY <1>1, <3>1, EarlierRow
    <3>3. s.tools[c] = [state |-> L[k].state, turn |-> L[k].turn]
      BY <1>1, <3>1 DEF Shows
    <3> QED
      BY <3>2, <3>3
  <2> QED
    BY <2>1, <2>2, LastUpToExists
<1> QED
  BY <1>1, <1>2, <1>3 DEF Accepts

\* What a row leaves as it is, it shows as before.
LEMMA ShowsAlike ==
  ASSUME NEW L, LogAccepted(L), NEW s, NEW r, NEW n \in Nat, n + 1 \in DOMAIN L, Shows(L, s, n),
         L[n + 1].kind \notin {"tool", "end"},
         r.held = s.held, r.broken = s.broken, r.ended = s.ended, r.tools = s.tools
  PROVE  Shows(L, r, n + 1)
<1> DEFINE e == L[n + 1]
<1>1. e = Plain(e.kind, e.turn)
  BY DEF LogAccepted, FormedRows, Formed
<1>2. e.call = None /\ \A t : e # Plain("end", t)
  BY <1>1 DEF Plain
<1>3. \A c \in Call : e.call # c
  BY <1>2, FeedAssumption
<1>4. 1..(n + 1) = 1..n \cup {n + 1}
  OBVIOUS
<1>5. \A c \in Call : \A k : LastUpTo(L, c, n + 1, k) => LastUpTo(L, c, n, k) /\ k \in 1..n
  BY <1>3, LastUpToStep DEF LastUpTo
<1>6. \A t \in AnyTurn : t \in r.ended <=> \E i \in 1..(n + 1) : L[i] = Plain("end", t)
  BY <1>2, <1>4 DEF Shows
<1>7. ASSUME NEW c \in Call
      PROVE  /\ (\A i \in 1..(n + 1) : L[i].call # c) => r.tools[c] = NoTool
             /\ \A k \in 1..(n + 1) : LastUpTo(L, c, n + 1, k) =>
                  r.tools[c] = [state |-> L[k].state, turn |-> L[k].turn]
  BY <1>4, <1>5 DEF Shows
<1> QED
  BY <1>6, <1>7 DEF Shows

\* Row by row the tab shows the log.
LEMMA ShowsStep ==
  ASSUME NEW s, NEW n \in Nat, n + 1 \in DOMAIN log, LogAccepted(log), log[n + 1] # Hidden,
         s \in ChatState, Shows(log, s, n), NEW r, r = FoldEvent(s, n + 1)
  PROVE  Shows(log, r, n + 1) /\ Counted(r, s, n + 1)
<1> DEFINE e == log[n + 1]
           t == e.turn
<1>1. FoldsRow(s, n + 1) /\ t \in AnyTurn /\ e.kind \in Kind /\ e.kind # "hidden"
  <2>1. FoldsRow(s, n + 1)
    BY DEF FoldsRow, LogAccepted, FormedRows
  <2> QED
    BY <2>1, FoldedRow
<1>2. 1..(n + 1) = 1..n \cup {n + 1} /\ n + 1 \in Nat /\ (n + 1) - 1 = n
  OBVIOUS
<1>3. \A i \in DOMAIN log : log[i].turn = t /\ log[i].kind = "end" => log[i] = Plain("end", t)
  <2>1. \A i \in DOMAIN log : log[i].kind # "tool" => log[i] = Plain(log[i].kind, log[i].turn)
    BY DEF LogAccepted, FormedRows, Formed
  <2> QED
    BY <2>1
<1>4. CASE e.kind = "tool"
  <2> DEFINE c == e.call
  <2>1. Accepts(s, e) /\ c \in Call
    BY <1>4, TabAccepts
  <2>2. /\ Counted(r, s, n + 1) /\ r.broken = s.broken /\ r.ended = s.ended
        /\ r.tools = [s.tools EXCEPT ![c] = [state |-> e.state, turn |-> e.turn]]
    BY <1>1, <1>4, <2>1, FoldOfTool
  <2>3. \A u : e # Plain("end", u)
    BY <1>4 DEF Plain
  <2>4. \A u \in AnyTurn : u \in r.ended <=> \E i \in 1..(n + 1) : log[i] = Plain("end", u)
    BY <1>2, <2>2, <2>3 DEF Shows
  <2>5. ASSUME NEW d \in Call
        PROVE  /\ (\A i \in 1..(n + 1) : log[i].call # d) => r.tools[d] = NoTool
               /\ \A k \in 1..(n + 1) : LastUpTo(log, d, n + 1, k) =>
                    r.tools[d] = [state |-> log[k].state, turn |-> log[k].turn]
    <3>1. CASE d = c
      <4>1. r.tools[d] = [state |-> e.state, turn |-> e.turn]
        BY <2>1, <2>2, <3>1 DEF ChatState
      <4>2. \A k : LastUpTo(log, d, n + 1, k) => k = n + 1
        BY <3>1, LastUpToStep
      <4>3. ~ \A i \in 1..(n + 1) : log[i].call # d
        BY <1>2, <3>1
      <4> QED
        BY <4>1, <4>2, <4>3
    <3>2. CASE d # c
      <4>1. r.tools[d] = s.tools[d]
        BY <2>1, <2>2, <3>2 DEF ChatState
      <4>2. \A k : LastUpTo(log, d, n + 1, k) => LastUpTo(log, d, n, k) /\ k \in 1..n
        BY <3>2, LastUpToStep DEF LastUpTo
      <4> QED
        BY <1>2, <4>1, <4>2 DEF Shows
    <3> QED
      BY <3>1, <3>2
  <2>6. r.held = {} /\ ~r.broken
    BY <2>2 DEF Shows, Counted
  <2> QED
    BY <2>2, <2>4, <2>5, <2>6 DEF Shows
<1>5. CASE e.kind = "end"
  <2>1. /\ Counted(r, s, n + 1)
        /\ r.broken <=> \/ s.broken
                        \/ \E c \in Call : s.tools[c].turn = t /\ s.tools[c].state \notin Settled
        /\ r.ended = s.ended \cup {t} /\ r.tools = s.tools
    BY <1>1, <1>5, FoldOfEnd
  <2>2. ASSUME NEW c \in Call, s.tools[c].turn = t PROVE s.tools[c].state \in Settled
    <3>1. CASE \A i \in 1..n : log[i].call # c
      <4>1. s.tools[c] = NoTool /\ t # None
        BY <1>1, <3>1, FeedAssumption DEF Shows, AnyTurn
      <4> QED
        BY <2>2, <4>1 DEF NoTool
    <3>2. CASE \E k \in 1..n : LastUpTo(log, c, n, k)
      <4>1. PICK k \in 1..n : LastUpTo(log, c, n, k)
        BY <3>2
      <4>2. s.tools[c] = [state |-> log[k].state, turn |-> log[k].turn]
        BY <4>1 DEF Shows
      <4>3. log[k].state \in Settled
        BY <1>2, <1>5, <2>2, <4>1, <4>2 DEF LogAccepted, TurnsClose
      <4> QED
        BY <4>2, <4>3
    <3> QED
      BY <3>1, <3>2, LastUpToExists
  <2>3. r.held = {} /\ ~r.broken
    BY <2>1, <2>2 DEF Shows, Counted
  <2>4. e = Plain("end", t) /\ e.call = None
    BY <1>3, <1>5 DEF Plain
  <2>5. \A u : e = Plain("end", u) <=> u = t
    BY <2>4 DEF Plain
  <2>6. \A u \in AnyTurn : u \in r.ended <=> \E i \in 1..(n + 1) : log[i] = Plain("end", u)
    BY <1>2, <2>1, <2>5 DEF Shows
  <2>7. \A c \in Call : \A k : LastUpTo(log, c, n + 1, k) => LastUpTo(log, c, n, k) /\ k \in 1..n
    <3>1. \A c \in Call : e.call # c
      BY <2>4, FeedAssumption
    <3> QED
      BY <3>1, LastUpToStep DEF LastUpTo
  <2>8. ASSUME NEW c \in Call
        PROVE  /\ (\A i \in 1..(n + 1) : log[i].call # c) => r.tools[c] = NoTool
               /\ \A k \in 1..(n + 1) : LastUpTo(log, c, n + 1, k) =>
                    r.tools[c] = [state |-> log[k].state, turn |-> log[k].turn]
    BY <1>2, <2>1, <2>7 DEF Shows
  <2> QED
    BY <2>1, <2>3, <2>6, <2>8 DEF Shows
<1>6. CASE e.kind \notin {"tool", "end"}
  <2>1. /\ Counted(r, s, n + 1) /\ r.broken = s.broken /\ r.ended = s.ended /\ r.tools = s.tools
    <3>1. CASE e.kind = "start"
      <4>1. t \notin s.ended
        BY <1>1, <3>1, NotEnded
      <4> QED
        BY <1>1, <3>1, <4>1, FoldOfStart
    <3>2. CASE e.kind = "idle"
      BY <1>1, <3>2, FoldOfIdle
    <3>3. CASE e.kind = "context"
      BY <1>1, <3>3, FoldOfContext
    <3>4. CASE e.kind \in {"marker", "notice"}
      BY <1>1, <3>4, FoldOfOther
    <3> QED
      BY <1>1, <1>6, <3>1, <3>2, <3>3, <3>4 DEF Kind
  <2>2. r.held = s.held
    BY <2>1 DEF Counted
  <2> QED
    BY <1>6, <2>1, <2>2, ShowsAlike
<1> QED
  BY <1>4, <1>5, <1>6

\* The rows that end the wait of a call, and those that do not disturb the
\* activity of its turn.
Clears(e, c) == e.kind \in {"end", "idle"} \/ e.call = c
Quiet(e, t) == e.kind \in {"hidden", "context", "notice"} \/ (e.kind = "tool" /\ e.turn = t)

\* The cards among the first n rows: those that are live wait for approval, those
\* that wait have yet to, and a tool row is the activity until something else is.
CardsFit(L, s, n) ==
  /\ s.answered \subseteq s.cards
  /\ \A c \in s.cards : s.tools[c].state = "approval-needed"
  /\ \A c \in s.waiting : s.tools[c].state \in {None, "requested"}
  /\ \A p \in 1..n : L[p].kind = "tool" /\ (\A q \in (p + 1)..n : Quiet(L[q], L[p].turn))
       => s.activity = L[p].turn

\* What a row does to the cards there are.
CardStep(r, s, e) ==
  /\ r.cards \cup r.waiting \subseteq s.cards \cup s.waiting
  /\ \A c \in r.cards \cup r.waiting : Clears(e, c) =>
       e.call = c /\ e.state \in {"requested", "approval-needed"}
  /\ \A c \in s.cards : ~Clears(e, c) => c \in r.cards

\* The activity after a row that leaves it alone, or sets it to its turn.
LEMMA ActivityStep ==
  ASSUME NEW L, NEW s, NEW r, NEW n \in Nat, CardsFit(L, s, n),
         \/ L[n + 1].kind = "tool" /\ r.activity = L[n + 1].turn
         \/ L[n + 1].kind \in {"hidden", "context", "notice"} /\ r.activity = s.activity
         \/ L[n + 1].kind \in {"end", "idle", "start", "marker"}
  PROVE  \A p \in 1..(n + 1) :
           L[p].kind = "tool" /\ (\A q \in (p + 1)..(n + 1) : Quiet(L[q], L[p].turn))
             => r.activity = L[p].turn
<1> DEFINE e == L[n + 1]
<1> SUFFICES ASSUME NEW p \in 1..(n + 1), L[p].kind = "tool",
                    \A q \in (p + 1)..(n + 1) : Quiet(L[q], L[p].turn)
             PROVE  r.activity = L[p].turn
  OBVIOUS
<1>1. CASE p = n + 1
  BY <1>1
<1>2. CASE p # n + 1
  <2>1. p \in 1..n /\ n + 1 \in (p + 1)..(n + 1) /\ (p + 1)..n \subseteq (p + 1)..(n + 1)
    BY <1>2
  <2>2. s.activity = L[p].turn /\ Quiet(e, L[p].turn)
    BY <2>1 DEF CardsFit
  <2> QED
    BY <2>2 DEF Quiet
<1> QED
  BY <1>1, <1>2

\* Row by row the cards fit what the tab shows of the calls.
LEMMA CardsStep ==
  ASSUME NEW s, NEW n \in Nat, n + 1 \in DOMAIN log, LogAccepted(log), log[n + 1] # Hidden,
         s \in ChatState, Shows(log, s, n), CardsFit(log, s, n), NEW r, r = FoldEvent(s, n + 1)
  PROVE  CardsFit(log, r, n + 1) /\ CardStep(r, s, log[n + 1])
<1> DEFINE e == log[n + 1]
           t == e.turn
<1>1. FoldsRow(s, n + 1) /\ t \in AnyTurn /\ e.kind \in Kind /\ e.kind # "hidden"
  <2>1. FoldsRow(s, n + 1)
    BY DEF FoldsRow, LogAccepted, FormedRows
  <2> QED
    BY <2>1, FoldedRow
<1>2. e.kind # "tool" => e.call = None
  <2>1. e.kind # "tool" => e = Plain(e.kind, e.turn)
    BY DEF LogAccepted, FormedRows, Formed
  <2> QED
    BY <2>1 DEF Plain
<1>3. None \notin Call /\ s.cards \subseteq Call /\ s.waiting \subseteq Call
  BY FeedAssumption DEF ChatState
<1>4. CASE e.kind = "tool"
  <2> DEFINE c == e.call
  <2>1. Accepts(s, e) /\ c \in Call
    BY <1>4, TabAccepts
  <2>2. /\ r.tools = [s.tools EXCEPT ![c] = [state |-> e.state, turn |-> t]]
        /\ r.activity = t
        /\ e.state = "requested" =>
             r.cards = s.cards /\ r.waiting = s.waiting /\ r.answered = s.answered
        /\ e.state = "approval-needed" =>
             /\ r.cards = s.cards \cup ({c} \cap (s.waiting \ s.answered))
             /\ r.waiting = s.waiting \ ({c} \ s.answered)
             /\ r.answered = s.answered
        /\ e.state \notin {"requested", "approval-needed"} =>
             /\ r.cards = s.cards \ {c} /\ r.waiting = s.waiting \ {c}
             /\ r.answered = s.answered \ ({c} \cap s.cards)
    BY <1>1, <1>4, <2>1, FoldOfTool
  <2>3. /\ r.tools[c].state = e.state
        /\ \A d \in Call : d # c => r.tools[d] = s.tools[d]
    BY <2>1, <2>2 DEF ChatState
  <2>4. /\ \A p \in 1..(n + 1) :
             log[p].kind = "tool" /\ (\A q \in (p + 1)..(n + 1) : Quiet(log[q], log[p].turn))
               => r.activity = log[p].turn
    BY <1>4, <2>2, ActivityStep
  <2>5. ToolMove(s.tools[c].state, e.state)
    BY <2>1 DEF Accepts
  <2>6. \A d : Clears(e, d) <=> d = c
    BY <1>4 DEF Clears
  <2>7. CASE e.state = "requested"
    <3>1. s.tools[c].state # "approval-needed"
      BY <2>5, <2>7, StateAssumption DEF ToolMove
    <3>2. c \notin s.cards
      BY <3>1 DEF CardsFit
    <3>3. CardsFit(log, r, n + 1)
      BY <1>3, <2>2, <2>3, <2>4, <2>7, <3>2 DEF CardsFit
    <3> QED
      BY <2>2, <2>6, <2>7, <3>3 DEF CardStep
  <2>8. CASE e.state = "approval-needed"
    <3>1. s.tools[c].state = "requested"
      BY <2>5, <2>8, StateAssumption DEF ToolMove, Settled
    <3>2. c \notin s.cards /\ c \notin s.answered
      BY <3>1 DEF CardsFit
    <3>3. CardsFit(log, r, n + 1)
      BY <1>3, <2>2, <2>3, <2>4, <2>8, <3>2 DEF CardsFit
    <3> QED
      BY <2>2, <2>6, <2>8, <3>3 DEF CardStep
  <2>9. CASE e.state \notin {"requested", "approval-needed"}
    <3>1. CardsFit(log, r, n + 1)
      BY <1>3, <2>2, <2>3, <2>4, <2>9 DEF CardsFit
    <3> QED
      BY <2>2, <2>6, <2>9, <3>1 DEF CardStep
  <2> QED
    BY <2>7, <2>8, <2>9
<1>5. CASE e.kind \in {"end", "idle"}
  <2>1. r.cards = {} /\ r.waiting = {} /\ r.answered = {}
    BY <1>1, <1>5, FoldOfEnd, FoldOfIdle
  <2>2. \A p \in 1..(n + 1) :
           log[p].kind = "tool" /\ (\A q \in (p + 1)..(n + 1) : Quiet(log[q], log[p].turn))
             => r.activity = log[p].turn
    BY <1>5, ActivityStep
  <2>3. CardsFit(log, r, n + 1)
    BY <2>1, <2>2 DEF CardsFit
  <2> QED
    BY <1>5, <2>1, <2>3 DEF CardStep, Clears
<1>6. CASE e.kind \in {"start", "context", "marker", "notice"}
  <2>1. /\ r.tools = s.tools /\ r.cards = s.cards /\ r.waiting = s.waiting
        /\ r.answered = s.answered /\ (e.kind # "start" => r.activity = s.activity)
    <3>1. CASE e.kind = "start"
      <4>1. t \notin s.ended
        BY <1>1, <3>1, NotEnded
      <4> QED
        BY <1>1, <3>1, <4>1, FoldOfStart
    <3>2. CASE e.kind = "context"
      BY <1>1, <3>2, FoldOfContext DEF SameCards
    <3>3. CASE e.kind \in {"marker", "notice"}
      BY <1>1, <3>3, FoldOfOther DEF SameCards
    <3> QED
      BY <1>6, <3>1, <3>2, <3>3
  <2>2. \A p \in 1..(n + 1) :
           log[p].kind = "tool" /\ (\A q \in (p + 1)..(n + 1) : Quiet(log[q], log[p].turn))
             => r.activity = log[p].turn
    BY <1>6, <2>1, ActivityStep
  <2>3. CardsFit(log, r, n + 1)
    BY <2>1, <2>2 DEF CardsFit
  <2>4. \A c \in Call : ~Clears(e, c)
    BY <1>2, <1>3, <1>6 DEF Clears
  <2> QED
    BY <1>3, <2>1, <2>3, <2>4 DEF CardStep
<1> QED
  BY <1>1, <1>4, <1>5, <1>6 DEF Kind

\* No claimed turn has rows between two of another, and a turn that ran to its end
\* has its context observed once, behind it.
Serial(L) ==
  \A i, j, k \in DOMAIN L :
    i < j /\ j < k /\ L[i].turn \in Turn /\ L[k].turn = L[i].turn /\ L[j].turn \in Turn
      => L[j].turn = L[i].turn

RanBefore(L, n, t) ==
  \E i, j \in 1..n : i < j /\ L[i] = Plain("start", t) /\ L[j] = Plain("end", t)

ContextOnce(L) ==
  \A k \in DOMAIN L : L[k].kind = "context" =>
    /\ RanBefore(L, k - 1, L[k].turn)
    /\ \A m \in DOMAIN L : L[m].kind = "context" /\ L[m].turn = L[k].turn => m = k

TurnsSerial(L) == Serial(L) /\ ContextOnce(L)

\* Two turns overlap in the first n rows, and one of them is unsolicited.
Overlap(L, n) ==
  \E i, j, k \in 1..n :
    /\ i < j /\ j < k
    /\ L[i].turn = L[k].turn /\ L[j].turn # L[i].turn
    /\ {L[i].turn, L[j].turn} \cap SelfTurn # {}

\* The rows that are evidence of their turn.
Evident(e) == e.kind \notin {"hidden", "context"}

\* What the context projection knows of the first n rows while it is valid: the
\* turn of the last evidence, the turns that another one followed, the turn that
\* started last, and the one observed last.
Knows(L, s, n) ==
  /\ \A i \in 1..n : Evident(L[i]) /\ (\A j \in (i + 1)..n : ~Evident(L[j]))
       => s.evidence = L[i].turn
  /\ s.evidence # None => \E i \in 1..n : L[i].turn = s.evidence
  /\ \A u \in s.superseded :
       \E i, j \in 1..n : i < j /\ L[i].turn = u /\ Evident(L[j]) /\ L[j].turn # u
  /\ \A i \in 1..n : L[i].kind = "start" /\ (\A j \in (i + 1)..n : L[j].kind # "start")
       => s.context.started = L[i].turn
  /\ s.context.observed # None =>
       \E i \in 1..n : L[i].kind = "context" /\ L[i].turn = s.context.observed

Projects(L, s, n) ==
  IF s.context.valid THEN Knows(L, s, n) ELSE Overlap(L, n)

\* The last row of a kind, among rows that have one.
LEMMA LastOfKind ==
  ASSUME NEW n \in Nat, NEW I, I \subseteq 1..n, NEW i \in I
  PROVE  \E k \in I : i <= k /\ \A j \in (k + 1)..n : j \notin I
<1>1. PICK k \in I : \A j \in I : k >= j
  BY LastExists
<1> QED
  BY <1>1

\* More rows, no fewer overlaps.
LEMMA OverlapStays ==
  ASSUME NEW L, NEW n \in Nat, Overlap(L, n) PROVE Overlap(L, n + 1)
<1>1. 1..n \subseteq 1..(n + 1)
  OBVIOUS
<1> QED
  BY <1>1 DEF Overlap

\* A row of a turn that another one followed, or a context whose turn was
\* disturbed, shows an overlap.
LEMMA ConflictIsOverlap ==
  ASSUME NEW L, L \in Seq(Row), FormedRows(L), TurnsSerial(L), NEW n \in Nat, n + 1 \in DOMAIN L,
         NEW i \in 1..n, NEW j \in 1..n, i < j, L[i].turn = L[n + 1].turn, Evident(L[j]),
         L[n + 1].turn \in AnyTurn, L[j].turn # L[i].turn
  PROVE  Overlap(L, n + 1) /\ L[j].turn \in SelfTurn \cup Turn
         /\ (L[i].turn \in Turn => L[j].turn \in SelfTurn)
<1>1. /\ i \in DOMAIN L /\ j \in DOMAIN L /\ j < n + 1
      /\ i \in 1..(n + 1) /\ j \in 1..(n + 1) /\ n + 1 \in 1..(n + 1)
  OBVIOUS
<1>2. L[j].turn \in AnyTurn
  <2>1. L[j] \in Row /\ L[j].turn # None
    BY <1>1 DEF FormedRows, Formed, Evident
  <2> QED
    BY <2>1 DEF Row
<1>3. L[i].turn \in Turn => L[j].turn \notin Turn
  BY <1>1 DEF TurnsSerial, Serial
<1>4. {L[i].turn, L[j].turn} \cap SelfTurn # {}
  BY <1>2, <1>3 DEF AnyTurn
<1>5. Overlap(L, n + 1)
  BY <1>1, <1>4 DEF Overlap
<1> QED
  BY <1>2, <1>3, <1>5 DEF AnyTurn

\* Evidence of a turn.
LEMMA EvidenceStep ==
  ASSUME NEW L, L \in Seq(Row), FormedRows(L), TurnsSerial(L), NEW n \in Nat, n + 1 \in DOMAIN L,
         Evident(L[n + 1]), L[n + 1].turn \in AnyTurn, NEW s, NEW r, Projects(L, s, n),
         Conflicts(s, L[n + 1].turn) => ~r.context.valid,
         ~Conflicts(s, L[n + 1].turn) =>
           /\ r.evidence = L[n + 1].turn
           /\ r.superseded = s.superseded \cup ({s.evidence} \ {None, L[n + 1].turn})
           /\ r.context.valid = s.context.valid
           /\ s.context.valid =>
                /\ r.context.started = IF L[n + 1].kind = "start" THEN L[n + 1].turn
                                       ELSE s.context.started
                /\ r.context.observed = s.context.observed
  PROVE  Projects(L, r, n + 1)
<1> DEFINE e == L[n + 1]
           t == e.turn
<1>1. 1..(n + 1) = 1..n \cup {n + 1}
  OBVIOUS
<1>2. CASE ~s.context.valid
  <2>1. Overlap(L, n + 1) /\ ~r.context.valid
    BY <1>2, OverlapStays DEF Projects
  <2> QED
    BY <2>1 DEF Projects
<1>3. CASE s.context.valid /\ Conflicts(s, t)
  <2>1. ~r.context.valid /\ t \in s.superseded /\ Knows(L, s, n)
    BY <1>3 DEF Conflicts, Projects
  <2>2. PICK i, j \in 1..n : i < j /\ L[i].turn = t /\ Evident(L[j]) /\ L[j].turn # t
    BY <2>1 DEF Knows
  <2>3. Overlap(L, n + 1)
    BY <2>2, ConflictIsOverlap
  <2> QED
    BY <2>1, <2>3 DEF Projects
<1>4. CASE s.context.valid /\ ~Conflicts(s, t)
  <2>1. /\ Knows(L, s, n) /\ r.context.valid /\ r.evidence = t
        /\ r.superseded = s.superseded \cup ({s.evidence} \ {None, t})
        /\ r.context.started = IF e.kind = "start" THEN t ELSE s.context.started
        /\ r.context.observed = s.context.observed
    BY <1>4 DEF Projects
  <2>2. ASSUME NEW i \in 1..(n + 1), i # n + 1
        PROVE  i \in 1..n /\ n + 1 \in (i + 1)..(n + 1) /\ (i + 1)..n \subseteq (i + 1)..(n + 1)
    BY <2>2
  <2>3. \A i \in 1..(n + 1) : Evident(L[i]) /\ (\A j \in (i + 1)..(n + 1) : ~Evident(L[j]))
          => r.evidence = L[i].turn
    BY <2>1, <2>2
  <2>4. \E i \in 1..(n + 1) : L[i].turn = r.evidence
    BY <1>1, <2>1
  <2>5. ASSUME NEW u \in r.superseded
        PROVE  \E i, j \in 1..(n + 1) : i < j /\ L[i].turn = u /\ Evident(L[j]) /\ L[j].turn # u
    <3>1. CASE u \in s.superseded
      BY <1>1, <2>1, <3>1 DEF Knows
    <3>2. CASE u \notin s.superseded
      <4>1. u = s.evidence /\ u # None /\ u # t
        BY <2>1, <2>5, <3>2
      <4>2. PICK i \in 1..n : L[i].turn = u
        BY <2>1, <4>1 DEF Knows
      <4> QED
        BY <1>1, <4>1, <4>2
    <3> QED
      BY <3>1, <3>2
  <2>6. ASSUME NEW i \in 1..(n + 1), L[i].kind = "start",
               \A j \in (i + 1)..(n + 1) : L[j].kind # "start"
        PROVE  r.context.started = L[i].turn
    <3>1. CASE i = n + 1
      BY <2>1, <2>6, <3>1
    <3>2. CASE i # n + 1
      <4>1. i \in 1..n /\ e.kind # "start" /\ \A j \in (i + 1)..n : L[j].kind # "start"
        BY <2>2, <2>6, <3>2
      <4> QED
        BY <2>1, <2>6, <4>1 DEF Knows
    <3> QED
      BY <3>1, <3>2
  <2>7. r.context.observed # None =>
          \E i \in 1..(n + 1) : L[i].kind = "context" /\ L[i].turn = r.context.observed
    BY <1>1, <2>1 DEF Knows
  <2>8. Knows(L, r, n + 1)
    BY <2>3, <2>4, <2>5, <2>6, <2>7 DEF Knows
  <2> QED
    BY <2>1, <2>8 DEF Projects
<1> QED
  BY <1>2, <1>3, <1>4

\* A context observation is accepted, or its turn was disturbed.
LEMMA ContextStep ==
  ASSUME NEW L, LogAccepted(L), TurnsSerial(L), NEW n \in Nat, n + 1 \in DOMAIN L,
         L[n + 1].kind = "context", NEW s, NEW r, Shows(L, s, n), Projects(L, s, n),
         r.evidence = s.evidence, r.superseded = s.superseded,
         LET t == L[n + 1].turn
             accepted == /\ s.context.valid /\ s.context.started = t /\ s.evidence = t
                         /\ t \in s.ended /\ s.context.observed # t
         IN /\ accepted => /\ r.context.valid /\ r.context.started = t /\ r.context.observed = t
            /\ ~accepted => ~r.context.valid
  PROVE  Projects(L, r, n + 1)
<1> DEFINE e == L[n + 1]
           t == e.turn
<1>1. /\ L \in Seq(Row) /\ FormedRows(L) /\ t \in Turn /\ t \in AnyTurn /\ t # None
      /\ 1..(n + 1) = 1..n \cup {n + 1} /\ 1..n \subseteq DOMAIN L /\ (n + 1) - 1 = n
  BY FeedAssumption DEF LogAccepted, FormedRows, Formed, AnyTurn
<1>2. CASE ~s.context.valid
  <2>1. Overlap(L, n + 1) /\ ~r.context.valid
    BY <1>2, OverlapStays DEF Projects
  <2> QED
    BY <2>1 DEF Projects
<1>3. CASE s.context.valid
  <2>1. Knows(L, s, n)
    BY <1>3 DEF Projects
  <2>2. PICK i, j \in 1..n : i < j /\ L[i] = Plain("start", t) /\ L[j] = Plain("end", t)
    BY <1>1 DEF TurnsSerial, ContextOnce, RanBefore
  <2>3. t \in s.ended
    BY <1>1, <2>2 DEF Shows
  <2>4. s.context.observed # t
    <3> SUFFICES ASSUME s.context.observed = t PROVE FALSE
      OBVIOUS
    <3>1. PICK k \in 1..n : L[k].kind = "context" /\ L[k].turn = t
      BY <1>1, <2>1 DEF Knows
    <3>2. k = n + 1
      BY <1>1, <3>1 DEF TurnsSerial, ContextOnce
    <3> QED
      BY <3>2
  <2>5. L[i].kind = "start" /\ L[i].turn = t
    BY <2>2 DEF Plain
  <2>6. s.context.started = t
    <3> DEFINE I == {k \in 1..n : L[k].kind = "start"}
    <3>1. i \in I /\ I \subseteq 1..n
      BY <2>5
    <3>2. PICK k \in I : i <= k /\ \A m \in (k + 1)..n : m \notin I
      BY <3>1, LastOfKind
    <3>3. \A m \in (k + 1)..n : L[m].kind # "start"
      BY <3>2
    <3>4. s.context.started = L[k].turn /\ L[k].turn \in Turn
      BY <1>1, <2>1, <3>2, <3>3 DEF Knows, FormedRows, Formed
    <3>5. L[k].turn = t
      <4>1. CASE k = i
        BY <2>5, <4>1
      <4>2. CASE k # i
        <5>1. i < k /\ k < n + 1 /\ i \in DOMAIN L /\ k \in DOMAIN L
          BY <1>1, <3>2, <4>2
        <5> QED
          BY <1>1, <2>5, <3>4, <5>1 DEF TurnsSerial, Serial
      <4> QED
        BY <4>1, <4>2
    <3> QED
      BY <3>4, <3>5
  <2>7. s.evidence = t \/ Overlap(L, n + 1)
    <3> DEFINE I == {k \in 1..n : Evident(L[k])}
    <3>1. i \in I /\ I \subseteq 1..n /\ \A k \in 1..n : k \in I <=> Evident(L[k])
      BY <2>5 DEF Evident
    <3> HIDE DEF I
    <3>2. PICK k \in I : i <= k /\ \A m \in (k + 1)..n : m \notin I
      BY <3>1, LastOfKind
    <3>3. k \in 1..n /\ Evident(L[k]) /\ \A m \in (k + 1)..n : ~Evident(L[m])
      BY <3>1, <3>2
    <3>4. s.evidence = L[k].turn /\ Evident(L[k]) /\ k \in 1..n
      BY <2>1, <3>3 DEF Knows
    <3>5. CASE L[k].turn = t
      BY <3>4, <3>5
    <3>6. CASE L[k].turn # t
      <4>1. i < k
        BY <2>5, <3>2, <3>3, <3>6
      <4> QED
        BY <1>1, <2>5, <3>4, <3>6, <4>1, ConflictIsOverlap
    <3> QED
      BY <3>5, <3>6
  <2>8. CASE s.evidence # t
    <3>1. ~r.context.valid
      BY <2>8
    <3> QED
      BY <2>7, <2>8, <3>1 DEF Projects
  <2>9. CASE s.evidence = t
    <3>1. r.context.valid /\ r.context.started = t /\ r.context.observed = t
      BY <1>3, <2>3, <2>4, <2>6, <2>9
    <3>2. ASSUME NEW m \in 1..(n + 1), m # n + 1
          PROVE  m \in 1..n /\ (m + 1)..n \subseteq (m + 1)..(n + 1)
      BY <3>2
    <3>3. ~Evident(e) /\ e.kind # "start"
      BY DEF Evident
    <3>4. Knows(L, r, n + 1)
      <4>1. \A m \in 1..(n + 1) : Evident(L[m]) /\ (\A q \in (m + 1)..(n + 1) : ~Evident(L[q]))
              => r.evidence = L[m].turn
        BY <2>1, <3>2, <3>3 DEF Knows
      <4>2. r.evidence # None => \E m \in 1..(n + 1) : L[m].turn = r.evidence
        BY <1>1, <2>1 DEF Knows
      <4>3. \A u \in r.superseded : \E m, q \in 1..(n + 1) :
              m < q /\ L[m].turn = u /\ Evident(L[q]) /\ L[q].turn # u
        BY <1>1, <2>1 DEF Knows
      <4>4. \A m \in 1..(n + 1) : L[m].kind = "start" /\ (\A q \in (m + 1)..(n + 1) : L[q].kind # "start")
              => r.context.started = L[m].turn
        BY <2>1, <2>6, <3>1, <3>2, <3>3 DEF Knows
      <4>5. \E m \in 1..(n + 1) : L[m].kind = "context" /\ L[m].turn = r.context.observed
        BY <1>1, <3>1
      <4> QED
        BY <4>1, <4>2, <4>3, <4>4, <4>5 DEF Knows
    <3> QED
      BY <3>1, <3>4 DEF Projects
  <2> QED
    BY <2>8, <2>9
<1> QED
  BY <1>2, <1>3

\* A tab that has folded the first n rows, and the log it folds.
Fits(L, s, n) ==
  s \in ChatState /\ Shows(L, s, n) /\ Projects(L, s, n) /\ CardsFit(L, s, n)

\* What the fold needs to know of the log.
LogFacts(L) == LogAccepted(L) /\ TurnsSerial(L)

\* A visible row.
LEMMA FitsStep ==
  ASSUME LogFacts(log), NEW n \in Nat, n + 1 \in DOMAIN log, log[n + 1] # Hidden,
         NEW s, Fits(log, s, n), NEW r, r = FoldEvent(s, n + 1)
  PROVE  Fits(log, r, n + 1) /\ Counted(r, s, n + 1) /\ CardStep(r, s, log[n + 1])
<1> DEFINE e == log[n + 1]
           t == e.turn
<1>1. Shows(log, r, n + 1) /\ Counted(r, s, n + 1)
  BY ShowsStep DEF Fits, LogFacts
<1>2. CardsFit(log, r, n + 1) /\ CardStep(r, s, log[n + 1])
  BY CardsStep DEF Fits, LogFacts
<1>3. FoldsRow(s, n + 1)
  BY DEF FoldsRow, Fits, LogFacts, LogAccepted, FormedRows
<1>4. t \in AnyTurn /\ e.kind \in Kind /\ e.kind # "hidden"
  BY <1>3, FoldedRow
<1>5. log \in Seq(Row) /\ FormedRows(log) /\ LogAccepted(log) /\ TurnsSerial(log)
      /\ Shows(log, s, n) /\ Projects(log, s, n)
  BY DEF Fits, LogFacts, LogAccepted
<1>6. Projects(log, r, n + 1)
  <2>1. CASE e.kind = "context"
    <3>1. LET accepted == /\ s.context.valid /\ s.context.started = t /\ s.evidence = t
                          /\ t \in s.ended /\ s.context.observed # t
          IN /\ r.evidence = s.evidence /\ r.superseded = s.superseded
             /\ accepted => /\ r.context.valid /\ r.context.started = t /\ r.context.observed = t
             /\ ~accepted => ~r.context.valid
      BY <1>3, <2>1, FoldOfContext
    <3> QED
      BY <1>5, <2>1, <3>1, ContextStep
  <2>2. CASE e.kind = "start"
    <3>1. t \notin s.ended
      BY <1>4, <1>5, <2>2, NotEnded
    <3>2. /\ Conflicts(s, t) => ~r.context.valid
          /\ ~Conflicts(s, t) =>
               /\ r.evidence = t /\ r.superseded = s.superseded \cup ({s.evidence} \ {None, t})
               /\ r.context.valid = s.context.valid
               /\ s.context.valid => r.context.started = t /\ r.context.observed = s.context.observed
      BY <1>3, <2>2, <3>1, FoldOfStart
    <3>3. Evident(e)
      BY <2>2 DEF Evident
    <3> QED
      BY <1>4, <1>5, <2>2, <3>2, <3>3, EvidenceStep
  <2>3. CASE e.kind \in {"tool", "end", "idle", "marker", "notice"}
    <3>1. Evidence(r, s, t)
      <4>1. CASE e.kind = "tool"
        <5>1. Accepts(s, e)
          BY <1>5, <4>1, TabAccepts
        <5> QED
          BY <1>3, <4>1, <5>1, FoldOfTool
      <4>2. CASE e.kind \in {"end", "idle", "marker", "notice"}
        BY <1>3, <4>2, FoldOfEnd, FoldOfIdle, FoldOfOther
      <4> QED
        BY <2>3, <4>1, <4>2
    <3>2. Evident(e) /\ e.kind # "start"
      BY <2>3 DEF Evident
    <3>3. /\ Conflicts(s, t) => ~r.context.valid
          /\ ~Conflicts(s, t) =>
               /\ r.evidence = t /\ r.superseded = s.superseded \cup ({s.evidence} \ {None, t})
               /\ r.context.valid = s.context.valid
               /\ r.context.started = s.context.started /\ r.context.observed = s.context.observed
      BY <3>1 DEF Evidence
    <3> QED
      BY <1>4, <1>5, <3>2, <3>3, EvidenceStep
  <2> QED
    BY <1>4, <2>1, <2>2, <2>3 DEF Kind
<1> QED
  BY <1>1, <1>2, <1>6 DEF Fits, Counted

\* A hidden row says nothing.
LEMMA FitsHidden ==
  ASSUME LogFacts(log), NEW n \in Nat, n + 1 \in DOMAIN log, log[n + 1] = Hidden,
         NEW s, Fits(log, s, n)
  PROVE  Fits(log, s, n + 1)
<1>1. log[n + 1].kind = "hidden" /\ ~Evident(log[n + 1])
  BY DEF Hidden, Plain, Evident
<1>2. Shows(log, s, n + 1)
  BY <1>1, ShowsAlike DEF Fits, LogFacts
<1>3. CardsFit(log, s, n + 1)
  <2>1. \A p \in 1..(n + 1) :
           log[p].kind = "tool" /\ (\A q \in (p + 1)..(n + 1) : Quiet(log[q], log[p].turn))
             => s.activity = log[p].turn
    BY <1>1, ActivityStep DEF Fits
  <2> QED
    BY <2>1 DEF Fits, CardsFit
<1>4. Projects(log, s, n + 1)
  <2>1. CASE ~s.context.valid
    BY <2>1, OverlapStays DEF Fits, Projects
  <2>2. CASE s.context.valid
    <3>1. Knows(log, s, n) /\ 1..(n + 1) = 1..n \cup {n + 1}
      BY <2>2 DEF Fits, Projects
    <3>2. ASSUME NEW m \in 1..(n + 1), m # n + 1
          PROVE  m \in 1..n /\ (m + 1)..n \subseteq (m + 1)..(n + 1)
      BY <3>2
    <3>3. \A m \in 1..(n + 1) : Evident(log[m]) /\ (\A q \in (m + 1)..(n + 1) : ~Evident(log[q]))
            => s.evidence = log[m].turn
      BY <1>1, <3>1, <3>2 DEF Knows
    <3>4. \A m \in 1..(n + 1) : log[m].kind = "start"
                                /\ (\A q \in (m + 1)..(n + 1) : log[q].kind # "start")
            => s.context.started = log[m].turn
      BY <1>1, <3>1, <3>2 DEF Knows
    <3>5. \A u \in s.superseded : \E m, q \in 1..(n + 1) :
            m < q /\ log[m].turn = u /\ Evident(log[q]) /\ log[q].turn # u
      BY <3>1 DEF Knows
    <3>6. /\ s.evidence # None => \E m \in 1..(n + 1) : log[m].turn = s.evidence
          /\ s.context.observed # None =>
               \E m \in 1..(n + 1) : log[m].kind = "context" /\ log[m].turn = s.context.observed
      BY <3>1 DEF Knows
    <3>7. Knows(log, s, n + 1)
      BY <3>3, <3>4, <3>5, <3>6 DEF Knows
    <3> QED
      BY <2>2, <3>7 DEF Projects
  <2> QED
    BY <2>1, <2>2
<1> QED
  BY <1>2, <1>3, <1>4 DEF Fits

\* Before the first row.
LEMMA BlankFits == Fits(log, Blank, 0) /\ Blank.cards = {} /\ Blank.waiting = {}
<1>1. NoTool \in ToolView /\ NoContext \in ContextView
  BY DEF NoTool, ToolView, CallState, NoContext, ContextView
<1>2. 1..0 = {}
  OBVIOUS
<1> HIDE DEF NoTool, NoContext
<1>3. /\ Blank \in ChatState
      /\ Blank.held = {} /\ ~Blank.broken /\ Blank.ended = {} /\ Blank.cards = {}
      /\ Blank.waiting = {} /\ Blank.answered = {} /\ Blank.evidence = None
      /\ Blank.superseded = {} /\ Blank.context = NoContext
      /\ \A c \in Call : Blank.tools[c] = NoTool
  BY <1>1 DEF Blank, ChatState
<1>4. Shows(log, Blank, 0)
  BY <1>2, <1>3 DEF Shows
<1>5. CardsFit(log, Blank, 0)
  BY <1>2, <1>3 DEF CardsFit
<1>6. Projects(log, Blank, 0)
  <2>1. Blank.context.valid /\ Blank.context.observed = None
    BY <1>3 DEF NoContext
  <2> QED
    BY <1>2, <1>3, <2>1 DEF Projects, Knows
<1> QED
  BY <1>3, <1>4, <1>5, <1>6 DEF Fits

\* A replay of the first n rows fits them, and has no card yet.
LEMMA ReplayFits ==
  ASSUME LogFacts(log), NEW n \in 0..Len(log)
  PROVE  /\ Fits(log, FoldRows(Blank, 0, n), n)
         /\ FoldRows(Blank, 0, n).cards = {} /\ FoldRows(Blank, 0, n).waiting = {}
<1> DEFINE Replayed(s, i) == Fits(log, s, i) /\ s.cards = {} /\ s.waiting = {}
<1>1. log \in Seq(Row) /\ Len(log) \in Nat /\ DOMAIN log = 1..Len(log)
  BY DEF LogFacts, LogAccepted
<1>2. PICK f : /\ FoldRows(Blank, 0, n) = f[n] /\ f[0] = Blank
               /\ \A i \in 0..n : i # 0 =>
                    f[i] = IF log[i] = Hidden THEN f[i - 1] ELSE FoldEvent(f[i - 1], i)
  <2> DEFINE z == 0
             b == Blank
  <2>1. z \in Nat /\ n \in Nat /\ z <= n
    BY <1>1
  <2> HIDE DEF z, b
  <2>2. \E f : Unfolds(f, b, z, n)
    BY <2>1, FoldRowsUnfolds, Zenon
  <2>3. PICK f : Unfolds(f, b, z, n)
    BY <2>2, Zenon
  <2>4. /\ FoldRows(b, z, n) = f[n] /\ f[z] = b
        /\ \A i \in z..n : i # z =>
             f[i] = IF log[i] = Hidden THEN f[i - 1] ELSE FoldEvent(f[i - 1], i)
    BY <2>3, Zenon DEF Unfolds
  <2> QED
    BY <2>4, Zenon DEF z, b
<1>3. Replayed(f[0], 0)
  BY <1>2, BlankFits
<1>4. ASSUME NEW i \in 0..n, i # 0, Replayed(f[i - 1], i - 1) PROVE Replayed(f[i], i)
  <2> DEFINE m == i - 1
             s == f[m]
  <2>1. m \in Nat /\ m + 1 = i /\ i \in DOMAIN log
    BY <1>1, <1>4
  <2>2. f[i] = IF log[i] = Hidden THEN s ELSE FoldEvent(s, i)
    BY <1>2, <1>4
  <2>3. Fits(log, s, m) /\ s.cards = {} /\ s.waiting = {}
    BY <1>4
  <2> HIDE DEF m, s
  <2>4. CASE log[i] = Hidden
    BY <2>1, <2>2, <2>3, <2>4, FitsHidden
  <2>5. CASE log[i] # Hidden
    <3>1. f[i] = FoldEvent(s, m + 1) /\ log[m + 1] # Hidden
      BY <2>1, <2>2, <2>5
    <3>2. Fits(log, f[i], m + 1) /\ CardStep(f[i], s, log[m + 1])
      BY <2>1, <2>3, <3>1, FitsStep
    <3> QED
      BY <2>1, <2>3, <3>2 DEF CardStep
  <2> QED
    BY <2>4, <2>5
<1> HIDE DEF Replayed
<1>5. Replayed(f[n], n)
  <2> DEFINE Bad == {i \in 0..n : ~Replayed(f[i], i)}
  <2> SUFFICES ASSUME Bad # {} PROVE FALSE
    BY <1>1
  <2>1. Bad \subseteq 0..n /\ \A i \in 0..n : i \in Bad <=> ~Replayed(f[i], i)
    OBVIOUS
  <2> HIDE DEF Bad
  <2>2. PICK i \in Bad : \A j \in Bad : i <= j
    <3>1. Bad \subseteq Nat
      BY <1>1, <2>1
    <3> QED
      BY <3>1, LeastExists
  <2>3. i \in 0..n /\ i # 0 /\ i - 1 \in 0..n /\ i - 1 \notin Bad
    BY <1>1, <1>3, <2>1, <2>2
  <2> QED
    BY <1>4, <2>1, <2>2, <2>3
<1> QED
  BY <1>2, <1>5 DEF Replayed

\* An event: a tab that holds nothing back ignores a row it has, and folds the next.
LEMMA EventFields ==
  ASSUME LogFacts(log), NEW s, Fits(log, s, s.through), NEW i \in DOMAIN log, log[i] # Hidden,
         i <= s.through + 1, NEW r, r = ApplyEvent(s, i)
  PROVE  /\ i <= s.through => r = s
         /\ i = s.through + 1 =>
              /\ Fits(log, r, i) /\ r.through = i /\ CardStep(r, s, log[i])
              /\ r.active = s.active
<1>1. s.through \in Nat /\ s.held = {} /\ i \in Nat
  BY DEF Fits, ChatState, Shows, LogFacts, LogAccepted
<1>2. CASE i <= s.through
  BY <1>1, <1>2 DEF ApplyEvent
<1>3. CASE i = s.through + 1
  <2> DEFINE n == s.through
             q == FoldEvent(s, n + 1)
             run == {j \in s.held : i + 1 .. j \subseteq s.held}
  <2>1. run = {} /\ Cardinality(run) = 0 /\ i - 1 = n /\ i + 0 = n + 1
    BY <1>1, <1>3, FS_EmptySet
  <2>2. r = [FoldRows(s, i - 1, i + Cardinality(run)) EXCEPT !.held = @ \ run]
    BY <1>1, <1>3 DEF ApplyEvent
  <2> HIDE DEF run
  <2>3. r = [FoldRows(s, n, n + 1) EXCEPT !.held = @ \ {}]
    BY <2>1, <2>2
  <2>4. FoldRows(s, n, n + 1) = q
    <3>1. PICK f : /\ FoldRows(s, n, n + 1) = f[n + 1] /\ f[n] = s
                   /\ \A k \in n..(n + 1) : k # n =>
                        f[k] = IF log[k] = Hidden THEN f[k - 1] ELSE FoldEvent(f[k - 1], k)
      <4>1. n \in Nat /\ n + 1 \in Nat /\ n <= n + 1
        BY <1>1
      <4> DEFINE m == n + 1
      <4>2. m \in Nat /\ n <= m
        BY <4>1
      <4> HIDE DEF m, n
      <4>3. \E f : Unfolds(f, s, n, m)
        BY <4>1, <4>2, FoldRowsUnfolds, Zenon
      <4>4. PICK f : Unfolds(f, s, n, m)
        BY <4>3, Zenon
      <4>5. /\ FoldRows(s, n, m) = f[m] /\ f[n] = s
            /\ \A k \in n..m : k # n =>
                 f[k] = IF log[k] = Hidden THEN f[k - 1] ELSE FoldEvent(f[k - 1], k)
        BY <4>4, Zenon DEF Unfolds
      <4> QED
        BY <4>5, Zenon DEF m
    <3>2. n + 1 \in n..(n + 1) /\ n + 1 # n /\ (n + 1) - 1 = n /\ log[n + 1] # Hidden
      BY <1>1, <1>3
    <3>3. f[n + 1] = FoldEvent(f[n], n + 1)
      BY <3>1, <3>2
    <3> QED
      BY <3>1, <3>3
  <2>5. Fits(log, q, n + 1) /\ Counted(q, s, n + 1) /\ CardStep(q, s, log[n + 1])
    BY <1>1, <1>3, FitsStep
  <2> HIDE DEF q, n
  <2>6. q \in ChatState
    BY <2>5 DEF Fits
  <2>7. q.held \ {} = q.held
    OBVIOUS
  <2>8. [q EXCEPT !.held = q.held] = q
    BY <2>6 DEF ChatState
  <2>9. r = q
    BY <2>3, <2>4, <2>7, <2>8
  <2> QED
    BY <1>1, <1>3, <2>5, <2>9 DEF Counted, n
<1> QED
  BY <1>1, <1>2, <1>3

\* The cards of asks: a pending one gets its card, or waits for the row of its call.
LEMMA AsksFields ==
  ASSUME NEW s \in ChatState, NEW C, C \subseteq Call, NEW r, r = ApplyAsks(s, C)
  PROVE  /\ r \in ChatState /\ SameScreen(r, s) /\ SameContext(r, s)
         /\ r.activity = s.activity /\ r.answered = s.answered
         /\ s.cards \subseteq r.cards /\ r.cards \cup r.waiting \subseteq s.cards \cup s.waiting \cup C
         /\ \A c \in r.cards : c \in s.cards \/ s.tools[c].state = "approval-needed"
         /\ \A c \in r.waiting : c \in s.waiting \/ s.tools[c].state \in {None, "requested"}
         /\ \A c \in C : /\ s.tools[c].state = "approval-needed" /\ s.activity = s.tools[c].turn
                         /\ c \notin s.waiting /\ s.answered \subseteq s.cards
              => c \in r.cards
<1> DEFINE fresh == C \ (s.answered \cup s.cards \cup s.waiting)
           turnIsActive == (s.active # None /\ s.active \notin s.ended) \/ s.activity # None \/ s.busy
           current(c) == s.activity = s.tools[c].turn
           more == {c \in fresh : s.tools[c].state = "approval-needed" /\ current(c)}
           wait == {c \in fresh : \/ s.tools[c].state = "requested" /\ current(c)
                                  \/ s.tools[c].state = None /\ turnIsActive}
           cards == s.cards \cup more
           waiting == s.waiting \cup wait
<1>1. r = [s EXCEPT !.cards = cards, !.waiting = waiting]
  BY DEF ApplyAsks
<1>2. cards \in SUBSET Call /\ waiting \in SUBSET Call
  BY DEF ChatState
<1>3. /\ s.cards \subseteq cards /\ cards \cup waiting \subseteq s.cards \cup s.waiting \cup C
      /\ \A c \in cards : c \in s.cards \/ s.tools[c].state = "approval-needed"
      /\ \A c \in waiting : c \in s.waiting \/ s.tools[c].state \in {None, "requested"}
      /\ \A c \in C : /\ s.tools[c].state = "approval-needed" /\ s.activity = s.tools[c].turn
                      /\ c \notin s.waiting /\ s.answered \subseteq s.cards
           => c \in cards
  OBVIOUS
<1> HIDE DEF cards, waiting
<1>4. /\ r \in ChatState /\ SameScreen(r, s) /\ SameContext(r, s)
      /\ r.activity = s.activity /\ r.answered = s.answered
      /\ r.cards = cards /\ r.waiting = waiting
  BY <1>1, <1>2 DEF ChatState, SameScreen, SameContext
<1> QED
  BY <1>3, <1>4

\* They leave the tab fit.
LEMMA AsksFit ==
  ASSUME NEW L, NEW n \in Nat, NEW s, Fits(L, s, n), NEW C, C \subseteq Call,
         NEW r, r = ApplyAsks(s, C)
  PROVE  Fits(L, r, n)
<1>1. /\ r \in ChatState /\ SameScreen(r, s) /\ SameContext(r, s)
      /\ r.activity = s.activity /\ r.answered = s.answered
      /\ s.cards \subseteq r.cards
      /\ \A c \in r.cards : c \in s.cards \/ s.tools[c].state = "approval-needed"
      /\ \A c \in r.waiting : c \in s.waiting \/ s.tools[c].state \in {None, "requested"}
  BY AsksFields DEF Fits
<1>2. Shows(L, r, n)
  BY <1>1 DEF Fits, Shows, SameScreen
<1>3. Projects(L, r, n)
  BY <1>1 DEF Fits, Projects, Knows, SameContext
<1>4. CardsFit(L, r, n)
  BY <1>1 DEF Fits, CardsFit, SameScreen
<1> QED
  BY <1>1, <1>2, <1>3, <1>4 DEF Fits

\* What is set from a frame, or by an answer, leaves the tab fit.
LEMMA SetFits ==
  ASSUME NEW L, NEW n \in Nat, NEW s, Fits(L, s, n), NEW r \in ChatState,
         r.held = s.held, r.broken = s.broken, r.tools = s.tools, r.ended = s.ended,
         SameContext(r, s), r.activity = s.activity, r.cards = s.cards, r.waiting = s.waiting,
         r.answered \subseteq r.cards
  PROVE  Fits(L, r, n)
<1>1. Shows(L, r, n)
  BY DEF Fits, Shows
<1>2. Projects(L, r, n)
  BY DEF Fits, Projects, Knows, SameContext
<1>3. CardsFit(L, r, n)
  BY DEF Fits, CardsFit
<1> QED
  BY <1>1, <1>2, <1>3 DEF Fits

\* A snapshot: the rows up to its high water, and the asks that wait.
LEMMA SnapshotFields ==
  ASSUME LogFacts(log), NEW f, f.upTo \in 0..Len(log), f.active \in Turn \cup {None},
         f.asks \subseteq Call, NEW r, r = ApplySnapshot(f)
  PROVE  /\ Fits(log, r, f.upTo) /\ r.through = f.upTo
         /\ r.cards \cup r.waiting \subseteq f.asks
         /\ \A c \in f.asks : r.tools[c].state = "approval-needed" /\ r.activity = r.tools[c].turn
              => c \in r.cards
<1> DEFINE n == f.upTo
           q == FoldRows(Blank, 0, n)
           s == [q EXCEPT !.through = f.upTo, !.active = f.active]
<1>1. Fits(log, q, n) /\ q.cards = {} /\ q.waiting = {} /\ n \in Nat
  BY ReplayFits DEF LogFacts, LogAccepted
<1>2. r = ApplyAsks(s, f.asks)
  BY DEF ApplySnapshot
<1> HIDE DEF q
<1>3. q \in ChatState
  BY <1>1 DEF Fits
<1>4. /\ s \in ChatState /\ s.held = q.held /\ s.broken = q.broken /\ s.tools = q.tools
      /\ s.ended = q.ended /\ SameContext(s, q) /\ s.activity = q.activity
      /\ s.cards = q.cards /\ s.waiting = q.waiting /\ s.answered = q.answered
      /\ s.through = n
  BY <1>1, <1>3 DEF ChatState, SameContext
<1> HIDE DEF s, n
<1>5. Fits(log, s, n) /\ s.answered \subseteq s.cards
  <2>1. s.answered \subseteq s.cards
    BY <1>1, <1>4 DEF Fits, CardsFit
  <2>2. \A L, k, q1, r1 : k \in Nat /\ Fits(L, q1, k) /\ r1 \in ChatState
          /\ r1.held = q1.held /\ r1.broken = q1.broken /\ r1.tools = q1.tools /\ r1.ended = q1.ended
          /\ SameContext(r1, q1) /\ r1.activity = q1.activity /\ r1.cards = q1.cards
          /\ r1.waiting = q1.waiting /\ r1.answered \subseteq r1.cards
            => Fits(L, r1, k)
    BY SetFits
  <2> QED
    BY <1>1, <1>4, <2>1, <2>2
<1>6. Fits(log, r, n)
  BY <1>1, <1>2, <1>5, AsksFit
<1>7. /\ SameScreen(r, s) /\ r.activity = s.activity
      /\ r.cards \cup r.waiting \subseteq s.cards \cup s.waiting \cup f.asks
      /\ \A c \in f.asks : /\ s.tools[c].state = "approval-needed" /\ s.activity = s.tools[c].turn
                           /\ c \notin s.waiting /\ s.answered \subseteq s.cards
           => c \in r.cards
  BY <1>2, <1>4, AsksFields
<1> QED
  BY <1>1, <1>4, <1>5, <1>6, <1>7 DEF SameScreen, n

-----------------------------------------------------------------------------
(***************************************************************************)
(* The log: which rows the server appends, and when.                       *)
(***************************************************************************)
\* No row of another claimed turn is behind a row of turn u.
Latest(L, u) ==
  \A i, k \in DOMAIN L : i < k /\ L[i].turn = u /\ L[k].turn \in Turn => L[k].turn = u

\* A claim is in the log; the context of a turn is not.
Begun(L, t) == \E i \in DOMAIN L : L[i] = Plain("start", t)
Unobserved(L, t) == \A m \in DOMAIN L : L[m].turn = t => L[m].kind # "context"

\* Rows of one turn, which the code appends together.
RowsOf(rows, u) ==
  rows \in Seq(Row) /\ FormedRows(rows) /\ \A i \in DOMAIN rows : rows[i].turn = u

\* Rows without a context observation.
Working(rows) == \A i \in DOMAIN rows : rows[i].kind # "context"

\* Appended rows leave the others as they were formed.
LEMMA FormedGrow ==
  ASSUME NEW s \in Seq(Row), NEW rows \in Seq(Row), FormedRows(s), FormedRows(rows)
  PROVE  FormedRows(s \o rows)
<1> DEFINE z == s \o rows
<1>1. /\ \A i \in DOMAIN s : z[i] = s[i]
      /\ \A i \in DOMAIN z : i \in DOMAIN s \/ (i - Len(s) \in DOMAIN rows /\ z[i] = rows[i - Len(s)])
  BY Grown
<1> HIDE DEF z
<1>2. FormedRows(z)
  BY <1>1 DEF FormedRows
<1> QED
  BY <1>2 DEF z

\* Rows of the latest turn, or of an unsolicited one, keep the claimed turns serial.
LEMMA SerialGrow ==
  ASSUME NEW s \in Seq(Row), NEW rows, NEW u, RowsOf(rows, u), Serial(s), u \in Turn => Latest(s, u)
  PROVE  /\ Serial(s \o rows)
         /\ \A v : Latest(s, v) /\ (v = u \/ u \notin Turn) => Latest(s \o rows, v)
<1> DEFINE z == s \o rows
<1>1. rows \in Seq(Row) /\ \A i \in DOMAIN rows : rows[i].turn = u
  BY DEF RowsOf
<1>2. /\ DOMAIN s = 1..Len(s) /\ Len(s) \in Nat /\ DOMAIN z \subseteq Nat
      /\ \A i \in DOMAIN s : z[i] = s[i]
      /\ \A i \in DOMAIN z : i \in DOMAIN s \/ (i > Len(s) /\ z[i].turn = u)
  <2>1. /\ DOMAIN s = 1..Len(s) /\ Len(s) \in Nat
        /\ DOMAIN rows = 1..Len(rows) /\ Len(rows) \in Nat
        /\ DOMAIN z = 1..(Len(s) + Len(rows))
        /\ \A i \in DOMAIN s : z[i] = s[i]
        /\ \A i \in DOMAIN z : i \in DOMAIN s \/ (i > Len(s) /\ i - Len(s) \in DOMAIN rows
                                                  /\ z[i] = rows[i - Len(s)])
    BY <1>1, Grown
  <2> HIDE DEF z
  <2> QED
    BY <1>1, <2>1
<1> HIDE DEF z
<1>3. Serial(z)
  <2> SUFFICES ASSUME NEW i \in DOMAIN z, NEW j \in DOMAIN z, NEW k \in DOMAIN z, i < j, j < k,
                      z[i].turn \in Turn, z[k].turn = z[i].turn, z[j].turn \in Turn
               PROVE  z[j].turn = z[i].turn
    BY DEF Serial
  <2>1. CASE k \in DOMAIN s
    <3>1. i \in DOMAIN s /\ j \in DOMAIN s
      BY <1>2, <2>1
    <3> QED
      BY <1>2, <2>1, <3>1 DEF Serial
  <2>2. CASE k \notin DOMAIN s /\ j \in DOMAIN s
    <3>1. i \in DOMAIN s /\ z[k].turn = u
      BY <1>2, <2>2
    <3> QED
      BY <1>2, <2>2, <3>1 DEF Latest
  <2>3. CASE k \notin DOMAIN s /\ j \notin DOMAIN s
    BY <1>2, <2>3
  <2> QED
    BY <2>1, <2>2, <2>3
<1>4. ASSUME NEW v, Latest(s, v), v = u \/ u \notin Turn PROVE Latest(z, v)
  <2> SUFFICES ASSUME NEW i \in DOMAIN z, NEW k \in DOMAIN z, i < k, z[i].turn = v,
                      z[k].turn \in Turn
               PROVE  z[k].turn = v
    BY DEF Latest
  <2>1. CASE k \in DOMAIN s
    <3>1. i \in DOMAIN s
      BY <1>2, <2>1
    <3> QED
      BY <1>2, <1>4, <2>1, <3>1 DEF Latest
  <2>2. CASE k \notin DOMAIN s
    BY <1>2, <1>4, <2>2
  <2> QED
    BY <2>1, <2>2
<1> QED
  BY <1>3, <1>4 DEF z

\* What a turn has done, it has done in the log that grew.
LEMMA DoneStays ==
  ASSUME NEW s \in Seq(Row), NEW rows \in Seq(Row), NEW t
  PROVE  /\ Begun(s, t) \/ Begun(rows, t) => Begun(s \o rows, t)
         /\ \A n \in 0..Len(s) : RanBefore(s \o rows, n, t) <=> RanBefore(s, n, t)
         /\ RanBefore(s, Len(s), t) => RanBefore(s \o rows, Len(s \o rows), t)
         /\ Begun(s, t) /\ (\E i \in DOMAIN rows : rows[i] = Plain("end", t))
              => RanBefore(s \o rows, Len(s \o rows), t)
         /\ Unobserved(s, t) /\ Unobserved(rows, t) => Unobserved(s \o rows, t)
<1> DEFINE z == s \o rows
<1>1. /\ DOMAIN s = 1..Len(s) /\ Len(s) \in Nat /\ DOMAIN rows = 1..Len(rows) /\ Len(rows) \in Nat
      /\ DOMAIN z = 1..(Len(s) + Len(rows)) /\ Len(z) = Len(s) + Len(rows)
      /\ \A i \in DOMAIN s : z[i] = s[i]
      /\ \A i \in DOMAIN rows : z[Len(s) + i] = rows[i]
      /\ \A i \in DOMAIN z : i \in DOMAIN s \/ (i > Len(s) /\ i - Len(s) \in DOMAIN rows
                                                /\ z[i] = rows[i - Len(s)])
  BY Grown
<1> HIDE DEF z
<1>2. \A i \in DOMAIN rows : Len(s) + i \in DOMAIN z /\ \A j \in DOMAIN s : j < Len(s) + i
  BY <1>1
<1>3. Begun(s, t) \/ Begun(rows, t) => Begun(z, t)
  <2>1. \A i \in DOMAIN s : i \in DOMAIN z
    BY <1>1
  <2> QED
    BY <1>1, <1>2, <2>1 DEF Begun
<1>4. ASSUME NEW n \in 0..Len(s) PROVE RanBefore(z, n, t) <=> RanBefore(s, n, t)
  <2>1. \A i \in 1..n : z[i] = s[i]
    BY <1>1
  <2> QED
    BY <2>1 DEF RanBefore
<1>5. ASSUME RanBefore(s, Len(s), t) PROVE RanBefore(z, Len(z), t)
  <2>1. \A i \in 1..Len(s) : i \in 1..Len(z) /\ z[i] = s[i]
    BY <1>1
  <2> QED
    BY <1>5, <2>1 DEF RanBefore
<1>6. ASSUME Begun(s, t), NEW i \in DOMAIN rows, rows[i] = Plain("end", t)
      PROVE  RanBefore(z, Len(z), t)
  <2>1. PICK j \in DOMAIN s : s[j] = Plain("start", t)
    BY <1>6 DEF Begun
  <2>2. j \in 1..Len(z) /\ Len(s) + i \in 1..Len(z) /\ j < Len(s) + i
    BY <1>1, <1>2
  <2>3. z[j] = Plain("start", t) /\ z[Len(s) + i] = Plain("end", t)
    BY <1>1, <1>6, <2>1
  <2> QED
    BY <2>2, <2>3 DEF RanBefore
<1>7. Unobserved(s, t) /\ Unobserved(rows, t) => Unobserved(z, t)
  BY <1>1 DEF Unobserved
<1> QED
  BY <1>3, <1>4, <1>5, <1>6, <1>7 DEF z

\* A context row is appended once, by a turn that ran.
LEMMA ContextGrow ==
  ASSUME NEW s \in Seq(Row), NEW rows \in Seq(Row), ContextOnce(s),
         \/ Working(rows)
         \/ \E u : /\ rows = <<Plain("context", u)>>
                   /\ RanBefore(s, Len(s), u) /\ Unobserved(s, u)
  PROVE  ContextOnce(s \o rows)
<1> DEFINE z == s \o rows
<1>1. /\ DOMAIN s = 1..Len(s) /\ Len(s) \in Nat /\ DOMAIN rows = 1..Len(rows) /\ Len(rows) \in Nat
      /\ DOMAIN z = 1..(Len(s) + Len(rows))
      /\ \A i \in DOMAIN s : z[i] = s[i]
      /\ \A i \in DOMAIN z : i \in DOMAIN s \/ (i > Len(s) /\ i - Len(s) \in DOMAIN rows
                                                /\ z[i] = rows[i - Len(s)])
  BY Grown
<1>2. \A n \in 0..Len(s) : \A t : RanBefore(z, n, t) <=> RanBefore(s, n, t)
  BY DoneStays
<1> HIDE DEF z
<1>3. ASSUME NEW k \in DOMAIN s, s[k].kind = "context"
      PROVE  /\ RanBefore(z, k - 1, s[k].turn)
             /\ \A m \in DOMAIN s : s[m].kind = "context" /\ s[m].turn = s[k].turn => m = k
  <2>1. k - 1 \in 0..Len(s)
    BY <1>1
  <2> QED
    BY <1>2, <1>3, <2>1 DEF ContextOnce
<1>4. CASE Working(rows)
  <2>1. \A k \in DOMAIN z : z[k].kind = "context" => k \in DOMAIN s /\ z[k] = s[k]
    BY <1>1, <1>4 DEF Working
  <2> QED
    BY <1>3, <2>1 DEF ContextOnce, z
<1>5. ASSUME NEW u, rows = <<Plain("context", u)>>, RanBefore(s, Len(s), u), Unobserved(s, u)
      PROVE  ContextOnce(z)
  <2>1. rows[1].turn = u /\ rows[1].kind = "context" /\ Len(rows) = 1
    BY <1>5 DEF Plain
  <2>2. \A k \in DOMAIN z : \/ k \in DOMAIN s /\ z[k] = s[k]
                            \/ k = Len(s) + 1 /\ z[k].turn = u
    BY <1>1, <2>1
  <2>3. RanBefore(z, Len(s), u)
    BY <1>1, <1>2, <1>5
  <2>4. \A k \in DOMAIN s : s[k].kind = "context" => s[k].turn # u
    BY <1>5 DEF Unobserved
  <2> QED
    BY <1>1, <1>3, <2>2, <2>3, <2>4 DEF ContextOnce
<1> QED
  BY <1>4, <1>5 DEF z

\* The claimed turn at hand is the latest in the log, and its context is observed
\* when it ran and was not observed before.
Current ==
  /\ phase = "idle" => turn = None
  /\ turn # None => Begun(log, turn) /\ Latest(log, turn)
  /\ phase = "observing" => RanBefore(log, Len(log), turn) /\ Unobserved(log, turn)

\* The rows a migration left are in front, and the relay is past them.
Visible == Legacy <= relayed /\ \A i \in DOMAIN log : i > Legacy => log[i] # Hidden

\* The third invariant.
LogInv == FormedRows(log) /\ TurnsSerial(log) /\ Current /\ Visible

\* The rows the code appends at the end of a turn are rows of that turn.
LEMMA EndRowsForm ==
  ASSUME log \in Seq(Row), NEW t \in AnyTurn
  PROVE  /\ RowsOf(EndRows(t), t) /\ Working(EndRows(t))
         /\ \E i \in DOMAIN EndRows(t) : EndRows(t)[i] = Plain("end", t)
         /\ t \in Turn => /\ RowsOf(<<Plain("start", t)>> \o EndRows(t), t)
                          /\ Working(<<Plain("start", t)>> \o EndRows(t))
<1> DEFINE closings == Closings(t)
           idle == IF t \in Turn THEN <<Plain("idle", t)>> ELSE <<>>
           n == Len(closings)
           rows == EndRows(t)
<1>1. /\ closings \in Seq(Row)
      /\ \A i \in DOMAIN closings : closings[i].kind = "tool" /\ closings[i].turn = t
  BY ClosingsClose
<1>2. \A i \in DOMAIN closings : closings[i].call \in Call
  <2> DEFINE opened == SetToSeq({c \in CallsOf(t) : StateOf(c) \notin Settled})
  <2>1. IsFiniteSet({c \in CallsOf(t) : StateOf(c) \notin Settled})
    <3>1. {c \in CallsOf(t) : StateOf(c) \notin Settled} \subseteq Call
      BY DEF CallsOf
    <3> QED
      BY <3>1, FS_Subset, FeedAssumption
  <2>2. opened \in Seq({c \in CallsOf(t) : StateOf(c) \notin Settled})
    BY <2>1, SetToSeqLists
  <2>3. \A i \in DOMAIN opened : opened[i] \in Call
    BY <2>2 DEF CallsOf
  <2> HIDE DEF opened
  <2>4. closings = [i \in DOMAIN opened |->
                      Tool(t, opened[i],
                           IF StateOf(opened[i]) = "approval-needed" THEN "denied" ELSE "failed")]
    BY DEF Closings, opened
  <2> QED
    BY <2>3, <2>4 DEF Tool
<1> HIDE DEF closings
<1>3. Plain("end", t) \in Row /\ Plain("idle", t) \in Row /\ Plain("start", t) \in Row
  BY RowTypes DEF Kind
<1>4. rows = closings \o <<Plain("end", t)>> \o idle
  BY DEF EndRows, closings
<1>5. idle \in Seq(Row) /\ \A i \in DOMAIN idle : idle[i] = Plain("idle", t) /\ t \in Turn
  BY <1>3
<1> HIDE DEF idle
<1>6. DOMAIN closings = 1..n /\ n \in Nat
  BY <1>1
<1>7. /\ rows \in Seq(Row) /\ DOMAIN rows = 1..(n + 1 + Len(idle)) /\ Len(idle) \in Nat
      /\ \A i \in 1..n : rows[i] = closings[i]
      /\ rows[n + 1] = Plain("end", t)
      /\ \A i \in DOMAIN rows : i > n + 1 => rows[i] = Plain("idle", t) /\ t \in Turn
  BY <1>1, <1>3, <1>4, <1>5
<1> HIDE DEF rows
<1>8. None \notin AnyTurn
  BY FeedAssumption DEF AnyTurn
<1>9. /\ t \in Turn => Formed(Plain("idle", t))
      /\ Plain("end", t).kind # "context" /\ Plain("idle", t).kind # "context"
      /\ Plain("end", t).turn = t /\ Plain("idle", t).turn = t
  BY <1>8 DEF Formed, Plain
<1>10. \A i \in DOMAIN rows : \/ i \in 1..n /\ rows[i] = closings[i]
                              \/ rows[i] = Plain("end", t)
                              \/ rows[i] = Plain("idle", t) /\ t \in Turn
  BY <1>6, <1>7
<1>11. Formed(Plain("end", t))
  BY <1>8 DEF Formed, Plain
<1>12. ASSUME NEW i \in DOMAIN rows PROVE Formed(rows[i]) /\ rows[i].turn = t /\ rows[i].kind # "context"
  <2>1. CASE i \in 1..n /\ rows[i] = closings[i]
    BY <1>1, <1>2, <1>6, <1>8, <2>1 DEF Formed
  <2>2. CASE rows[i] = Plain("end", t)
    BY <1>9, <1>11, <2>2
  <2>3. CASE rows[i] = Plain("idle", t) /\ t \in Turn
    BY <1>9, <2>3
  <2> QED
    BY <1>10, <2>1, <2>2, <2>3
<1>13. RowsOf(rows, t) /\ Working(rows)
  BY <1>7, <1>12 DEF RowsOf, Working, FormedRows
<1>14. ASSUME t \in Turn
       PROVE  /\ RowsOf(<<Plain("start", t)>> \o rows, t)
              /\ Working(<<Plain("start", t)>> \o rows)
  <2> DEFINE z == <<Plain("start", t)>> \o rows
  <2>1. z \in Seq(Row) /\ \A i \in DOMAIN z : \/ z[i] = Plain("start", t)
                                              \/ \E k \in DOMAIN rows : z[i] = rows[k]
    <3>1. <<Plain("start", t)>> \in Seq(Row) /\ \A i \in DOMAIN <<Plain("start", t)>> :
                                                  <<Plain("start", t)>>[i] = Plain("start", t)
      BY <1>3
    <3> DEFINE a == <<Plain("start", t)>>
    <3> HIDE DEF a
    <3>2. a \in Seq(Row) /\ \A i \in DOMAIN a : a[i] = Plain("start", t)
      BY <3>1 DEF a
    <3>3. /\ a \o rows \in Seq(Row)
          /\ \A i \in DOMAIN a : (a \o rows)[i] = a[i]
          /\ \A i \in DOMAIN (a \o rows) :
               i \in DOMAIN a \/ (i - Len(a) \in DOMAIN rows /\ (a \o rows)[i] = rows[i - Len(a)])
      BY <1>7, <3>2, Grown
    <3>4. z = a \o rows
      BY DEF a
    <3> HIDE DEF z
    <3> QED
      BY <3>2, <3>3, <3>4
  <2> HIDE DEF z
  <2>2. Formed(Plain("start", t)) /\ Plain("start", t).turn = t /\ Plain("start", t).kind # "context"
    BY <1>8, <1>14 DEF Formed, Plain
  <2>3. RowsOf(z, t) /\ Working(z)
    BY <1>12, <2>1, <2>2 DEF RowsOf, Working, FormedRows
  <2> QED
    BY <2>3 DEF z
<1>15. \E i \in DOMAIN rows : rows[i] = Plain("end", t)
  <2>1. n + 1 \in DOMAIN rows
    BY <1>6, <1>7
  <2> QED
    BY <1>7, <2>1
<1> QED
  BY <1>13, <1>14, <1>15 DEF rows

\* A row that is formed, alone.
LEMMA OneRow ==
  ASSUME NEW e \in Row, Formed(e)
  PROVE  RowsOf(<<e>>, e.turn) /\ (e.kind # "context" => Working(<<e>>))
  BY DEF RowsOf, FormedRows, Working

\* The rows without a call that the code appends one at a time.
LEMMA PlainRows ==
  ASSUME NEW t \in AnyTurn, NEW kind \in {"start", "marker", "context", "notice"},
         kind # "marker" => t \in Turn
  PROVE  RowsOf(<<Plain(kind, t)>>, t) /\ (kind # "context" => Working(<<Plain(kind, t)>>))
<1>1. Plain(kind, t) \in Row /\ Plain(kind, t).turn = t /\ Plain(kind, t).kind = kind
  BY RowTypes DEF Kind, Plain
<1>2. None \notin AnyTurn
  BY FeedAssumption DEF AnyTurn
<1>3. Formed(Plain(kind, t))
  BY <1>2 DEF Formed, Plain
<1> QED
  BY <1>1, <1>3, OneRow

\* The rows of a call.
LEMMA CallRowsOf ==
  ASSUME NEW t \in AnyTurn, NEW c \in Call, NEW st \in CallState, NEW st2 \in CallState
  PROVE  /\ RowsOf(<<Tool(t, c, st)>>, t) /\ Working(<<Tool(t, c, st)>>)
         /\ RowsOf(<<Tool(t, c, st), Tool(t, c, st2)>>, t)
         /\ Working(<<Tool(t, c, st), Tool(t, c, st2)>>)
<1>1. None \notin AnyTurn
  BY FeedAssumption DEF AnyTurn
<1>2. \A s \in CallState : /\ Tool(t, c, s) \in Row /\ Formed(Tool(t, c, s))
                           /\ Tool(t, c, s).turn = t /\ Tool(t, c, s).kind = "tool"
  BY <1>1, RowTypes DEF Formed, Tool
<1> QED
  BY <1>2 DEF RowsOf, FormedRows, Working

\* A drain marks no row of the outbox as new again.
LEMMA RelayedGrows ==
  ASSUME relayed \in 0..Len(log), Len(log) \in Nat, NEW n \in Nat, Len(log) <= n, NEW after,
         Drain(n, after)
  PROVE  relayed' \in relayed..n
<1>1. relayed' = n \/ \E i \in relayed..n : relayed' = IF i = relayed THEN i ELSE i - 1
  BY DEF Drain
<1> QED
  BY <1>1

\* What a publish does to the log and to the outbox.
LEMMA PublishGrows ==
  ASSUME FeedInv, NEW rows \in Seq(Row), NEW after, Publish(rows, after)
  PROVE  log' = log \o rows /\ relayed' \in Nat /\ relayed' >= relayed
<1>1. log \in Seq(Row) /\ relayed \in 0..Len(log) /\ Len(log) \in Nat /\ Len(rows) \in Nat
  BY DEF FeedInv, FeedTypes, TypeOK
<1> DEFINE n == Len(log) + Len(rows)
<1>2. n \in Nat /\ Len(log) <= n /\ Drain(n, after)
  BY <1>1 DEF Publish
<1> HIDE DEF n
<1>3. relayed' \in relayed..n
  BY <1>1, <1>2, RelayedGrows
<1> QED
  BY <1>1, <1>2, <1>3 DEF Publish

\* A turn that ends, or goes on, is the claimed turn at hand or an unsolicited one.
LEMMA LiveIsCurrent ==
  ASSUME FeedInv, LogInv, NEW u \in Live, u \in Turn
  PROVE  u = turn /\ Latest(log, u) /\ Begun(log, u) /\ Unobserved(log, u)
<1>1. /\ TypeOK /\ ServerOK /\ None \notin Turn /\ Turn \cap SelfTurn = {} /\ u \in AnyTurn
      /\ log \in Seq(Row)
  BY FeedAssumption DEF FeedInv, FeedTypes, AnyTurn
<1>2. u = turn
  BY <1>1 DEF Live, ActiveTurn, ServerOK, TypeOK
<1>3. Latest(log, u) /\ Begun(log, u)
  BY <1>1, <1>2 DEF LogInv, Current
<1>4. ~HasEnd(log, u)
  BY <1>1, LiveTurns
<1>5. ASSUME NEW m \in DOMAIN log, log[m].turn = u, log[m].kind = "context" PROVE FALSE
  <2>1. RanBefore(log, m - 1, u)
    BY <1>5 DEF LogInv, TurnsSerial, ContextOnce
  <2>2. PICK j \in 1..(m - 1) : log[j] = Plain("end", u)
    BY <2>1 DEF RanBefore
  <2>3. j \in DOMAIN log
    <3>1. DOMAIN log = 1..Len(log) /\ Len(log) \in Nat
      BY <1>1
    <3> QED
      BY <1>5, <3>1
  <2>4. log[j].turn = u /\ log[j].kind = "end"
    BY <2>2 DEF Plain
  <2> QED
    BY <1>4, <2>3, <2>4 DEF HasEnd
<1> QED
  BY <1>2, <1>3, <1>5 DEF Unobserved

\* Rows of the latest turn, or of an unsolicited one, keep the log as it has to be.
LEMMA LogGrows ==
  ASSUME FeedInv, LogInv, NEW u, NEW rows, RowsOf(rows, u), u \in AnyTurn,
         log' = log \o rows, relayed' \in Nat, relayed' >= relayed,
         u \in Turn => Latest(log, u),
         \/ Working(rows)
         \/ rows = <<Plain("context", u)>> /\ RanBefore(log, Len(log), u) /\ Unobserved(log, u),
         Current'
  PROVE  LogInv'
<1>1. log \in Seq(Row) /\ rows \in Seq(Row) /\ FormedRows(rows) /\ relayed \in 0..Len(log)
  BY DEF FeedInv, FeedTypes, TypeOK, RowsOf
<1>2. FormedRows(log')
  BY <1>1, FormedGrow DEF LogInv
<1>3. Serial(log')
  BY <1>1, SerialGrow DEF LogInv, TurnsSerial
<1>4. ContextOnce(log')
  BY <1>1, ContextGrow DEF LogInv, TurnsSerial
<1>5. Visible'
  <2>1. /\ DOMAIN log = 1..Len(log) /\ Len(log) \in Nat /\ DOMAIN log' \subseteq Nat
        /\ \A i \in DOMAIN log : log'[i] = log[i]
        /\ \A i \in DOMAIN log' : i \in DOMAIN log \/ (i - Len(log) \in DOMAIN rows
                                                       /\ log'[i] = rows[i - Len(log)])
    <3> DEFINE z == log \o rows
    <3>1. /\ DOMAIN log = 1..Len(log) /\ Len(log) \in Nat /\ DOMAIN z \subseteq Nat
          /\ \A i \in DOMAIN log : z[i] = log[i]
          /\ \A i \in DOMAIN z : i \in DOMAIN log \/ (i - Len(log) \in DOMAIN rows
                                                      /\ z[i] = rows[i - Len(log)])
      BY <1>1, Grown
    <3>2. log' = z
      OBVIOUS
    <3> HIDE DEF z
    <3> QED
      BY <3>1, <3>2
  <2>2. None \notin AnyTurn /\ Hidden.turn = None
    BY FeedAssumption DEF AnyTurn, Hidden, Plain
  <2>3. \A i \in DOMAIN rows : rows[i] # Hidden
    BY <2>2 DEF RowsOf
  <2>4. Legacy <= relayed'
    BY <1>1, FeedAssumption DEF LogInv, Visible
  <2>5. \A i \in DOMAIN log' : i > Legacy => log'[i] # Hidden
    BY <2>1, <2>3 DEF LogInv, Visible
  <2> QED
    BY <2>4, <2>5 DEF Visible
<1>6. FormedRows(log)' /\ Serial(log)' /\ ContextOnce(log)'
  BY <1>2, <1>3, <1>4 DEF FormedRows, Serial, ContextOnce, RanBefore
<1> QED
  BY <1>5, <1>6 DEF LogInv, TurnsSerial

\* The claimed turn at hand stays it, whatever unsolicited turn works.
LEMMA CurrentStays ==
  ASSUME FeedInv, LogInv, NEW u, NEW rows, RowsOf(rows, u), Working(rows), log' = log \o rows,
         u = turn \/ u \notin Turn,
         turn' = None \/ turn' = turn, phase' = "idle" => turn' = None,
         phase' = "observing" => phase = "observing" /\ turn' = turn
  PROVE  Current'
<1>1. log \in Seq(Row) /\ rows \in Seq(Row) /\ None \notin Turn
  BY FeedAssumption DEF FeedInv, FeedTypes, RowsOf
<1>2. ASSUME turn' # None PROVE Begun(log', turn') /\ Latest(log', turn')
  <2>1. turn' = turn /\ Begun(log, turn) /\ Latest(log, turn)
    BY <1>2 DEF LogInv, Current
  <2>2. Latest(log', turn)
    BY <1>1, <2>1, SerialGrow DEF LogInv, TurnsSerial
  <2>3. Begun(log', turn)
    BY <1>1, <2>1, DoneStays
  <2> QED
    BY <2>1, <2>2, <2>3
<1>3. ASSUME phase' = "observing" PROVE RanBefore(log', Len(log'), turn') /\ Unobserved(log', turn')
  <2>1. turn' = turn /\ RanBefore(log, Len(log), turn) /\ Unobserved(log, turn)
    BY <1>3 DEF LogInv, Current
  <2>2. Unobserved(rows, turn)
    BY DEF Working, Unobserved
  <2> QED
    BY <1>1, <2>1, <2>2, DoneStays
<1> QED
  BY <1>2, <1>3 DEF Current, Begun, Latest, RanBefore, Unobserved

\* Steps that append nothing.
LEMMA LogSilent ==
  ASSUME FeedInv, LogInv, log' = log, relayed' \in Nat, relayed' >= relayed,
         turn' = None \/ turn' = turn, phase' = "idle" => turn' = None,
         phase' = "observing" => phase = "observing" /\ turn' = turn
  PROVE  LogInv'
<1>1. DOMAIN log \subseteq Nat /\ relayed \in Nat
  BY DEF FeedInv, FeedTypes, TypeOK
<1>2. Visible'
  BY <1>1, FeedAssumption DEF LogInv, Visible
<1>3. Current'
  BY DEF LogInv, Current, Begun, Latest, RanBefore, Unobserved
<1>4. FormedRows(log)' /\ TurnsSerial(log)'
  BY DEF LogInv, FormedRows, TurnsSerial, Serial, ContextOnce, RanBefore
<1> QED
  BY <1>2, <1>3, <1>4 DEF LogInv

\* Steps that append rows of the claimed turn at hand, or of an unsolicited one.
LEMMA LogWorks ==
  ASSUME FeedInv, LogInv, NEW u \in AnyTurn, NEW rows, RowsOf(rows, u), Working(rows),
         u \in Turn => u = turn, NEW after, Publish(rows, after),
         turn' = None \/ turn' = turn, phase' = "idle" => turn' = None,
         phase' = "observing" => phase = "observing" /\ turn' = turn
  PROVE  LogInv'
<1>1. log' = log \o rows /\ relayed' \in Nat /\ relayed' >= relayed
  BY PublishGrows DEF RowsOf
<1>2. Current'
  BY <1>1, CurrentStays
<1>3. u \in Turn => Latest(log, u)
  BY FeedAssumption DEF LogInv, Current
<1> QED
  BY <1>1, <1>2, <1>3, LogGrows

\* A claim: the turn is fresh, and no other is at hand.
LEMMA ClaimLogs ==
  ASSUME FeedInv, LogInv, Claim PROVE LogInv'
<1>1. PICK t \in Turn \ Used :
        LET started == <<Plain("start", t)>>
        IN  \/ /\ runtime = "none"
               /\ turn' = t /\ phase' = "minting"
               /\ Publish(started, <<StateFrame(t)>>)
               /\ UNCHANGED <<asks, runtime, open, cut>>
            \/ /\ runtime = "up" /\ open = None
               /\ turn' = t /\ phase' = "running" /\ open' = t
               /\ Publish(started, <<StateFrame(t)>>)
               /\ UNCHANGED <<asks, runtime, cut>>
            \/ /\ runtime = "closed" \/ open # None
               /\ asks' = NoAsks /\ runtime' = "none"
               /\ open' = None /\ cut' = {open} \ {None}
               /\ Publish(started \o EndRows(t), <<StateFrame(None)>>)
               /\ UNCHANGED <<turn, phase>>
  <2>1. Turn \ Used # {}
    BY DEF Claim
  <2> QED
    BY <2>1 DEF Claim
<1> DEFINE started == <<Plain("start", t)>>
<1>2. /\ t \in AnyTurn /\ t # None /\ ~HasRow(log, t) /\ log \in Seq(Row) /\ phase = "idle"
      /\ turn = None
  BY FeedAssumption, UnusedTurns DEF AnyTurn, Claim, FeedInv, FeedTypes, LogInv, Current
<1>3. RowsOf(started, t) /\ Working(started) /\ Begun(started, t)
  <2>1. RowsOf(started, t) /\ Working(started)
    BY <1>2, PlainRows
  <2>2. 1 \in DOMAIN started /\ started[1] = Plain("start", t)
    OBVIOUS
  <2> QED
    BY <2>1, <2>2 DEF Begun
<1>4. Latest(log, t)
  BY <1>2 DEF Latest, HasRow
<1> HIDE DEF started
<1>5. CASE /\ turn' = t /\ phase' \in {"minting", "running"}
           /\ Publish(started, <<StateFrame(t)>>)
  <2>1. log' = log \o started /\ relayed' \in Nat /\ relayed' >= relayed /\ started \in Seq(Row)
    BY <1>3, <1>5, PublishGrows DEF RowsOf
  <2>2. Latest(log \o started, t) /\ Begun(log \o started, t)
    BY <1>2, <1>3, <1>4, <2>1, SerialGrow, DoneStays DEF LogInv, TurnsSerial
  <2>3. Current'
    BY <1>5, <2>1, <2>2 DEF Current, Begun, Latest
  <2> QED
    BY <1>2, <1>3, <1>4, <2>1, <2>3, LogGrows
<1>6. CASE Publish(started \o EndRows(t), <<StateFrame(None)>>) /\ UNCHANGED <<turn, phase>>
  <2> DEFINE rows == started \o EndRows(t)
  <2>1. RowsOf(rows, t) /\ Working(rows)
    BY <1>2, EndRowsForm DEF started
  <2> HIDE DEF rows
  <2>2. log' = log \o rows /\ relayed' \in Nat /\ relayed' >= relayed
    BY <1>6, <2>1, PublishGrows DEF RowsOf, rows
  <2>3. Current'
    BY <1>2, <1>6 DEF Current
  <2> QED
    BY <1>2, <1>4, <2>1, <2>2, <2>3, LogGrows
<1> QED
  BY <1>1, <1>5, <1>6 DEF started

\* The end of a turn, of which the claimed one is observed next.
LEMMA EndsLog ==
  ASSUME FeedInv, LogInv,
         \/ MintFails \/ Quarantined \/ \E u \in SelfTurn : CutEnds(u)
         \/ \E after \in {"up", "closed"} : TurnEnds(after)
  PROVE  LogInv'
<1>1. /\ TypeOK /\ ServerOK /\ None \notin AnyTurn /\ AnyTurn = Turn \cup SelfTurn
      /\ Turn \cap SelfTurn = {} /\ log \in Seq(Row) /\ Current
  BY FeedAssumption DEF FeedInv, FeedTypes, AnyTurn, LogInv
<1>2. \A u \in AnyTurn : RowsOf(EndRows(u), u) /\ Working(EndRows(u))
  BY <1>1, EndRowsForm
<1>3. CASE MintFails
  <2>1. /\ turn \in AnyTurn /\ turn' = None /\ phase' = "idle"
        /\ Publish(EndRows(turn), <<StateFrame(None)>>)
    BY <1>1, <1>3 DEF MintFails, ServerOK
  <2> QED
    BY <1>2, <2>1, LogWorks
<1>4. CASE Quarantined
  <2>1. /\ turn \in AnyTurn /\ turn' = None /\ phase' = "idle"
        /\ Publish(EndRows(turn), <<StateFrame(None)>>)
    BY <1>1, <1>4 DEF Quarantined, ServerOK
  <2> QED
    BY <1>2, <2>1, LogWorks
<1>5. CASE \E u \in SelfTurn : CutEnds(u)
  <2>1. PICK u \in SelfTurn : CutEnds(u)
    BY <1>5
  <2>2. UNCHANGED <<phase, turn>> /\ Publish(EndRows(u), <<>>) /\ u \in AnyTurn /\ u \notin Turn
    BY <1>1, <2>1 DEF CutEnds
  <2>3. phase' = "idle" => turn' = None
    BY <1>1, <2>2 DEF Current
  <2> QED
    BY <1>2, <2>2, <2>3, LogWorks
<1>6. CASE \E after \in {"up", "closed"} : TurnEnds(after)
  <2>1. PICK after \in {"up", "closed"} : TurnEnds(after)
    BY <1>6
  <2> DEFINE frames == IF open \in Turn THEN <<StateFrame(None)>> ELSE <<>>
  <2>2. /\ open \in AnyTurn /\ open \in Live /\ turn' = turn
        /\ phase' = IF open \in Turn THEN "observing" ELSE phase
        /\ Publish(EndRows(open), frames)
    BY <1>1, <2>1 DEF TurnEnds, TypeOK, Live
  <2> HIDE DEF frames
  <2>3. CASE open \notin Turn
    <3>1. phase' = "idle" => turn' = None
      BY <1>1, <2>2, <2>3 DEF Current
    <3> QED
      BY <1>2, <2>2, <2>3, <3>1, LogWorks
  <2>4. CASE open \in Turn
    <3>1. open = turn /\ Latest(log, open) /\ Begun(log, open) /\ Unobserved(log, open)
      BY <2>2, <2>4, LiveIsCurrent
    <3> DEFINE rows == EndRows(open)
    <3>2. /\ RowsOf(rows, open) /\ Working(rows) /\ rows \in Seq(Row)
          /\ \E i \in DOMAIN rows : rows[i] = Plain("end", open)
      BY <1>1, <2>2, EndRowsForm DEF RowsOf
    <3> HIDE DEF rows
    <3>3. log' = log \o rows /\ relayed' \in Nat /\ relayed' >= relayed
      BY <2>2, <3>2, PublishGrows DEF rows
    <3>4. Latest(log \o rows, open)
      BY <1>1, <3>1, <3>2, SerialGrow DEF LogInv, TurnsSerial
    <3>5. Unobserved(rows, open)
      BY <3>2 DEF Unobserved, Working
    <3>6. /\ Begun(log \o rows, open) /\ RanBefore(log \o rows, Len(log \o rows), open)
          /\ Unobserved(log \o rows, open)
      BY <1>1, <3>1, <3>2, <3>5, DoneStays
    <3>7. Current'
      BY <2>2, <2>4, <3>1, <3>3, <3>4, <3>6 DEF Current, Begun, Latest, RanBefore, Unobserved
    <3> QED
      BY <2>2, <3>1, <3>2, <3>3, <3>7, LogGrows
  <2> QED
    BY <2>3, <2>4
<1> QED
  BY <1>3, <1>4, <1>5, <1>6

\* The boot ends the turn a dead process left active.
LEMMA BootLogs ==
  ASSUME FeedInv, LogInv, Boot PROVE LogInv'
<1>1. /\ phase' = "idle" /\ turn' = None /\ turn \in Turn \cup {None} /\ log \in Seq(Row)
      /\ log' = log \o (IF turn = None THEN <<>> ELSE EndRows(turn))
      /\ relayed' = Len(log') /\ relayed \in 0..Len(log) /\ Len(log) \in Nat
      /\ Current'
  BY DEF Boot, FeedInv, FeedTypes, TypeOK, Current
<1>2. CASE turn = None
  <2>1. log' = log
    BY <1>1, <1>2
  <2> QED
    BY <1>1, <2>1, LogSilent
<1>3. CASE turn # None
  <2> DEFINE rows == EndRows(turn)
  <2>1. turn \in AnyTurn /\ RowsOf(rows, turn) /\ Working(rows) /\ Latest(log, turn)
    BY <1>1, <1>3, EndRowsForm DEF AnyTurn, LogInv, Current
  <2> HIDE DEF rows
  <2>2. log' = log \o rows
    BY <1>1, <1>3 DEF rows
  <2>3. relayed' \in Nat /\ relayed' >= relayed
    BY <1>1, <2>1, <2>2 DEF RowsOf
  <2> QED
    BY <1>1, <2>1, <2>2, <2>3, LogGrows
<1> QED
  BY <1>2, <1>3

\* The rows of a turn that goes on, and of one the runtime starts on its own.
LEMMA WorkLogs ==
  ASSUME FeedInv, CallInv, LogInv,
         \/ SelfStart \/ Ask \/ ReplyArrives
         \/ \E c \in Call : ToolReturns(c) \/ AskLapses(c)
  PROVE  LogInv'
<1>1. /\ TypeOK /\ ServerOK /\ None \notin AnyTurn /\ AnyTurn = Turn \cup SelfTurn
      /\ Turn \cap SelfTurn = {} /\ log \in Seq(Row) /\ Current
      /\ Len(log) \in Nat /\ relayed \in Nat
  BY FeedAssumption DEF FeedInv, FeedTypes, AnyTurn, LogInv, TypeOK
<1>2. UNCHANGED <<phase, turn>> => /\ turn' = None \/ turn' = turn
                                   /\ phase' = "idle" => turn' = None
                                   /\ phase' = "observing" => phase = "observing" /\ turn' = turn
  BY <1>1 DEF Current
<1>3. open \in Turn => open = turn
  BY <1>1 DEF ServerOK
<1>4. "requested" \in CallState /\ "approval-needed" \in CallState /\ "running" \in CallState
      /\ "denied" \in CallState /\ "succeeded" \in CallState
  BY DEF CallState, Settled
<1>5. ASSUME NEW c \in Call, NEW st \in CallState, open \in AnyTurn, Observed(c, st, <<>>),
             UNCHANGED <<phase, turn>>
      PROVE  LogInv'
  <2>1. RowsOf(<<Tool(open, c, st)>>, open) /\ Working(<<Tool(open, c, st)>>)
    BY <1>5, CallRowsOf
  <2>2. Publish(<<Tool(open, c, st)>>, <<>>)
    BY <1>5 DEF Observed
  <2> QED
    BY <1>2, <1>3, <1>5, <2>1, <2>2, LogWorks
<1>6. CASE SelfStart
  <2>1. PICK u \in SelfTurn : Publish(<<Plain("marker", u)>>, <<>>) /\ UNCHANGED <<phase, turn>>
    <3>1. SelfTurn \ Used # {}
      BY <1>6 DEF SelfStart
    <3> QED
      BY <1>6, <3>1 DEF SelfStart
  <2>2. u \in AnyTurn /\ u \notin Turn
    BY <1>1
  <2>3. RowsOf(<<Plain("marker", u)>>, u) /\ Working(<<Plain("marker", u)>>)
    BY <2>2, PlainRows
  <2> QED
    BY <1>2, <2>1, <2>2, <2>3, LogWorks
<1>7. CASE Ask
  <2> DEFINE c == CHOOSE c \in FreshCalls : TRUE
             rows == <<Tool(open, c, "requested"), Tool(open, c, "approval-needed")>>
             after == <<[kind |-> "ask", call |-> c]>>
  <2>1. c \in Call /\ open \in AnyTurn /\ UNCHANGED <<phase, turn>> /\ Publish(rows, after)
    BY <1>1, <1>7 DEF Ask, FreshCalls, TypeOK
  <2> HIDE DEF c, after
  <2>2. RowsOf(rows, open) /\ Working(rows)
    BY <1>4, <2>1, CallRowsOf
  <2> HIDE DEF rows
  <2> QED
    BY <1>2, <1>3, <2>1, <2>2, LogWorks
<1>8. CASE ReplyArrives
  <2> DEFINE r == Head(replies)
             st == IF r.allow THEN "running" ELSE "denied"
  <2>1. r \in Reply /\ UNCHANGED <<phase, turn>>
    BY <1>8 DEF ReplyArrives, FeedInv, FeedTypes
  <2>2. IF asks[r.call] THEN Decide(r.call, st) ELSE UNCHANGED <<asks, storeVars>>
    BY <1>8 DEF ReplyArrives
  <2>3. r.call \in Call /\ st \in CallState
    BY <1>4, <2>1 DEF Reply
  <2> HIDE DEF r, st
  <2>4. CASE asks[r.call]
    <3>1. open \in AnyTurn
      BY <1>1, <2>3, <2>4 DEF CallInv, Waits, TypeOK
    <3> QED
      BY <1>5, <2>1, <2>2, <2>3, <2>4, <3>1 DEF Decide
  <2>5. CASE ~asks[r.call]
    BY <1>1, <1>2, <2>1, <2>2, <2>5, LogSilent DEF storeVars
  <2> QED
    BY <2>4, <2>5
<1>9. CASE \E c \in Call : ToolReturns(c) \/ AskLapses(c)
  <2>1. PICK c \in Call : ToolReturns(c) \/ AskLapses(c)
    BY <1>9
  <2>2. CASE ToolReturns(c)
    <3>1. open \in AnyTurn /\ Observed(c, "succeeded", <<>>) /\ UNCHANGED <<phase, turn>>
      BY <1>1, <2>2 DEF ToolReturns, TypeOK, serverVars
    <3> QED
      BY <1>4, <1>5, <3>1
  <2>3. CASE AskLapses(c)
    <3>1. open \in AnyTurn /\ Observed(c, "denied", <<>>) /\ UNCHANGED <<phase, turn>>
      BY <1>1, <2>3 DEF AskLapses, Decide, CallInv, Waits, TypeOK
    <3> QED
      BY <1>4, <1>5, <3>1
  <2> QED
    BY <2>1, <2>2, <2>3
<1> QED
  BY <1>6, <1>7, <1>8, <1>9

\* What follows a claimed turn that ran: its context, once, and a notice.
LEMMA ObservationsLog ==
  ASSUME FeedInv, LogInv, ObserveContext \/ CompactDone PROVE LogInv'
<1>1. /\ ServerOK /\ log \in Seq(Row) /\ Current /\ None \notin Turn
      /\ Len(log) \in Nat /\ relayed \in Nat /\ Turn \subseteq AnyTurn
  BY FeedAssumption DEF FeedInv, FeedTypes, AnyTurn, LogInv, TypeOK
<1>2. CASE ObserveContext
  <2> DEFINE rows == <<Plain("context", turn)>>
  <2>1. /\ turn \in Turn /\ phase = "observing" /\ Publish(rows, <<>>)
        /\ \/ phase' = "idle" /\ turn' = None
           \/ phase' = "compacting" /\ turn' = turn
    BY <1>1, <1>2 DEF ObserveContext, ServerOK
  <2>2. RowsOf(rows, turn) /\ rows \in Seq(Row)
    BY <1>1, <2>1, PlainRows DEF RowsOf
  <2>3. /\ RanBefore(log, Len(log), turn) /\ Unobserved(log, turn)
        /\ Latest(log, turn) /\ Begun(log, turn)
    BY <1>1, <2>1 DEF Current
  <2> HIDE DEF rows
  <2>4. log' = log \o rows /\ relayed' \in Nat /\ relayed' >= relayed
    BY <2>1, <2>2, PublishGrows
  <2>5. Latest(log \o rows, turn)
    BY <1>1, <2>2, <2>3, SerialGrow DEF LogInv, TurnsSerial
  <2>6. Begun(log \o rows, turn)
    BY <1>1, <2>2, <2>3, DoneStays
  <2>7. Current'
    BY <2>1, <2>4, <2>5, <2>6 DEF Current, Begun, Latest
  <2>8. rows = <<Plain("context", turn)>>
    BY DEF rows
  <2> QED
    BY <1>1, <2>1, <2>2, <2>3, <2>4, <2>7, <2>8, LogGrows
<1>3. CASE CompactDone
  <2>1. /\ turn \in Turn /\ turn' = None /\ phase' = "idle"
        /\ Publish(<<>>, <<>>) \/ Publish(<<Plain("notice", turn)>>, <<>>)
    BY <1>1, <1>3 DEF CompactDone, ServerOK
  <2>2. CASE Publish(<<>>, <<>>)
    <3> DEFINE rows == <<>>
    <3>1. rows \in Seq(Row) /\ log \o rows = log /\ Publish(rows, rows)
      BY <1>1, <2>2
    <3> HIDE DEF rows
    <3>2. log' = log /\ relayed' \in Nat /\ relayed' >= relayed
      BY <3>1, PublishGrows
    <3> QED
      BY <2>1, <3>2, LogSilent
  <2>3. CASE Publish(<<Plain("notice", turn)>>, <<>>)
    <3>1. RowsOf(<<Plain("notice", turn)>>, turn) /\ Working(<<Plain("notice", turn)>>)
      BY <1>1, <2>1, PlainRows
    <3> QED
      BY <1>1, <2>1, <2>3, <3>1, LogWorks
  <2> QED
    BY <2>1, <2>2, <2>3
<1> QED
  BY <1>2, <1>3

\* Steps of the runtime, the relay, the socket and the tab.
LEMMA SilentLogs ==
  ASSUME FeedInv, LogInv,
         \/ StopServer \/ Minted \/ RuntimeCloses \/ RelayTimer \/ Connect \/ Drop \/ Deliver
         \/ \E c \in Call, allow \in BOOLEAN : Answer(c, allow)
         \/ UNCHANGED vars
  PROVE  LogInv'
<1>1. /\ Current /\ Len(log) \in Nat /\ relayed \in Nat /\ relayed \in 0..Len(log)
  BY DEF FeedInv, FeedTypes, LogInv, TypeOK
<1>2. log' = log
  BY DEF StopServer, Minted, RuntimeCloses, RelayTimer, Connect, Drop, Deliver, Answer, vars, storeVars
<1>3. CASE RelayTimer
  <2>1. Drain(Len(log), <<>>) /\ UNCHANGED <<phase, turn>>
    BY <1>3 DEF RelayTimer, serverVars
  <2>2. relayed' \in relayed..Len(log)
    BY <1>1, <2>1, RelayedGrows
  <2> QED
    BY <1>1, <1>2, <2>1, <2>2, LogSilent DEF Current
<1>4. CASE \/ StopServer \/ Minted \/ RuntimeCloses \/ Connect \/ Drop \/ Deliver
           \/ \E c \in Call, allow \in BOOLEAN : Answer(c, allow)
           \/ UNCHANGED vars
  <2>1. relayed' = relayed
    BY <1>4 DEF StopServer, Minted, RuntimeCloses, Connect, Drop, Deliver, Answer, vars, storeVars
  <2>2. phase' = "observing" => phase = "observing" /\ turn' = turn
    BY <1>1, <1>4 DEF StopServer, Minted, RuntimeCloses, Connect, Drop, Deliver, Answer, vars,
                      storeVars, serverVars, ActiveTurn, Current
  <2>3. (turn' = None \/ turn' = turn) /\ (phase' = "idle" => turn' = None)
    BY <1>1, <1>4 DEF StopServer, Minted, RuntimeCloses, Connect, Drop, Deliver, Answer, vars,
                      storeVars, serverVars, ActiveTurn, Current
  <2> QED
    BY <1>1, <1>2, <2>1, <2>2, <2>3, LogSilent
<1> QED
  BY <1>3, <1>4

\* The log starts with the rows a migration left.
LEMMA LogInvInitial == Init => LogInv
<1> SUFFICES ASSUME Init PROVE LogInv
  OBVIOUS
<1>1. /\ DOMAIN log = 1..Legacy /\ Legacy \in Nat /\ relayed = Legacy
      /\ \A i \in DOMAIN log : log[i] = Hidden
      /\ phase = "idle" /\ turn = None
  BY FeedAssumption DEF Init
<1>2. None \notin Turn /\ Formed(Hidden) /\ Hidden.turn = None /\ Hidden.kind # "context"
  BY FeedAssumption DEF Formed, Hidden, Plain
<1>3. FormedRows(log) /\ TurnsSerial(log)
  BY <1>1, <1>2 DEF FormedRows, TurnsSerial, Serial, ContextOnce
<1>4. Current /\ Visible
  BY <1>1 DEF Current, Visible
<1> QED
  BY <1>3, <1>4 DEF LogInv

\* Every step appends rows as the log has to be.
LEMMA LogInvInductive == FeedInv /\ CallInv /\ LogInv /\ [Next]_vars => LogInv'
<1> SUFFICES ASSUME FeedInv, CallInv, LogInv, [Next]_vars PROVE LogInv'
  OBVIOUS
<1>1. CASE Claim
  BY <1>1, ClaimLogs
<1>2. CASE \/ MintFails \/ Quarantined \/ \E u \in SelfTurn : CutEnds(u)
           \/ \E after \in {"up", "closed"} : TurnEnds(after)
  BY <1>2, EndsLog
<1>3. CASE \/ SelfStart \/ Ask \/ ReplyArrives
           \/ \E c \in Call : ToolReturns(c) \/ AskLapses(c)
  BY <1>3, WorkLogs
<1>4. CASE ObserveContext \/ CompactDone
  BY <1>4, ObservationsLog
<1>5. CASE Boot
  BY <1>5, BootLogs
<1>6. CASE \/ StopServer \/ Minted \/ RuntimeCloses \/ RelayTimer \/ Connect \/ Drop \/ Deliver
           \/ \E c \in Call, allow \in BOOLEAN : Answer(c, allow)
           \/ UNCHANGED vars
  BY <1>6, SilentLogs
<1> QED
  BY <1>1, <1>2, <1>3, <1>4, <1>5, <1>6 DEF Next

\* So it is in every state.
LEMMA LogInvariant == Spec => []LogInv
<1>1. Init => LogInv
  BY LogInvInitial
<1>2. FeedInv /\ CallInv /\ LogInv /\ [Next]_vars => LogInv'
  BY LogInvInductive
<1> QED
  BY <1>1, <1>2, FeedInvariant, CallInvariant, PTL DEF Spec

\* What the tabs need to know of the log.
LEMMA LogFactsHold ==
  ASSUME FeedInv, CallInv, LogInv PROVE LogFacts(log)
  BY TurnsAreClosed DEF FeedInv, FeedTypes, CallInv, LogInv, LogFacts, LogAccepted

-----------------------------------------------------------------------------
(***************************************************************************)
(* The steps of the server, as the socket and the registry see them.       *)
(***************************************************************************)
\* What a tab is sent besides the rows: an ask, and the snapshot it starts from.
AskFrame(c) == [kind |-> "ask", call |-> c]
Snapshot == [kind : {"snapshot"}, upTo : Nat, active : Turn \cup {None}, asks : SUBSET Call]

\* The frames sent outside the outbox, and all of them.
Aside == {StateFrame(t) : t \in Turn \cup {None}} \cup {AskFrame(c) : c \in Call}
Frame == {Event(i) : i \in Nat} \cup Aside \cup Snapshot

\* Rows that are committed and drained, with the frames sent behind them.
Sends(rows, after) ==
  /\ rows \in Seq(Row) /\ after \in Seq(Aside)
  /\ log' = log \o rows /\ Drain(Len(log) + Len(rows), after)
  /\ UNCHANGED <<link, tab>> /\ phase # "down" /\ phase' # "down"

\* A permission is asked for a call without rows.
Asking(rows, after, c) ==
  /\ c \in Call /\ open \in AnyTurn /\ open' = open /\ NoCall(log, c)
  /\ rows = <<Tool(open, c, "requested"), Tool(open, c, "approval-needed")>>
  /\ after = <<AskFrame(c)>>
  /\ asks' = [asks EXCEPT ![c] = TRUE]

\* Or none is: a decided ask, and those of a turn that ends, are cleared by a row.
NotAsking(rows, after) ==
  /\ \A k \in DOMAIN after : after[k].kind # "ask"
  /\ asks' \in [Call -> BOOLEAN]
  /\ \A c \in Call : asks'[c] =>
       /\ asks[c] /\ open' = open
       /\ \A i \in DOMAIN rows : Quiet(rows[i], open) /\ rows[i].call # c
  /\ \A c \in Call : asks[c] /\ ~asks'[c] => \E i \in DOMAIN rows : Clears(rows[i], c)

\* A step nobody outside the server sees.
Unseen ==
  /\ UNCHANGED <<log, relayed, chan, lagged, link, tab, asks>>
  /\ (\E c \in Call : asks[c]) => open' = open
  /\ phase' = "down" => phase = "down"

\* Where nothing is asked and nothing was, every ask is as it was.
LEMMA NoneAsked ==
  ASSUME CallInv, open = None, asks' = asks \/ asks' = NoAsks, NEW rows, NEW after,
         after = <<>> \/ \E t \in Turn \cup {None} : after = <<StateFrame(t)>>,
         asks \in [Call -> BOOLEAN]
  PROVE  NotAsking(rows, after)
<1>1. \A c \in Call : ~asks[c] /\ ~asks'[c]
  BY NothingWaits DEF NoAsks
<1>2. \A k \in DOMAIN after : after[k].kind # "ask"
  BY DEF StateFrame
<1>3. asks' \in [Call -> BOOLEAN]
  BY DEF NoAsks
<1> QED
  BY <1>1, <1>2, <1>3 DEF NotAsking

\* The frames sent behind the rows of a turn that starts or ends.
LEMMA Behind ==
  ASSUME NEW after, after = <<>> \/ \E t \in Turn \cup {None} : after = <<StateFrame(t)>>
  PROVE  after \in Seq(Aside) /\ \A k \in DOMAIN after : after[k].kind # "ask"
<1>1. \A t \in Turn \cup {None} : StateFrame(t) \in Aside
  BY DEF Aside
<1>2. \A t : StateFrame(t).kind # "ask"
  BY DEF StateFrame
<1>3. CASE after = <<>>
  BY <1>3
<1>4. ASSUME NEW t \in Turn \cup {None}, after = <<StateFrame(t)>>
      PROVE  after \in Seq(Aside) /\ \A k \in DOMAIN after : after[k].kind # "ask"
  <2> DEFINE e == StateFrame(t)
  <2>1. e \in Aside /\ e.kind # "ask"
    BY <1>1, <1>2
  <2> HIDE DEF e
  <2>2. after = <<e>>
    BY <1>4 DEF e
  <2> QED
    BY <2>1, <2>2
<1> QED
  BY <1>3, <1>4

\* The end of a turn clears every ask.
LEMMA EndSends ==
  ASSUME FeedInv, NEW u \in AnyTurn, NEW rows, NEW after,
         rows = EndRows(u) \/ (u \in Turn /\ rows = <<Plain("start", u)>> \o EndRows(u)),
         after = <<>> \/ \E t \in Turn \cup {None} : after = <<StateFrame(t)>>,
         Publish(rows, after), UNCHANGED <<link, tab>>, phase # "down", phase' # "down",
         asks' = NoAsks
  PROVE  Sends(rows, after) /\ NotAsking(rows, after)
<1>1. log \in Seq(Row)
  BY DEF FeedInv, FeedTypes
<1>2. /\ EndRows(u) \in Seq(Row)
      /\ \E i \in DOMAIN EndRows(u) : EndRows(u)[i] = Plain("end", u)
      /\ u \in Turn => <<Plain("start", u)>> \o EndRows(u) \in Seq(Row)
  BY <1>1, EndRowsForm DEF RowsOf
<1>3. rows \in Seq(Row) /\ \E i \in DOMAIN rows : rows[i] = Plain("end", u)
  <2> DEFINE ends == EndRows(u)
             a == <<Plain("start", u)>>
  <2>1. CASE rows = ends
    BY <1>2, <2>1
  <2>2. CASE u \in Turn /\ rows = a \o ends
    <3>1. a \in Seq(Row) /\ ends \in Seq(Row) /\ rows \in Seq(Row)
      BY <1>2, <2>2, RowTypes DEF Kind
    <3>2. PICK i \in DOMAIN ends : ends[i] = Plain("end", u)
      BY <1>2
    <3> HIDE DEF ends, a
    <3>3. /\ DOMAIN a = 1..Len(a) /\ Len(a) \in Nat /\ DOMAIN ends = 1..Len(ends) /\ Len(ends) \in Nat
          /\ DOMAIN rows = 1..(Len(a) + Len(ends)) /\ rows[Len(a) + i] = ends[i]
      BY <2>2, <3>1, Grown
    <3>4. Len(a) + i \in DOMAIN rows
      BY <3>3
    <3> QED
      BY <3>1, <3>2, <3>3, <3>4
  <2> QED
    BY <2>1, <2>2
<1>4. Plain("end", u).kind = "end"
  BY DEF Plain
<1>5. \E i \in DOMAIN rows : rows[i].kind = "end"
  BY <1>3, <1>4
<1>6. \A c \in Call : \E i \in DOMAIN rows : Clears(rows[i], c)
  BY <1>5 DEF Clears
<1>7. asks' \in [Call -> BOOLEAN] /\ \A c \in Call : ~asks'[c]
  BY DEF NoAsks
<1> QED
  BY <1>3, <1>6, <1>7, Behind DEF Sends, NotAsking, Publish

\* A row of the open turn: of a call nothing waits for, or of the one decided.
LEMMA MoveSends ==
  ASSUME FeedInv, NEW c \in Call, NEW st \in CallState, open \in AnyTurn, Observed(c, st, <<>>),
         asks' \in [Call -> BOOLEAN], ~asks'[c], \A d \in Call \ {c} : asks'[d] = asks[d],
         open' = open, UNCHANGED <<link, tab>>, phase # "down", phase' # "down"
  PROVE  \E rows, after : Sends(rows, after) /\ NotAsking(rows, after)
<1> DEFINE rows == <<Tool(open, c, st)>>
<1>1. rows \in Seq(Row) /\ Publish(rows, <<>>)
  BY CallRowsOf DEF RowsOf, Observed
<1>2. \A i \in DOMAIN rows : rows[i] = Tool(open, c, st)
  OBVIOUS
<1>3. 1 \in DOMAIN rows
  OBVIOUS
<1>4. Tool(open, c, st).kind = "tool" /\ Tool(open, c, st).turn = open /\ Tool(open, c, st).call = c
  BY DEF Tool
<1> HIDE DEF rows
<1>5. Sends(rows, <<>>)
  BY <1>1, Behind DEF Sends, Publish
<1>6. NotAsking(rows, <<>>)
  BY <1>2, <1>3, <1>4 DEF NotAsking, Quiet, Clears
<1> QED
  BY <1>5, <1>6

\* Rows of no call that no ask minds.
LEMMA PlainSends ==
  ASSUME NEW rows, rows \in Seq(Row), NEW after,
         after = <<>> \/ \E t \in Turn \cup {None} : after = <<StateFrame(t)>>,
         log' = log \o rows, Drain(Len(log) + Len(rows), after),
         asks \in [Call -> BOOLEAN], asks' = asks,
         \/ CallInv /\ open = None
         \/ open' = open /\ \A i \in DOMAIN rows : rows[i].kind \in {"context", "notice"}
                                                  /\ rows[i].call = None,
         UNCHANGED <<link, tab>>, phase # "down", phase' # "down"
  PROVE  Sends(rows, after) /\ NotAsking(rows, after)
<1>1. Sends(rows, after)
  BY Behind DEF Sends
<1>2. CASE CallInv /\ open = None
  BY <1>1, <1>2, NoneAsked
<1>3. CASE open' = open /\ \A i \in DOMAIN rows : rows[i].kind \in {"context", "notice"}
                                                  /\ rows[i].call = None
  <2>1. None \notin Call
    BY FeedAssumption
  <2> QED
    BY <1>1, <1>3, <2>1, Behind DEF NotAsking, Quiet
<1> QED
  BY <1>2, <1>3

\* A row is sent, and the asks move with it.
Sending ==
  \E rows, after : /\ Sends(rows, after)
                   /\ NotAsking(rows, after) \/ \E c : Asking(rows, after, c)

\* A claim.
LEMMA ClaimSends ==
  ASSUME FeedInv, CallInv, Claim PROVE Sending
<1>1. PICK t \in Turn \ Used :
        LET started == <<Plain("start", t)>>
        IN  \/ /\ runtime = "none"
               /\ turn' = t /\ phase' = "minting"
               /\ Publish(started, <<StateFrame(t)>>)
               /\ UNCHANGED <<asks, runtime, open, cut>>
            \/ /\ runtime = "up" /\ open = None
               /\ turn' = t /\ phase' = "running" /\ open' = t
               /\ Publish(started, <<StateFrame(t)>>)
               /\ UNCHANGED <<asks, runtime, cut>>
            \/ /\ runtime = "closed" \/ open # None
               /\ asks' = NoAsks /\ runtime' = "none"
               /\ open' = None /\ cut' = {open} \ {None}
               /\ Publish(started \o EndRows(t), <<StateFrame(None)>>)
               /\ UNCHANGED <<turn, phase>>
  <2>1. Turn \ Used # {}
    BY DEF Claim
  <2> QED
    BY <2>1 DEF Claim
<1> DEFINE started == <<Plain("start", t)>>
<1>2. /\ t \in Turn /\ t \in AnyTurn /\ phase = "idle" /\ UNCHANGED <<link, tab>>
      /\ asks \in [Call -> BOOLEAN] /\ ServerOK
  BY DEF AnyTurn, Claim, FeedInv, FeedTypes, TypeOK
<1>3. started \in Seq(Row)
  BY <1>2, PlainRows DEF RowsOf
<1>4. CASE /\ phase' \in {"minting", "running"} /\ asks' = asks /\ open = None
           /\ Publish(started, <<StateFrame(t)>>)
  <2> DEFINE after == <<StateFrame(t)>>
  <2>1. \E u \in Turn \cup {None} : after = <<StateFrame(u)>>
    BY <1>2
  <2>2. Publish(started, after)
    BY <1>4
  <2> HIDE DEF after, started
  <2>3. log' = log \o started /\ Drain(Len(log) + Len(started), after)
    BY <2>2 DEF Publish
  <2>4. Sends(started, after) /\ NotAsking(started, after)
    BY <1>2, <1>3, <1>4, <2>1, <2>3, PlainSends
  <2> QED
    BY <2>4 DEF Sending
<1>5. CASE /\ asks' = NoAsks /\ Publish(started \o EndRows(t), <<StateFrame(None)>>)
           /\ phase' = phase
  <2> DEFINE after == <<StateFrame(None)>>
             rows == started \o EndRows(t)
  <2>1. \E u \in Turn \cup {None} : after = <<StateFrame(u)>>
    OBVIOUS
  <2>2. Publish(rows, after) /\ rows = <<Plain("start", t)>> \o EndRows(t)
    BY <1>5
  <2> HIDE DEF after, rows, started
  <2>3. Sends(rows, after) /\ NotAsking(rows, after)
    BY <1>2, <1>5, <2>1, <2>2, EndSends
  <2> QED
    BY <2>3 DEF Sending
<1> QED
  BY <1>1, <1>2, <1>4, <1>5 DEF ServerOK

\* The end of a turn.
LEMMA EndingSends ==
  ASSUME FeedInv,
         \/ MintFails \/ Quarantined \/ \E u \in SelfTurn : CutEnds(u)
         \/ \E after \in {"up", "closed"} : TurnEnds(after)
  PROVE  Sending
<1>1. /\ TypeOK /\ ServerOK /\ AnyTurn = Turn \cup SelfTurn
  BY DEF FeedInv, FeedTypes, AnyTurn
<1>2. \E u \in AnyTurn : \E after :
        /\ after = <<>> \/ \E t \in Turn \cup {None} : after = <<StateFrame(t)>>
        /\ Publish(EndRows(u), after) /\ UNCHANGED <<link, tab>>
        /\ phase # "down" /\ phase' # "down" /\ asks' = NoAsks
  <2>1. CASE MintFails
    BY <1>1, <2>1 DEF MintFails, ServerOK
  <2>2. CASE Quarantined
    BY <1>1, <2>2 DEF Quarantined, ServerOK
  <2>3. CASE \E u \in SelfTurn : CutEnds(u)
    BY <1>1, <2>3 DEF CutEnds
  <2>4. ASSUME NEW next \in {"up", "closed"}, TurnEnds(next)
        PROVE  \E u \in AnyTurn : \E after :
                 /\ after = <<>> \/ \E t \in Turn \cup {None} : after = <<StateFrame(t)>>
                 /\ Publish(EndRows(u), after) /\ UNCHANGED <<link, tab>>
                 /\ phase # "down" /\ phase' # "down" /\ asks' = NoAsks
    BY <1>1, <2>4 DEF TurnEnds, InTask, TypeOK
  <2> QED
    BY <2>1, <2>2, <2>3, <2>4
<1>3. PICK u \in AnyTurn :
        \E after :
          /\ after = <<>> \/ \E t \in Turn \cup {None} : after = <<StateFrame(t)>>
          /\ Publish(EndRows(u), after) /\ UNCHANGED <<link, tab>>
          /\ phase # "down" /\ phase' # "down" /\ asks' = NoAsks
  BY <1>2, Zenon
<1>4. PICK after :
        /\ after = <<>> \/ \E t \in Turn \cup {None} : after = <<StateFrame(t)>>
        /\ Publish(EndRows(u), after) /\ UNCHANGED <<link, tab>>
        /\ phase # "down" /\ phase' # "down" /\ asks' = NoAsks
  BY <1>3, Zenon
<1> DEFINE rows == EndRows(u)
<1>5. rows = EndRows(u) /\ Publish(rows, after)
  BY <1>4
<1> HIDE DEF rows
<1>6. Sends(rows, after) /\ NotAsking(rows, after)
  BY <1>4, <1>5, EndSends
<1> QED
  BY <1>6 DEF Sending

\* An ask, the decision of one, the return of a call.
LEMMA CallSends ==
  ASSUME FeedInv, CallInv,
         \/ Ask \/ ReplyArrives \/ \E c \in Call : ToolReturns(c) \/ AskLapses(c)
  PROVE  Sending \/ (Unseen /\ phase # "down")
<1>1. /\ TypeOK /\ ServerOK /\ asks \in [Call -> BOOLEAN] /\ log \in Seq(Row)
      /\ open \in AnyTurn \cup {None}
  BY DEF FeedInv, FeedTypes, TypeOK
<1>2. "requested" \in CallState /\ "approval-needed" \in CallState /\ "running" \in CallState
      /\ "denied" \in CallState /\ "succeeded" \in CallState
  BY DEF CallState, Settled
<1>3. CASE Ask
  <2> DEFINE c == CHOOSE c \in FreshCalls : TRUE
             rows == <<Tool(open, c, "requested"), Tool(open, c, "approval-needed")>>
             after == <<AskFrame(c)>>
  <2>1. c \in FreshCalls
    BY <1>3 DEF Ask
  <2>2. /\ c \in Call /\ open \in AnyTurn /\ open' = open /\ asks' = [asks EXCEPT ![c] = TRUE]
        /\ Publish(rows, after) /\ phase # "down" /\ phase' = phase /\ UNCHANGED <<link, tab>>
    BY <1>1, <1>3, <2>1 DEF Ask, FreshCalls, AskFrame, InTask
  <2>3. NoCall(log, c)
    <3>1. LastOf(c) = 0
      BY <2>1 DEF FreshCalls
    <3>2. c \in Call
      BY <2>2
    <3> HIDE DEF c
    <3>3. \A k \in DOMAIN log : log[k].call = c => FALSE
      <4> SUFFICES ASSUME NEW k \in DOMAIN log, log[k].call = c PROVE FALSE
        OBVIOUS
      <4>1. {j \in DOMAIN log : log[j].call = c} \subseteq 1..Len(log) /\ Len(log) \in Nat
        BY <1>1
      <4> DEFINE own == {j \in DOMAIN log : log[j].call = c}
      <4>2. k \in own
        OBVIOUS
      <4>3. \A j \in DOMAIN log : log[j].call = c => j \in own
        OBVIOUS
      <4>4. own \subseteq DOMAIN log /\ \A j \in own : log[j].call = c
        OBVIOUS
      <4> HIDE DEF own
      <4>5. PICK m \in own : \A j \in own : m >= j
        BY <1>1, <4>1, <4>2, LastExists DEF own
      <4>6. m \in DOMAIN log /\ log[m].call = c /\ DOMAIN log \subseteq Nat
        BY <1>1, <4>4
      <4>7. LastRow(log, m)
        BY <3>2, <4>3, <4>5, <4>6 DEF LastRow
      <4>8. LastOf(c) = m
        BY <1>1, <3>2, <4>6, <4>7, LastOfIsLastRow
      <4>9. m # 0
        BY <1>1, <4>6
      <4> QED
        BY <3>1, <4>8, <4>9
    <3> QED
      BY <3>3 DEF NoCall
  <2> HIDE DEF c
  <2>4. rows \in Seq(Row)
    BY <1>2, <2>2, CallRowsOf DEF RowsOf
  <2>5. AskFrame(c) \in Aside
    BY <2>2 DEF Aside
  <2>6. after \in Seq(Aside)
    BY <2>5
  <2>7. rows = <<Tool(open, c, "requested"), Tool(open, c, "approval-needed")>>
        /\ after = <<AskFrame(c)>>
    OBVIOUS
  <2> HIDE DEF rows, after
  <2>8. Sends(rows, after)
    BY <2>2, <2>4, <2>6 DEF Sends, Publish
  <2>9. Asking(rows, after, c)
    BY <2>2, <2>3, <2>7 DEF Asking
  <2> QED
    BY <2>8, <2>9 DEF Sending
<1>4. ASSUME NEW c \in Call, NEW st \in CallState, asks[c], Decide(c, st), UNCHANGED <<open, link, tab>>,
             phase # "down", phase' # "down"
      PROVE  Sending
  <2>1. /\ open \in AnyTurn /\ Observed(c, st, <<>>) /\ asks' \in [Call -> BOOLEAN] /\ ~asks'[c]
        /\ \A d \in Call \ {c} : asks'[d] = asks[d]
    BY <1>1, <1>4 DEF CallInv, Waits, Decide
  <2> QED
    BY <1>4, <2>1, MoveSends DEF Sending
<1>5. CASE ReplyArrives
  <2> DEFINE r == Head(replies)
             st == IF r.allow THEN "running" ELSE "denied"
  <2>1. r \in Reply /\ phase # "down" /\ UNCHANGED <<phase, open, link, tab>>
    BY <1>5 DEF ReplyArrives, FeedInv, FeedTypes, InTask
  <2>2. IF asks[r.call] THEN Decide(r.call, st) ELSE UNCHANGED <<asks, storeVars>>
    BY <1>5 DEF ReplyArrives
  <2>3. r.call \in Call /\ st \in CallState
    BY <1>2, <2>1 DEF Reply
  <2> HIDE DEF r, st
  <2>4. CASE asks[r.call]
    BY <1>4, <2>1, <2>2, <2>3, <2>4
  <2>5. CASE ~asks[r.call]
    BY <2>1, <2>2, <2>5 DEF storeVars, Unseen
  <2> QED
    BY <2>4, <2>5
<1>6. CASE \E c \in Call : ToolReturns(c) \/ AskLapses(c)
  <2>1. PICK c \in Call : ToolReturns(c) \/ AskLapses(c)
    BY <1>6
  <2>2. CASE ToolReturns(c)
    <3>1. /\ open \in AnyTurn /\ Observed(c, "succeeded", <<>>) /\ asks' = asks /\ open' = open
          /\ UNCHANGED <<link, tab, phase>> /\ phase # "down" /\ StateOf(c) = "running"
      BY <1>1, <2>2 DEF ToolReturns, serverVars, InTask
    <3>2. ~asks'[c]
      BY <3>1, CallWords DEF CallInv, Waits
    <3> QED
      BY <1>1, <1>2, <3>1, <3>2, MoveSends DEF Sending
  <2>3. CASE AskLapses(c)
    <3>1. /\ asks[c] /\ Decide(c, "denied") /\ UNCHANGED <<open, link, tab, phase>> /\ phase # "down"
      BY <2>3 DEF AskLapses, InTask
    <3> QED
      BY <1>2, <1>4, <3>1
  <2> QED
    BY <2>1, <2>2, <2>3
<1> QED
  BY <1>3, <1>5, <1>6

\* A turn of the runtime's own, what follows a turn, the relay's timer.
LEMMA PlainStepsSend ==
  ASSUME FeedInv, CallInv, SelfStart \/ ObserveContext \/ CompactDone \/ RelayTimer
  PROVE  Sending
<1>1. /\ TypeOK /\ ServerOK /\ asks \in [Call -> BOOLEAN] /\ log \in Seq(Row)
      /\ Turn \subseteq AnyTurn /\ SelfTurn \subseteq AnyTurn
  BY DEF FeedInv, FeedTypes, TypeOK, AnyTurn
<1>2. \E rows \in Seq(Row) :
        /\ log' = log \o rows /\ Drain(Len(log) + Len(rows), <<>>) /\ asks' = asks
        /\ \/ open = None
           \/ open' = open /\ \A i \in DOMAIN rows : rows[i].kind \in {"context", "notice"}
                                                    /\ rows[i].call = None
        /\ UNCHANGED <<link, tab>> /\ phase # "down" /\ phase' # "down"
  <2>1. CASE SelfStart
    <3>1. PICK u \in SelfTurn : Publish(<<Plain("marker", u)>>, <<>>)
      <4>1. SelfTurn \ Used # {}
        BY <2>1 DEF SelfStart
      <4> QED
        BY <2>1, <4>1 DEF SelfStart
    <3> DEFINE rows == <<Plain("marker", u)>>
    <3>2. rows \in Seq(Row)
      BY <1>1, PlainRows DEF RowsOf
    <3>3. open = None /\ asks' = asks /\ UNCHANGED <<link, tab, phase>> /\ phase # "down"
      BY <2>1 DEF SelfStart, InTask
    <3> HIDE DEF rows
    <3>4. Publish(rows, <<>>)
      BY <3>1 DEF rows
    <3> QED
      BY <3>2, <3>3, <3>4 DEF Publish
  <2>2. ASSUME NEW kind \in {"context", "notice"}, Publish(<<Plain(kind, turn)>>, <<>>),
               turn \in Turn, UNCHANGED <<asks, open, link, tab>>, phase # "down", phase' # "down"
        PROVE  \E rows \in Seq(Row) :
                 /\ log' = log \o rows /\ Drain(Len(log) + Len(rows), <<>>) /\ asks' = asks
                 /\ open' = open /\ \A i \in DOMAIN rows : rows[i].kind \in {"context", "notice"}
                                                          /\ rows[i].call = None
                 /\ UNCHANGED <<link, tab>> /\ phase # "down" /\ phase' # "down"
    <3> DEFINE rows == <<Plain(kind, turn)>>
    <3>1. rows \in Seq(Row)
      BY <1>1, <2>2, PlainRows DEF RowsOf
    <3>2. \A i \in DOMAIN rows : rows[i].kind \in {"context", "notice"} /\ rows[i].call = None
      BY <2>2 DEF Plain
    <3> HIDE DEF rows
    <3>3. Publish(rows, <<>>)
      BY <2>2 DEF rows
    <3> QED
      BY <2>2, <3>1, <3>2, <3>3 DEF Publish
  <2>3. CASE ObserveContext
    <3>1. /\ turn \in Turn /\ Publish(<<Plain("context", turn)>>, <<>>)
          /\ UNCHANGED <<asks, open, link, tab>> /\ phase # "down" /\ phase' # "down"
      BY <1>1, <2>3 DEF ObserveContext, InTask, ServerOK
    <3> QED
      BY <2>2, <3>1
  <2>4. CASE CompactDone
    <3>1. /\ turn \in Turn /\ UNCHANGED <<asks, open, link, tab>> /\ phase # "down" /\ phase' # "down"
          /\ Publish(<<>>, <<>>) \/ Publish(<<Plain("notice", turn)>>, <<>>)
      BY <1>1, <2>4 DEF CompactDone, InTask, ServerOK
    <3>2. CASE Publish(<<Plain("notice", turn)>>, <<>>)
      BY <2>2, <3>1, <3>2
    <3>3. CASE Publish(<<>>, <<>>)
      <4> DEFINE rows == <<>>
      <4>1. rows \in Seq(Row) /\ DOMAIN rows = {}
        OBVIOUS
      <4>2. Publish(rows, <<>>)
        BY <3>3
      <4> HIDE DEF rows
      <4> QED
        BY <3>1, <4>1, <4>2 DEF Publish
    <3> QED
      BY <3>1, <3>2, <3>3
  <2>5. CASE RelayTimer
    <3> DEFINE rows == <<>>
    <3>1. rows \in Seq(Row) /\ DOMAIN rows = {} /\ log = log \o rows /\ Len(log) + Len(rows) = Len(log)
      BY <1>1
    <3> HIDE DEF rows
    <3>2. /\ Drain(Len(log), <<>>) /\ UNCHANGED <<log, asks, open, link, tab, phase>> /\ phase # "down"
      BY <2>5 DEF RelayTimer, InTask, serverVars
    <3> QED
      BY <3>1, <3>2
  <2> QED
    BY <2>1, <2>3, <2>4, <2>5
<1>3. PICK rows \in Seq(Row) :
        /\ log' = log \o rows /\ Drain(Len(log) + Len(rows), <<>>) /\ asks' = asks
        /\ \/ open = None
           \/ open' = open /\ \A i \in DOMAIN rows : rows[i].kind \in {"context", "notice"}
                                                    /\ rows[i].call = None
        /\ UNCHANGED <<link, tab>> /\ phase # "down" /\ phase' # "down"
  BY <1>2
<1>4. Sends(rows, <<>>) /\ NotAsking(rows, <<>>)
  BY <1>1, <1>3, PlainSends
<1> QED
  BY <1>4 DEF Sending

\* Every step is one of these.
LEMMA Steps ==
  ASSUME FeedInv, CallInv, [Next]_vars
  PROVE  \/ Sending \/ Unseen
         \/ StopServer \/ Boot \/ Connect \/ Drop \/ Deliver
         \/ \E c \in Call, allow \in BOOLEAN : Answer(c, allow)
<1>1. ServerOK
  BY DEF FeedInv
<1>2. CASE Minted
  <2>1. open = None
    BY <1>1, <1>2 DEF Minted, ServerOK
  <2> QED
    BY <1>2, <2>1, NothingWaits DEF Minted, storeVars, Unseen
<1>3. CASE RuntimeCloses \/ UNCHANGED vars
  BY <1>3 DEF RuntimeCloses, storeVars, serverVars, vars, Unseen
<1> QED
  BY <1>2, <1>3, ClaimSends, EndingSends, CallSends, PlainStepsSend DEF Next

-----------------------------------------------------------------------------
(***************************************************************************)
(* The frames under way.                                                   *)
(***************************************************************************)
\* The event frames of C are visible rows of L; from row b on none is overtaken.
EventsOK(L, b, C) ==
  \A k \in DOMAIN C : C[k].kind = "event" =>
    /\ C[k].seq \in DOMAIN L /\ L[C[k].seq] # Hidden
    /\ \A m \in (b + 1)..(C[k].seq - 1) : \E j \in 1..(k - 1) : C[j] = Event(m)

\* Every row behind b, up to row n, is under way.
Covers(b, C, n) == \A m \in (b + 1)..n : \E k \in DOMAIN C : C[k] = Event(m)

\* What a frame carries.
LEMMA FrameFields ==
  /\ \A f \in Frame :
       /\ f.kind \in {"event", "state", "ask", "snapshot"}
       /\ f.kind = "event" => f.seq \in Nat /\ f = Event(f.seq)
       /\ f.kind = "state" => f.active \in Turn \cup {None}
       /\ f.kind = "ask" => f.call \in Call /\ f = AskFrame(f.call)
       /\ f.kind = "snapshot" => /\ f.upTo \in Nat /\ f.active \in Turn \cup {None}
                                 /\ f.asks \subseteq Call
  /\ \A f \in Aside : f.kind \in {"state", "ask"} /\ f \in Frame
  /\ \A i : Event(i).kind = "event" /\ Event(i).seq = i
  /\ \A c : AskFrame(c).kind = "ask" /\ AskFrame(c).call = c
  /\ \A i \in Nat : Event(i) \in Frame
<1>1. \A i : Event(i).kind = "event" /\ Event(i).seq = i
  BY DEF Event
<1>2. \A c : AskFrame(c).kind = "ask" /\ AskFrame(c).call = c
  BY DEF AskFrame
<1>3. \A t : StateFrame(t).kind = "state" /\ StateFrame(t).active = t
  BY DEF StateFrame
<1>4. \A f \in Snapshot : /\ f.kind = "snapshot" /\ f.upTo \in Nat /\ f.active \in Turn \cup {None}
                          /\ f.asks \subseteq Call
  BY DEF Snapshot
<1>5. \A f \in Frame : \/ \E i \in Nat : f = Event(i)
                       \/ \E t \in Turn \cup {None} : f = StateFrame(t)
                       \/ \E c \in Call : f = AskFrame(c)
                       \/ f \in Snapshot
  BY DEF Frame, Aside
<1>6. \A f \in Aside : /\ f \in Frame
                       /\ \/ \E t \in Turn \cup {None} : f = StateFrame(t)
                          \/ \E c \in Call : f = AskFrame(c)
  BY DEF Frame, Aside
<1>7. \A i \in Nat : Event(i) \in Frame
  BY DEF Frame
<1>8. ASSUME NEW f \in Frame
      PROVE  /\ f.kind \in {"event", "state", "ask", "snapshot"}
             /\ f.kind = "event" => f.seq \in Nat /\ f = Event(f.seq)
             /\ f.kind = "state" => f.active \in Turn \cup {None}
             /\ f.kind = "ask" => f.call \in Call /\ f = AskFrame(f.call)
             /\ f.kind = "snapshot" => /\ f.upTo \in Nat /\ f.active \in Turn \cup {None}
                                       /\ f.asks \subseteq Call
  BY <1>1, <1>2, <1>3, <1>4, <1>5
<1>9. \A f \in Aside : f.kind \in {"state", "ask"} /\ f \in Frame
  BY <1>2, <1>3, <1>6
<1> QED
  BY <1>1, <1>2, <1>7, <1>8, <1>9

\* One sequence behind another.
LEMMA Joined ==
  ASSUME NEW S, NEW s \in Seq(S), NEW r \in Seq(S)
  PROVE  /\ s \o r \in Seq(S) /\ Len(s) \in Nat /\ Len(r) \in Nat
         /\ DOMAIN s = 1..Len(s) /\ DOMAIN r = 1..Len(r)
         /\ DOMAIN (s \o r) = 1..(Len(s) + Len(r)) /\ Len(s \o r) = Len(s) + Len(r)
         /\ \A i \in 1..Len(s) : (s \o r)[i] = s[i]
         /\ \A i \in 1..Len(r) : (s \o r)[Len(s) + i] = r[i]
  OBVIOUS

\* The frames a drain sends stand behind those under way, in the order of the log.
LEMMA DrainSends ==
  ASSUME relayed \in Nat, NEW n \in Nat, relayed <= n, NEW after \in Seq(Aside), Drain(n, after)
  PROVE  \E d \in Nat :
           /\ relayed + d <= n /\ relayed' \in relayed..(relayed + d)
           /\ chan' = Broadcast([i \in 1..d |-> Event(relayed + i)] \o after)
           /\ ~lagged' => ~lagged /\ relayed' = n /\ relayed + d = n
<1>1. CASE /\ relayed' = n
           /\ chan' = Broadcast([i \in 1..(n - relayed) |-> Event(relayed + i)] \o after)
           /\ UNCHANGED <<faults, lagged>>
  <2> DEFINE d == n - relayed
  <2>1. d \in Nat /\ relayed + d = n
    OBVIOUS
  <2>2. chan' = Broadcast([i \in 1..d |-> Event(relayed + i)] \o after)
    BY <1>1
  <2>3. relayed' \in relayed..(relayed + d)
    BY <1>1, <2>1
  <2>4. relayed + d <= n
    BY <2>1
  <2> HIDE DEF d
  <2> QED
    BY <1>1, <2>1, <2>2, <2>3, <2>4, Zenon
<1>2. ASSUME lagged' = TRUE, NEW i \in relayed..n, relayed' = IF i = relayed THEN i ELSE i - 1,
             chan' = Broadcast([k \in 1..(i - relayed) |-> Event(relayed + k)] \o after)
      PROVE  \E d \in Nat :
               /\ relayed + d <= n /\ relayed' \in relayed..(relayed + d)
               /\ chan' = Broadcast([k \in 1..d |-> Event(relayed + k)] \o after)
               /\ ~lagged' => ~lagged /\ relayed' = n /\ relayed + d = n
  <2> DEFINE d == i - relayed
  <2>1. d \in Nat /\ relayed + d <= n /\ relayed' \in relayed..(relayed + d)
    BY <1>2
  <2>2. chan' = Broadcast([k \in 1..d |-> Event(relayed + k)] \o after)
    BY <1>2
  <2> HIDE DEF d
  <2> QED
    BY <1>2, <2>1, <2>2
<1> QED
  BY <1>1, <1>2 DEF Drain

\* Frame by frame.
LEMMA SentFrames ==
  ASSUME chan \in Seq(Frame), link # "closed", relayed \in Nat, NEW d \in Nat,
         NEW after \in Seq(Aside),
         chan' = Broadcast([i \in 1..d |-> Event(relayed + i)] \o after)
  PROVE  /\ chan' \in Seq(Frame) /\ Len(chan) \in Nat /\ Len(after) \in Nat
         /\ DOMAIN chan = 1..Len(chan) /\ DOMAIN after = 1..Len(after)
         /\ DOMAIN chan' = 1..(Len(chan) + d + Len(after))
         /\ \A i \in 1..Len(chan) : chan'[i] = chan[i]
         /\ \A i \in 1..d : chan'[Len(chan) + i] = Event(relayed + i)
         /\ \A i \in 1..Len(after) : chan'[Len(chan) + d + i] = after[i]
<1> DEFINE ev == [i \in 1..d |-> Event(relayed + i)]
           more == ev \o after
<1>1. ev \in Seq(Frame) /\ Len(ev) = d /\ \A i \in 1..d : ev[i] = Event(relayed + i)
  <2>1. \A i \in 1..d : Event(relayed + i) \in Frame
    BY FrameFields
  <2> QED
    BY <2>1
<1>2. after \in Seq(Frame) /\ Len(after) \in Nat
  BY FrameFields
<1> HIDE DEF ev
<1>3. /\ more \in Seq(Frame) /\ Len(more) = d + Len(after)
      /\ \A i \in 1..d : more[i] = Event(relayed + i)
      /\ \A i \in 1..Len(after) : more[d + i] = after[i]
  BY <1>1, <1>2, Joined
<1>4. chan' = chan \o more
  BY DEF Broadcast, ev
<1> HIDE DEF more
<1>5. /\ chan' \in Seq(Frame) /\ Len(chan) \in Nat
      /\ DOMAIN chan = 1..Len(chan) /\ DOMAIN after = 1..Len(after)
      /\ DOMAIN chan' = 1..(Len(chan) + (d + Len(after)))
      /\ \A i \in 1..Len(chan) : chan'[i] = chan[i]
      /\ \A i \in 1..(d + Len(after)) : chan'[Len(chan) + i] = more[i]
  <2>1. /\ chan \o more \in Seq(Frame) /\ Len(chan) \in Nat /\ DOMAIN chan = 1..Len(chan)
        /\ DOMAIN (chan \o more) = 1..(Len(chan) + Len(more))
        /\ \A i \in 1..Len(chan) : (chan \o more)[i] = chan[i]
        /\ \A i \in 1..Len(more) : (chan \o more)[Len(chan) + i] = more[i]
    <3>1. more \in Seq(Frame)
      BY <1>3
    <3> QED
      BY <3>1
  <2>2. DOMAIN after = 1..Len(after)
    BY <1>2
  <2> QED
    BY <1>3, <1>4, <2>1, <2>2, Zenon
<1>6. \A i \in 1..d : i \in 1..(d + Len(after))
  BY <1>2
<1>7. \A i \in 1..Len(after) : d + i \in 1..(d + Len(after)) /\ Len(chan) + (d + i) = Len(chan) + d + i
  BY <1>2, <1>5
<1>8. \A i \in 1..Len(after) : chan'[Len(chan) + d + i] = after[i]
  <2> SUFFICES ASSUME NEW i \in 1..Len(after) PROVE chan'[Len(chan) + d + i] = after[i]
    OBVIOUS
  <2>1. chan'[Len(chan) + (d + i)] = more[d + i]
    BY <1>5, <1>7
  <2> QED
    BY <1>3, <1>7, <2>1
<1>9. \A i \in 1..d : chan'[Len(chan) + i] = Event(relayed + i)
  BY <1>3, <1>5, <1>6
<1>10. Len(chan) + (d + Len(after)) = Len(chan) + d + Len(after)
  BY <1>2, <1>5
<1> QED
  BY <1>2, <1>5, <1>8, <1>9, <1>10, Zenon

\* Sent so, no frame is overtaken and none is left out.
LEMMA SentInOrder ==
  ASSUME chan \in Seq(Frame), chan' \in Seq(Frame), relayed \in Nat, NEW d \in Nat,
         NEW e \in Nat,
         DOMAIN chan = 1..Len(chan), Len(chan) \in Nat,
         DOMAIN chan' = 1..(Len(chan) + d + e),
         \A i \in 1..Len(chan) : chan'[i] = chan[i],
         \A i \in 1..d : chan'[Len(chan) + i] = Event(relayed + i),
         \A i \in 1..e : chan'[Len(chan) + d + i].kind # "event",
         NEW L, NEW L2, NEW b \in Nat, EventsOK(L, b, chan), Covers(b, chan, relayed),
         \A i \in DOMAIN L : i \in DOMAIN L2 /\ L2[i] = L[i],
         \A i \in 1..d : relayed + i \in DOMAIN L2 /\ L2[relayed + i] # Hidden
  PROVE  EventsOK(L2, b, chan') /\ Covers(b, chan', relayed + d)
<1>1. \A i \in 1..Len(chan) : i \in DOMAIN chan' /\ i \in DOMAIN chan
  OBVIOUS
<1>2. \A i \in 1..d : Len(chan) + i \in DOMAIN chan'
  OBVIOUS
<1>3. \A i \in DOMAIN chan' :
        \/ i \in 1..Len(chan)
        \/ i - Len(chan) \in 1..d /\ i = Len(chan) + (i - Len(chan))
        \/ i - Len(chan) - d \in 1..e /\ i = Len(chan) + d + (i - Len(chan) - d)
  OBVIOUS
<1>4. ASSUME NEW k \in DOMAIN chan', chan'[k].kind = "event"
      PROVE  /\ chan'[k].seq \in DOMAIN L2 /\ L2[chan'[k].seq] # Hidden
             /\ \A m \in (b + 1)..(chan'[k].seq - 1) : \E j \in 1..(k - 1) : chan'[j] = Event(m)
  <2>1. CASE k \in 1..Len(chan)
    <3>1. chan'[k] = chan[k] /\ k \in DOMAIN chan
      BY <1>1, <2>1
    <3>2. /\ chan[k].seq \in DOMAIN L /\ L[chan[k].seq] # Hidden
          /\ \A m \in (b + 1)..(chan[k].seq - 1) : \E j \in 1..(k - 1) : chan[j] = Event(m)
      BY <1>4, <3>1 DEF EventsOK
    <3>3. \A j \in 1..(k - 1) : chan'[j] = chan[j]
      BY <2>1
    <3> QED
      BY <3>1, <3>2, <3>3
  <2>2. CASE k - Len(chan) \in 1..d /\ k = Len(chan) + (k - Len(chan))
    <3> DEFINE i == k - Len(chan)
    <3>1. i \in 1..d /\ k = Len(chan) + i
      BY <2>2
    <3> HIDE DEF i
    <3>2. chan'[k] = Event(relayed + i)
      BY <3>1
    <3>3. chan'[k].seq = relayed + i
      BY <3>2, FrameFields
    <3>4. ASSUME NEW m \in (b + 1)..(relayed + i - 1)
          PROVE  \E j \in 1..(k - 1) : chan'[j] = Event(m)
      <4>1. CASE m <= relayed
        <5>1. m \in (b + 1)..relayed
          BY <4>1
        <5>2. PICK j \in DOMAIN chan : chan[j] = Event(m)
          BY <5>1 DEF Covers
        <5>3. j \in 1..(k - 1) /\ chan'[j] = chan[j]
          BY <3>1, <5>2
        <5> QED
          BY <5>2, <5>3
      <4>2. CASE m > relayed
        <5> DEFINE o == m - relayed
        <5>1. o \in 1..d /\ relayed + o = m /\ Len(chan) + o \in 1..(k - 1)
          BY <3>1, <3>4, <4>2
        <5> HIDE DEF o
        <5>2. chan'[Len(chan) + o] = Event(m)
          BY <5>1
        <5> QED
          BY <5>1, <5>2
      <4> QED
        BY <4>1, <4>2
    <3>5. relayed + i \in DOMAIN L2 /\ L2[relayed + i] # Hidden
      BY <3>1
    <3>6. chan'[k].seq \in DOMAIN L2 /\ L2[chan'[k].seq] # Hidden
      BY <3>3, <3>5
    <3>7. \A m \in (b + 1)..(chan'[k].seq - 1) : \E j \in 1..(k - 1) : chan'[j] = Event(m)
      <4> SUFFICES ASSUME NEW m \in (b + 1)..(chan'[k].seq - 1)
                   PROVE  \E j \in 1..(k - 1) : chan'[j] = Event(m)
        OBVIOUS
      <4>1. m \in (b + 1)..(relayed + i - 1)
        BY <3>1, <3>3
      <4> QED
        BY <3>4, <4>1
    <3> QED
      BY <3>6, <3>7
  <2>3. CASE k - Len(chan) - d \in 1..e /\ k = Len(chan) + d + (k - Len(chan) - d)
    BY <1>4, <2>3
  <2> QED
    BY <1>3, <2>1, <2>2, <2>3
<1>5. ASSUME NEW m \in (b + 1)..(relayed + d) PROVE \E k \in DOMAIN chan' : chan'[k] = Event(m)
  <2>1. CASE m <= relayed
    <3>1. m \in (b + 1)..relayed
      BY <2>1
    <3>2. PICK j \in DOMAIN chan : chan[j] = Event(m)
      BY <3>1 DEF Covers
    <3> QED
      BY <1>1, <3>2
  <2>2. CASE m > relayed
    <3> DEFINE o == m - relayed
    <3>1. o \in 1..d /\ relayed + o = m
      BY <1>5, <2>2
    <3> HIDE DEF o
    <3>2. chan'[Len(chan) + o] = Event(m)
      BY <3>1
    <3> QED
      BY <1>2, <3>1, <3>2
  <2> QED
    BY <2>1, <2>2
<1> QED
  BY <1>4, <1>5 DEF EventsOK, Covers

\* The frames behind the head.
LEMMA Rest ==
  ASSUME NEW C \in Seq(Frame), C # <<>>
  PROVE  /\ Head(C) = C[1] /\ Head(C) \in Frame /\ 1 \in DOMAIN C /\ Tail(C) \in Seq(Frame)
         /\ DOMAIN C = 1..Len(C) /\ Len(C) \in Nat
         /\ \A k \in DOMAIN Tail(C) : k \in Nat \ {0} /\ k + 1 \in DOMAIN C /\ Tail(C)[k] = C[k + 1]
         /\ \A k \in DOMAIN C : k # 1 => k - 1 \in DOMAIN Tail(C) /\ Tail(C)[k - 1] = C[k]
  OBVIOUS

\* They are in order too, once the head is taken into account.
LEMMA RestInOrder ==
  ASSUME NEW C \in Seq(Frame), C # <<>>, NEW L, NEW b \in Nat, NEW b2 \in Nat, b <= b2,
         \A m \in Nat : m > b2 => C[1] # Event(m), EventsOK(L, b, C), NEW n, n \in Nat, Covers(b, C, n)
  PROVE  EventsOK(L, b2, Tail(C)) /\ Covers(b2, Tail(C), n)
<1>1. /\ \A k \in DOMAIN Tail(C) : k \in Nat \ {0} /\ k + 1 \in DOMAIN C /\ Tail(C)[k] = C[k + 1]
      /\ \A k \in DOMAIN C : k # 1 => k - 1 \in DOMAIN Tail(C) /\ Tail(C)[k - 1] = C[k]
      /\ DOMAIN C \subseteq Nat /\ \A k \in DOMAIN C : 1..k \subseteq DOMAIN C
      /\ \A k \in DOMAIN C : C[k] \in Frame
  BY Rest
<1> DEFINE T == Tail(C)
<1> HIDE DEF T
<1>2. ASSUME NEW k \in DOMAIN T, T[k].kind = "event"
      PROVE  /\ T[k].seq \in DOMAIN L /\ L[T[k].seq] # Hidden
             /\ \A m \in (b2 + 1)..(T[k].seq - 1) : \E j \in 1..(k - 1) : T[j] = Event(m)
  <2>1. k \in Nat \ {0} /\ k + 1 \in DOMAIN C /\ T[k] = C[k + 1]
    BY <1>1 DEF T
  <2>2. /\ T[k].seq \in DOMAIN L /\ L[T[k].seq] # Hidden
        /\ \A m \in (b + 1)..(T[k].seq - 1) : \E j \in 1..k : C[j] = Event(m)
    BY <1>2, <2>1 DEF EventsOK
  <2>3. T[k].seq \in Nat
    BY <1>1, <1>2, <2>1, FrameFields
  <2>4. ASSUME NEW m \in (b2 + 1)..(T[k].seq - 1) PROVE \E j \in 1..(k - 1) : T[j] = Event(m)
    <3>1. m \in (b + 1)..(T[k].seq - 1) /\ m \in Nat /\ m > b2
      BY <2>3
    <3>2. PICK j \in 1..k : C[j] = Event(m)
      BY <2>2, <3>1
    <3>3. j # 1 /\ j \in DOMAIN C /\ j - 1 \in 1..(k - 1)
      BY <1>1, <2>1, <3>1, <3>2
    <3>4. T[j - 1] = Event(m)
      BY <1>1, <3>2, <3>3 DEF T
    <3> QED
      BY <3>3, <3>4
  <2> QED
    BY <2>2, <2>4
<1>3. ASSUME NEW m \in (b2 + 1)..n PROVE \E k \in DOMAIN T : T[k] = Event(m)
  <2>1. m \in (b + 1)..n /\ m \in Nat /\ m > b2
    OBVIOUS
  <2>2. PICK k \in DOMAIN C : C[k] = Event(m)
    BY <2>1 DEF Covers
  <2>3. k # 1
    BY <2>1, <2>2
  <2> QED
    BY <1>1, <2>2, <2>3 DEF T
<1>4. EventsOK(L, b2, T) /\ Covers(b2, T, n)
  BY <1>2, <1>3 DEF EventsOK, Covers
<1> QED
  BY <1>4 DEF T

\* A tab fits the first n rows of any log that has them.
LEMMA FitsAlike ==
  ASSUME NEW L, NEW L2, NEW n \in Nat, NEW s, Fits(L, s, n), \A i \in 1..n : L2[i] = L[i]
  PROVE  Fits(L2, s, n)
<1>1. \A c, k : LastUpTo(L2, c, n, k) <=> LastUpTo(L, c, n, k)
  <2> SUFFICES ASSUME NEW c, NEW k \in 1..n PROVE LastUpTo(L2, c, n, k) <=> LastUpTo(L, c, n, k)
    BY DEF LastUpTo
  <2>1. \A j \in (k + 1)..n : L2[j] = L[j]
    OBVIOUS
  <2> QED
    BY <2>1 DEF LastUpTo
<1>2. Shows(L2, s, n)
  BY <1>1 DEF Fits, Shows
<1>3. Overlap(L, n) => Overlap(L2, n)
  BY DEF Overlap
<1>4. Knows(L, s, n) => Knows(L2, s, n)
  <2> SUFFICES ASSUME Knows(L, s, n) PROVE Knows(L2, s, n)
    OBVIOUS
  <2>1. \A i \in 1..n : \A j \in (i + 1)..n : L2[j] = L[j]
    OBVIOUS
  <2>2. \A i \in 1..n : Evident(L2[i]) /\ (\A j \in (i + 1)..n : ~Evident(L2[j]))
          => s.evidence = L2[i].turn
    BY <2>1 DEF Knows
  <2>3. \A i \in 1..n : L2[i].kind = "start" /\ (\A j \in (i + 1)..n : L2[j].kind # "start")
          => s.context.started = L2[i].turn
    BY <2>1 DEF Knows
  <2>4. s.evidence # None => \E i \in 1..n : L2[i].turn = s.evidence
    BY DEF Knows
  <2>5. \A u \in s.superseded :
          \E i, j \in 1..n : i < j /\ L2[i].turn = u /\ Evident(L2[j]) /\ L2[j].turn # u
    BY DEF Knows
  <2>6. s.context.observed # None =>
          \E i \in 1..n : L2[i].kind = "context" /\ L2[i].turn = s.context.observed
    BY DEF Knows
  <2> QED
    BY <2>2, <2>3, <2>4, <2>5, <2>6 DEF Knows
<1>5. Projects(L2, s, n)
  BY <1>3, <1>4 DEF Fits, Projects
<1>6. CardsFit(L2, s, n)
  <2>1. \A p \in 1..n : \A q \in (p + 1)..n : L2[q] = L[q]
    OBVIOUS
  <2>2. \A p \in 1..n : L2[p].kind = "tool" /\ (\A q \in (p + 1)..n : Quiet(L2[q], L2[p].turn))
          => s.activity = L2[p].turn
    BY <2>1 DEF Fits, CardsFit
  <2> QED
    BY <2>2 DEF Fits, CardsFit
<1> QED
  BY <1>2, <1>5, <1>6 DEF Fits

\* The row the tab has applied when every frame ahead is, a snapshot included.
Base == IF link = "joining" THEN chan[1].upTo ELSE tab.through

\* A tab that is joined fits the rows it has, and the rows behind them, as far as
\* the relay is, are under way in their order.
ChannelInv ==
  /\ chan \in Seq(Frame) /\ tab \in ChatState
  /\ link = "closed" => chan = <<>>
  /\ phase = "down" => link = "closed"
  /\ link = "joining" => chan # <<>> /\ chan[1].kind = "snapshot"
  /\ link = "live" => Fits(log, tab, tab.through)
  /\ \A k \in DOMAIN chan : chan[k].kind = "snapshot" => link = "joining" /\ k = 1
  /\ link # "closed" =>
       Base \in 0..Len(log) /\ EventsOK(log, Base, chan) /\ Covers(Base, chan, relayed)

\* Nothing is under way before the first connection.
LEMMA ChannelInitial == Init => ChannelInv
  BY BlankFits DEF Init, ChannelInv, Fits

\* The log grows behind a tab.
LEMMA LogGrown ==
  ASSUME FeedInv, NEW rows \in Seq(Row), log' = log \o rows
  PROVE  /\ log' \in Seq(Row) /\ Len(log) \in Nat
         /\ Len(log') = Len(log) + Len(rows) /\ Len(rows) \in Nat
         /\ DOMAIN log = 1..Len(log) /\ DOMAIN log' = 1..Len(log')
         /\ \A i \in 1..Len(log) : log'[i] = log[i]
         /\ \A i \in DOMAIN rows : log'[Len(log) + i] = rows[i]
         /\ \A s, n : n \in 0..Len(log) /\ Fits(log, s, n) => Fits(log', s, n)
<1>1. log \in Seq(Row)
  BY DEF FeedInv, FeedTypes
<1>2. /\ log' \in Seq(Row) /\ Len(log) \in Nat /\ Len(log') = Len(log) + Len(rows) /\ Len(rows) \in Nat
      /\ DOMAIN log = 1..Len(log) /\ DOMAIN log' = 1..Len(log')
      /\ \A i \in 1..Len(log) : log'[i] = log[i]
      /\ \A i \in DOMAIN rows : log'[Len(log) + i] = rows[i]
  BY <1>1
<1>3. ASSUME NEW s, NEW n \in 0..Len(log), Fits(log, s, n) PROVE Fits(log', s, n)
  <2>1. n \in Nat /\ \A i \in 1..n : log'[i] = log[i]
    BY <1>2
  <2> QED
    BY <1>3, <2>1, FitsAlike
<1> QED
  BY <1>2, <1>3

\* What a step that sends does to the frames under way.
LEMMA SendsFrames ==
  ASSUME FeedInv, ChannelInv, link # "closed", NEW rows, NEW after, Sends(rows, after)
  PROVE  \E d \in Nat :
           /\ relayed + d <= Len(log') /\ relayed' \in relayed..(relayed + d)
           /\ ~lagged' => ~lagged /\ relayed' = Len(log') /\ relayed + d = Len(log')
           /\ chan' \in Seq(Frame) /\ Len(chan) \in Nat /\ Len(after) \in Nat
           /\ DOMAIN chan = 1..Len(chan) /\ DOMAIN after = 1..Len(after)
           /\ DOMAIN chan' = 1..(Len(chan) + d + Len(after))
           /\ \A i \in 1..Len(chan) : chan'[i] = chan[i]
           /\ \A i \in 1..d : chan'[Len(chan) + i] = Event(relayed + i)
           /\ \A i \in 1..Len(after) : chan'[Len(chan) + d + i] = after[i]
<1> DEFINE n == Len(log) + Len(rows)
<1>1. Len(log') = n /\ n \in Nat /\ relayed \in Nat /\ relayed <= n /\ after \in Seq(Aside)
      /\ Drain(n, after) /\ chan \in Seq(Frame)
  BY LogGrown DEF Sends, FeedInv, FeedTypes, TypeOK, ChannelInv
<1> HIDE DEF n
<1>2. PICK d \in Nat :
        /\ relayed + d <= n /\ relayed' \in relayed..(relayed + d)
        /\ chan' = Broadcast([i \in 1..d |-> Event(relayed + i)] \o after)
        /\ ~lagged' => ~lagged /\ relayed' = n /\ relayed + d = n
  BY <1>1, DrainSends
<1>3. /\ chan' \in Seq(Frame) /\ Len(chan) \in Nat /\ Len(after) \in Nat
      /\ DOMAIN chan = 1..Len(chan) /\ DOMAIN after = 1..Len(after)
      /\ DOMAIN chan' = 1..(Len(chan) + d + Len(after))
      /\ \A i \in 1..Len(chan) : chan'[i] = chan[i]
      /\ \A i \in 1..d : chan'[Len(chan) + i] = Event(relayed + i)
      /\ \A i \in 1..Len(after) : chan'[Len(chan) + d + i] = after[i]
  BY <1>1, <1>2, SentFrames
<1>4. /\ relayed + d <= Len(log') /\ relayed' \in relayed..(relayed + d)
      /\ ~lagged' => ~lagged /\ relayed' = Len(log') /\ relayed + d = Len(log')
  BY <1>1, <1>2
<1> QED
  BY <1>3, <1>4, Zenon

\* What is sent stands in order behind what is under way.
LEMMA ChannelSends ==
  ASSUME FeedInv, LogInv, LogInv', ChannelInv, NEW rows, NEW after, Sends(rows, after)
  PROVE  ChannelInv'
<1>1. /\ rows \in Seq(Row) /\ after \in Seq(Aside) /\ log' = log \o rows
      /\ UNCHANGED <<link, tab>> /\ phase' # "down" /\ relayed \in Nat
  BY DEF Sends, FeedInv, FeedTypes, TypeOK
<1>2. /\ Len(log) \in Nat /\ Len(log') = Len(log) + Len(rows) /\ Len(rows) \in Nat
      /\ DOMAIN log = 1..Len(log) /\ DOMAIN log' = 1..Len(log')
      /\ \A i \in 1..Len(log) : log'[i] = log[i]
      /\ \A s, n : n \in 0..Len(log) /\ Fits(log, s, n) => Fits(log', s, n)
  BY <1>1, LogGrown
<1>3. CASE link = "closed"
  <2>1. chan = <<>> /\ chan' = chan
    BY <1>3 DEF ChannelInv, Sends, Drain, Broadcast
  <2> QED
    BY <1>1, <1>3, <2>1 DEF ChannelInv
<1>4. CASE link # "closed"
  <2>1. PICK d \in Nat :
           /\ relayed + d <= Len(log') /\ relayed' \in relayed..(relayed + d)
           /\ ~lagged' => ~lagged /\ relayed' = Len(log') /\ relayed + d = Len(log')
           /\ chan' \in Seq(Frame) /\ Len(chan) \in Nat /\ Len(after) \in Nat
           /\ DOMAIN chan = 1..Len(chan) /\ DOMAIN after = 1..Len(after)
           /\ DOMAIN chan' = 1..(Len(chan) + d + Len(after))
           /\ \A i \in 1..Len(chan) : chan'[i] = chan[i]
           /\ \A i \in 1..d : chan'[Len(chan) + i] = Event(relayed + i)
           /\ \A i \in 1..Len(after) : chan'[Len(chan) + d + i] = after[i]
    BY <1>4, SendsFrames
  <2>2. /\ chan \in Seq(Frame) /\ tab \in ChatState /\ Base \in 0..Len(log) /\ Base \in Nat
        /\ EventsOK(log, Base, chan) /\ Covers(Base, chan, relayed)
        /\ link = "joining" => chan # <<>> /\ chan[1].kind = "snapshot"
        /\ link = "live" => Fits(log, tab, tab.through)
        /\ \A k \in DOMAIN chan : chan[k].kind = "snapshot" => link = "joining" /\ k = 1
        /\ phase = "down" => link = "closed"
    BY <1>2, <1>4 DEF ChannelInv
  <2>3. \A i \in 1..Len(after) : chan'[Len(chan) + d + i].kind \in {"state", "ask"}
    <3>1. \A i \in 1..Len(after) : after[i] \in Aside
      BY <1>1
    <3> QED
      BY <2>1, <3>1, FrameFields
  <2>4. \A i \in 1..d : relayed + i \in DOMAIN log' /\ log'[relayed + i] # Hidden
    <3>1. /\ \A i \in DOMAIN log' : i > Legacy => log'[i] # Hidden
          /\ Legacy <= relayed /\ Legacy \in Nat
      BY FeedAssumption DEF LogInv, Visible
    <3> SUFFICES ASSUME NEW i \in 1..d PROVE relayed + i \in DOMAIN log' /\ log'[relayed + i] # Hidden
      OBVIOUS
    <3>2. relayed + i \in 1..Len(log') /\ relayed + i > Legacy
      BY <1>1, <1>2, <2>1, <3>1
    <3> QED
      BY <1>2, <3>1, <3>2
  <2>5. /\ EventsOK(log', Base, chan') /\ Covers(Base, chan', relayed + d)
    <3>1. \A i \in 1..Len(after) : chan'[Len(chan) + d + i].kind # "event"
      BY <2>3
    <3>2. \A i \in DOMAIN log : i \in DOMAIN log' /\ log'[i] = log[i]
      BY <1>2
    <3> DEFINE e == Len(after)
               b == Base
    <3>3. /\ e \in Nat /\ DOMAIN chan' = 1..(Len(chan) + d + e)
          /\ \A i \in 1..e : chan'[Len(chan) + d + i].kind # "event"
          /\ b \in Nat /\ EventsOK(log, b, chan) /\ Covers(b, chan, relayed)
      BY <2>1, <2>2, <3>1
    <3>4. /\ chan \in Seq(Frame) /\ chan' \in Seq(Frame) /\ DOMAIN chan = 1..Len(chan)
          /\ Len(chan) \in Nat
          /\ \A i \in 1..Len(chan) : chan'[i] = chan[i]
          /\ \A i \in 1..d : chan'[Len(chan) + i] = Event(relayed + i)
      BY <2>1, <2>2
    <3> HIDE DEF e, b
    <3>5. EventsOK(log', b, chan') /\ Covers(b, chan', relayed + d)
      BY <1>1, <2>4, <3>2, <3>3, <3>4, SentInOrder
    <3> QED
      BY <3>5 DEF b
  <2>6. Covers(Base, chan', relayed')
    <3>1. (Base + 1)..relayed' \subseteq (Base + 1)..(relayed + d)
      BY <1>1, <2>1, <2>2
    <3> QED
      BY <2>5, <3>1 DEF Covers
  <2>7. link = "joining" => 1 \in 1..Len(chan) /\ chan'[1] = chan[1] /\ chan' # <<>>
    BY <2>1, <2>2
  <2>8. Base' = Base
    BY <1>1, <2>7 DEF Base
  <2>9. \A k \in DOMAIN chan' : chan'[k].kind = "snapshot" => link = "joining" /\ k = 1
    <3> SUFFICES ASSUME NEW k \in DOMAIN chan', chan'[k].kind = "snapshot"
                 PROVE  link = "joining" /\ k = 1
      OBVIOUS
    <3>1. CASE k \in 1..Len(chan)
      BY <2>1, <2>2, <3>1
    <3>2. CASE k - Len(chan) \in 1..d
      <4> DEFINE i == k - Len(chan)
      <4>1. i \in 1..d /\ k = Len(chan) + i
        BY <2>1, <3>2
      <4> HIDE DEF i
      <4>2. chan'[k] = Event(relayed + i)
        BY <2>1, <4>1
      <4>3. chan'[k].kind = "event"
        BY <4>2, FrameFields
      <4> QED
        BY <4>3
    <3>3. CASE k - Len(chan) - d \in 1..Len(after)
      <4> DEFINE i == k - Len(chan) - d
      <4>1. i \in 1..Len(after) /\ k = Len(chan) + d + i
        BY <2>1, <3>3
      <4> HIDE DEF i
      <4>2. chan'[k].kind \in {"state", "ask"}
        BY <2>3, <4>1
      <4> QED
        BY <4>2
    <3> QED
      BY <2>1, <3>1, <3>2, <3>3
  <2>10. link = "live" => Fits(log', tab, tab.through)
    <3>1. link = "live" => tab.through \in 0..Len(log)
      BY <2>2 DEF Base
    <3> QED
      BY <1>2, <2>2, <3>1
  <2>11. Base \in 0..Len(log')
    BY <1>2, <2>2
  <2>12. EventsOK(log, Base, chan)' /\ Covers(Base, chan, relayed)'
    BY <2>5, <2>6, <2>8 DEF EventsOK, Covers
  <2>13. (link = "live" => Fits(log, tab, tab.through))'
    BY <1>1, <2>10
  <2> QED
    BY <1>1, <1>4, <2>1, <2>2, <2>7, <2>8, <2>9, <2>11, <2>12, <2>13 DEF ChannelInv
<1> QED
  BY <1>3, <1>4

\* What the head of the frames does to the cards: a snapshot, an ask, a row that is
\* next, and what says nothing of a card.
TakesSnapshot ==
  /\ link = "joining" /\ chan[1].kind = "snapshot" /\ Base' = Base
  /\ tab'.cards \cup tab'.waiting \subseteq chan[1].asks
  /\ \A c \in chan[1].asks :
       tab'.tools[c].state = "approval-needed" /\ tab'.activity = tab'.tools[c].turn
         => c \in tab'.cards
TakesAsk(c) ==
  /\ link = "live" /\ chan[1] = AskFrame(c) /\ c \in Call /\ Base' = Base
  /\ tab.cards \subseteq tab'.cards
  /\ tab'.cards \cup tab'.waiting \subseteq tab.cards \cup tab.waiting \cup {c}
  /\ tab.tools[c].state = "approval-needed" /\ tab.activity = tab.tools[c].turn => c \in tab'.cards
TakesRow ==
  /\ link = "live" /\ chan[1] = Event(Base + 1) /\ Base' = Base + 1
  /\ Base + 1 \in DOMAIN log /\ CardStep(tab', tab, log[Base + 1])
TakesNothing ==
  /\ link = "live" /\ chan[1].kind \in {"state", "event"} /\ Base' = Base
  /\ tab'.cards = tab.cards /\ tab'.waiting = tab.waiting

\* A frame that arrives leaves a tab that fits the rows it then has.
LEMMA DeliverFields ==
  ASSUME FeedInv, CallInv, LogInv, ChannelInv, Deliver
  PROVE  /\ link # "closed" /\ chan # <<>> /\ chan' = Tail(chan) /\ link' = "live"
         /\ Fits(log, tab', tab'.through) /\ Base \in 0..Len(log)
         /\ Base' = tab'.through /\ Base' \in 0..Len(log) /\ Base <= Base'
         /\ \A m \in Nat : m > Base' => chan[1] # Event(m)
         /\ TakesSnapshot \/ TakesRow \/ TakesNothing \/ \E c \in Call : TakesAsk(c)
<1> DEFINE f == chan[1]
<1>1. /\ chan # <<>> /\ chan \in Seq(Frame) /\ chan' = Tail(chan) /\ Head(chan) = f
      /\ f \in Frame /\ 1 \in DOMAIN chan /\ link # "closed"
  <2>1. chan # <<>> /\ chan \in Seq(Frame) /\ chan' = Tail(chan) /\ link # "closed"
    BY DEF Deliver, Arrives, ChannelInv
  <2> QED
    BY <2>1, Rest
<1>2. /\ tab' = CASE f.kind = "event" -> ApplyEvent(tab, f.seq)
                  [] f.kind = "ask" -> ApplyAsks(tab, {f.call})
                  [] f.kind = "state" -> [tab EXCEPT !.active = f.active]
                  [] f.kind = "snapshot" -> ApplySnapshot(f)
      /\ link' = IF f.kind = "snapshot" THEN "live" ELSE link
      /\ log' = log
  BY <1>1 DEF Deliver
<1>3. /\ link \in {"joining", "live"} /\ Base \in 0..Len(log) /\ Len(log) \in Nat
      /\ EventsOK(log, Base, chan) /\ tab \in ChatState
      /\ link = "live" => Fits(log, tab, tab.through)
      /\ link = "joining" => f.kind = "snapshot"
      /\ f.kind = "snapshot" => link = "joining"
  BY <1>1 DEF ChannelInv, FeedInv, FeedTypes, TypeOK
<1>4. LogFacts(log)
  BY LogFactsHold
<1>5. f.kind \in {"event", "state", "ask", "snapshot"}
  BY <1>1, FrameFields
<1>6. CASE f.kind = "snapshot"
  <2>1. /\ f.upTo \in 0..Len(log) /\ f.active \in Turn \cup {None} /\ f.asks \subseteq Call
        /\ Base = f.upTo
    BY <1>1, <1>3, <1>6, FrameFields DEF Base
  <2>2. tab' = ApplySnapshot(f) /\ link' = "live"
    BY <1>2, <1>6
  <2> HIDE DEF f
  <2>3. /\ Fits(log, tab', f.upTo) /\ tab'.through = f.upTo
        /\ tab'.cards \cup tab'.waiting \subseteq f.asks
        /\ \A c \in f.asks :
             tab'.tools[c].state = "approval-needed" /\ tab'.activity = tab'.tools[c].turn
               => c \in tab'.cards
    BY <1>4, <2>1, <2>2, SnapshotFields
  <2>4. Base' = tab'.through
    BY <2>2 DEF Base
  <2>5. \A m : f # Event(m)
    BY <1>6, FrameFields
  <2>6. TakesSnapshot
    BY <1>3, <1>6, <2>1, <2>3, <2>4 DEF TakesSnapshot, f
  <2> QED
    BY <1>1, <1>3, <2>1, <2>2, <2>3, <2>4, <2>5, <2>6 DEF f
<1>7. ASSUME f.kind # "snapshot"
      PROVE  /\ link = "live" /\ link' = "live" /\ Base = tab.through /\ Base' = tab'.through
             /\ Fits(log, tab, tab.through) /\ tab.through \in Nat
  BY <1>2, <1>3, <1>7 DEF Base, ChatState
<1>8. CASE f.kind = "ask"
  <2>1. PICK c \in Call : f = AskFrame(c) /\ f.call = c
    BY <1>1, <1>8, FrameFields
  <2>2. tab' = ApplyAsks(tab, {c}) /\ {c} \subseteq Call
    BY <1>2, <1>8, <2>1
  <2>3. Fits(log, tab', tab.through)
    BY <1>7, <1>8, <2>2, AsksFit
  <2>4. /\ tab'.through = tab.through /\ tab.cards \subseteq tab'.cards
        /\ tab'.cards \cup tab'.waiting \subseteq tab.cards \cup tab.waiting \cup {c}
        /\ (/\ tab.tools[c].state = "approval-needed" /\ tab.activity = tab.tools[c].turn
            /\ c \notin tab.waiting /\ tab.answered \subseteq tab.cards)
             => c \in tab'.cards
    BY <1>3, <2>2, AsksFields DEF SameScreen
  <2>5. /\ tab.answered \subseteq tab.cards
        /\ c \in tab.waiting => tab.tools[c].state \in {None, "requested"}
    BY <1>7, <1>8 DEF Fits, CardsFit
  <2>6. TakesAsk(c)
    BY <1>7, <1>8, <2>1, <2>4, <2>5, StateAssumption DEF TakesAsk
  <2>7. \A m : f # Event(m)
    BY <1>8, FrameFields
  <2> QED
    BY <1>1, <1>3, <1>7, <1>8, <2>3, <2>4, <2>6, <2>7
<1>9. CASE f.kind = "state"
  <2>1. f.active \in Turn \cup {None}
    BY <1>1, <1>9, FrameFields
  <2>2. tab' = [tab EXCEPT !.active = f.active]
    BY <1>2, <1>9
  <2> HIDE DEF f
  <2>3. /\ tab' \in ChatState /\ tab'.held = tab.held /\ tab'.broken = tab.broken
        /\ tab'.tools = tab.tools /\ tab'.ended = tab.ended /\ SameContext(tab', tab)
        /\ tab'.activity = tab.activity /\ tab'.cards = tab.cards /\ tab'.waiting = tab.waiting
        /\ tab'.answered = tab.answered /\ tab'.through = tab.through
    BY <1>3, <2>1, <2>2 DEF ChatState, SameContext
  <2>4. tab.answered \subseteq tab.cards
    BY <1>7, <1>9 DEF Fits, CardsFit
  <2>5. Fits(log, tab', tab.through)
    BY <1>7, <1>9, <2>3, <2>4, SetFits
  <2>6. TakesNothing
    BY <1>7, <1>9, <2>3 DEF TakesNothing, f
  <2>7. \A m : f # Event(m)
    BY <1>9, FrameFields
  <2> QED
    BY <1>1, <1>3, <1>7, <1>9, <2>3, <2>5, <2>6, <2>7 DEF f
<1>10. CASE f.kind = "event"
  <2> DEFINE i == f.seq
             b == tab.through
  <2>1. /\ i \in DOMAIN log /\ log[i] # Hidden /\ i \in Nat /\ f = Event(i)
        /\ \A m \in (Base + 1)..(i - 1) : \E j \in 1..(1 - 1) : chan[j] = Event(m)
    BY <1>1, <1>3, <1>10, FrameFields DEF EventsOK
  <2>2. /\ Base = b /\ b \in Nat /\ Base' = tab'.through /\ Fits(log, tab, b)
        /\ link = "live" /\ link' = "live"
    BY <1>7, <1>10
  <2>3. tab' = ApplyEvent(tab, i)
    BY <1>2, <1>10
  <2> HIDE DEF i, b, f
  <2>4. i <= b + 1
    <3> SUFFICES ASSUME i > b + 1 PROVE FALSE
      BY <2>1, <2>2
    <3>1. b + 1 \in (Base + 1)..(i - 1)
      BY <2>1, <2>2
    <3>2. \E j \in 1..(1 - 1) : chan[j] = Event(b + 1)
      BY <2>1, <3>1
    <3> QED
      BY <3>2
  <2>5. /\ i <= b => tab' = tab
        /\ i = b + 1 => /\ Fits(log, tab', i) /\ tab'.through = i /\ CardStep(tab', tab, log[i])
    BY <1>4, <2>1, <2>2, <2>3, <2>4, EventFields DEF b
  <2>6. \A m \in Nat : m > i => f # Event(m)
    BY <2>1, FrameFields
  <2>7. CASE i <= b
    <3>1. TakesNothing
      BY <1>10, <2>2, <2>5, <2>7 DEF TakesNothing, f, b
    <3>2. \A m \in Nat : m > Base' => f # Event(m)
      BY <2>1, <2>2, <2>5, <2>6, <2>7 DEF b
    <3> QED
      BY <1>1, <1>3, <2>2, <2>5, <2>7, <3>1, <3>2 DEF f, b
  <2>8. CASE i = b + 1
    <3>1. Base' = i /\ Base + 1 = i
      BY <2>2, <2>5, <2>8
    <3>2. TakesRow
      BY <2>1, <2>2, <2>5, <2>8, <3>1 DEF TakesRow, f
    <3>3. Base' \in 0..Len(log) /\ Base <= Base'
      <4>1. DOMAIN log = 1..Len(log)
        BY <1>4 DEF LogFacts, LogAccepted
      <4> QED
        BY <1>3, <2>1, <2>2, <3>1, <4>1
    <3> QED
      BY <1>1, <1>3, <2>2, <2>5, <2>6, <2>8, <3>1, <3>2, <3>3 DEF f
  <2> QED
    BY <2>1, <2>2, <2>4, <2>7, <2>8
<1> QED
  BY <1>5, <1>6, <1>8, <1>9, <1>10

\* The frames behind it are in order still.
LEMMA ChannelDelivers ==
  ASSUME FeedInv, CallInv, LogInv, ChannelInv, Deliver PROVE ChannelInv'
<1>1. /\ link # "closed" /\ chan # <<>> /\ chan' = Tail(chan) /\ link' = "live"
      /\ Fits(log, tab', tab'.through) /\ Base \in 0..Len(log)
      /\ Base' = tab'.through /\ Base' \in 0..Len(log) /\ Base <= Base'
      /\ \A m \in Nat : m > Base' => chan[1] # Event(m)
  BY DeliverFields
<1>2. /\ chan \in Seq(Frame) /\ EventsOK(log, Base, chan) /\ Covers(Base, chan, relayed)
      /\ \A k \in DOMAIN chan : chan[k].kind = "snapshot" => link = "joining" /\ k = 1
      /\ relayed \in Nat /\ Len(log) \in Nat /\ phase # "down"
  BY <1>1 DEF ChannelInv, FeedInv, FeedTypes, TypeOK
<1>3. /\ Tail(chan) \in Seq(Frame)
      /\ \A k \in DOMAIN Tail(chan) : k \in Nat \ {0} /\ k + 1 \in DOMAIN chan
                                      /\ Tail(chan)[k] = chan[k + 1]
  BY <1>1, <1>2, Rest
<1>4. EventsOK(log, Base', Tail(chan)) /\ Covers(Base', Tail(chan), relayed)
  <2> DEFINE b == Base
             b2 == Base'
  <2>1. b \in Nat /\ b2 \in Nat /\ b <= b2 /\ \A m \in Nat : m > b2 => chan[1] # Event(m)
    BY <1>1, <1>2
  <2>2. EventsOK(log, b, chan) /\ Covers(b, chan, relayed)
    BY <1>2
  <2> HIDE DEF b, b2
  <2>3. EventsOK(log, b2, Tail(chan)) /\ Covers(b2, Tail(chan), relayed)
    BY <1>1, <1>2, <2>1, <2>2, RestInOrder
  <2> QED
    BY <2>3 DEF b2
<1>5. UNCHANGED <<log, relayed, phase>>
  BY DEF Deliver, serverVars
<1>6. \A k \in DOMAIN chan' : chan'[k].kind # "snapshot"
  BY <1>1, <1>2, <1>3
<1>7. EventsOK(log, Base, chan)' /\ Covers(Base, chan, relayed)'
  BY <1>1, <1>4, <1>5 DEF EventsOK, Covers
<1>8. (Fits(log, tab, tab.through))'
  BY <1>1, <1>5
<1>9. tab' \in ChatState
  BY <1>1 DEF Fits
<1> QED
  BY <1>1, <1>2, <1>3, <1>5, <1>6, <1>7, <1>8, <1>9 DEF ChannelInv

\* Every step leaves the frames in order, and the tab fit.
LEMMA ChannelInductive ==
  FeedInv /\ CallInv /\ LogInv /\ LogInv' /\ ChannelInv /\ [Next]_vars => ChannelInv'
<1> SUFFICES ASSUME FeedInv, CallInv, LogInv, LogInv', ChannelInv, [Next]_vars PROVE ChannelInv'
  OBVIOUS
<1>1. /\ TypeOK /\ ServerOK /\ Len(log) \in Nat /\ log \in Seq(Row) /\ relayed \in 0..Len(log)
  BY DEF FeedInv, FeedTypes, TypeOK
<1>2. CASE Sending
  BY <1>2, ChannelSends DEF Sending
<1>3. CASE Unseen
  <2>1. UNCHANGED <<log, relayed, chan, link, tab>> /\ (phase' = "down" => phase = "down")
    BY <1>3 DEF Unseen
  <2>2. Base' = Base
    BY <2>1 DEF Base
  <2>3. (Fits(log, tab, tab.through))' <=> Fits(log, tab, tab.through)
    BY <2>1
  <2>4. EventsOK(log, Base, chan)' <=> EventsOK(log, Base, chan)
    BY <2>1, <2>2 DEF EventsOK
  <2>5. Covers(Base, chan, relayed)' <=> Covers(Base, chan, relayed)
    BY <2>1, <2>2 DEF Covers
  <2>6. /\ chan' \in Seq(Frame) /\ tab' \in ChatState
        /\ link' = "closed" => chan' = <<>>
        /\ phase' = "down" => link' = "closed"
        /\ link' = "joining" => chan' # <<>> /\ chan'[1].kind = "snapshot"
        /\ \A k \in DOMAIN chan' : chan'[k].kind = "snapshot" => link' = "joining" /\ k = 1
    BY <2>1 DEF ChannelInv
  <2>7. (link = "live" => Fits(log, tab, tab.through))'
    BY <2>1, <2>3 DEF ChannelInv
  <2>8. link' # "closed" => /\ Base' \in 0..Len(log')
                            /\ EventsOK(log, Base, chan)' /\ Covers(Base, chan, relayed)'
    BY <2>1, <2>2, <2>4, <2>5 DEF ChannelInv
  <2> QED
    BY <2>6, <2>7, <2>8 DEF ChannelInv
<1>4. CASE StopServer \/ Drop
  <2>1. /\ link' = "closed" /\ chan' = <<>> /\ tab' = tab /\ DOMAIN <<>> = {}
    BY <1>4 DEF StopServer, Drop
  <2>2. tab \in ChatState
    BY DEF ChannelInv
  <2> QED
    BY <2>1, <2>2 DEF ChannelInv
<1>5. CASE Boot
  <2>1. link = "closed" /\ UNCHANGED <<chan, link, tab>> /\ phase' = "idle"
    BY <1>5 DEF Boot, ChannelInv
  <2> QED
    BY <2>1 DEF ChannelInv
<1>6. CASE Connect
  <2> DEFINE f == [kind |-> "snapshot", upTo |-> Len(log), active |-> ActiveTurn,
                   asks |-> {c \in Call : asks[c]}]
  <2>1. /\ chan' = <<f>> /\ link' = "joining" /\ phase # "down" /\ tab' = tab
        /\ UNCHANGED <<log, relayed, phase>>
    BY <1>6 DEF Connect, HighWater, InTask, serverVars
  <2>2. ActiveTurn \in Turn \cup {None} /\ {c \in Call : asks[c]} \subseteq Call
    BY <1>1 DEF ActiveTurn, TypeOK
  <2>3. f \in Snapshot /\ f.kind = "snapshot" /\ f.upTo = Len(log)
    BY <1>1, <2>2 DEF Snapshot
  <2> HIDE DEF f
  <2>4. f \in Frame
    BY <2>3 DEF Frame
  <2>5. /\ chan' \in Seq(Frame) /\ chan' # <<>> /\ chan'[1] = f /\ DOMAIN chan' = {1}
    BY <2>1, <2>4
  <2>6. Base' = Len(log)
    BY <2>1, <2>3, <2>5 DEF Base
  <2>7. EventsOK(log', Base', chan')
    BY <2>3, <2>5 DEF EventsOK
  <2>8. (Base' + 1)..relayed' = {}
    BY <1>1, <2>1, <2>6
  <2>9. Covers(Base', chan', relayed')
    BY <2>8 DEF Covers
  <2>10. Base' \in 0..Len(log')
    BY <1>1, <2>1, <2>6
  <2>11. EventsOK(log, Base, chan)' /\ Covers(Base, chan, relayed)'
    BY <2>7, <2>9 DEF EventsOK, Covers
  <2> QED
    BY <2>1, <2>3, <2>5, <2>10, <2>11 DEF ChannelInv
<1>7. CASE Deliver
  BY <1>7, ChannelDelivers
<1>8. CASE \E c \in Call, allow \in BOOLEAN : Answer(c, allow)
  <2>1. PICK c \in Call : /\ link = "live" /\ c \in tab.cards
                          /\ tab' = [tab EXCEPT !.answered = @ \cup {c}]
                          /\ UNCHANGED <<log, chan, relayed, phase, link>>
    BY <1>8 DEF Answer, storeVars, serverVars
  <2>2. tab \in ChatState /\ Fits(log, tab, tab.through) /\ tab.through \in Nat
    BY <2>1 DEF ChannelInv, ChatState
  <2>3. /\ tab' \in ChatState /\ tab'.held = tab.held /\ tab'.broken = tab.broken
        /\ tab'.tools = tab.tools /\ tab'.ended = tab.ended /\ SameContext(tab', tab)
        /\ tab'.activity = tab.activity /\ tab'.cards = tab.cards /\ tab'.waiting = tab.waiting
        /\ tab'.answered = tab.answered \cup {c} /\ tab'.through = tab.through
    BY <2>1, <2>2 DEF ChatState, SameContext
  <2>4. tab'.answered \subseteq tab'.cards
    BY <2>1, <2>2, <2>3 DEF Fits, CardsFit
  <2>5. Fits(log, tab', tab.through)
    BY <2>2, <2>3, <2>4, SetFits
  <2>6. Base' = Base
    BY <2>1, <2>3 DEF Base
  <2>7. (Fits(log, tab, tab.through))'
    BY <2>1, <2>3, <2>5
  <2> QED
    BY <2>1, <2>3, <2>6, <2>7 DEF ChannelInv, EventsOK, Covers
<1> QED
  BY <1>2, <1>3, <1>4, <1>5, <1>6, <1>7, <1>8, Steps

\* So they are in every state.
LEMMA ChannelInvariant == Spec => []ChannelInv
<1>1. Init => ChannelInv
  BY ChannelInitial
<1>2. FeedInv /\ CallInv /\ LogInv /\ LogInv' /\ ChannelInv /\ [Next]_vars => ChannelInv'
  BY ChannelInductive
<1> QED
  BY <1>1, <1>2, FeedInvariant, CallInvariant, LogInvariant, PTL DEF Spec

\* The state the code looks up is that of the last of the first rows.
LEMMA StateAtIsShown ==
  ASSUME log \in Seq(Row), NEW s, NEW n \in 0..Len(log), Shows(log, s, n), NEW c \in Call
  PROVE  s.tools[c] = StateAt(c, n)
<1> DEFINE L == SubSeq(log, 1, n)
<1>1. Len(log) \in Nat /\ DOMAIN log = 1..Len(log) /\ n \in Nat
  OBVIOUS
<1>2. L \in Seq(Row) /\ DOMAIN L = 1..n /\ \A i \in 1..n : L[i] = log[i]
  BY <1>1
<1>3. StateAt(c, n) = IF LastIn(L, c) = 0 THEN NoTool
                      ELSE [state |-> log[LastIn(L, c)].state, turn |-> log[LastIn(L, c)].turn]
  BY DEF StateAt, LastIn
<1> HIDE DEF L
<1>4. /\ LastIn(L, c) # 0 => LastIn(L, c) \in DOMAIN L /\ L[LastIn(L, c)].call = c
                             /\ LastRow(L, LastIn(L, c))
      /\ \A k \in DOMAIN L : L[k].call = c /\ LastRow(L, k) => LastIn(L, c) = k
  BY <1>2, LastInIsLastRow
<1>5. \A k \in 1..n : L[k].call = c => (LastRow(L, k) <=> LastUpTo(log, c, n, k))
  <2> SUFFICES ASSUME NEW k \in 1..n, L[k].call = c PROVE LastRow(L, k) <=> LastUpTo(log, c, n, k)
    OBVIOUS
  <2>1. \A j \in (k + 1)..n : j \in 1..n /\ j > k
    OBVIOUS
  <2>2. \A j \in 1..n : j > k => j \in (k + 1)..n
    OBVIOUS
  <2> QED
    BY <1>2, <2>1, <2>2 DEF LastRow, LastUpTo
<1>6. CASE LastIn(L, c) # 0
  <2> DEFINE k == LastIn(L, c)
  <2>1. k \in 1..n /\ LastUpTo(log, c, n, k)
    BY <1>2, <1>4, <1>5, <1>6
  <2> HIDE DEF k
  <2>2. s.tools[c] = [state |-> log[k].state, turn |-> log[k].turn]
    BY <2>1 DEF Shows
  <2> QED
    BY <1>3, <1>6, <2>2 DEF k
<1>7. CASE LastIn(L, c) = 0
  <2>1. ASSUME NEW k \in 1..n, LastUpTo(log, c, n, k) PROVE FALSE
    <3>1. L[k].call = c /\ k # 0
      BY <1>2, <2>1 DEF LastUpTo
    <3>2. LastIn(L, c) = k
      BY <1>2, <1>4, <1>5, <2>1, <3>1
    <3> QED
      BY <1>7, <3>1, <3>2
  <2>2. \A i \in 1..n : log[i].call # c
    BY <1>1, <2>1, LastUpToExists
  <2>3. s.tools[c] = NoTool
    BY <2>2 DEF Shows
  <2> QED
    BY <1>3, <1>7, <2>3
<1> QED
  BY <1>6, <1>7

\* The frames a tab received, in whatever order sockets were lost, drains failed and
\* snapshots raced the relay, leave it with the calls and the ended turns of a prefix
\* of the log, nothing held back and nothing in conflict.
THEOREM ScreensFollowTheLog == Spec => []ScreenFollowsTheLog
<1>1. FeedInv /\ ChannelInv => ScreenFollowsTheLog
  <2> SUFFICES ASSUME FeedInv, ChannelInv, link = "live"
               PROVE  /\ tab.through <= Len(log) /\ tab.held = {} /\ ~tab.broken
                      /\ \A c \in Call : tab.tools[c] = StateAt(c, tab.through)
                      /\ tab.ended = EndedAt(tab.through)
    BY DEF ScreenFollowsTheLog
  <2>1. /\ tab \in ChatState /\ Shows(log, tab, tab.through) /\ tab.through \in 0..Len(log)
        /\ log \in Seq(Row)
    BY DEF ChannelInv, Fits, Base, FeedInv, FeedTypes
  <2>2. \A c \in Call : tab.tools[c] = StateAt(c, tab.through)
    BY <2>1, StateAtIsShown
  <2>3. tab.ended \subseteq AnyTurn
    BY <2>1 DEF ChatState
  <2>4. tab.ended = EndedAt(tab.through)
    BY <2>1, <2>3 DEF Shows, EndedAt
  <2> QED
    BY <2>1, <2>2, <2>4 DEF Shows
<1> QED
  BY <1>1, FeedInvariant, ChannelInvariant, PTL

\* The projector gives the context up only where the log itself shows an unsolicited
\* turn amid another: never for a row it lost, took twice or took out of order.
THEOREM ContextConflictsAreOverlaps == Spec => []ContextConflictNeedsAnOverlap
<1>1. ChannelInv => ContextConflictNeedsAnOverlap
  BY DEF ChannelInv, Fits, Projects, Overlap, ContextConflictNeedsAnOverlap
<1> QED
  BY <1>1, ChannelInvariant, PTL

-----------------------------------------------------------------------------
(***************************************************************************)
(* The cards.                                                              *)
(***************************************************************************)
\* Call c asks at row p, and up to row n nothing disturbs the ask.
AskRow(L, c, p) == p \in DOMAIN L /\ L[p].call = c /\ L[p].state = "approval-needed"
AsksUpTo(L, c, p, n) ==
  /\ AskRow(L, c, p) /\ p <= n
  /\ \A q \in (p + 1)..n : Quiet(L[q], L[p].turn) /\ L[q].call # c

\* An ask that was made is cleared by a row behind row b.
Cleared(L, b, c) ==
  \E p, m \in DOMAIN L : AskRow(L, c, p) /\ m > p /\ m > b /\ Clears(L[m], c)

\* The ask frames of C stand behind row b, and behind no row that follows the ask.
AsksInOrder(L, b, C) ==
  \A k \in DOMAIN C : C[k].kind = "ask" =>
    \E p : /\ AskRow(L, C[k].call, p) /\ b <= p
           /\ \A j \in 1..(k - 1) : C[j].kind = "event" => C[j].seq <= p

\* The card of c is under way, behind the rows up to its ask.
CardComes(L, b, C, c) ==
  \E k \in DOMAIN C, p \in DOMAIN L :
    /\ C[k] = AskFrame(c) /\ AskRow(L, c, p)
    /\ \A m \in (b + 1)..p : \E j \in 1..(k - 1) : C[j] = Event(m)

\* Where the card of a call can be.
AskUnderWay(c) == \E k \in DOMAIN chan : chan[k] = AskFrame(c)
InSnapshot(c) == link = "joining" /\ c \in chan[1].asks
OnScreen(c) == link = "live" /\ c \in tab.cards \cup tab.waiting

\* An ask that waits was made by the open turn, which did nothing else since.
AsksOK ==
  \A c \in Call : asks[c] =>
    open # None /\ \E p : AsksUpTo(log, c, p, Len(log)) /\ log[p].turn = open

\* The asks of a snapshot waited at its high water.
SnapshotOK ==
  link = "joining" => \A c \in chan[1].asks : \E p : AsksUpTo(log, c, p, chan[1].upTo)

\* A card that is shown, or may yet be, has an ask that waits or a row ahead that
\* takes it away.
PendingOK ==
  link # "closed" => \A c \in Call :
    AskUnderWay(c) \/ InSnapshot(c) \/ OnScreen(c) => asks[c] \/ Cleared(log, Base, c)

\* Unless a drain failed, an ask that waits has its card, or will.
CardsShown ==
  ~lagged =>
    /\ relayed = Len(log)
    /\ link # "closed" => \A c \in Call : asks[c] =>
         \/ InSnapshot(c) \/ CardComes(log, Base, chan, c)
         \/ link = "live" /\ c \in tab.cards

\* What the cards stand on.
CardsInv ==
  /\ AsksOK /\ SnapshotOK /\ PendingOK /\ CardsShown
  /\ link # "closed" => AsksInOrder(log, Base, chan)

\* A call asks once.
LEMMA AsksOnce ==
  ASSUME NEW L, LogAccepted(L), NEW c \in Call, NEW p, NEW q, AskRow(L, c, p),
         q \in DOMAIN L, L[q].call = c, L[q].state \in {"requested", "approval-needed"}
  PROVE  q <= p
<1>1. L \in Seq(Row) /\ LegalRows(L) /\ ToolStates(L) /\ DOMAIN L \subseteq Nat
  BY DEF LogAccepted
<1>2. p \in DOMAIN L /\ L[p].call = c /\ L[p].state = "approval-needed"
  BY DEF AskRow
<1> SUFFICES ASSUME q > p PROVE FALSE
  BY <1>1, <1>2
<1>3. p \in 1..(q - 1)
  BY <1>1, <1>2
<1>4. Rank(L[p].state) < Rank(L[q].state)
  BY <1>1, <1>2, <1>3, CallsRise
<1>5. Rank("approval-needed") = 2 /\ Rank("requested") = 1
  BY DEF Rank
<1> QED
  BY <1>2, <1>4, <1>5

\* So the row of an ask is one.
LEMMA OneAskRow ==
  ASSUME NEW L, LogAccepted(L), NEW c \in Call, NEW p, NEW q, AskRow(L, c, p), AskRow(L, c, q)
  PROVE  p = q
<1>1. DOMAIN L \subseteq Nat /\ p \in DOMAIN L /\ q \in DOMAIN L
  BY DEF LogAccepted, AskRow
<1>2. q <= p
  BY AsksOnce DEF AskRow
<1>3. p <= q
  BY AsksOnce DEF AskRow
<1> QED
  BY <1>1, <1>2, <1>3

\* A tab that has the row of an undisturbed ask shows the call waiting, and its
\* turn at work.
LEMMA AskIsCurrent ==
  ASSUME NEW L, LogAccepted(L), NEW c \in Call, NEW p, NEW b \in 0..Len(L), NEW s,
         Fits(L, s, b), AsksUpTo(L, c, p, b)
  PROVE  s.tools[c].state = "approval-needed" /\ s.activity = s.tools[c].turn
<1>1. /\ L \in Seq(Row) /\ FormedRows(L) /\ DOMAIN L = 1..Len(L) /\ Len(L) \in Nat
      /\ None \notin Call
  BY FeedAssumption DEF LogAccepted
<1>2. p \in 1..b /\ p \in DOMAIN L /\ L[p].call = c /\ L[p].state = "approval-needed"
  BY <1>1 DEF AsksUpTo, AskRow
<1>3. LastUpTo(L, c, b, p)
  BY <1>2 DEF AsksUpTo, LastUpTo
<1>4. s.tools[c] = [state |-> L[p].state, turn |-> L[p].turn]
  BY <1>2, <1>3 DEF Fits, Shows
<1>5. L[p].kind = "tool"
  BY <1>1, <1>2 DEF FormedRows, Formed, Plain
<1>6. s.activity = L[p].turn
  BY <1>2, <1>5 DEF Fits, CardsFit, AsksUpTo
<1> QED
  BY <1>2, <1>4, <1>6

\* A card that is live has the row of its ask.
LEMMA CardHasRow ==
  ASSUME NEW L, LogAccepted(L), NEW c \in Call, NEW b \in 0..Len(L), NEW s,
         Fits(L, s, b), c \in s.cards
  PROVE  \E p \in 1..b : AskRow(L, c, p)
<1>1. L \in Seq(Row) /\ DOMAIN L = 1..Len(L) /\ Len(L) \in Nat
  BY DEF LogAccepted
<1>2. s.tools[c].state = "approval-needed"
  BY DEF Fits, CardsFit
<1>3. CASE \A i \in 1..b : L[i].call # c
  BY <1>2, <1>3, StateAssumption DEF Fits, Shows, NoTool
<1>4. ASSUME NEW k \in 1..b, LastUpTo(L, c, b, k) PROVE AskRow(L, c, k)
  <2>1. s.tools[c] = [state |-> L[k].state, turn |-> L[k].turn]
    BY <1>4 DEF Fits, Shows
  <2> QED
    BY <1>1, <1>2, <1>4, <2>1 DEF LastUpTo, AskRow
<1>5. b \in Nat
  BY <1>1
<1>6. (\A i \in 1..b : L[i].call # c) \/ \E k \in 1..b : LastUpTo(L, c, b, k)
  BY <1>5, LastUpToExists
<1> QED
  BY <1>3, <1>4, <1>6

\* A row that leaves an ask undisturbed takes no card away.
LEMMA QuietClearsNot ==
  ASSUME NEW e, NEW t, NEW c, Quiet(e, t), e.call # c PROVE ~Clears(e, c)
  BY DEF Quiet, Clears

\* An ask stays undisturbed while the log grows by quiet rows of other calls.
LEMMA AskStays ==
  ASSUME NEW L \in Seq(Row), NEW L2 \in Seq(Row), NEW c, NEW p, AsksUpTo(L, c, p, Len(L)),
         Len(L2) >= Len(L), \A i \in DOMAIN L : L2[i] = L[i],
         \A i \in (Len(L) + 1)..Len(L2) : Quiet(L2[i], L[p].turn) /\ L2[i].call # c
  PROVE  AsksUpTo(L2, c, p, Len(L2)) /\ L2[p].turn = L[p].turn
<1>1. /\ Len(L) \in Nat /\ Len(L2) \in Nat /\ DOMAIN L = 1..Len(L) /\ DOMAIN L2 = 1..Len(L2)
      /\ p \in DOMAIN L /\ AskRow(L, c, p)
  BY DEF AsksUpTo, AskRow
<1>2. p \in DOMAIN L2 /\ L2[p] = L[p] /\ p <= Len(L2)
  BY <1>1
<1>3. \A q \in (p + 1)..Len(L2) : Quiet(L2[q], L[p].turn) /\ L2[q].call # c
  <2> SUFFICES ASSUME NEW q \in (p + 1)..Len(L2)
               PROVE  Quiet(L2[q], L[p].turn) /\ L2[q].call # c
    OBVIOUS
  <2>1. CASE q <= Len(L)
    <3>1. q \in (p + 1)..Len(L) /\ q \in DOMAIN L
      BY <1>1, <2>1
    <3> QED
      BY <3>1 DEF AsksUpTo
  <2>2. CASE q > Len(L)
    <3>1. q \in (Len(L) + 1)..Len(L2)
      BY <1>1, <2>2
    <3> QED
      BY <3>1
  <2> QED
    BY <1>1, <2>1, <2>2
<1> QED
  BY <1>1, <1>2, <1>3 DEF AsksUpTo, AskRow

\* What was cleared stays so.
LEMMA ClearedStays ==
  ASSUME NEW L \in Seq(Row), NEW L2 \in Seq(Row), Len(L2) >= Len(L),
         \A i \in DOMAIN L : L2[i] = L[i], NEW b, NEW c, Cleared(L, b, c)
  PROVE  Cleared(L2, b, c)
<1>1. DOMAIN L \subseteq DOMAIN L2
  OBVIOUS
<1> QED
  BY <1>1 DEF Cleared, AskRow

\* What a step that sends does to the rows behind the log, and to the asks.
LEMMA SentRows ==
  ASSUME FeedInv, NEW rows, NEW after, Sends(rows, after)
  PROVE  /\ log \in Seq(Row) /\ log' \in Seq(Row) /\ Len(log) \in Nat
         /\ Len(log') = Len(log) + Len(rows) /\ Len(rows) \in Nat /\ Len(log') >= Len(log)
         /\ DOMAIN log = 1..Len(log) /\ DOMAIN log' = 1..Len(log') /\ DOMAIN rows = 1..Len(rows)
         /\ \A i \in DOMAIN log : log'[i] = log[i] /\ i \in DOMAIN log'
         /\ \A i \in DOMAIN rows : log'[Len(log) + i] = rows[i] /\ Len(log) + i \in DOMAIN log'
         /\ \A i \in (Len(log) + 1)..Len(log') : \E j \in DOMAIN rows : log'[i] = rows[j]
         /\ link' = link /\ tab' = tab
         /\ ~lagged' => ~lagged /\ relayed' = Len(log')
<1>1. /\ rows \in Seq(Row) /\ after \in Seq(Aside) /\ log' = log \o rows /\ log \in Seq(Row)
      /\ UNCHANGED <<link, tab>> /\ relayed \in 0..Len(log) /\ Drain(Len(log) + Len(rows), after)
  BY DEF Sends, FeedInv, FeedTypes, TypeOK
<1>2. /\ log' \in Seq(Row) /\ Len(log) \in Nat /\ Len(log') = Len(log) + Len(rows) /\ Len(rows) \in Nat
      /\ DOMAIN log = 1..Len(log) /\ DOMAIN log' = 1..Len(log') /\ DOMAIN rows = 1..Len(rows)
      /\ \A i \in 1..Len(log) : log'[i] = log[i]
      /\ \A i \in DOMAIN rows : log'[Len(log) + i] = rows[i]
  BY <1>1, LogGrown
<1>3. ASSUME NEW i \in (Len(log) + 1)..Len(log') PROVE \E j \in DOMAIN rows : log'[i] = rows[j]
  <2> DEFINE j == i - Len(log)
  <2>1. j \in DOMAIN rows /\ Len(log) + j = i
    BY <1>2
  <2> HIDE DEF j
  <2> QED
    BY <1>2, <2>1
<1>4. ~lagged' => ~lagged /\ relayed' = Len(log')
  <2> DEFINE n == Len(log) + Len(rows)
  <2>1. n \in Nat /\ relayed \in Nat /\ relayed <= n /\ Drain(n, after) /\ n = Len(log')
    BY <1>1, <1>2
  <2> HIDE DEF n
  <2> QED
    BY <1>1, <2>1, DrainSends
<1>5. /\ \A i \in DOMAIN log : i \in DOMAIN log' /\ log'[i] = log[i]
      /\ \A i \in DOMAIN rows : Len(log) + i \in DOMAIN log' /\ Len(log') >= Len(log)
      /\ Len(log') >= Len(log)
  BY <1>2
<1> QED
  BY <1>1, <1>2, <1>3, <1>4, <1>5

\* An ask that waits after a step that sends was made by it, or waited before and
\* minds none of its rows.
LEMMA WaitingAfter ==
  ASSUME FeedInv, NEW rows, NEW after, Sends(rows, after),
         NotAsking(rows, after) \/ \E d : Asking(rows, after, d), NEW c \in Call, asks'[c]
  PROVE  /\ open' = open
         /\ \/ /\ asks[c]
               /\ \A i \in (Len(log) + 1)..Len(log') : Quiet(log'[i], open) /\ log'[i].call # c
            \/ /\ Asking(rows, after, c) /\ open # None
               /\ AskRow(log', c, Len(log')) /\ log'[Len(log')].turn = open
<1>1. /\ Len(log') = Len(log) + Len(rows) /\ Len(log) \in Nat
      /\ \A i \in DOMAIN rows : log'[Len(log) + i] = rows[i] /\ Len(log) + i \in DOMAIN log'
      /\ \A i \in (Len(log) + 1)..Len(log') : \E j \in DOMAIN rows : log'[i] = rows[j]
      /\ asks \in [Call -> BOOLEAN]
  BY SentRows DEF FeedInv, FeedTypes, TypeOK
<1>2. CASE NotAsking(rows, after)
  BY <1>1, <1>2 DEF NotAsking
<1>3. ASSUME NEW d, Asking(rows, after, d)
      PROVE  /\ open' = open
             /\ \/ /\ asks[c]
                   /\ \A i \in (Len(log) + 1)..Len(log') :
                        Quiet(log'[i], open) /\ log'[i].call # c
                \/ /\ Asking(rows, after, c) /\ open # None
                   /\ AskRow(log', c, Len(log')) /\ log'[Len(log')].turn = open
  <2>1. /\ rows = <<Tool(open, d, "requested"), Tool(open, d, "approval-needed")>>
        /\ open' = open /\ asks' = [asks EXCEPT ![d] = TRUE] /\ d \in Call /\ open \in AnyTurn
    BY <1>3 DEF Asking
  <2>2. DOMAIN rows = {1, 2} /\ Len(rows) = 2 /\ rows[2] = Tool(open, d, "approval-needed")
        /\ rows[1] = Tool(open, d, "requested")
    BY <2>1
  <2>3. /\ Tool(open, d, "requested").kind = "tool" /\ Tool(open, d, "requested").turn = open
        /\ Tool(open, d, "requested").call = d
        /\ Tool(open, d, "approval-needed").kind = "tool"
        /\ Tool(open, d, "approval-needed").turn = open /\ Tool(open, d, "approval-needed").call = d
        /\ Tool(open, d, "approval-needed").state = "approval-needed"
    BY DEF Tool
  <2>4. CASE c = d
    <3>1. log'[Len(log')] = rows[2] /\ Len(log') \in DOMAIN log'
      BY <1>1, <2>2
    <3>2. open # None
      BY <2>1, FeedAssumption DEF AnyTurn
    <3> QED
      BY <1>3, <2>1, <2>2, <2>3, <2>4, <3>1, <3>2 DEF AskRow
  <2>5. CASE c # d
    <3>1. asks[c]
      BY <1>1, <2>1, <2>5
    <3>2. \A j \in DOMAIN rows : rows[j].kind = "tool" /\ rows[j].turn = open /\ rows[j].call = d
      BY <2>2, <2>3
    <3>3. \A i \in (Len(log) + 1)..Len(log') : Quiet(log'[i], open) /\ log'[i].call # c
      BY <1>1, <2>5, <3>2 DEF Quiet
    <3> QED
      BY <2>1, <3>1, <3>3
  <2> QED
    BY <2>4, <2>5
<1> QED
  BY <1>2, <1>3

\* An ask that waited and waits no more has a row that clears it.
LEMMA DecidedAfter ==
  ASSUME FeedInv, AsksOK, NEW rows, NEW after, Sends(rows, after),
         NotAsking(rows, after) \/ \E d : Asking(rows, after, d), NEW c \in Call, asks[c], ~asks'[c],
         NEW b \in 0..Len(log)
  PROVE  Cleared(log', b, c)
<1>1. /\ log \in Seq(Row) /\ Len(log) \in Nat /\ DOMAIN log = 1..Len(log)
      /\ \A i \in DOMAIN rows : log'[Len(log) + i] = rows[i] /\ Len(log) + i \in DOMAIN log'
      /\ \A i \in DOMAIN log : log'[i] = log[i] /\ i \in DOMAIN log'
      /\ DOMAIN rows \subseteq Nat \ {0}
      /\ asks \in [Call -> BOOLEAN]
  <2>1. /\ log \in Seq(Row) /\ Len(log) \in Nat /\ DOMAIN log = 1..Len(log)
        /\ \A i \in DOMAIN rows : log'[Len(log) + i] = rows[i] /\ Len(log) + i \in DOMAIN log'
        /\ \A i \in DOMAIN log : log'[i] = log[i] /\ i \in DOMAIN log'
        /\ DOMAIN rows = 1..Len(rows) /\ Len(rows) \in Nat
        /\ asks \in [Call -> BOOLEAN]
    BY SentRows DEF FeedInv, FeedTypes, TypeOK
  <2> QED
    BY <2>1
<1>2. PICK p : AskRow(log, c, p) /\ p <= Len(log)
  BY DEF AsksOK, AsksUpTo
<1>3. NotAsking(rows, after)
  BY <1>1 DEF Asking
<1>4. PICK i \in DOMAIN rows : Clears(rows[i], c)
  BY <1>3 DEF NotAsking
<1> DEFINE m == Len(log) + i
<1>5. m \in DOMAIN log' /\ log'[m] = rows[i] /\ m > p /\ m > b
  BY <1>1, <1>2 DEF AskRow
<1>6. AskRow(log', c, p) /\ p \in DOMAIN log'
  BY <1>1, <1>2 DEF AskRow
<1> HIDE DEF m
<1> QED
  BY <1>4, <1>5, <1>6 DEF Cleared

\* What a step that sends leaves as it is, and where it puts a card.
LEMMA SentCards ==
  ASSUME FeedInv, ChannelInv, ChannelInv', link # "closed", NEW rows, NEW after, Sends(rows, after),
         NotAsking(rows, after) \/ \E d : Asking(rows, after, d)
  PROVE  /\ Base' = Base /\ chan' \in Seq(Frame)
         /\ link = "joining" => chan'[1] = chan[1]
         /\ \A k \in DOMAIN chan : k \in DOMAIN chan' /\ k \in Nat /\ \A j \in 1..k : chan'[j] = chan[j]
         /\ \A k \in DOMAIN chan' : chan'[k].kind = "ask" =>
              \/ k \in DOMAIN chan
              \/ /\ chan'[k] = AskFrame(chan'[k].call) /\ Asking(rows, after, chan'[k].call)
                 /\ DOMAIN chan' = 1..k
         /\ \A c : Asking(rows, after, c) => \E k \in DOMAIN chan' : chan'[k] = AskFrame(c)
                                                                   /\ DOMAIN chan' = 1..k
<1>1. PICK d \in Nat :
           /\ chan' \in Seq(Frame) /\ Len(chan) \in Nat /\ Len(after) \in Nat
           /\ DOMAIN chan = 1..Len(chan) /\ DOMAIN after = 1..Len(after)
           /\ DOMAIN chan' = 1..(Len(chan) + d + Len(after))
           /\ \A i \in 1..Len(chan) : chan'[i] = chan[i]
           /\ \A i \in 1..d : chan'[Len(chan) + i] = Event(relayed + i)
           /\ \A i \in 1..Len(after) : chan'[Len(chan) + d + i] = after[i]
  BY SendsFrames
<1>2. /\ link = "joining" => chan # <<>> /\ chan \in Seq(Frame)
      /\ UNCHANGED <<link, tab>>
  BY DEF ChannelInv, Sends
<1>3. link = "joining" => 1 \in 1..Len(chan) /\ chan'[1] = chan[1]
  BY <1>1, <1>2
<1>4. Base' = Base
  BY <1>2, <1>3 DEF Base
<1>5. \A k \in DOMAIN chan : k \in DOMAIN chan' /\ k \in Nat /\ \A j \in 1..k : chan'[j] = chan[j]
  BY <1>1
<1>6. ASSUME NEW c, Asking(rows, after, c)
      PROVE  after = <<AskFrame(c)>> /\ Len(after) = 1 /\ after[1] = AskFrame(c)
  BY <1>6 DEF Asking
<1>7. ASSUME NEW c, Asking(rows, after, c)
      PROVE  \E k \in DOMAIN chan' : chan'[k] = AskFrame(c) /\ DOMAIN chan' = 1..k
  <2> DEFINE k == Len(chan) + d + 1
  <2>1. k \in DOMAIN chan' /\ DOMAIN chan' = 1..k /\ chan'[k] = after[1]
    BY <1>1, <1>6, <1>7
  <2> HIDE DEF k
  <2> QED
    BY <1>6, <1>7, <2>1
<1>8. ASSUME NEW k \in DOMAIN chan', chan'[k].kind = "ask", k \notin DOMAIN chan
      PROVE  /\ chan'[k] = AskFrame(chan'[k].call) /\ Asking(rows, after, chan'[k].call)
             /\ DOMAIN chan' = 1..k
  <2>1. CASE k - Len(chan) \in 1..d
    <3> DEFINE i == k - Len(chan)
    <3>1. i \in 1..d /\ k = Len(chan) + i
      BY <1>1, <2>1
    <3> HIDE DEF i
    <3>2. chan'[k] = Event(relayed + i)
      BY <1>1, <3>1
    <3> QED
      BY <1>8, <3>2, FrameFields
  <2>2. CASE k - Len(chan) - d \in 1..Len(after)
    <3> DEFINE i == k - Len(chan) - d
    <3>1. i \in 1..Len(after) /\ k = Len(chan) + d + i
      BY <1>1, <2>2
    <3> HIDE DEF i
    <3>2. chan'[k] = after[i] /\ i \in DOMAIN after
      BY <1>1, <3>1
    <3>3. ~NotAsking(rows, after)
      BY <1>8, <3>2 DEF NotAsking
    <3>4. PICK c : Asking(rows, after, c)
      BY <3>3
    <3>5. after[1] = AskFrame(c) /\ Len(after) = 1
      BY <1>6, <3>4
    <3>6. i = 1 /\ DOMAIN chan' = 1..k
      BY <1>1, <3>1, <3>5
    <3>7. chan'[k] = AskFrame(c) /\ AskFrame(c).call = c
      BY <3>2, <3>5, <3>6, FrameFields
    <3> QED
      BY <3>4, <3>6, <3>7
  <2> QED
    BY <1>1, <1>8, <2>1, <2>2
<1> QED
  BY <1>1, <1>3, <1>4, <1>5, <1>7, <1>8

\* The asks, while rows are sent.
LEMMA AsksSent ==
  ASSUME FeedInv, AsksOK, NEW rows, NEW after, Sends(rows, after),
         NotAsking(rows, after) \/ \E d : Asking(rows, after, d)
  PROVE  AsksOK'
<1>1. /\ log \in Seq(Row) /\ log' \in Seq(Row) /\ Len(log') >= Len(log) /\ Len(log') \in Nat
      /\ \A i \in DOMAIN log : log'[i] = log[i]
  BY SentRows
<1>2. ASSUME NEW c \in Call, asks'[c]
      PROVE  open' # None /\ \E p : AsksUpTo(log', c, p, Len(log')) /\ log'[p].turn = open'
  <2>1. /\ open' = open
        /\ \/ /\ asks[c]
              /\ \A i \in (Len(log) + 1)..Len(log') : Quiet(log'[i], open) /\ log'[i].call # c
           \/ /\ open # None /\ AskRow(log', c, Len(log')) /\ log'[Len(log')].turn = open
    BY <1>2, WaitingAfter
  <2>2. CASE /\ asks[c]
             /\ \A i \in (Len(log) + 1)..Len(log') : Quiet(log'[i], open) /\ log'[i].call # c
    <3>1. PICK p : AsksUpTo(log, c, p, Len(log)) /\ log[p].turn = open /\ open # None
      BY <2>2 DEF AsksOK
    <3>2. AsksUpTo(log', c, p, Len(log')) /\ log'[p].turn = log[p].turn
      BY <1>1, <2>2, <3>1, AskStays
    <3> QED
      BY <2>1, <3>1, <3>2
  <2>3. CASE open # None /\ AskRow(log', c, Len(log')) /\ log'[Len(log')].turn = open
    <3> DEFINE n == Len(log')
    <3>1. n \in Nat /\ AskRow(log', c, n) /\ log'[n].turn = open
      BY <1>1, <2>3
    <3> HIDE DEF n
    <3>2. AsksUpTo(log', c, n, n)
      BY <3>1 DEF AsksUpTo
    <3>3. AsksUpTo(log', c, n, Len(log'))
      BY <3>2 DEF n
    <3> QED
      BY <2>1, <2>3, <3>1, <3>3
  <2> QED
    BY <2>1, <2>2, <2>3
<1> QED
  BY <1>2 DEF AsksOK

\* The cards, while rows are sent.
LEMMA CardsSent ==
  ASSUME FeedInv, ChannelInv, ChannelInv', CardsInv, NEW rows, NEW after, Sends(rows, after),
         NotAsking(rows, after) \/ \E d : Asking(rows, after, d)
  PROVE  CardsInv'
<1>1. /\ log \in Seq(Row) /\ log' \in Seq(Row) /\ Len(log') >= Len(log) /\ Len(log) \in Nat
      /\ Len(log') \in Nat /\ DOMAIN log = 1..Len(log) /\ DOMAIN log' = 1..Len(log')
      /\ \A i \in DOMAIN log : log'[i] = log[i] /\ i \in DOMAIN log'
      /\ link' = link /\ tab' = tab
      /\ ~lagged' => ~lagged /\ relayed' = Len(log')
  BY SentRows
<1>2. AsksOK'
  BY AsksSent DEF CardsInv
<1>3. \A c, p : AskRow(log, c, p) => AskRow(log', c, p)
  BY <1>1 DEF AskRow
<1>4. CASE link = "closed"
  BY <1>1, <1>2, <1>4 DEF CardsInv, SnapshotOK, PendingOK, CardsShown
<1>5. CASE link # "closed"
  <2>1. /\ Base' = Base /\ chan' \in Seq(Frame) /\ Base \in 0..Len(log)
        /\ link = "joining" => chan'[1] = chan[1] /\ Base = chan[1].upTo
        /\ \A k \in DOMAIN chan : k \in DOMAIN chan' /\ k \in Nat /\ \A j \in 1..k : chan'[j] = chan[j]
        /\ \A k \in DOMAIN chan' : chan'[k].kind = "ask" =>
             \/ k \in DOMAIN chan
             \/ /\ chan'[k] = AskFrame(chan'[k].call) /\ Asking(rows, after, chan'[k].call)
                /\ DOMAIN chan' = 1..k
        /\ \A c : Asking(rows, after, c) => \E k \in DOMAIN chan' : chan'[k] = AskFrame(c)
                                                                  /\ DOMAIN chan' = 1..k
    <3>1. Base \in 0..Len(log) /\ (link = "joining" => Base = chan[1].upTo)
      BY <1>5 DEF ChannelInv, Base
    <3> QED
      BY <1>5, <3>1, SentCards
  <2>2. \A k \in DOMAIN chan : chan'[k] = chan[k]
    <3>1. chan \in Seq(Frame)
      BY DEF ChannelInv
    <3> QED
      BY <2>1, <3>1
  <2>3. /\ EventsOK(log', Base, chan') /\ Covers(Base, chan', relayed')
    BY <1>1, <1>5, <2>1 DEF ChannelInv
  <2>4. ASSUME NEW c, Asking(rows, after, c)
        PROVE  c \in Call /\ asks'[c] /\ AskRow(log', c, Len(log'))
    <3>1. c \in Call /\ asks'[c] /\ NoCall(log, c)
      BY <2>4 DEF Asking, FeedInv, FeedTypes, TypeOK
    <3>2. ~asks[c]
      <4> SUFFICES ASSUME asks[c] PROVE FALSE
        OBVIOUS
      <4>1. \E p : AskRow(log, c, p)
        BY <3>1 DEF CardsInv, AsksOK, AsksUpTo
      <4> QED
        BY <3>1, <4>1 DEF AskRow, NoCall
    <3> QED
      BY <3>1, <3>2, WaitingAfter
  <2>5. SnapshotOK'
    <3> SUFFICES ASSUME link = "joining", NEW c \in chan[1].asks
                 PROVE  \E p : AsksUpTo(log', c, p, Base)
      BY <1>1, <2>1 DEF SnapshotOK
    <3>1. PICK p : AsksUpTo(log, c, p, Base)
      BY <2>1 DEF CardsInv, SnapshotOK
    <3>2. p \in DOMAIN log /\ log'[p] = log[p] /\ AskRow(log', c, p) /\ p <= Base
      BY <1>1, <3>1 DEF AsksUpTo, AskRow
    <3>3. \A q \in (p + 1)..Base : log'[q] = log[q]
      BY <1>1, <2>1, <3>2
    <3>4. AsksUpTo(log', c, p, Base)
      BY <3>1, <3>2, <3>3 DEF AsksUpTo
    <3> QED
      BY <3>4
  <2>6. AsksInOrder(log', Base, chan')
    <3> SUFFICES ASSUME NEW k \in DOMAIN chan', chan'[k].kind = "ask"
                 PROVE  \E p : /\ AskRow(log', chan'[k].call, p) /\ Base <= p
                               /\ \A j \in 1..(k - 1) : chan'[j].kind = "event" => chan'[j].seq <= p
      BY DEF AsksInOrder
    <3>1. CASE k \in DOMAIN chan
      <4>1. chan'[k] = chan[k] /\ k \in Nat /\ \A j \in 1..(k - 1) : chan'[j] = chan[j]
        BY <2>1, <2>2, <3>1
      <4>2. PICK p : /\ AskRow(log, chan[k].call, p) /\ Base <= p
                     /\ \A j \in 1..(k - 1) : chan[j].kind = "event" => chan[j].seq <= p
        BY <1>5, <3>1, <4>1 DEF CardsInv, AsksInOrder
      <4> QED
        BY <1>3, <4>1, <4>2
    <3>2. CASE Asking(rows, after, chan'[k].call) /\ DOMAIN chan' = 1..k
      <4>1. AskRow(log', chan'[k].call, Len(log')) /\ Base <= Len(log')
        BY <1>1, <2>1, <2>4, <3>2
      <4>2. \A j \in 1..(k - 1) : chan'[j].kind = "event" => chan'[j].seq <= Len(log')
        <5>1. \A j \in 1..(k - 1) : j \in DOMAIN chan'
          BY <2>1, <3>2
        <5> QED
          BY <1>1, <2>3, <5>1 DEF EventsOK
      <4> QED
        BY <4>1, <4>2
    <3> QED
      BY <2>1, <3>1, <3>2
  <2>7. ASSUME NEW c \in Call, AskUnderWay(c)' \/ InSnapshot(c)' \/ OnScreen(c)'
        PROVE  asks'[c] \/ Cleared(log', Base, c)
    <3>1. AskUnderWay(c)' => AskUnderWay(c) \/ Asking(rows, after, c)
      <4> SUFFICES ASSUME NEW k \in DOMAIN chan', chan'[k] = AskFrame(c)
                   PROVE  AskUnderWay(c) \/ Asking(rows, after, c)
        BY DEF AskUnderWay
      <4>1. chan'[k].kind = "ask" /\ chan'[k].call = c
        BY FrameFields
      <4> QED
        BY <2>1, <2>2, <4>1 DEF AskUnderWay
    <3>2. InSnapshot(c)' => InSnapshot(c)
      BY <1>1, <2>1 DEF InSnapshot
    <3>3. OnScreen(c)' => OnScreen(c)
      BY <1>1 DEF OnScreen
    <3>4. CASE Asking(rows, after, c)
      BY <2>4, <3>4
    <3>5. CASE asks[c]
      BY <2>1, <3>5, DecidedAfter DEF CardsInv
    <3>6. CASE Cleared(log, Base, c)
      BY <1>1, <3>6, ClearedStays
    <3> QED
      BY <1>5, <2>7, <3>1, <3>2, <3>3, <3>4, <3>5, <3>6 DEF CardsInv, PendingOK
  <2>8. PendingOK'
    BY <1>5, <2>1, <2>7 DEF PendingOK
  <2>9. ASSUME ~lagged', NEW c \in Call, asks'[c]
        PROVE  \/ InSnapshot(c)' \/ CardComes(log', Base, chan', c)
               \/ link = "live" /\ c \in tab.cards
    <3>1. ~lagged /\ relayed' = Len(log')
      BY <1>1, <2>9
    <3>2. CASE asks[c]
      <4>1. CASE InSnapshot(c)
        BY <1>1, <2>1, <4>1 DEF InSnapshot
      <4>2. CASE CardComes(log, Base, chan, c)
        <5>1. PICK k \in DOMAIN chan, p \in DOMAIN log :
                /\ chan[k] = AskFrame(c) /\ AskRow(log, c, p)
                /\ \A m \in (Base + 1)..p : \E j \in 1..(k - 1) : chan[j] = Event(m)
          BY <4>2 DEF CardComes
        <5>2. k \in DOMAIN chan' /\ chan'[k] = AskFrame(c) /\ p \in DOMAIN log' /\ AskRow(log', c, p)
              /\ \A j \in 1..(k - 1) : chan'[j] = chan[j]
          BY <1>1, <1>3, <2>1, <2>2, <5>1
        <5> QED
          BY <5>1, <5>2 DEF CardComes
      <4> QED
        BY <1>5, <3>1, <3>2, <4>1, <4>2 DEF CardsInv, CardsShown
    <3>3. CASE Asking(rows, after, c)
      <4>1. PICK k \in DOMAIN chan' : chan'[k] = AskFrame(c) /\ DOMAIN chan' = 1..k
        BY <2>1, <3>3
      <4> DEFINE n == Len(log')
      <4>2. AskRow(log', c, n) /\ n \in DOMAIN log' /\ relayed' = n
        BY <2>4, <3>1, <3>3 DEF AskRow
      <4> HIDE DEF n
      <4>3. ASSUME NEW m \in (Base + 1)..n PROVE \E j \in 1..(k - 1) : chan'[j] = Event(m)
        <5>1. PICK j \in DOMAIN chan' : chan'[j] = Event(m)
          BY <2>3, <4>2, <4>3 DEF Covers
        <5>2. j # k
          BY <4>1, <5>1, FrameFields
        <5>3. j \in 1..(k - 1)
          BY <2>1, <4>1, <5>2
        <5> QED
          BY <5>1, <5>3
      <4> QED
        BY <4>1, <4>2, <4>3 DEF CardComes
    <3> QED
      BY <2>9, <3>2, <3>3, WaitingAfter
  <2>10. CardsShown'
    BY <1>1, <2>1, <2>9 DEF CardsShown
  <2>11. AsksInOrder(log, Base, chan)'
    BY <2>1, <2>6
  <2> QED
    BY <1>2, <2>5, <2>8, <2>10, <2>11 DEF CardsInv
<1> QED
  BY <1>4, <1>5

\* A connection: the snapshot carries the asks that wait.
LEMMA CardsConnect ==
  ASSUME FeedInv, CardsInv, Connect PROVE CardsInv'
<1> DEFINE f == [kind |-> "snapshot", upTo |-> Len(log), active |-> ActiveTurn,
                 asks |-> {c \in Call : asks[c]}]
<1>1. /\ chan' = <<f>> /\ link' = "joining" /\ UNCHANGED <<log, relayed, lagged, asks, open>>
  BY DEF Connect, HighWater, serverVars
<1>2. f.kind = "snapshot" /\ f.upTo = Len(log) /\ f.asks = {c \in Call : asks[c]}
  OBVIOUS
<1> HIDE DEF f
<1>3. DOMAIN chan' = {1} /\ chan'[1] = f
  BY <1>1
<1>4. AsksOK'
  BY <1>1 DEF CardsInv, AsksOK
<1>5. \A c \in f.asks : \E p : AsksUpTo(log, c, p, f.upTo)
  BY <1>2 DEF CardsInv, AsksOK
<1>6. SnapshotOK'
  BY <1>1, <1>3, <1>5 DEF SnapshotOK
<1>7. \A c : ~AskUnderWay(c)' /\ ~OnScreen(c)' /\ (InSnapshot(c)' <=> c \in f.asks)
  BY <1>1, <1>2, <1>3, FrameFields DEF AskUnderWay, OnScreen, InSnapshot
<1>8. PendingOK'
  BY <1>1, <1>2, <1>7 DEF PendingOK
<1>9. CardsShown'
  BY <1>1, <1>2, <1>7 DEF CardsInv, CardsShown
<1>10. AsksInOrder(log, Base, chan)'
  BY <1>2, <1>3 DEF AsksInOrder
<1> QED
  BY <1>4, <1>6, <1>8, <1>9, <1>10 DEF CardsInv

\* The end of the process, or of the socket.
LEMMA CardsStop ==
  ASSUME CardsInv, StopServer \/ Drop PROVE CardsInv'
<1>1. /\ link' = "closed" /\ UNCHANGED <<log, relayed, lagged>>
      /\ \/ \A c \in Call : ~asks'[c]
         \/ UNCHANGED <<asks, open>>
  BY DEF StopServer, Drop, NoAsks, serverVars
<1>2. AsksOK'
  BY <1>1 DEF CardsInv, AsksOK
<1> QED
  BY <1>1, <1>2 DEF CardsInv, SnapshotOK, PendingOK, CardsShown

\* Boot: nobody asks, and nobody is connected.
LEMMA CardsBoot ==
  ASSUME FeedInv, CallInv, ChannelInv, CardsInv, Boot PROVE CardsInv'
<1>1. /\ link' = "closed" /\ UNCHANGED <<lagged, asks>> /\ relayed' = Len(log')
  BY DEF Boot, ChannelInv
<1>2. open = None
  BY DEF Boot, FeedInv, ServerOK
<1>3. \A c \in Call : ~asks'[c]
  BY <1>1, <1>2, NothingWaits
<1> QED
  BY <1>1, <1>3 DEF CardsInv, AsksOK, SnapshotOK, PendingOK, CardsShown

\* An answer leaves the cards as they are.
LEMMA CardsAnswer ==
  ASSUME ChannelInv, CardsInv, NEW c \in Call, NEW allow \in BOOLEAN, Answer(c, allow) PROVE CardsInv'
<1>1. /\ tab \in ChatState /\ tab' = [tab EXCEPT !.answered = @ \cup {c}]
      /\ UNCHANGED <<log, chan, relayed, lagged, asks, open, link>>
  BY DEF ChannelInv, Answer, storeVars, serverVars
<1>2. tab'.cards = tab.cards /\ tab'.waiting = tab.waiting /\ tab'.through = tab.through
  BY <1>1 DEF ChatState
<1>3. Base' = Base
  BY <1>1, <1>2 DEF Base
<1>4. \A d : /\ AskUnderWay(d)' <=> AskUnderWay(d)
             /\ InSnapshot(d)' <=> InSnapshot(d)
             /\ OnScreen(d)' <=> OnScreen(d)
  BY <1>1, <1>2 DEF AskUnderWay, InSnapshot, OnScreen
<1>5. AsksOK' /\ SnapshotOK'
  BY <1>1 DEF CardsInv, AsksOK, SnapshotOK
<1>6. PendingOK'
  BY <1>1, <1>3, <1>4 DEF CardsInv, PendingOK
<1>7. CardsShown'
  BY <1>1, <1>2, <1>3, <1>4 DEF CardsInv, CardsShown
<1>8. (link # "closed" => AsksInOrder(log, Base, chan))'
  BY <1>1, <1>3 DEF CardsInv
<1> QED
  BY <1>5, <1>6, <1>7, <1>8 DEF CardsInv

\* Nor does a step nobody outside the server sees touch them.
LEMMA CardsUnseen ==
  ASSUME CardsInv, Unseen PROVE CardsInv'
<1>1. /\ UNCHANGED <<log, relayed, chan, lagged, link, tab, asks>>
      /\ (\E c \in Call : asks[c]) => open' = open
  BY DEF Unseen
<1>2. Base' = Base
  BY <1>1 DEF Base
<1>3. \A d : /\ AskUnderWay(d)' <=> AskUnderWay(d)
             /\ InSnapshot(d)' <=> InSnapshot(d)
             /\ OnScreen(d)' <=> OnScreen(d)
  BY <1>1 DEF AskUnderWay, InSnapshot, OnScreen
<1>4. AsksOK' /\ SnapshotOK'
  BY <1>1 DEF CardsInv, AsksOK, SnapshotOK
<1>5. PendingOK'
  BY <1>1, <1>2, <1>3 DEF CardsInv, PendingOK
<1>6. CardsShown'
  BY <1>1, <1>2, <1>3 DEF CardsInv, CardsShown
<1>7. (link # "closed" => AsksInOrder(log, Base, chan))'
  BY <1>1, <1>2 DEF CardsInv
<1> QED
  BY <1>4, <1>5, <1>6, <1>7 DEF CardsInv

\* A frame arrives.
LEMMA CardsDeliver ==
  ASSUME FeedInv, CallInv, LogInv, ChannelInv, CardsInv, Deliver PROVE CardsInv'
<1>1. /\ link # "closed" /\ chan # <<>> /\ chan' = Tail(chan) /\ link' = "live"
      /\ Fits(log, tab', Base') /\ Base \in 0..Len(log)
      /\ Base' = tab'.through /\ Base' \in 0..Len(log) /\ Base <= Base'
      /\ \A m \in Nat : m > Base' => chan[1] # Event(m)
      /\ TakesSnapshot \/ TakesRow \/ TakesNothing \/ \E c \in Call : TakesAsk(c)
  BY DeliverFields
<1>2. UNCHANGED <<log, relayed, lagged, asks, open>>
  BY DEF Deliver, serverVars
<1>3. LogAccepted(log) /\ log \in Seq(Row) /\ DOMAIN log = 1..Len(log) /\ Len(log) \in Nat
  BY LogFactsHold DEF LogFacts, LogAccepted
<1>4. /\ chan \in Seq(Frame) /\ AsksInOrder(log, Base, chan)
      /\ link = "live" => Fits(log, tab, Base)
      /\ link = "joining" => Base = chan[1].upTo
  BY <1>1 DEF ChannelInv, CardsInv, Base
<1> DEFINE T == Tail(chan)
<1>5. /\ \A k \in DOMAIN T : k \in Nat \ {0} /\ k + 1 \in DOMAIN chan /\ T[k] = chan[k + 1]
      /\ \A k \in DOMAIN chan : k # 1 => k - 1 \in DOMAIN T /\ T[k - 1] = chan[k]
      /\ DOMAIN chan = 1..Len(chan) /\ Len(chan) \in Nat /\ 1 \in DOMAIN chan
  BY <1>1, <1>4, Rest
<1> HIDE DEF T
<1>6. AsksOK' /\ SnapshotOK'
  BY <1>1, <1>2 DEF CardsInv, AsksOK, SnapshotOK
<1>7. Base' = Base \/ (TakesRow /\ Base' = Base + 1)
  BY <1>1 DEF TakesSnapshot, TakesRow, TakesNothing, TakesAsk
<1>8. AsksInOrder(log, Base', T)
  <2> SUFFICES ASSUME NEW k \in DOMAIN T, T[k].kind = "ask"
               PROVE  \E p : /\ AskRow(log, T[k].call, p) /\ Base' <= p
                             /\ \A j \in 1..(k - 1) : T[j].kind = "event" => T[j].seq <= p
    BY DEF AsksInOrder
  <2>1. k + 1 \in DOMAIN chan /\ T[k] = chan[k + 1] /\ k \in Nat \ {0}
    BY <1>5
  <2>2. PICK p : /\ AskRow(log, T[k].call, p) /\ Base <= p
                 /\ \A j \in 1..k : chan[j].kind = "event" => chan[j].seq <= p
    BY <1>4, <2>1 DEF AsksInOrder
  <2>3. Base' <= p
    <3>1. CASE Base' = Base
      BY <2>2, <3>1
    <3>2. CASE TakesRow /\ Base' = Base + 1
      <4>1. chan[1] = Event(Base + 1) /\ 1 \in 1..k
        BY <2>1, <3>2 DEF TakesRow
      <4> QED
        BY <2>2, <3>2, <4>1, FrameFields
    <3> QED
      BY <1>7, <3>1, <3>2
  <2>4. \A j \in 1..(k - 1) : j + 1 \in 1..k /\ T[j] = chan[j + 1]
    <3>1. \A j \in 1..(k - 1) : j + 1 \in DOMAIN chan /\ j + 1 # 1 /\ (j + 1) - 1 = j /\ j + 1 \in 1..k
      BY <1>5, <2>1
    <3>2. \A j \in 1..(k - 1) : T[(j + 1) - 1] = chan[j + 1]
      BY <1>5, <3>1
    <3> QED
      BY <3>1, <3>2
  <2> QED
    BY <2>2, <2>3, <2>4
<1>9. ASSUME NEW c \in Call, AskUnderWay(c)' \/ OnScreen(c)'
      PROVE  asks[c] \/ Cleared(log, Base', c)
  <2>1. AskUnderWay(c)' => \E k \in DOMAIN T : T[k] = AskFrame(c)
    BY <1>1 DEF AskUnderWay, T
  <2>2. (\E k \in DOMAIN T : T[k] = AskFrame(c)) => AskUnderWay(c)
    BY <1>5 DEF AskUnderWay
  <2>3. OnScreen(c)' => OnScreen(c) \/ InSnapshot(c) \/ AskUnderWay(c)
    <3> SUFFICES ASSUME c \in tab'.cards \cup tab'.waiting
                 PROVE  OnScreen(c) \/ InSnapshot(c) \/ AskUnderWay(c)
      BY DEF OnScreen
    <3>1. CASE TakesSnapshot
      BY <3>1 DEF TakesSnapshot, InSnapshot
    <3>2. CASE TakesRow
      BY <3>2 DEF TakesRow, CardStep, OnScreen
    <3>3. CASE TakesNothing
      BY <3>3 DEF TakesNothing, OnScreen
    <3>4. ASSUME NEW d \in Call, TakesAsk(d)
          PROVE  OnScreen(c) \/ InSnapshot(c) \/ AskUnderWay(c)
      BY <1>5, <3>4 DEF TakesAsk, OnScreen, AskUnderWay
    <3> QED
      BY <1>1, <3>1, <3>2, <3>3, <3>4
  <2>4. asks[c] \/ Cleared(log, Base, c)
    BY <1>1, <1>9, <2>1, <2>2, <2>3 DEF CardsInv, PendingOK
  <2>5. CASE Cleared(log, Base, c) /\ Base' # Base
    <3>1. TakesRow /\ Base' = Base + 1
      BY <1>7, <2>5
    <3>2. PICK p, m \in DOMAIN log : AskRow(log, c, p) /\ m > p /\ m > Base /\ Clears(log[m], c)
      BY <2>5 DEF Cleared
    <3>3. CASE m = Base + 1
      <4>1. ~OnScreen(c)'
        <5> SUFFICES ASSUME c \in tab'.cards \cup tab'.waiting PROVE FALSE
          BY DEF OnScreen
        <5>1. log[m].call = c /\ log[m].state \in {"requested", "approval-needed"}
          BY <3>1, <3>2, <3>3 DEF TakesRow, CardStep
        <5>2. m <= p
          BY <1>3, <3>2, <5>1, AsksOnce
        <5> QED
          BY <1>3, <3>2, <5>2
      <4>2. PICK k \in DOMAIN T : T[k] = AskFrame(c)
        BY <1>9, <2>1, <4>1
      <4>3. PICK q : AskRow(log, c, q) /\ Base' <= q
        BY <1>8, <4>2, FrameFields DEF AsksInOrder
      <4>4. q = p
        BY <1>3, <3>2, <4>3, OneAskRow
      <4> QED
        BY <1>1, <1>3, <3>1, <3>2, <3>3, <4>3, <4>4
    <3>4. CASE m # Base + 1
      <4>1. m > Base'
        BY <1>1, <1>3, <3>1, <3>2, <3>4
      <4> QED
        BY <3>2, <4>1 DEF Cleared
    <3> QED
      BY <3>3, <3>4
  <2> QED
    BY <2>4, <2>5
<1>10. PendingOK'
  <2>1. \A c : ~InSnapshot(c)'
    BY <1>1 DEF InSnapshot
  <2> QED
    BY <1>2, <1>9, <2>1 DEF PendingOK
<1>11. ASSUME ~lagged, NEW c \in Call, asks[c]
       PROVE  CardComes(log, Base', T, c) \/ c \in tab'.cards
  <2>1. PICK p : AsksUpTo(log, c, p, Len(log))
    BY <1>11 DEF CardsInv, AsksOK
  <2>2. /\ AskRow(log, c, p) /\ p \in DOMAIN log
        /\ \A b \in 0..Len(log) : p <= b => AsksUpTo(log, c, p, b)
    <3>1. AskRow(log, c, p) /\ p \in DOMAIN log
      BY <2>1 DEF AsksUpTo, AskRow
    <3>2. \A b \in 0..Len(log) : (p + 1)..b \subseteq (p + 1)..Len(log)
      BY <1>3, <3>1
    <3> QED
      BY <2>1, <3>1, <3>2 DEF AsksUpTo
  <2>3. CASE InSnapshot(c)
    <3>1. TakesSnapshot /\ c \in chan[1].asks /\ Base' = Base /\ Base = chan[1].upTo
      BY <1>1, <1>4, <2>3 DEF InSnapshot, TakesSnapshot, TakesRow, TakesNothing, TakesAsk
    <3>2. PICK q : AsksUpTo(log, c, q, chan[1].upTo)
      BY <2>3 DEF CardsInv, SnapshotOK, InSnapshot
    <3> DEFINE b == Base'
    <3>3. b \in 0..Len(log) /\ Fits(log, tab', b) /\ AsksUpTo(log, c, q, b)
      BY <1>1, <3>1, <3>2
    <3> HIDE DEF b
    <3>4. tab'.tools[c].state = "approval-needed" /\ tab'.activity = tab'.tools[c].turn
      BY <1>3, <3>3, AskIsCurrent
    <3> QED
      BY <3>1, <3>4 DEF TakesSnapshot
  <2>4. CASE link = "live" /\ c \in tab.cards
    <3>1. CASE TakesRow
      <4> DEFINE b == Base
      <4>1. b \in 0..Len(log) /\ Fits(log, tab, b)
        BY <1>1, <1>4, <2>4
      <4>2. b + 1 \in DOMAIN log /\ CardStep(tab', tab, log[b + 1])
        BY <3>1 DEF TakesRow
      <4> HIDE DEF b
      <4>3. PICK q \in 1..b : AskRow(log, c, q)
        BY <1>3, <2>4, <4>1, CardHasRow
      <4>4. q = p
        BY <1>3, <2>2, <4>3, OneAskRow
      <4>5. b + 1 \in (p + 1)..Len(log)
        BY <1>3, <2>2, <4>1, <4>2, <4>3, <4>4
      <4>6. Quiet(log[b + 1], log[p].turn) /\ log[b + 1].call # c
        BY <2>1, <4>5 DEF AsksUpTo
      <4>7. ~Clears(log[b + 1], c)
        BY <4>6, QuietClearsNot
      <4> QED
        BY <2>4, <4>2, <4>7 DEF CardStep
    <3>2. CASE TakesNothing
      BY <2>4, <3>2 DEF TakesNothing
    <3>3. ASSUME NEW d \in Call, TakesAsk(d) PROVE c \in tab'.cards
      BY <2>4, <3>3 DEF TakesAsk
    <3>4. ~TakesSnapshot
      BY <2>4 DEF TakesSnapshot
    <3> QED
      BY <1>1, <3>1, <3>2, <3>3, <3>4
  <2>5. CASE CardComes(log, Base, chan, c)
    <3>1. PICK k \in DOMAIN chan, q \in DOMAIN log :
            /\ chan[k] = AskFrame(c) /\ AskRow(log, c, q)
            /\ \A m \in (Base + 1)..q : \E j \in 1..(k - 1) : chan[j] = Event(m)
      BY <2>5 DEF CardComes
    <3>2. CASE k = 1
      <4>1. TakesAsk(c)
        <5>1. chan[1].kind = "ask" /\ chan[1].call = c
          BY <3>1, <3>2, FrameFields
        <5>2. ~TakesSnapshot /\ ~TakesRow /\ ~TakesNothing
          BY <5>1, FrameFields DEF TakesSnapshot, TakesRow, TakesNothing
        <5>3. \A d : TakesAsk(d) => d = c
          BY <5>1, FrameFields DEF TakesAsk
        <5> QED
          BY <1>1, <5>2, <5>3
      <4> DEFINE b == Base
      <4>2. b \in 0..Len(log) /\ Fits(log, tab, b) /\ \A m \in (b + 1)..q : m \notin Nat
        BY <1>1, <1>4, <3>1, <3>2, <4>1 DEF TakesAsk
      <4> HIDE DEF b
      <4>3. q = p
        BY <1>3, <2>2, <3>1, OneAskRow
      <4>4. p <= b
        <5> SUFFICES ASSUME p > b PROVE FALSE
          BY <1>3, <2>2, <4>2
        <5>1. p \in (b + 1)..q /\ p \in Nat
          BY <1>3, <2>2, <4>2, <4>3
        <5> QED
          BY <4>2, <5>1
      <4>5. tab.tools[c].state = "approval-needed" /\ tab.activity = tab.tools[c].turn
        BY <1>3, <2>2, <4>2, <4>4, AskIsCurrent
      <4> QED
        BY <4>1, <4>5 DEF TakesAsk
    <3>3. CASE k # 1
      <4> DEFINE i == k - 1
      <4>1. i \in DOMAIN T /\ T[i] = AskFrame(c) /\ i + 1 = k
        BY <1>5, <3>1, <3>3
      <4> HIDE DEF i
      <4>2. ASSUME NEW m \in (Base' + 1)..q PROVE \E j \in 1..(i - 1) : T[j] = Event(m)
        <5>1. m \in (Base + 1)..q /\ m \in Nat /\ m > Base'
          BY <1>1, <1>3, <3>1
        <5>2. PICK j \in 1..(k - 1) : chan[j] = Event(m)
          BY <3>1, <5>1
        <5>3. j # 1 /\ j \in DOMAIN chan /\ j - 1 \in 1..(i - 1)
          BY <1>1, <1>5, <3>1, <4>1, <5>1, <5>2
        <5>4. T[j - 1] = Event(m)
          BY <1>5, <5>2, <5>3
        <5> QED
          BY <5>3, <5>4
      <4> QED
        BY <3>1, <4>1, <4>2 DEF CardComes
    <3> QED
      BY <3>2, <3>3
  <2> QED
    BY <1>1, <1>11, <2>3, <2>4, <2>5 DEF CardsInv, CardsShown
<1>12. CardsShown'
  <2>1. ~lagged => relayed = Len(log)
    BY DEF CardsInv, CardsShown
  <2> QED
    BY <1>1, <1>2, <1>11, <2>1 DEF CardsShown, T
<1>13. AsksInOrder(log, Base, chan)'
  BY <1>1, <1>2, <1>8 DEF AsksInOrder, T
<1> QED
  BY <1>6, <1>10, <1>12, <1>13 DEF CardsInv

\* Nobody asks before the first start.
LEMMA CardsInitial == Init => CardsInv
<1> SUFFICES ASSUME Init PROVE CardsInv
  OBVIOUS
<1>1. link = "closed" /\ ~lagged /\ \A c \in Call : ~asks[c]
  BY DEF Init, NoAsks
<1>2. relayed = Len(log)
  BY FeedAssumption DEF Init
<1> QED
  BY <1>1, <1>2 DEF CardsInv, AsksOK, SnapshotOK, PendingOK, CardsShown

\* Every step keeps the cards and the asks together.
LEMMA CardsInductive ==
  FeedInv /\ CallInv /\ LogInv /\ ChannelInv /\ ChannelInv' /\ CardsInv /\ [Next]_vars => CardsInv'
  BY Steps, CardsSent, CardsUnseen, CardsStop, CardsBoot, CardsConnect, CardsDeliver, CardsAnswer
     DEF Sending

\* So they are in every state.
LEMMA CardsInvariant == Spec => []CardsInv
<1>1. Init => CardsInv
  BY CardsInitial
<1>2. FeedInv /\ CallInv /\ LogInv /\ ChannelInv /\ ChannelInv' /\ CardsInv /\ [Next]_vars => CardsInv'
  BY CardsInductive
<1> QED
  BY <1>1, <1>2, FeedInvariant, CallInvariant, LogInvariant, ChannelInvariant, PTL DEF Spec

\* Whatever was dropped, sent twice or raced a snapshot, a tab that has every frame
\* and every row shows no card that nothing waits for, and unless a drain failed, a
\* card for every ask that waits.
THEOREM CardsAreAlwaysTheOpenAsks == Spec => []CardsAreTheOpenAsks
<1>1. FeedInv /\ ChannelInv /\ CardsInv => CardsAreTheOpenAsks
  <2> SUFFICES ASSUME FeedInv, ChannelInv, CardsInv,
                      link = "live", chan = <<>>, tab.through = Len(log)
               PROVE  /\ \A c \in tab.cards : asks[c]
                      /\ \A c \in Call : asks[c] /\ ~lagged => c \in tab.cards
    BY DEF CardsAreTheOpenAsks
  <2>1. /\ log \in Seq(Row) /\ tab.cards \subseteq Call /\ DOMAIN chan = {}
        /\ Base = Len(log)
    BY DEF FeedInv, FeedTypes, ChannelInv, ChatState, Base
  <2>2. \A c : ~Cleared(log, Base, c)
    BY <2>1 DEF Cleared
  <2>3. \A c \in tab.cards : asks[c]
    BY <2>1, <2>2 DEF CardsInv, PendingOK, OnScreen
  <2>4. \A c \in Call : asks[c] /\ ~lagged => c \in tab.cards
    BY <2>1 DEF CardsInv, CardsShown, InSnapshot, CardComes
  <2> QED
    BY <2>3, <2>4
<1> QED
  BY <1>1, FeedInvariant, ChannelInvariant, CardsInvariant, PTL

=============================================================================
