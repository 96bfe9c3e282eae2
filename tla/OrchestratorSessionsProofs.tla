---------------------- MODULE OrchestratorSessionsProofs ----------------------
(***************************************************************************)
(* What holds of the session rows for every set of sessions and every      *)
(* attempt bound.                                                          *)
(***************************************************************************)
EXTENDS OrchestratorSessions, TLAPS

\* One row as SessTypeOK has it.
RowOK(row) ==
  row \in Row /\ IF row.status = "absent" THEN row = AbsentRow ELSE RowStateConsistent(row)

\* Ending a row keeps it well formed: replaceOrchestratorSession and the other
\* transitions may end any active row.
LEMMA EndRowOK ==
  ASSUME NEW row, RowOK(row), row # AbsentRow
  PROVE  RowOK(EndRow(row)) /\ EndRow(row).status = "ended"
  BY DEF RowOK, Row, EndRow, RowStateConsistent, ResumeReady

\* A resume attempt of a resume-ready row leaves it active and resume-ready.
LEMMA PendingRowOK ==
  ASSUME NEW row, RowOK(row), ResumeReady(row), row.attempt < MaxAttempt
  PROVE  /\ RowOK(PendingRow(row))
         /\ PendingRow(row).native = row.native
         /\ PendingRow(row).attempt \in 1..MaxAttempt
<1>1. row.attempt \in 0..MaxAttempt /\ MaxAttempt \in Nat
  BY SessionAssumption DEF RowOK, Row
<1>2. row.attempt + 1 \in 1..MaxAttempt /\ row.attempt + 1 \in 0..MaxAttempt
  BY <1>1
<1>3. PendingRow(row) \in Row
  <2>1. \A next \in 0..MaxAttempt :
          [row EXCEPT !.status = "active", !.cont = "resume-pending", !.attempt = next] \in Row
    BY DEF RowOK, Row, ContinuationState
  <2> QED
    BY <1>2, <2>1 DEF PendingRow
<1>4. /\ PendingRow(row).status = "active"
      /\ PendingRow(row).attempt = row.attempt + 1
      /\ PendingRow(row).native = row.native
      /\ PendingRow(row).cont = "resume-pending"
  BY DEF PendingRow, RowOK, Row
<1>5. RowStateConsistent(PendingRow(row))
  BY <1>2, <1>4 DEF RowStateConsistent, ResumeReady
<1> QED
  BY <1>2, <1>3, <1>4, <1>5 DEF RowOK

\* A clean row is well formed whatever its seed and source.
LEMMA CleanRowOK ==
  ASSUME NEW seed \in BOOLEAN, NEW source \in Session \cup {None}
  PROVE  RowOK(CleanRow(seed, source))
  BY SessionAssumption DEF RowOK, Row, CleanRow, RowStateConsistent, ContinuationState

\* Binding a row to a thread makes it resume-ready.
LEMMA BoundRowOK ==
  ASSUME NEW row, RowOK(row), row.attempt > 0, NEW thread \in Thread
  PROVE  RowOK(BoundRow(row, thread)) /\ ResumeReady(BoundRow(row, thread))
<1>1. row.status # "absent" /\ thread # None
  BY SessionAssumption DEF RowOK, AbsentRow, Thread
<1>2. BoundRow(row, thread) \in Row
  BY DEF RowOK, Row, BoundRow, ContinuationState
<1>3. /\ BoundRow(row, thread).native = thread
      /\ BoundRow(row, thread).cont = "clean-started"
      /\ BoundRow(row, thread).status = row.status
      /\ BoundRow(row, thread).attempt = row.attempt
  BY DEF RowOK, Row, BoundRow
<1> QED
  BY <1>1, <1>2, <1>3 DEF RowOK, RowStateConsistent, ResumeReady

\* A row that is active or resume-ready is not the absent one.
LEMMA PresentRow ==
  ASSUME NEW row, row.status = "active" \/ ResumeReady(row)
  PROVE  row # AbsentRow
  BY DEF AbsentRow, ResumeReady

\* The thread of a mint is a thread.
LEMMA ThreadOfMint ==
  ASSUME NEW m \in Mint PROVE ThreadOf(m) \in Thread
  BY DEF Mint, ThreadOf, Thread

-----------------------------------------------------------------------------
(***************************************************************************)
(* Every step moves every row along one of the edges below, whichever      *)
(* operation took it.  The properties of single rows follow from the edges.*)
(***************************************************************************)
Left(old, new) == old.status = "active" /\ new = EndRow(old)

Created(old, new) ==
  /\ old = AbsentRow
  /\ \E seed \in BOOLEAN, source \in Session \cup {None} :
       (source # None => seed) /\ new = CleanRow(seed, source)

Resumed(old, new) ==
  ResumeReady(old) /\ old.attempt < MaxAttempt /\ new = PendingRow(old)

Continued(old, new) ==
  /\ old = AbsentRow
  /\ \E source \in Session, thread \in Thread :
       new = PendingRow(BoundRow(CleanRow(FALSE, source), thread))

Rotated(old, new) ==
  /\ old.status = "active" /\ old.native = None /\ old.cont = "clean-pending"
  /\ old.attempt < MaxAttempt
  /\ new = RotatedRow(old)

Bound(old, new) ==
  /\ old.status = "active" /\ old.native = None /\ old.cont = "clean-pending"
  /\ \E thread \in Thread : new = BoundRow(old, thread)

Answered(old, new) ==
  /\ old.status = "active" /\ old.cont = "resume-pending"
  /\ \E cont \in {"native-resumed", "resume-failed"} : new = [old EXCEPT !.cont = cont]

Unseeded(old, new) ==
  old.status = "active" /\ old.cont = "clean-started" /\ new = [old EXCEPT !.seed = FALSE]

RowMove(old, new) ==
  \/ new = old
  \/ Left(old, new) \/ Created(old, new) \/ Resumed(old, new) \/ Continued(old, new)
  \/ Rotated(old, new) \/ Bound(old, new) \/ Answered(old, new) \/ Unseeded(old, new)

\* Every edge leads from a well-formed row to a well-formed row.
LEMMA RowMoveOK ==
  ASSUME NEW old, NEW new, RowOK(old), RowMove(old, new)
  PROVE  RowOK(new)
<1>1. CASE new = old
  BY <1>1
<1>2. CASE Left(old, new)
  BY <1>2, EndRowOK, PresentRow DEF Left
<1>3. CASE Created(old, new)
  BY <1>3, CleanRowOK DEF Created
<1>4. CASE Resumed(old, new)
  BY <1>4, PendingRowOK DEF Resumed
<1>5. CASE Continued(old, new)
  <2>1. PICK source \in Session, thread \in Thread :
          new = PendingRow(BoundRow(CleanRow(FALSE, source), thread))
    BY <1>5 DEF Continued
  <2> DEFINE clean == CleanRow(FALSE, source)
             bound == BoundRow(clean, thread)
  <2>2. RowOK(clean)
    BY CleanRowOK
  <2>7. clean.attempt > 0
    BY DEF CleanRow
  <2> HIDE DEF clean
  <2>3. RowOK(bound) /\ ResumeReady(bound)
    BY <2>2, <2>7, BoundRowOK
  <2>4. bound.attempt = 1
    BY DEF BoundRow, CleanRow, clean
  <2>5. 1 < MaxAttempt
    BY SessionAssumption
  <2> HIDE DEF bound
  <2>6. new = PendingRow(bound)
    BY <2>1 DEF bound, clean
  <2> QED
    BY <2>3, <2>4, <2>5, <2>6, PendingRowOK
<1>6. CASE Rotated(old, new)
  <2>1. old \in Row /\ old.attempt \in 0..MaxAttempt /\ MaxAttempt \in Nat
    BY SessionAssumption DEF RowOK, Row
  <2>2. old.attempt + 1 \in 0..MaxAttempt /\ old.attempt + 1 > 0
    BY <1>6, <2>1 DEF Rotated
  <2>3. \A next \in 0..MaxAttempt : [old EXCEPT !.attempt = next] \in Row
    BY <2>1 DEF Row
  <2>4. new \in Row
    BY <1>6, <2>2, <2>3 DEF Rotated, RotatedRow
  <2>5. /\ new.status = "active" /\ new.cont = "clean-pending"
        /\ new.native = None /\ new.attempt = old.attempt + 1
    BY <1>6, <2>1 DEF Rotated, RotatedRow, Row
  <2> QED
    BY <2>2, <2>4, <2>5 DEF RowOK, RowStateConsistent
<1>7. CASE Bound(old, new)
  <2>1. old.attempt > 0
    BY <1>7 DEF Bound, RowOK, RowStateConsistent, AbsentRow, ResumeReady
  <2> QED
    BY <1>7, <2>1, BoundRowOK DEF Bound
<1>8. CASE Answered(old, new)
  BY <1>8, PresentRow DEF Answered, RowOK, Row, RowStateConsistent, ResumeReady, ContinuationState
<1>9. CASE Unseeded(old, new)
  BY <1>9, PresentRow DEF Unseeded, RowOK, Row, RowStateConsistent, ResumeReady, ContinuationState
<1> QED
  BY <1>1, <1>2, <1>3, <1>4, <1>5, <1>6, <1>7, <1>8, <1>9 DEF RowMove

-----------------------------------------------------------------------------
\* SessTypeOK row by row, the form the proofs below use.
SessionOK ==
  /\ live \in BOOLEAN
  /\ session \in [Session -> Row]
  /\ \A s \in Session : RowOK(session[s])
  /\ minted \subseteq Mint
  /\ attached \subseteq minted

\* The row-by-row form of the type invariant is the invariant itself.
LEMMA SessionOKIsTypeOK == SessTypeOK <=> SessionOK
  BY DEF SessTypeOK, SessionOK, RowOK

\* Every transition of the repositories moves each row along an edge.
LEMMA StepMovesRows ==
  ASSUME SessionOK, SessNext
  PROVE  /\ DOMAIN session' = Session
         /\ session' = [s \in Session |-> session'[s]]
         /\ \A s \in Session : RowMove(session[s], session'[s])
<1>1. CASE \E old \in Session \cup {None}, new \in Session, handoff \in BOOLEAN :
             ReplaceRow(old, new, handoff)
  <2>1. PICK old \in Session \cup {None}, new \in Session, handoff \in BOOLEAN :
          ReplaceRow(old, new, handoff)
    BY <1>1
  <2>2. session[new] = AbsentRow
    BY <2>1 DEF ReplaceRow, SessionOK, RowOK
  <2>3. \A s \in Session : s # new /\ s = old => session[s].status = "active"
    BY <2>1, SessionAssumption DEF ReplaceRow, Expected, IsActive
  <2>4. Created(session[new], session'[new])
    BY <2>1, <2>2, SessionAssumption DEF ReplaceRow, Created
  <2> QED
    BY <2>1, <2>3, <2>4 DEF ReplaceRow, RowMove, Left
<1>2. CASE \E old \in Session : CloseRow(old)
  BY <1>2 DEF CloseRow, RowMove, Left, IsActive, SessionOK
<1>3. CASE \E old \in Session \cup {None}, target \in Session : ReactivateRow(old, target)
  BY <1>3, SessionAssumption
  DEF ReactivateRow, RowMove, Left, Resumed, Expected, IsActive, SessionOK
<1>4. CASE \E old, new \in Session : ContinueRow(old, new)
  <2>1. PICK old \in Session, new \in Session : ContinueRow(old, new)
    BY <1>4
  <2>2. session[new] = AbsentRow /\ session[old].native \in Thread
    BY <2>1 DEF ContinueRow, SessionOK, RowOK, ResumeReady, Row
  <2>3. Continued(session[new], session'[new])
    BY <2>1, <2>2 DEF ContinueRow, Continued
  <2> QED
    BY <2>1, <2>3 DEF ContinueRow, RowMove, Left, IsActive
<1>5. CASE DeleteRows
  BY <1>5 DEF DeleteRows, RowMove, Left, IsActive, SessionOK
<1>6. CASE \E s \in Session : PrepareCreate(s) \/ PrepareResume(s) \/ ClearSeed(s)
  BY <1>6 DEF PrepareCreate, PrepareResume, ClearSeed, RowMove, Rotated, Resumed, Unseeded,
     IsActive, SessionOK
<1>7. CASE \E s \in Session, a \in 1..MaxAttempt : FailResume(s, a)
  BY <1>7 DEF FailResume, RowMove, Answered, IsActive, SessionOK
<1>8. CASE \E m \in minted : Attach(m) \/ ConfirmCreated(m) \/ ConfirmResumed(m)
  <2>1. PICK m \in minted : Attach(m) \/ ConfirmCreated(m) \/ ConfirmResumed(m)
    BY <1>8
  <2>2. m.session \in Session /\ ThreadOf(m) \in Thread
    BY ThreadOfMint DEF SessionOK, Mint
  <2>3. CASE Attach(m)
    BY <2>3 DEF Attach, SessionOK, RowMove
  <2>4. CASE ConfirmCreated(m)
    <3>1. Bound(session[m.session], session'[m.session])
      BY <2>2, <2>4 DEF ConfirmCreated, SessionOK, Bound, IsActive
    <3> QED
      BY <2>2, <2>4, <3>1 DEF ConfirmCreated, SessionOK, RowMove
  <2>5. CASE ConfirmResumed(m)
    BY <2>2, <2>5 DEF ConfirmResumed, SessionOK, RowMove, Answered, IsActive
  <2> QED
    BY <2>1, <2>3, <2>4, <2>5
<1> QED
  BY <1>1, <1>2, <1>3, <1>4, <1>5, <1>6, <1>7, <1>8 DEF SessNext, RowTransition, Continuation

\* Every mint that is recorded is well formed.
LEMMA StepKeepsMints ==
  ASSUME SessionOK, SessNext
  PROVE  /\ minted' \subseteq Mint /\ attached' \subseteq minted'
         /\ minted \subseteq minted' /\ attached \subseteq attached'
<1>1. CASE RowTransition
  BY <1>1 DEF RowTransition, ReplaceRow, CloseRow, ReactivateRow, ContinueRow, DeleteRows, SessionOK
<1>2. CASE \E s \in Session : PrepareCreate(s) \/ PrepareResume(s)
  <2>1. PICK s \in Session : PrepareCreate(s) \/ PrepareResume(s)
    BY <1>2
  <2>2. session'[s].attempt \in 1..MaxAttempt
    <3>1. RowOK(session'[s])
      BY <2>1, StepMovesRows, RowMoveOK DEF SessionOK
    <3>2. session'[s].status = "active" /\ session'[s].cont # "legacy-unavailable"
      BY <2>1 DEF PrepareCreate, PrepareResume, IsActive, RotatedRow, PendingRow, SessionOK, Row
    <3>3. session'[s].attempt \in 0..MaxAttempt /\ session'[s].attempt > 0
      BY <3>1, <3>2 DEF RowOK, Row, RowStateConsistent
    <3> QED
      BY <3>3, SessionAssumption
  <2> QED
    BY <2>1, <2>2 DEF PrepareCreate, PrepareResume, SessionOK, Row, Mint
<1>3. CASE \E s \in Session : ClearSeed(s)
  BY <1>3 DEF ClearSeed, SessionOK
<1>4. CASE \E s \in Session, a \in 1..MaxAttempt : FailResume(s, a)
  BY <1>4 DEF FailResume, SessionOK
<1>5. CASE \E m \in minted : Attach(m) \/ ConfirmCreated(m) \/ ConfirmResumed(m)
  BY <1>5 DEF Attach, ConfirmCreated, ConfirmResumed, SessionOK
<1> QED
  BY <1>1, <1>2, <1>3, <1>4, <1>5 DEF SessNext, Continuation

\* The step case of SessTypeOK.
LEMMA SessionOKInductive ==
  ASSUME SessionOK, [SessNext]_sessVars
  PROVE  SessionOK'
<1>1. CASE SessNext
  <2>1. live' \in BOOLEAN
    BY <1>1 DEF SessNext, RowTransition, Continuation, SessionOK, ReplaceRow, CloseRow,
       ReactivateRow, ContinueRow, DeleteRows, PrepareCreate, PrepareResume, ClearSeed,
       FailResume, Attach, ConfirmCreated, ConfirmResumed
  <2>2. \A s \in Session : RowOK(session'[s])
    BY <1>1, StepMovesRows, RowMoveOK DEF SessionOK
  <2>3. session' \in [Session -> Row]
    BY <1>1, <2>2, StepMovesRows DEF RowOK
  <2> QED
    BY <1>1, <2>1, <2>2, <2>3, StepKeepsMints DEF SessionOK
<1>2. CASE UNCHANGED sessVars
  BY <1>2 DEF SessionOK, sessVars
<1> QED
  BY <1>1, <1>2

\* No row exists initially.
LEMMA SessionOKInitial == SessInit => SessionOK
<1> SUFFICES ASSUME SessInit PROVE SessionOK
  OBVIOUS
<1>1. 0 \in 0..MaxAttempt
  BY SessionAssumption
<1>2. RowOK(AbsentRow)
  BY <1>1 DEF RowOK, AbsentRow, Row, ContinuationState
<1>3. LegacyRow \in Row /\ LegacyRow.status = "ended" /\ LegacyRow.cont = "legacy-unavailable"
      /\ LegacyRow.native = None /\ LegacyRow.attempt = 0
  BY <1>1 DEF AbsentRow, LegacyRow, Row, ContinuationState
<1>4. RowOK(LegacyRow)
  BY <1>3 DEF RowOK, RowStateConsistent
<1> QED
  BY <1>2, <1>4 DEF SessInit, SessionOK, RowOK, Mint

\* Type correctness, for every set of sessions: no operation writes a row that
\* the consistency trigger of 0012 would refuse.
THEOREM SessionTypes == SessSpec => []SessTypeOK
  BY SessionOKInitial, SessionOKInductive, SessionOKIsTypeOK, PTL DEF SessSpec

-----------------------------------------------------------------------------
\* Preparing, confirming or failing a continuation opens and ends no session.
LEMMA ContinuationKeepsStatus ==
  ASSUME SessionOK, Continuation
  PROVE  live' = live /\ \A s \in Session : session'[s].status = session[s].status
<1> USE DEF SessionOK
<1>1. CASE \E s \in Session : PrepareCreate(s) \/ PrepareResume(s) \/ ClearSeed(s)
  <2>1. PICK s \in Session : PrepareCreate(s) \/ PrepareResume(s) \/ ClearSeed(s)
    BY <1>1
  <2>2. CASE PrepareCreate(s)
    BY <2>2 DEF PrepareCreate, RotatedRow, Row
  <2>3. CASE PrepareResume(s)
    BY <2>3 DEF PrepareResume, PendingRow, IsActive, Row
  <2>4. CASE ClearSeed(s)
    BY <2>4 DEF ClearSeed, Row
  <2> QED
    BY <2>1, <2>2, <2>3, <2>4
<1>2. CASE \E s \in Session, a \in 1..MaxAttempt : FailResume(s, a)
  BY <1>2 DEF FailResume, Row
<1>3. CASE \E m \in minted : Attach(m) \/ ConfirmCreated(m) \/ ConfirmResumed(m)
  <2>1. PICK m \in minted : Attach(m) \/ ConfirmCreated(m) \/ ConfirmResumed(m)
    BY <1>3
  <2>2. CASE Attach(m)
    BY <2>2 DEF Attach
  <2>3. CASE ConfirmCreated(m)
    BY <2>3 DEF ConfirmCreated, BoundRow, Row
  <2>4. CASE ConfirmResumed(m)
    BY <2>4 DEF ConfirmResumed, Row
  <2> QED
    BY <2>1, <2>2, <2>3, <2>4
<1> QED
  BY <1>1, <1>2, <1>3 DEF Continuation

\* One active session needs the caller's expectation: a successor only becomes
\* active together with the end of the session that was active before.
LEMMA OneActiveInductive ==
  ASSUME SessionOK, OneActiveSession, [SessNext]_sessVars
  PROVE  OneActiveSession'
<1> SUFFICES ASSUME SessNext PROVE OneActiveSession'
  BY DEF OneActiveSession, IsActive, sessVars
<1> USE DEF OneActiveSession, IsActive, SessionOK
<1>1. CASE \E old \in Session \cup {None}, new \in Session, handoff \in BOOLEAN :
             ReplaceRow(old, new, handoff)
  BY <1>1, SessionAssumption DEF ReplaceRow, Expected, NoneActive, EndRow, Row
<1>2. CASE \E old \in Session : CloseRow(old)
  BY <1>2 DEF CloseRow, EndRow, Row
<1>3. CASE \E old \in Session \cup {None}, target \in Session : ReactivateRow(old, target)
  BY <1>3, SessionAssumption DEF ReactivateRow, Expected, NoneActive, EndRow, Row
<1>4. CASE \E old, new \in Session : ContinueRow(old, new)
  <2>1. PICK old \in Session, new \in Session : ContinueRow(old, new)
    BY <1>4
  <2>2. old # new /\ EndRow(session[old]).status = "ended"
    BY <2>1, EndRowOK, PresentRow DEF ContinueRow
  <2>3. \A s \in Session \ {new} : session'[s].status # "active"
    BY <2>1, <2>2 DEF ContinueRow
  <2> QED
    BY <2>3
<1>5. CASE DeleteRows
  <2>1. \A s \in Session : session'[s].status # "active"
    <3> SUFFICES ASSUME NEW s \in Session PROVE session'[s].status # "active"
      OBVIOUS
    <3>1. CASE IsActive(s)
      <4>1. session'[s] = EndRow(session[s])
        BY <1>5, <3>1 DEF DeleteRows
      <4> QED
        BY <3>1, <4>1, EndRowOK, PresentRow
    <3>2. CASE ~IsActive(s)
      BY <1>5, <3>2 DEF DeleteRows
    <3> QED
      BY <3>1, <3>2
  <2> QED
    BY <2>1
<1>6. CASE Continuation
  BY <1>6, ContinuationKeepsStatus
<1> QED
  BY <1>1, <1>2, <1>3, <1>4, <1>5, <1>6 DEF SessNext, RowTransition

\* The partial unique index on the active session of a project never aborts a
\* transition, for every number of sessions.
THEOREM ActiveSessionIsUnique == SessSpec => []OneActiveSession
<1>1. AbsentRow.status # "active" /\ LegacyRow.status # "active"
  BY DEF AbsentRow, LegacyRow
<1>2. SessInit => OneActiveSession
  BY <1>1 DEF SessInit, OneActiveSession, IsActive
<1> QED
  BY <1>2, SessionOKInitial, SessionOKInductive, OneActiveInductive, PTL DEF SessSpec

-----------------------------------------------------------------------------
\* An ended session stays exactly as it was left until a resume reactivates it
\* under a fresh attempt, for every number of mints that are still in flight.
THEOREM EndedRowsAreFrozen == SessSpec => EndedUntilReactivated
<1>1. ASSUME SessionOK, [SessNext]_sessVars
      PROVE  [\A s \in Session :
                session[s].status = "ended" /\ session'[s] # session[s] =>
                  /\ session'[s].status = "active"
                  /\ session'[s].attempt > session[s].attempt]_sessVars
  <2> SUFFICES ASSUME SessNext, NEW s \in Session,
                      session[s].status = "ended", session'[s] # session[s]
               PROVE  /\ session'[s].status = "active"
                      /\ session'[s].attempt > session[s].attempt
    BY <1>1
  <2>1. RowMove(session[s], session'[s])
    BY <1>1, StepMovesRows
  <2>4. session[s] # AbsentRow
    BY DEF AbsentRow
  <2>2. Resumed(session[s], session'[s])
    BY <2>1, <2>4 DEF RowMove, Left, Created, Continued, Rotated, Bound, Answered, Unseeded
  <2>3. session[s] \in Row /\ session[s].attempt \in Nat
    BY <1>1, SessionAssumption DEF SessionOK, Row
  <2> QED
    BY <2>2, <2>3 DEF Resumed, PendingRow, Row
<1> QED
  BY <1>1, SessionOKInitial, SessionOKInductive, PTL DEF SessSpec, EndedUntilReactivated

-----------------------------------------------------------------------------
\* The step case of SeedKeptUntilBound.
LEMMA SeedInductive ==
  ASSUME SessionOK, SeedKeptUntilBound, [SessNext]_sessVars
  PROVE  SeedKeptUntilBound'
<1> SUFFICES ASSUME SessNext, NEW s \in Session,
                    session'[s].source # None, session'[s].native = None
             PROVE  session'[s].seed
  BY DEF SeedKeptUntilBound, sessVars
<1> DEFINE old == session[s]
           new == session'[s]
<1>1. RowMove(old, new) /\ old \in Row /\ (old.source # None /\ old.native = None => old.seed)
  BY StepMovesRows DEF SessionOK, SeedKeptUntilBound
<1>2. RowOK(old)
  BY DEF SessionOK
<1> HIDE DEF old, new
<1>3. new.source # None /\ new.native = None
  BY DEF new
<1>4. CASE new = old
  BY <1>1, <1>3, <1>4 DEF new
<1>5. CASE Left(old, new) \/ Rotated(old, new)
  BY <1>1, <1>3, <1>5 DEF Left, EndRow, Rotated, RotatedRow, Row, new
<1>6. CASE Created(old, new)
  BY <1>3, <1>6 DEF Created, CleanRow, new
<1>7. CASE Resumed(old, new) \/ Continued(old, new) \/ Bound(old, new)
  <2>1. new.native # None
    <3>1. CASE Resumed(old, new)
      BY <1>2, <3>1, PendingRowOK DEF Resumed, ResumeReady
    <3>2. CASE Continued(old, new)
      <4>1. PICK source \in Session, thread \in Thread :
              new = PendingRow(BoundRow(CleanRow(FALSE, source), thread))
        BY <3>2 DEF Continued
      <4>2. new.native = thread
        BY <4>1 DEF PendingRow, BoundRow, CleanRow
      <4> QED
        BY <4>2, SessionAssumption DEF Thread
    <3>3. CASE Bound(old, new)
      BY <1>1, <3>3, SessionAssumption DEF Bound, BoundRow, Row, Thread
    <3> QED
      BY <1>7, <3>1, <3>2, <3>3
  <2> QED
    BY <1>3, <2>1
<1>8. CASE Answered(old, new) \/ Unseeded(old, new)
  <2>1. old.native = None
    BY <1>1, <1>3, <1>8 DEF Answered, Unseeded, Row
  <2> QED
    BY <1>2, <1>8, <2>1 DEF RowOK, RowStateConsistent, ResumeReady, Answered, Unseeded, AbsentRow
<1> QED
  BY <1>1, <1>4, <1>5, <1>6, <1>7, <1>8 DEF RowMove

\* A handed-off session keeps its seed through any number of failed mints.
THEOREM HandoffSeedIsKept == SessSpec => []SeedKeptUntilBound
<1>1. SessInit => SeedKeptUntilBound
  <2>1. AbsentRow.source = None /\ LegacyRow.source = None
    BY DEF AbsentRow, LegacyRow
  <2> QED
    BY <2>1 DEF SessInit, SeedKeptUntilBound
<1> QED
  BY <1>1, SessionOKInitial, SessionOKInductive, SeedInductive, PTL DEF SessSpec

-----------------------------------------------------------------------------
(***************************************************************************)
(* Late receipts.  Mints never outrun the attempt of their session, so a   *)
(* receipt of the current attempt is one of the last mint.                 *)
(***************************************************************************)
MintsBehindAttempt == \A m \in minted : m.attempt <= session[m.session].attempt

\* Attempts only grow, and a bound row keeps its thread and its source.
LEMMA MovesKeep ==
  ASSUME NEW old, NEW new, RowOK(old), RowMove(old, new)
  PROVE  /\ old.attempt <= new.attempt
         /\ old.native # None => new.native = old.native /\ new.source = old.source
<1>1. old \in Row /\ old.attempt \in Nat
  BY SessionAssumption DEF RowOK, Row
<1>2. CASE Left(old, new) \/ Answered(old, new) \/ Unseeded(old, new) \/ new = old
  BY <1>1, <1>2 DEF Left, EndRow, Answered, Unseeded, Row
<1>3. CASE Created(old, new)
  BY <1>3 DEF Created, CleanRow, AbsentRow
<1>4. CASE Resumed(old, new)
  BY <1>1, <1>4 DEF Resumed, PendingRow, Row
<1>5. CASE Continued(old, new)
  BY <1>5 DEF Continued, PendingRow, BoundRow, CleanRow, AbsentRow
<1>6. CASE Rotated(old, new)
  BY <1>1, <1>6 DEF Rotated, RotatedRow, Row
<1>7. CASE Bound(old, new)
  BY <1>1, <1>7 DEF Bound, BoundRow, Row
<1> QED
  BY <1>2, <1>3, <1>4, <1>5, <1>6, <1>7 DEF RowMove

\* A new mint carries the attempt its session was just rotated to.
LEMMA NewMint ==
  ASSUME SessionOK, SessNext, NEW m \in minted' \ minted
  PROVE  /\ m.session \in Session
         /\ m.attempt = session'[m.session].attempt
         /\ m.requested = session[m.session].native
<1>1. CASE RowTransition
  BY <1>1 DEF RowTransition, ReplaceRow, CloseRow, ReactivateRow, ContinueRow, DeleteRows
<1>2. CASE \E s \in Session : PrepareCreate(s) \/ PrepareResume(s)
  <2>1. PICK s \in Session : PrepareCreate(s) \/ PrepareResume(s)
    BY <1>2
  <2>2. m.session = s /\ m.attempt = session'[s].attempt /\ m.requested = session[s].native
    BY <2>1 DEF PrepareCreate, PrepareResume
  <2> QED
    BY <2>2
<1>3. CASE ~\E s \in Session : PrepareCreate(s) \/ PrepareResume(s)
  BY <1>1, <1>3 DEF SessNext, Continuation, ClearSeed, FailResume, Attach, ConfirmCreated,
     ConfirmResumed
<1> QED
  BY <1>2, <1>3

\* A mint is numbered by the attempt that was current when it was made, and
\* attempts only grow.
LEMMA MintsBehindAttemptInductive ==
  ASSUME SessionOK, MintsBehindAttempt, [SessNext]_sessVars
  PROVE  MintsBehindAttempt'
<1> SUFFICES ASSUME SessNext, NEW m \in minted'
             PROVE  m.attempt <= session'[m.session].attempt
  BY DEF MintsBehindAttempt, sessVars
<1>1. m \in Mint
  BY StepKeepsMints
<1>2. SessionOK'
  BY SessionOKInductive
<1>3. \A s \in Session : /\ session[s].attempt \in Nat /\ session'[s].attempt \in Nat
                         /\ session[s].attempt <= session'[s].attempt
  BY <1>2, StepMovesRows, MovesKeep, SessionAssumption DEF SessionOK, Row
<1>4. CASE m \in minted
  BY <1>1, <1>3, <1>4, SessionAssumption DEF MintsBehindAttempt, Mint
<1>5. CASE m \notin minted
  BY <1>3, <1>5, NewMint
<1> QED
  BY <1>4, <1>5

\* A row becomes native-resumed only by the receipt of its own attempt.
LEMMA FirstConfirmation ==
  ASSUME SessionOK, SessNext, NEW s \in Session,
         session[s].cont # "native-resumed", session'[s].cont = "native-resumed"
  PROVE  \E m \in attached : m.session = s /\ ConfirmResumed(m)
<1> USE DEF SessionOK
<1>1. CASE RowTransition
  <2>1. \A source \in Session, thread \in Thread :
          PendingRow(BoundRow(CleanRow(FALSE, source), thread)).cont = "resume-pending"
    BY DEF CleanRow, PendingRow, BoundRow
  <2>2. session[s].native \in Thread \cup {None} /\ EndRow(session[s]).cont = session[s].cont
    BY DEF EndRow, Row
  <2>3. PendingRow(session[s]).cont = "resume-pending"
    BY DEF PendingRow, Row
  <2>4. \A seed, source : CleanRow(seed, source).cont = "clean-pending"
    BY DEF CleanRow
  <2>5. \A old \in Session : ResumeReady(session[old]) => session[old].native \in Thread
    BY DEF ResumeReady, Row
  <2>6. ~\E old \in Session \cup {None}, new \in Session, handoff \in BOOLEAN :
           ReplaceRow(old, new, handoff)
    BY <2>2, <2>4 DEF ReplaceRow
  <2>7. ~\E old \in Session : CloseRow(old)
    BY <2>2 DEF CloseRow
  <2>8. ~\E old \in Session \cup {None}, target \in Session : ReactivateRow(old, target)
    BY <2>2, <2>3 DEF ReactivateRow
  <2>9. ~\E old, new \in Session : ContinueRow(old, new)
    BY <2>1, <2>2, <2>5 DEF ContinueRow
  <2>10. ~DeleteRows
    BY <2>2 DEF DeleteRows
  <2> QED
    BY <1>1, <2>6, <2>7, <2>8, <2>9, <2>10 DEF RowTransition
<1>2. CASE \E t \in Session : PrepareCreate(t) \/ PrepareResume(t) \/ ClearSeed(t)
  BY <1>2 DEF PrepareCreate, PrepareResume, ClearSeed, RotatedRow, PendingRow, Row
<1>3. CASE \E t \in Session, a \in 1..MaxAttempt : FailResume(t, a)
  BY <1>3 DEF FailResume, Row
<1>4. CASE \E m \in minted : Attach(m) \/ ConfirmCreated(m) \/ ConfirmResumed(m)
  <2>1. PICK m \in minted : Attach(m) \/ ConfirmCreated(m) \/ ConfirmResumed(m)
    BY <1>4
  <2>2. ~Attach(m)
    BY DEF Attach
  <2>3. ~ConfirmCreated(m)
    BY DEF ConfirmCreated, BoundRow, Row
  <2>4. ConfirmResumed(m) /\ m \in attached
    BY <2>1, <2>2, <2>3 DEF ConfirmResumed
  <2> QED
    BY <2>4 DEF ConfirmResumed
<1> QED
  BY <1>1, <1>2, <1>3, <1>4 DEF SessNext, Continuation

\* A confirmation names the attempt its row had when it arrived, and a rotation
\* of the attempt puts the row back to pending.
LEMMA ConfirmedInductive ==
  ASSUME SessionOK, ConfirmedByCurrentAttempt, [SessNext]_sessVars
  PROVE  ConfirmedByCurrentAttempt'
<1> SUFFICES ASSUME SessNext, NEW s \in Session, session'[s].cont = "native-resumed"
             PROVE  \E m \in attached' : /\ m.session = s
                                         /\ m.attempt = session'[s].attempt
                                         /\ ThreadOf(m) = session'[s].native
  BY DEF ConfirmedByCurrentAttempt, ThreadOf, sessVars
<1>1. RowMove(session[s], session'[s]) /\ session[s] \in Row
  BY StepMovesRows DEF SessionOK
<1>2. CASE session[s].cont = "native-resumed"
  <2>1. session'[s].attempt = session[s].attempt /\ session'[s].native = session[s].native
    <3>5. session[s] # AbsentRow
      BY <1>2 DEF AbsentRow
    <3>1. ~Created(session[s], session'[s]) /\ ~Continued(session[s], session'[s])
      BY <3>5 DEF Created, Continued
    <3>2. ~Resumed(session[s], session'[s])
      BY <1>1 DEF Resumed, PendingRow, Row
    <3>3. ~Rotated(session[s], session'[s]) /\ ~Bound(session[s], session'[s])
      BY <1>2 DEF Rotated, Bound
    <3>4. ~Answered(session[s], session'[s])
      BY <1>2 DEF Answered
    <3> QED
      BY <1>1, <3>1, <3>2, <3>3, <3>4 DEF RowMove, Left, EndRow, Unseeded, Row
  <2> QED
    BY <1>2, <2>1, StepKeepsMints DEF ConfirmedByCurrentAttempt
<1>3. CASE session[s].cont # "native-resumed"
  <2>1. PICK m \in attached : m.session = s /\ ConfirmResumed(m)
    BY <1>3, FirstConfirmation
  <2>2. session'[s].attempt = session[s].attempt /\ session'[s].native = session[s].native
    BY <2>1 DEF ConfirmResumed, SessionOK, Row
  <2> QED
    BY <2>1, <2>2 DEF ConfirmResumed, OfCurrentAttempt
<1> QED
  BY <1>2, <1>3

\* A receipt of an older mint never confirms a continuation, for every number
\* of mints and however late their receipts arrive.
THEOREM ConfirmationsAreCurrent == SessSpec => []ConfirmedByCurrentAttempt
<1>1. SessInit => ConfirmedByCurrentAttempt
  <2>1. AbsentRow.cont # "native-resumed" /\ LegacyRow.cont # "native-resumed"
    BY DEF AbsentRow, LegacyRow
  <2> QED
    BY <2>1 DEF SessInit, ConfirmedByCurrentAttempt
<1> QED
  BY <1>1, SessionOKInitial, SessionOKInductive, ConfirmedInductive, PTL DEF SessSpec

-----------------------------------------------------------------------------
\* A row is first bound by the receipt of its last create, or at its birth as
\* the continuation of a bound session.
LEMMA FirstThread ==
  ASSUME SessionOK, SessNext, NEW s \in Session,
         session[s].native = None, session'[s].native # None
  PROVE  \/ \E m \in attached : m.session = s /\ ConfirmCreated(m)
         \/ \E old \in Session : ContinueRow(old, s)
<1> USE DEF SessionOK
<1>1. CASE RowTransition
  <2>1. EndRow(session[s]).native = None /\ PendingRow(session[s]).native = None
    BY DEF EndRow, PendingRow, Row
  <2>2. \A seed, source : CleanRow(seed, source).native = None
    BY DEF CleanRow
  <2>3. ~\E old \in Session \cup {None}, new \in Session, handoff \in BOOLEAN :
           ReplaceRow(old, new, handoff)
    BY <2>1, <2>2 DEF ReplaceRow
  <2>4. ~\E old \in Session : CloseRow(old)
    BY <2>1 DEF CloseRow
  <2>5. ~\E old \in Session \cup {None}, target \in Session : ReactivateRow(old, target)
    BY <2>1 DEF ReactivateRow
  <2>6. ~DeleteRows
    BY <2>1 DEF DeleteRows
  <2>7. PICK old \in Session, new \in Session : ContinueRow(old, new)
    BY <1>1, <2>3, <2>4, <2>5, <2>6 DEF RowTransition
  <2>8. new = s
    BY <2>1, <2>7 DEF ContinueRow
  <2> QED
    BY <2>7, <2>8
<1>2. CASE \E t \in Session : PrepareCreate(t) \/ PrepareResume(t) \/ ClearSeed(t)
  <2>1. /\ RotatedRow(session[s]).native = None
        /\ PendingRow(session[s]).native = None
        /\ [session[s] EXCEPT !.seed = FALSE].native = None
    BY DEF RotatedRow, PendingRow, Row
  <2> QED
    BY <1>2, <2>1 DEF PrepareCreate, PrepareResume, ClearSeed
<1>3. CASE \E t \in Session, a \in 1..MaxAttempt : FailResume(t, a)
  BY <1>3 DEF FailResume, Row
<1>4. CASE \E m \in minted : Attach(m) \/ ConfirmCreated(m) \/ ConfirmResumed(m)
  <2>1. PICK m \in minted : Attach(m) \/ ConfirmCreated(m) \/ ConfirmResumed(m)
    BY <1>4
  <2>2. ~Attach(m)
    BY DEF Attach
  <2>3. ~ConfirmResumed(m)
    BY DEF ConfirmResumed, Row
  <2>4. ConfirmCreated(m)
    BY <2>1, <2>2, <2>3
  <2> QED
    BY <2>4 DEF ConfirmCreated
<1> QED
  BY <1>1, <1>2, <1>3, <1>4 DEF SessNext, Continuation

\* One disjunct of ThreadProvenance each: the thread of s came from its own
\* last create, or with the session it continues.
OwnThread(s) ==
  /\ session[s].native[1] = s
  /\ \E m \in attached : m.requested = None /\ ThreadOf(m) = session[s].native
  /\ \A m \in minted : m.session = s /\ m.requested = None => m.attempt <= session[s].native[2]

InheritedThread(s) ==
  session[s].source # None /\ session[session[s].source].native = session[s].native

\* A thread enters a row only from a mint that attached it, or from the row it
\* continues.
LEMMA ProvenanceInductive ==
  ASSUME SessionOK, MintsBehindAttempt, ThreadProvenance, [SessNext]_sessVars
  PROVE  ThreadProvenance'
<1>0. ThreadProvenance <=> \A s \in Session : session[s].native # None
                             => OwnThread(s) \/ InheritedThread(s)
  BY DEF ThreadProvenance, OwnThread, InheritedThread
<1>1. CASE UNCHANGED sessVars
  BY <1>1 DEF ThreadProvenance, ThreadOf, sessVars
<1> SUFFICES ASSUME SessNext, NEW s \in Session, session'[s].native # None
             PROVE  OwnThread(s)' \/ InheritedThread(s)'
  BY <1>1 DEF ThreadProvenance, OwnThread, InheritedThread
<1>2. CASE session[s].native # None
  <2>1. session'[s].native = session[s].native /\ session'[s].source = session[s].source
    BY <1>2, StepMovesRows, MovesKeep DEF SessionOK
  <2>2. CASE OwnThread(s)
    <3>1. \A m \in minted' \ minted : m.session = s => m.requested # None
      BY <1>2, NewMint
    <3> QED
      BY <2>1, <2>2, <3>1, StepKeepsMints DEF OwnThread, ThreadOf
  <2>3. CASE InheritedThread(s)
    <3>1. session[s].source \in Session
      BY <2>3 DEF InheritedThread, SessionOK, Row
    <3>2. session'[session[s].source].native = session[session[s].source].native
      BY <1>2, <2>3, <3>1, StepMovesRows, MovesKeep DEF InheritedThread, SessionOK
    <3> QED
      BY <2>1, <2>3, <3>2 DEF InheritedThread
  <2> QED
    BY <1>0, <1>2, <2>2, <2>3
<1>3. CASE session[s].native = None
  <2>1. CASE \E m \in attached : m.session = s /\ ConfirmCreated(m)
    <3>1. PICK m \in attached : m.session = s /\ ConfirmCreated(m)
      BY <2>1
    <3>2. session'[s].native = ThreadOf(m) /\ minted' = minted /\ attached' = attached
      BY <3>1 DEF ConfirmCreated, BoundRow, SessionOK, Row
    <3>3. ThreadOf(m) = <<s, m.attempt>>
      BY <3>1 DEF ConfirmCreated, ThreadOf
    <3>4. \A n \in minted : n.session = s => n.attempt <= m.attempt
      BY <3>1 DEF ConfirmCreated, OfCurrentAttempt, MintsBehindAttempt
    <3>5. session'[s].native = <<s, m.attempt>>
      BY <3>2, <3>3
    <3>6. session'[s].native[1] = s /\ session'[s].native[2] = m.attempt
      BY <3>5
    <3>7. \E n \in attached' : n.requested = None /\ ThreadOf(n) = session'[s].native
      BY <3>1, <3>2 DEF ConfirmCreated
    <3> QED
      BY <3>2, <3>4, <3>6, <3>7 DEF OwnThread, ThreadOf
  <2>2. CASE \E old \in Session : ContinueRow(old, s)
    <3>1. PICK old \in Session : ContinueRow(old, s)
      BY <2>2
    <3>2. session[old].native \in Thread /\ old # s
      BY <3>1 DEF ContinueRow, ResumeReady, IsActive, SessionOK, Row
    <3>3. session'[s].source = old /\ session'[s].native = session[old].native
      BY <3>1, <3>2 DEF ContinueRow, PendingRow, BoundRow, CleanRow
    <3>4. session'[old].native = session[old].native
      BY <3>1, <3>2 DEF ContinueRow, EndRow, SessionOK, Row
    <3> QED
      BY <3>3, <3>4, SessionAssumption DEF InheritedThread
  <2> QED
    BY <1>3, <2>1, <2>2, FirstThread
<1> QED
  BY <1>2, <1>3

\* However late a create receipt arrives and however many mints were abandoned,
\* a session is bound to the thread of its last create, or to the thread of the
\* session it continues.
THEOREM ThreadsHaveProvenance == SessSpec => []ThreadProvenance
<1>1. SessInit => ThreadProvenance /\ MintsBehindAttempt
  <2>1. AbsentRow.native = None /\ LegacyRow.native = None
    BY DEF AbsentRow, LegacyRow
  <2> QED
    BY <2>1 DEF SessInit, ThreadProvenance, MintsBehindAttempt
<1> QED
  BY <1>1, SessionOKInitial, SessionOKInductive, MintsBehindAttemptInductive,
     ProvenanceInductive, PTL DEF SessSpec

-----------------------------------------------------------------------------
\* What the triggers say of one edge.
LEMMA MoveAllowed ==
  ASSUME NEW old, NEW new, RowOK(old), old.status # "absent", RowMove(old, new), new # old
  PROVE  UpdateAllowed(old, new)
<1>1. old \in Row /\ RowStateConsistent(old) /\ old.attempt \in Nat
  BY SessionAssumption DEF RowOK, Row
<1>2. RowOK(new) /\ new \in Row
  BY RowMoveOK DEF RowOK
<1>3. old # AbsentRow
  BY DEF AbsentRow
<1> USE DEF UpdateAllowed, AttemptRotationAllowed, FreshAttemptAllowed, ReactivationAllowed,
            BindOnceAllowed, ContinuationMoves
<1>4. CASE Left(old, new)
  BY <1>1, <1>2, <1>4 DEF Left, EndRow, Row, RowOK, RowStateConsistent, ResumeReady
<1>5. CASE Resumed(old, new)
  <2>1. /\ new.status = "active" /\ new.native = old.native /\ new.cont = "resume-pending"
        /\ new.attempt = old.attempt + 1
    BY <1>1, <1>5 DEF Resumed, PendingRow, Row
  <2> QED
    BY <1>1, <1>2, <1>5, <2>1 DEF Resumed, RowOK, ResumeReady
<1>6. CASE Rotated(old, new)
  <2>1. /\ new.status = "active" /\ new.native = old.native /\ new.cont = old.cont
    BY <1>1, <1>6 DEF Rotated, RotatedRow, Row
  <2> QED
    BY <1>2, <1>6, <2>1 DEF Rotated, RowOK
<1>7. CASE Bound(old, new)
  <2>1. /\ new.status = "active" /\ new.cont = "clean-started" /\ new.attempt = old.attempt
    BY <1>1, <1>7 DEF Bound, BoundRow, Row
  <2> QED
    BY <1>2, <1>7, <2>1 DEF Bound, RowOK
<1>8. CASE Answered(old, new)
  <2>1. /\ new.status = "active" /\ new.cont \in {"native-resumed", "resume-failed"}
        /\ new.attempt = old.attempt /\ new.native = old.native
    BY <1>1, <1>8 DEF Answered, Row
  <2> QED
    BY <1>2, <1>8, <2>1 DEF Answered, RowOK
<1>9. CASE Unseeded(old, new)
  <2>1. /\ new.status = "active" /\ new.cont = old.cont
        /\ new.attempt = old.attempt /\ new.native = old.native
    BY <1>1, <1>9 DEF Unseeded, Row
  <2> QED
    BY <1>2, <1>9, <2>1 DEF Unseeded, RowOK
<1> QED
  BY <1>3, <1>4, <1>5, <1>6, <1>7, <1>8, <1>9 DEF RowMove, Created, Continued

\* What the triggers say of a row that is born.
LEMMA BirthAllowed ==
  ASSUME NEW new, RowMove(AbsentRow, new), new # AbsentRow
  PROVE  \/ new = CleanRow(new.seed, new.source)
         \/ LET clean == CleanRow(FALSE, new.source)
                bound == BoundRow(clean, new.native)
            IN  UpdateAllowed(clean, bound) /\ UpdateAllowed(bound, new)
<1>1. Created(AbsentRow, new) \/ Continued(AbsentRow, new)
  BY DEF RowMove, Left, Resumed, ResumeReady, Rotated, Bound, Answered, Unseeded, AbsentRow
<1>2. CASE Created(AbsentRow, new)
  BY <1>2 DEF Created, CleanRow
<1>3. CASE Continued(AbsentRow, new)
  <2>1. PICK source \in Session, thread \in Thread :
          new = PendingRow(BoundRow(CleanRow(FALSE, source), thread))
    BY <1>3 DEF Continued
  <2> DEFINE clean == CleanRow(FALSE, source)
             bound == BoundRow(clean, thread)
  <2>2. new.source = source /\ new.native = thread
    BY <2>1 DEF PendingRow, BoundRow, CleanRow
  <2>3. RowOK(clean) /\ RowMove(clean, bound) /\ clean.status = "active" /\ bound # clean
    BY CleanRowOK DEF RowMove, Bound, CleanRow, BoundRow
  <2>4. RowOK(bound)
    BY <2>3, RowMoveOK
  <2>5. /\ bound.status = "active" /\ bound.attempt = 1
        /\ bound.cont = "clean-started" /\ bound.native = thread
    BY DEF BoundRow, CleanRow
  <2>6. thread # None /\ 1 < MaxAttempt
    BY SessionAssumption DEF Thread
  <2>7. new = PendingRow(bound) /\ Resumed(bound, new)
    BY <2>1, <2>5, <2>6 DEF Resumed, ResumeReady
  <2>8. new # bound
    BY <2>5, <2>7 DEF PendingRow, RowOK, Row, BoundRow, CleanRow
  <2> QED
    BY <2>2, <2>3, <2>4, <2>5, <2>7, <2>8, MoveAllowed DEF RowMove
<1> QED
  BY <1>1, <1>2, <1>3

\* No trigger of 0012 ever aborts a transition of the repositories.
THEOREM TriggersAreSilent == SessSpec => TriggersNeverFire
<1> DEFINE Silent ==
      \A s \in Session :
        LET old == session[s]
            new == session'[s]
            clean == CleanRow(FALSE, new.source)
            bound == BoundRow(clean, new.native)
        IN  new # old =>
              IF old.status # "absent" THEN UpdateAllowed(old, new)
              ELSE \/ new = CleanRow(new.seed, new.source)
                   \/ UpdateAllowed(clean, bound) /\ UpdateAllowed(bound, new)
<1>1. ASSUME SessionOK, [SessNext]_sessVars
      PROVE  [Silent]_sessVars
  <2> SUFFICES ASSUME SessNext PROVE Silent
    BY <1>1
  <2>1. \A s \in Session : RowOK(session[s]) /\ RowMove(session[s], session'[s])
    BY <1>1, StepMovesRows DEF SessionOK
  <2>2. \A s \in Session : session[s].status = "absent" => session[s] = AbsentRow
    BY <2>1 DEF RowOK
  <2> QED
    BY <2>1, <2>2, MoveAllowed, BirthAllowed
<1> QED
  BY <1>1, SessionOKInitial, SessionOKInductive, PTL DEF SessSpec, TriggersNeverFire
=============================================================================
