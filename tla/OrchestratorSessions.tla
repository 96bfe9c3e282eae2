------------------------ MODULE OrchestratorSessions ------------------------
(***************************************************************************)
(* The orchestrator_sessions rows of one project: which app session is     *)
(* active, the native (provider) thread it is bound to and the             *)
(* continuation attempt that fences receipts of older mints.               *)
(*                                                                         *)
(* Source: packages/db/src/repos/orchestrator-sessions.ts, the session     *)
(* half of the atomic transitions of packages/db/src/repos/                *)
(* conversation-queue.ts, and the triggers of drizzle/0012.                *)
(*                                                                         *)
(* Every operation is one SQLite transaction, hence one action.  The       *)
(* providers are the environment: a mint (an attempt handed to an adapter) *)
(* may attach at any later time, or never, and its receipt may be          *)
(* delivered late and more than once.                                      *)
(***************************************************************************)
EXTENDS Naturals, FiniteSets

CONSTANTS Session,     \* app session ids (orchestrator_sessions.id)
          None,        \* SQL NULL
          MaxAttempt   \* bound on the attempt ids of one session

ASSUME SessionAssumption ==
  /\ None \notin Session
  /\ None \notin Session \X (1..MaxAttempt)
  /\ MaxAttempt \in Nat \ {0, 1}

VARIABLES live,      \* the project row is not deleted
          session,   \* Session -> row
          minted,    \* mints handed to an adapter so far
          attached   \* mints whose provider positively attached

sessVars == <<live, session, minted, attached>>

(***************************************************************************)
(* A native thread is named by the mint that created it: the provider      *)
(* returns a new id for every create.  newId() makes attempt ids unique;   *)
(* here they count up within their session.                                *)
(***************************************************************************)
Thread == Session \X (1..MaxAttempt)

ContinuationState ==
  {"none", "clean-pending", "clean-started", "resume-pending",
   "native-resumed", "resume-failed", "legacy-unavailable"}

Row == [status  : {"absent", "active", "ended"},
        native  : Thread \cup {None},
        cont    : ContinuationState,
        attempt : 0..MaxAttempt,
        seed    : BOOLEAN,
        source  : Session \cup {None}]

Mint == [session : Session, attempt : 1..MaxAttempt,
         requested : Thread \cup {None}]   \* None: a create

\* SQL NULL names no mint.
ASSUME MintAssumption == None \notin Mint

AbsentRow == [status |-> "absent", native |-> None, cont |-> "none",
              attempt |-> 0, seed |-> FALSE, source |-> None]

\* A row migrated from before selections were stamped: ended evidence only.
LegacyRow == [AbsentRow EXCEPT !.status = "ended", !.cont = "legacy-unavailable"]

\* newStampedOrchestratorSession
CleanRow(seed, source) ==
  [status |-> "active", native |-> None, cont |-> "clean-pending",
   attempt |-> 1, seed |-> seed, source |-> source]

IsActive(s) == session[s].status = "active"
NoneActive == \A s \in Session : ~IsActive(s)

\* isOrchestratorSessionResumeReady
ResumeReady(row) ==
  /\ row.native # None
  /\ row.cont \in {"clean-started", "resume-pending", "native-resumed", "resume-failed"}

EndRow(row) == [row EXCEPT !.status = "ended"]

\* Mutant: a resume that keeps the generation of the previous attempt.
PendingRowSameAttempt(row) == [row EXCEPT !.status = "active", !.cont = "resume-pending"]

\* The row a resume leaves behind: active, pending, under a fresh attempt.
PendingRow(row) ==
  [row EXCEPT !.status = "active", !.cont = "resume-pending", !.attempt = @ + 1]

BoundRow(row, thread) == [row EXCEPT !.native = thread, !.cont = "clean-started"]

SessInit ==
  /\ live = TRUE
  /\ session \in [Session -> {AbsentRow, LegacyRow}]
  /\ minted = {}
  /\ attached = {}

-----------------------------------------------------------------------------
(***************************************************************************)
(* App-session transitions.  "old" is expectedSessionId: None, or the      *)
(* session the caller saw active; a transition that finds another one      *)
(* throws and rolls back.                                                  *)
(***************************************************************************)
\* Mutant: a first send that does not look for a session created meanwhile.
ExpectedUnlessNone(old) == IF old = None THEN TRUE ELSE IsActive(old)

Expected(old) == IF old = None THEN NoneActive ELSE IsActive(old)

\* replaceOrchestratorSession, and handoffOrchestratorSession with seed: the
\* successor is clean-pending and remembers its source.
ReplaceRow(old, new, handoff) ==
  /\ live
  /\ Expected(old)
  /\ handoff => old # None
  /\ session[new].status = "absent"
  /\ session' = [s \in Session |->
       IF s = new THEN CleanRow(handoff, IF handoff THEN old ELSE None)
       ELSE IF s = old THEN EndRow(session[s]) ELSE session[s]]
  /\ UNCHANGED <<live, minted, attached>>

\* closeOrchestratorSession
CloseRow(old) ==
  /\ live
  /\ IsActive(old)
  /\ session' = [session EXCEPT ![old] = EndRow(@)]
  /\ UNCHANGED <<live, minted, attached>>

\* resumeOrchestratorSessionTransition: a historical row becomes active again
\* only as the preparation of a native resume.
ReactivateRow(old, target) ==
  /\ live
  /\ Expected(old)
  /\ old # target
  /\ ResumeReady(session[target])
  /\ session[target].attempt < MaxAttempt
  /\ session' = [s \in Session |->
       IF s = target THEN PendingRow(session[s])
       ELSE IF s = old THEN EndRow(session[s]) ELSE session[s]]
  /\ UNCHANGED <<live, minted, attached>>

\* continueOrchestratorSessionAcrossSelection: the successor takes over the
\* native thread through a bind and a rotation in one transaction.
ContinueRow(old, new) ==
  /\ live
  /\ IsActive(old)
  /\ ResumeReady(session[old])
  /\ session[new].status = "absent"
  /\ session' = [s \in Session |->
       IF s = new
         THEN PendingRow(BoundRow(CleanRow(FALSE, old), session[old].native))
       ELSE IF s = old THEN EndRow(session[s]) ELSE session[s]]
  /\ UNCHANGED <<live, minted, attached>>

\* softDeleteProjectConversationState
DeleteRows ==
  /\ live
  /\ live' = FALSE
  /\ session' = [s \in Session |->
                   IF IsActive(s) THEN EndRow(session[s]) ELSE session[s]]
  /\ UNCHANGED <<minted, attached>>

-----------------------------------------------------------------------------
(***************************************************************************)
(* The continuation attempt.  Preparing rotates it immediately before the  *)
(* adapter is called; both the rotation and the mint are recorded here.    *)
(***************************************************************************)
\* Mutant: the handoff seed is consumed by the mint instead of its receipt.
RotatedRowConsumingSeed(row) == [row EXCEPT !.attempt = @ + 1, !.seed = FALSE]

RotatedRow(row) == [row EXCEPT !.attempt = @ + 1]

\* prepareRuntimeSessionCreate
PrepareCreate(s) ==
  /\ IsActive(s)
  /\ session[s].native = None
  /\ session[s].cont = "clean-pending"
  /\ session[s].attempt < MaxAttempt
  /\ session' = [session EXCEPT ![s] = RotatedRow(@)]
  /\ minted' = minted \cup {[session |-> s, attempt |-> session'[s].attempt,
                             requested |-> None]}
  /\ UNCHANGED <<live, attached>>

\* prepareRuntimeSessionResume
PrepareResume(s) ==
  /\ IsActive(s)
  /\ ResumeReady(session[s])
  /\ session[s].attempt < MaxAttempt
  /\ session' = [session EXCEPT ![s] = PendingRow(@)]
  /\ minted' = minted \cup {[session |-> s, attempt |-> session'[s].attempt,
                             requested |-> session[s].native]}
  /\ UNCHANGED <<live, attached>>

\* The provider attaches a minted attempt; only then can a receipt exist.
Attach(m) ==
  /\ m \in minted \ attached
  /\ attached' = attached \cup {m}
  /\ UNCHANGED <<live, session, minted>>

ThreadOf(m) == IF m.requested = None THEN <<m.session, m.attempt>> ELSE m.requested

OfCurrentAttempt(m) == session[m.session].attempt = m.attempt

\* confirmRuntimeSessionReceipt, mode 'created': first confirmation.  A
\* redelivery finds clean-started and changes nothing.
ConfirmCreated(m) ==
  /\ m \in attached
  /\ m.requested = None
  /\ IsActive(m.session)
  /\ OfCurrentAttempt(m)
  /\ session[m.session].native = None
  /\ session[m.session].cont = "clean-pending"
  /\ session' = [session EXCEPT ![m.session] = BoundRow(@, ThreadOf(m))]
  /\ UNCHANGED <<live, minted, attached>>

\* confirmRuntimeSessionReceipt, mode 'resumed'.
ConfirmResumed(m) ==
  /\ m \in attached
  /\ m.requested # None
  /\ IsActive(m.session)
  /\ OfCurrentAttempt(m)
  /\ session[m.session].native = ThreadOf(m)
  /\ session[m.session].cont = "resume-pending"
  /\ session' = [session EXCEPT ![m.session].cont = "native-resumed"]
  /\ UNCHANGED <<live, minted, attached>>

\* failRuntimeSessionResume, called with the attempt that failed.
FailResume(s, attempt) ==
  /\ IsActive(s)
  /\ session[s].cont = "resume-pending"
  /\ session[s].attempt = attempt
  /\ session' = [session EXCEPT ![s].cont = "resume-failed"]
  /\ UNCHANGED <<live, minted, attached>>

\* clearPendingHandoffSeed: called when a create receipt is confirmed, first or
\* redelivered, in a transaction of its own.
ClearSeed(s) ==
  /\ IsActive(s)
  /\ session[s].seed
  /\ session[s].cont = "clean-started"
  /\ session' = [session EXCEPT ![s].seed = FALSE]
  /\ UNCHANGED <<live, minted, attached>>

-----------------------------------------------------------------------------
RowTransition ==
  \/ \E old \in Session \cup {None}, new \in Session, handoff \in BOOLEAN :
        ReplaceRow(old, new, handoff)
  \/ \E old \in Session : CloseRow(old)
  \/ \E old \in Session \cup {None}, target \in Session : ReactivateRow(old, target)
  \/ \E old, new \in Session : ContinueRow(old, new)
  \/ DeleteRows

Continuation ==
  \/ \E s \in Session : PrepareCreate(s) \/ PrepareResume(s) \/ ClearSeed(s)
  \/ \E s \in Session, a \in 1..MaxAttempt : FailResume(s, a)
  \/ \E m \in minted : Attach(m) \/ ConfirmCreated(m) \/ ConfirmResumed(m)

SessNext == RowTransition \/ Continuation

SessSpec == SessInit /\ [][SessNext]_sessVars

-----------------------------------------------------------------------------
(***************************************************************************)
(* The triggers of 0012_runtime_session_selection.sql, as the set of row   *)
(* updates they let through.                                               *)
(***************************************************************************)
RowStateConsistent(row) ==
  \/ row.cont = "legacy-unavailable" /\ row.native = None /\ row.attempt = 0
  \/ row.cont = "clean-pending" /\ row.native = None /\ row.attempt > 0
  \/ ResumeReady(row) /\ row.attempt > 0

AttemptRotationAllowed(old, new) ==
  new.attempt # old.attempt =>
    /\ new.status = "active"
    /\ \/ old.status = "active" /\ old.cont = "clean-pending" /\ new.cont = "clean-pending"
       \/ /\ ResumeReady(old)
          /\ new.native = old.native
          /\ new.cont = "resume-pending"

ReactivationAllowed(old, new) ==
  (old.status # "active" /\ new.status = "active") =>
    /\ ResumeReady(old)
    /\ new.native = old.native
    /\ new.cont = "resume-pending"
    /\ new.attempt # old.attempt

ContinuationMoves ==
  {<<"clean-pending", "clean-started">>, <<"clean-started", "resume-pending">>,
   <<"native-resumed", "resume-pending">>, <<"resume-failed", "resume-pending">>,
   <<"resume-pending", "native-resumed">>, <<"resume-pending", "resume-failed">>}

\* orch_sessions_resume_requires_fresh_attempt_guard watches the statements that
\* name the continuation: all of this module but the one that ends a row.
FreshAttemptAllowed(old, new) ==
  new.native # None /\ new.cont = "resume-pending" /\ new.status = "active"
    => new.attempt # old.attempt

BindOnceAllowed(old, new) ==
  \/ old.native = None /\ old.cont # "legacy-unavailable"
  \/ new.native = old.native

UpdateAllowed(old, new) ==
  /\ RowStateConsistent(new)
  /\ AttemptRotationAllowed(old, new)
  /\ FreshAttemptAllowed(old, new)
  /\ ReactivationAllowed(old, new)
  /\ new.cont = old.cont \/ <<old.cont, new.cont>> \in ContinuationMoves
  /\ BindOnceAllowed(old, new)

-----------------------------------------------------------------------------
SessTypeOK ==
  /\ live \in BOOLEAN
  /\ session \in [Session -> Row]
  /\ \A s \in Session : IF session[s].status = "absent" THEN session[s] = AbsentRow
                        ELSE RowStateConsistent(session[s])
  /\ minted \subseteq Mint
  /\ attached \subseteq minted

\* At most one session of the project is active: the partial unique index
\* orch_sessions_active_per_project_idx never aborts a transition, and every
\* reader of "the" active session sees the same row.
OneActiveSession ==
  \A s, t \in Session : IsActive(s) /\ IsActive(t) => s = t

\* A continuation is confirmed only by the attempt that is current: a receipt
\* of a mint made before a crash, a rotation or a reactivation never moves the
\* row, although the provider may deliver it at any time.
ConfirmedByCurrentAttempt ==
  \A s \in Session :
    session[s].cont = "native-resumed" =>
      \E m \in attached : /\ m.session = s
                          /\ m.attempt = session[s].attempt
                          /\ ThreadOf(m) = session[s].native

\* The thread a session is bound to was created by the last create mint of
\* that session, or was taken over from its source session: a late create
\* receipt never binds a thread the app has already abandoned.
ThreadProvenance ==
  \A s \in Session :
    session[s].native # None =>
      \/ /\ session[s].native[1] = s
         /\ \E m \in attached : m.requested = None /\ ThreadOf(m) = session[s].native
         /\ \A m \in minted : m.session = s /\ m.requested = None
                                => m.attempt <= session[s].native[2]
      \/ session[s].source # None /\ session[session[s].source].native = session[s].native

\* A handed-off session that has no native thread yet still carries its seed
\* marker, however many mints failed: the transcript of the source session is
\* injected again, never silently dropped.
SeedKeptUntilBound ==
  \A s \in Session :
    session[s].source # None /\ session[s].native = None => session[s].seed

\* No repository transition is one a trigger of 0012 would abort: the code's
\* state machine stays inside the database's.  A row born bound must be
\* reachable from a clean row by two allowed updates.
TriggersNeverFire ==
  [][\A s \in Session :
       LET old == session[s]
           new == session'[s]
           clean == CleanRow(FALSE, new.source)
           bound == BoundRow(clean, new.native)
       IN  new # old =>
             IF old.status # "absent" THEN UpdateAllowed(old, new)
             ELSE \/ new = CleanRow(new.seed, new.source)
                  \/ UpdateAllowed(clean, bound) /\ UpdateAllowed(bound, new)]_sessVars

\* An ended session is frozen: nothing a late mint, receipt or failure does
\* changes it until a resume reactivates it under a fresh attempt.
EndedUntilReactivated ==
  [][\A s \in Session :
       session[s].status = "ended" /\ session'[s] # session[s] =>
         /\ session'[s].status = "active"
         /\ session'[s].attempt > session[s].attempt]_sessVars
=============================================================================
