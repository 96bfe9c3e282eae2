---- MODULE AgentRuns ----
(***************************************************************************)
(* The agent runs of one contract: the original dispatch and every         *)
(* continuation, from the queued row to its terminal.                      *)
(*   packages/db/src/repos/agent-runs.ts, pending-asks.ts                  *)
(*   packages/app-services/src/agent-runs/run-gateway.ts                   *)
(*   apps/server/src/dispatch/service.ts (start, revive, turn, ask,        *)
(*     answer, kill, settle, auto-continue), apps/server/src/boot-recovery *)
(* Rows and asks are durable; everything else dies with the process. One   *)
(* action is one stretch of code between two awaits, so an action that     *)
(* starts in the middle of a handler re-reads what the code re-reads there *)
(* and keeps, in its own record, what the code captured before the await.  *)
(***************************************************************************)
EXTENDS Naturals, FiniteSets

CONSTANTS
    Runs,               \* identities of agent_runs rows
    Asks,               \* identities of pending_asks rows
    Answerers,          \* callers of the answer door: the orchestrator, the user
    NoRun,
    MaxAutoContinues,   \* MAX_AUTO_CONTINUES of dispatch/service.ts
    MaxAttempt,         \* bound: attempts prepared for one run
    MaxCrashes          \* bound: restarts of the server

ASSUME RunsAssumption ==
    /\ NoRun \notin Runs
    /\ MaxAutoContinues \in Nat /\ MaxAttempt \in Nat /\ MaxCrashes \in Nat

VARIABLES
    row,        \* agent_runs, status "none" before the insert
    ask,        \* pending_asks
    contract,   \* agent_contracts: version and agentRunId of the one contract
    live,       \* this.live: the installed runtime and its turn
    task,       \* this.runTasks before the install: startRun's awaits
    revival,    \* this.liveRevivals: reviveLiveSession's awaits
    answering,  \* calls of answerPendingAsk waiting on a revival or a lease
    continuing, \* calls of dispatchContinueInternal waiting
    retiring,   \* this.retiringRuns: runtimes being disposed
    post,       \* this.postTerminalTasks: what follows the terminal
    server      \* phase of the process, its recovery lists, its restarts

durable == <<row, ask, contract>>
vars == <<row, ask, contract, live, task, revival, answering, continuing,
          retiring, post, server>>

NonTerminal == {"queued", "spawning", "running", "paused"}
Terminal == {"completed", "failed", "cancelled"}
States == {"clean-pending", "clean-started", "resume-pending",
           "native-resumed", "resume-failed"}
Confirmed == {"clean-started", "native-resumed"}

Row == [status : NonTerminal \cup Terminal \cup {"none"},
        state : States,
        attempt : Nat,
        cause : {"none", "turn-budget-exhausted", "other"},
        delivered : BOOLEAN,
        continues : Runs \cup {NoRun},
        count : Nat]

AskRow == [status : {"none", "open", "answered", "cancelled"}, run : Runs \cup {NoRun}]

Contract == [version : Nat, producer : Runs \cup {NoRun}]

\* LiveRun: its attempt, whether its receipt is in, and where its turn stands.
Runtime == [attempt : Nat, confirmed : BOOLEAN, turn : {"none", "open", "door"}]

Awaits == [at : {"idle", "starting", "minting"}, attempt : Nat]

AnswerCalls == [ask : Asks, by : Answerers, at : {"reviving", "leasing"}, attempt : Nat]

Requests == [parent : Runs, auto : BOOLEAN, at : {"preflight", "lease"}, version : Nat]

Followup == {"none", "continue", "dispatching", "verify", "sealed", "done"}

Process == [phase : {"sweep", "sealed", "up", "closing"},
            revive : SUBSET Runs, resume : SUBSET Runs, crashes : Nat]

NoRow == [status |-> "none", state |-> "clean-pending", attempt |-> 0,
          cause |-> "none", delivered |-> FALSE, continues |-> NoRun, count |-> 0]

NoLive == [attempt |-> 0, confirmed |-> FALSE, turn |-> "none"]

Idle == [at |-> "idle", attempt |-> 0]

Active(rw) == rw.status \in NonTerminal

\* The native identity is bound exactly when the state has left clean-pending.
ResumeReady(rw) == rw.state # "clean-pending"

Up == server.phase = "up"

OpenAsks(r) == {a \in Asks : ask[a] = [status |-> "open", run |-> r]}

ActiveContinuation(p) == \E c \in Runs : row[c].continues = p /\ Active(row[c])

HasContinuation(p) == \E c \in Runs : row[c].continues = p

\* liveAttemptIsCurrent: the installed runtime still speaks for its row.
LiveIsCurrent(r) ==
    /\ Up /\ live[r] # NoLive
    /\ Active(row[r]) /\ row[r].attempt = live[r].attempt

TypeOK ==
    /\ row \in [Runs -> Row]
    /\ ask \in [Asks -> AskRow]
    /\ contract \in Contract
    /\ live \in [Runs -> Runtime]
    /\ task \in [Runs -> Awaits]
    /\ revival \in [Runs -> Awaits]
    /\ answering \subseteq AnswerCalls
    /\ continuing \subseteq Requests
    /\ retiring \subseteq Runs
    /\ post \in [Runs -> Followup]
    /\ server \in Process

Init ==
    /\ row = [r \in Runs |-> NoRow]
    /\ ask = [a \in Asks |-> [status |-> "none", run |-> NoRun]]
    /\ contract = [version |-> 0, producer |-> NoRun]
    /\ live = [r \in Runs |-> NoLive]
    /\ task = [r \in Runs |-> Idle]
    /\ revival = [r \in Runs |-> Idle]
    /\ answering = {} /\ continuing = {} /\ retiring = {}
    /\ post = [r \in Runs |-> "none"]
    /\ server = [phase |-> "up", revive |-> {}, resume |-> {}, crashes |-> 0]

-----------------------------------------------------------------------------
(* The row commands of the repository.                                     *)

QueuedRow(p, n) ==
    [NoRow EXCEPT !.status = "queued", !.attempt = 1, !.continues = p, !.count = n,
                  !.state = IF p = NoRun THEN "clean-pending" ELSE "resume-pending"]

CreatePreparable(rw) ==
    /\ rw.status \in {"queued", "spawning", "running"}
    /\ rw.state = "clean-pending"

ResumePreparable(rw) == rw.status \in {"queued", "paused"} /\ ResumeReady(rw)

PreparedCreate(rw) == [rw EXCEPT !.attempt = @ + 1]

PreparedResume(rw) == [rw EXCEPT !.attempt = @ + 1, !.state = "resume-pending"]

\* confirmAgentRunRuntimeSessionReceipt for the row's own attempt.
ReceiptAccepted(rw) ==
    /\ rw.status = "spawning"
    /\ rw.state \in {"clean-pending", "resume-pending"}

ConfirmedRow(rw) ==
    [rw EXCEPT !.state = IF @ = "clean-pending" THEN "clean-started" ELSE "native-resumed"]

ResumeFailedRow(rw, attempt) ==
    IF /\ rw.status \in {"spawning", "paused"}
       /\ rw.state = "resume-pending" /\ rw.attempt = attempt
    THEN [rw EXCEPT !.state = "resume-failed"]
    ELSE rw

EndedRow(rw, status, cause) ==
    IF status = "completed" /\ ~rw.delivered
    THEN [rw EXCEPT !.status = "failed", !.cause = "other"]
    ELSE [rw EXCEPT !.status = status, !.cause = cause]

\* settleTerminal: rw is the row as the step has left it; a fence of 0 is
\* the call without a continuation attempt.
SettleTerminal(r, rw, status, cause, fence) ==
    IF Active(rw) /\ fence \in {0, rw.attempt}
    THEN LET ended == EndedRow(rw, status, cause)
             auto == ended.cause = "turn-budget-exhausted" /\ ended.count < MaxAutoContinues
             retires == live[r] # NoLive /\ fence \in {0, live[r].attempt}
         IN  /\ row' = [row EXCEPT ![r] = ended]
             /\ live' = IF retires THEN [live EXCEPT ![r] = NoLive] ELSE live
             /\ retiring' = IF retires THEN retiring \cup {r} ELSE retiring
             /\ post' = [post EXCEPT ![r] = IF @ # "none" THEN @
                                            ELSE IF auto THEN "continue" ELSE "verify"]
    ELSE /\ row' = [row EXCEPT ![r] = rw]
         /\ UNCHANGED <<live, retiring, post>>

-----------------------------------------------------------------------------
(* Start of a run: dispatch, preflight, mint, install.                     *)

Dispatch(r) ==
    /\ Up /\ \A q \in Runs : row[q] = NoRow
    /\ row' = [row EXCEPT ![r] = QueuedRow(NoRun, 0)]
    /\ contract' = [version |-> contract.version + 1, producer |-> r]
    /\ task' = [task EXCEPT ![r].at = "starting"]
    /\ UNCHANGED <<ask, live, revival, answering, continuing, retiring, post, server>>

\* Preflight, readiness or authority refused: an unfenced terminal.
StartRefused(r) ==
    /\ task[r].at = "starting"
    /\ task' = [task EXCEPT ![r] = Idle]
    /\ SettleTerminal(r, row[r], "failed", "other", 0)
    /\ UNCHANGED <<ask, contract, revival, answering, continuing, server>>

StartPrepares(r) ==
    /\ task[r].at = "starting"
    /\ LET fresh == row[r].continues = NoRun
           able == IF fresh THEN CreatePreparable(row[r]) ELSE ResumePreparable(row[r])
       IN  IF ~Up \/ ~Active(row[r]) \/ ~able
           THEN task' = [task EXCEPT ![r] = Idle] /\ UNCHANGED row
           ELSE /\ row[r].attempt < MaxAttempt
                /\ row' = [row EXCEPT ![r] =
                     [(IF fresh THEN PreparedCreate(@) ELSE PreparedResume(@))
                        EXCEPT !.status = "spawning"]]
                /\ task' = [task EXCEPT ![r] = [at |-> "minting",
                                                attempt |-> row[r].attempt + 1]]
    /\ UNCHANGED <<ask, contract, live, revival, answering, continuing, retiring, post, server>>

MintFails(r) ==
    /\ task[r].at = "minting"
    /\ task' = [task EXCEPT ![r] = Idle]
    /\ SettleTerminal(r, ResumeFailedRow(row[r], task[r].attempt), "failed", "other",
                      task[r].attempt)
    /\ UNCHANGED <<ask, contract, revival, answering, continuing, server>>

\* The row is read again after the mint; a stale session is disposed.
InstallAllowed(r, attempt) ==
    /\ Up /\ Active(row[r])
    /\ row[r].attempt = attempt
    /\ row[r].state \in {"clean-pending", "resume-pending"}

MintResolves(r) ==
    /\ task[r].at = "minting"
    /\ task' = [task EXCEPT ![r] = Idle]
    /\ live' = IF InstallAllowed(r, task[r].attempt)
               THEN [live EXCEPT ![r] = [attempt |-> task[r].attempt,
                                         confirmed |-> FALSE, turn |-> "open"]]
               ELSE live
    /\ UNCHANGED <<row, ask, contract, revival, answering, continuing, retiring, post, server>>

-----------------------------------------------------------------------------
(* A turn of the installed runtime.                                        *)

InTurn(r) == LiveIsCurrent(r) /\ live[r].turn = "open"

\* Mutant: output that precedes the receipt is let through.
ToolCallUnconfirmed(r) == InTurn(r)

\* A tool of the provider calls the server. The adapters yield the session
\* receipt before anything else and refuse output that precedes it, so the
\* receipt of the attempt has been consumed.
ToolCall(r) == InTurn(r) /\ live[r].confirmed

Receipt(r) ==
    /\ InTurn(r) /\ ~live[r].confirmed /\ ReceiptAccepted(row[r])
    /\ row' = [row EXCEPT ![r] = [ConfirmedRow(@) EXCEPT !.status = "running"]]
    /\ live' = [live EXCEPT ![r].confirmed = TRUE]
    /\ UNCHANGED <<ask, contract, task, revival, answering, continuing, retiring, post, server>>

\* A rejected receipt, output before the receipt, a transcript row that
\* cannot be written, or a throwing sendTurn.
TurnBreaks(r) ==
    /\ InTurn(r)
    /\ SettleTerminal(r, ResumeFailedRow(row[r], live[r].attempt), "failed", "other",
                      live[r].attempt)
    /\ UNCHANGED <<ask, contract, task, revival, answering, continuing, server>>

\* pc_submit_deliverable: only the run's own delivery stamp counts for it.
Deliver(r) ==
    /\ ToolCall(r) /\ ~row[r].delivered
    /\ row' = [row EXCEPT ![r].delivered = TRUE]
    /\ contract' = [contract EXCEPT !.version = @ + 1]
    /\ UNCHANGED <<ask, live, task, revival, answering, continuing, retiring, post, server>>

CreatePendingAsk(r, a) ==
    /\ ToolCall(r) /\ row[r].status \in {"spawning", "running"}
    /\ ask[a].status = "none"
    /\ ask' = [ask EXCEPT ![a] = [status |-> "open", run |-> r]]
    /\ row' = [row EXCEPT ![r].status = "paused"]
    /\ UNCHANGED <<contract, live, task, revival, answering, continuing, retiring, post, server>>

\* A paused run is parked with its session; any other clean end goes to the
\* file door, whose Git evidence is awaited.
TurnEnds(r) ==
    /\ InTurn(r) /\ live[r].confirmed
    /\ live' = [live EXCEPT ![r].turn = IF row[r].status = "paused" THEN "none" ELSE "door"]
    /\ UNCHANGED <<row, ask, contract, task, revival, answering, continuing, retiring, post, server>>

TurnFails(r, cause) ==
    /\ InTurn(r) /\ live[r].confirmed /\ row[r].status # "paused"
    /\ SettleTerminal(r, row[r], "failed", cause, live[r].attempt)
    /\ UNCHANGED <<ask, contract, task, revival, answering, continuing, server>>

\* The file door delivers, finds no file, or finds an invalid one.
DoorCloses(r, found) ==
    /\ LiveIsCurrent(r) /\ live[r].turn = "door"
    /\ LET sealed == found = "file" /\ ~row[r].delivered
           rw == IF sealed THEN [row[r] EXCEPT !.delivered = TRUE] ELSE row[r]
       IN  /\ SettleTerminal(r, rw, IF found = "invalid" THEN "failed" ELSE "completed",
                             IF found = "invalid" THEN "other" ELSE "none", live[r].attempt)
           /\ contract' = [contract EXCEPT !.version = @ + IF sealed THEN 1 ELSE 0]
    /\ UNCHANGED <<ask, task, revival, answering, continuing, server>>

-----------------------------------------------------------------------------
(* Revival of a paused run and the answer door.                            *)

\* ensureRevivedLiveSession: one revival for each run, joined by later callers.
NeedsRevival(r) == live[r] = NoLive /\ row[r].status = "paused"

Revive(r) == IF revival[r] = Idle THEN [revival EXCEPT ![r].at = "starting"] ELSE revival

RevivalRefused(r) ==
    /\ revival[r].at = "starting"
    /\ revival' = [revival EXCEPT ![r] = Idle]
    /\ UNCHANGED <<row, ask, contract, live, task, answering, continuing, retiring, post, server>>

RevivalPrepares(r) ==
    /\ revival[r].at = "starting" /\ Up
    /\ row[r].status = "paused" /\ ResumePreparable(row[r])
    /\ row[r].attempt < MaxAttempt
    /\ row' = [row EXCEPT ![r] = PreparedResume(@)]
    /\ revival' = [revival EXCEPT ![r] = [at |-> "minting", attempt |-> row[r].attempt + 1]]
    /\ UNCHANGED <<ask, contract, live, task, answering, continuing, retiring, post, server>>

RevivalMintFails(r) ==
    /\ revival[r].at = "minting"
    /\ row' = [row EXCEPT ![r] = ResumeFailedRow(@, revival[r].attempt)]
    /\ revival' = [revival EXCEPT ![r] = Idle]
    /\ UNCHANGED <<ask, contract, live, task, answering, continuing, retiring, post, server>>

\* The candidate is installed only for the row it was minted for.
RevivalInstallable(r) ==
    /\ Up /\ live[r] = NoLive
    /\ row[r].status = "paused" /\ row[r].state = "resume-pending"
    /\ row[r].attempt = revival[r].attempt

RevivalMinted(r) ==
    /\ revival[r].at = "minting"
    /\ live' = IF RevivalInstallable(r)
               THEN [live EXCEPT ![r] = [attempt |-> revival[r].attempt,
                                         confirmed |-> FALSE, turn |-> "none"]]
               ELSE live
    /\ revival' = [revival EXCEPT ![r] = Idle]
    /\ UNCHANGED <<row, ask, contract, task, answering, continuing, retiring, post, server>>

AnswerCall(a, by, at, attempt) == [ask |-> a, by |-> by, at |-> at, attempt |-> attempt]

AnswerPendingAsk(a, by) ==
    LET r == ask[a].run IN
    /\ Up /\ ask[a].status = "open"
    /\ \A x \in answering : x.ask # a \/ x.by # by
    /\ live[r] # NoLive \/ NeedsRevival(r)
    /\ answering' = answering \cup
         {IF live[r] # NoLive THEN AnswerCall(a, by, "leasing", live[r].attempt)
                              ELSE AnswerCall(a, by, "reviving", 0)}
    /\ revival' = IF live[r] # NoLive THEN revival ELSE Revive(r)
    /\ UNCHANGED <<row, ask, contract, live, task, continuing, retiring, post, server>>

\* The shared revival has resolved, with a runtime or with none (410).
AnswerRevived(x) ==
    LET r == ask[x.ask].run IN
    /\ x \in answering /\ x.at = "reviving" /\ revival[r] = Idle
    /\ answering' = (answering \ {x}) \cup
         IF live[r] # NoLive THEN {AnswerCall(x.ask, x.by, "leasing", live[r].attempt)} ELSE {}
    /\ UNCHANGED <<row, ask, contract, live, task, revival, continuing, retiring, post, server>>

AnswerRefused(x) ==
    /\ x \in answering /\ x.at = "leasing"
    /\ answering' = answering \ {x}
    /\ UNCHANGED <<row, ask, contract, live, task, revival, continuing, retiring, post, server>>

\* Mutant: the ask is not read again under the lease.
ResumableTwice(x) ==
    /\ x \in answering /\ x.at = "leasing"
    /\ Active(row[ask[x.ask].run])

\* Mutant: the run is not read again under the lease.
ResumableOnceEnded(x) ==
    /\ x \in answering /\ x.at = "leasing"
    /\ ask[x.ask].status = "open"

\* answerAndResume: the flip of the ask and of the row are one transaction.
Resumable(x) ==
    /\ x \in answering /\ x.at = "leasing"
    /\ ask[x.ask].status = "open" /\ Active(row[ask[x.ask].run])

\* The captured session can take the turn: it is still installed, and idle.
SessionFree(x) ==
    LET r == ask[x.ask].run IN live[r].attempt = x.attempt /\ live[r].turn # "open"

\* The row of an answered run: announced running when its receipt is in.
AnsweredRow(rw) ==
    [rw EXCEPT !.status = IF rw.state \in Confirmed THEN "running" ELSE "spawning"]

AnswerSent(x) ==
    LET r == ask[x.ask].run IN
    /\ Resumable(x) /\ SessionFree(x)
    /\ ask' = [ask EXCEPT ![x.ask].status = "answered"]
    /\ row' = [row EXCEPT ![r] = AnsweredRow(@)]
    /\ live' = [live EXCEPT ![r].turn = "open"]
    /\ answering' = answering \ {x}
    /\ UNCHANGED <<contract, task, revival, continuing, retiring, post, server>>

\* The asking turn has not ended, or the session was disposed: sendTurn
\* throws after the ask was flipped, and the run is settled as failed.
AnswerUnsent(x) ==
    LET r == ask[x.ask].run IN
    /\ Resumable(x) /\ ~SessionFree(x)
    /\ ask' = [ask EXCEPT ![x.ask].status = "answered"]
    /\ SettleTerminal(r, ResumeFailedRow(AnsweredRow(row[r]), x.attempt), "failed", "other",
                      x.attempt)
    /\ answering' = answering \ {x}
    /\ UNCHANGED <<contract, task, revival, continuing, server>>

-----------------------------------------------------------------------------
(* Kill, retirement, and what follows a terminal.                          *)

KillRun(r) ==
    /\ server.phase # "sweep" /\ Active(row[r])
    /\ ask' = [a \in Asks |-> IF a \in OpenAsks(r)
                              THEN [ask[a] EXCEPT !.status = "cancelled"] ELSE ask[a]]
    /\ row' = [row EXCEPT ![r] = EndedRow(@, "cancelled", "other")]
    /\ live' = [live EXCEPT ![r] = NoLive]
    /\ retiring' = IF live[r] # NoLive THEN retiring \cup {r} ELSE retiring
    /\ UNCHANGED <<contract, task, revival, answering, continuing, post, server>>

\* Mutant: the timer is armed by the receipt and not by the install.
WallClockOnceConfirmed(r) == live[r].confirmed /\ KillRun(r)

WallClock(r) == live[r] # NoLive /\ KillRun(r)

Retired(r) ==
    /\ r \in retiring
    /\ retiring' = retiring \ {r}
    /\ UNCHANGED <<row, ask, contract, live, task, revival, answering, continuing, post, server>>

\* verifyAndLand, as far as the run is concerned: the outcome is reported.
Reported(r) ==
    /\ post[r] = "verify" /\ r \notin retiring
    /\ post' = [post EXCEPT ![r] = "done"]
    /\ UNCHANGED <<row, ask, contract, live, task, revival, answering, continuing, retiring, server>>

RuntimeQuiescent(r) ==
    /\ task[r] = Idle /\ revival[r] = Idle
    /\ live[r] = NoLive /\ r \notin retiring

\* Mutant: a runtime that is being disposed is taken for gone.
RunQuiescentOnceUninstalled(r, auto) ==
    task[r] = Idle /\ revival[r] = Idle /\ live[r] = NoLive

RunQuiescent(r, auto) ==
    RuntimeQuiescent(r) /\ (auto \/ post[r] \in {"none", "done"})

ContractQuiescent(p, auto) ==
    \A r \in Runs : row[r].status # "none" => RunQuiescent(r, auto /\ r = p)

Continuable(p, auto) ==
    /\ Up /\ row[p].status \in {"completed", "failed"}
    /\ RunQuiescent(p, auto) /\ ~ActiveContinuation(p) /\ ResumeReady(row[p])

Requested(p, auto) ==
    [parent |-> p, auto |-> auto, at |-> "preflight", version |-> 0]

\* pc_continue_agent
DispatchContinue(p) ==
    /\ Continuable(p, FALSE)
    /\ \A c \in continuing : c.parent # p \/ c.auto
    /\ continuing' = continuing \cup {Requested(p, FALSE)}
    /\ UNCHANGED <<row, ask, contract, live, task, revival, answering, retiring, post, server>>

\* fireAutoContinue: after the retirement of the runtime of the parent.
FireAutoContinue(p) ==
    /\ post[p] = "continue" /\ p \notin retiring
    /\ IF HasContinuation(p)
       THEN post' = [post EXCEPT ![p] = "done"] /\ UNCHANGED continuing
       ELSE IF Continuable(p, TRUE)
            THEN /\ continuing' = continuing \cup {Requested(p, TRUE)}
                 /\ post' = [post EXCEPT ![p] = "dispatching"]
            ELSE post' = [post EXCEPT ![p] = "verify"] /\ UNCHANGED continuing
    /\ UNCHANGED <<row, ask, contract, live, task, revival, answering, retiring, server>>

\* Provider, lease or a recheck refuses; an automatic one is then reported.
ContinueRefused(c) ==
    /\ c \in continuing
    /\ continuing' = continuing \ {c}
    /\ post' = IF c.auto THEN [post EXCEPT ![c.parent] = "verify"] ELSE post
    /\ UNCHANGED <<row, ask, contract, live, task, revival, answering, retiring, server>>

\* After the preflight; the contract is read before the lease is awaited.
ContinuePreflighted(c) ==
    /\ c \in continuing /\ c.at = "preflight"
    /\ Up /\ ~ActiveContinuation(c.parent)
    /\ continuing' = (continuing \ {c}) \cup
         {[c EXCEPT !.at = "lease", !.version = contract.version]}
    /\ UNCHANGED <<row, ask, contract, live, task, revival, answering, retiring, post, server>>

\* The insert is refused by agent_runs_active_continuation_insert_guard.
Insertable(c) ==
    /\ Up /\ contract.version = c.version
    /\ ContractQuiescent(c.parent, c.auto)
    /\ ~ActiveContinuation(c.parent)

ContinueInserts(c, r) ==
    /\ c \in continuing /\ c.at = "lease" /\ Insertable(c)
    /\ row[r] = NoRow
    /\ row' = [row EXCEPT ![r] = QueuedRow(c.parent, IF c.auto THEN row[c.parent].count + 1 ELSE 0)]
    /\ contract' = [version |-> contract.version + 1, producer |-> r]
    /\ task' = [task EXCEPT ![r].at = "starting"]
    /\ continuing' = continuing \ {c}
    /\ post' = IF c.auto THEN [post EXCEPT ![c.parent] = "done"] ELSE post
    /\ UNCHANGED <<ask, live, revival, answering, retiring, server>>

-----------------------------------------------------------------------------
(* Shutdown, crash and boot.                                               *)

\* disposeAll: no run is settled; every installed runtime is retired.
DisposeAll ==
    /\ Up /\ server.crashes < MaxCrashes
    /\ server' = [server EXCEPT !.phase = "closing"]
    /\ retiring' = retiring \cup {r \in Runs : live[r] # NoLive}
    /\ live' = [r \in Runs |-> NoLive]
    /\ UNCHANGED <<row, ask, contract, task, revival, answering, continuing, post>>

Lost ==
    /\ live' = [r \in Runs |-> NoLive]
    /\ task' = [r \in Runs |-> Idle]
    /\ revival' = [r \in Runs |-> Idle]
    /\ answering' = {} /\ continuing' = {} /\ retiring' = {}
    /\ post' = [r \in Runs |-> "none"]
    /\ server' = [phase |-> "sweep", revive |-> {}, resume |-> {}, crashes |-> server.crashes + 1]

Crash ==
    /\ server.crashes < MaxCrashes
    /\ Lost /\ UNCHANGED durable

\* The process stops between the answer's transaction and its sendTurn.
CrashAfterAnswer(x) ==
    /\ server.crashes < MaxCrashes /\ Resumable(x)
    /\ ask' = [ask EXCEPT ![x.ask].status = "answered"]
    /\ row' = [row EXCEPT ![ask[x.ask].run].status = "spawning"]
    /\ Lost /\ UNCHANGED contract

LeftPaused(r) == row[r].status = "paused" /\ ResumeReady(row[r])

\* Mutant: only a run that had been told to start is swept.
SweptOnceRunning(r) == Active(row[r]) /\ row[r].status \in {"running", "queued"} /\ ~row[r].delivered

Swept(r) == Active(row[r]) /\ ~LeftPaused(r) /\ ~row[r].delivered

\* recoverAgentRuns: its asks cancelled, the run failed, its contract parked.
RecoverAgentRun(r) ==
    /\ server.phase = "sweep" /\ Swept(r)
    /\ ask' = [a \in Asks |-> IF a \in OpenAsks(r)
                              THEN [ask[a] EXCEPT !.status = "cancelled"] ELSE ask[a]]
    /\ row' = [row EXCEPT ![r] = EndedRow(@, "failed", "other")]
    /\ contract' = IF contract.producer = r THEN [contract EXCEPT !.version = @ + 1] ELSE contract
    /\ UNCHANGED <<live, task, revival, answering, continuing, retiring, post, server>>

SweepDone ==
    /\ server.phase = "sweep" /\ \A r \in Runs : ~Swept(r)
    /\ server' = [server EXCEPT !.phase = "sealed"]
    /\ UNCHANGED <<durable, live, task, revival, answering, continuing, retiring, post>>

SealedRun(r) == Active(row[r]) /\ row[r].delivered

\* recoverSealedRuns: the terminal, then verification, then its open asks.
RecoverSealedRun(r) ==
    /\ server.phase = "sealed" /\ SealedRun(r)
    /\ row' = [row EXCEPT ![r] = EndedRow(@, "completed", "none")]
    /\ post' = [post EXCEPT ![r] = "sealed"]
    /\ UNCHANGED <<ask, contract, live, task, revival, answering, continuing, retiring, server>>

SealedVerified(r) ==
    /\ post[r] = "sealed"
    /\ ask' = [a \in Asks |-> IF a \in OpenAsks(r)
                              THEN [ask[a] EXCEPT !.status = "cancelled"] ELSE ask[a]]
    /\ post' = [post EXCEPT ![r] = "done"]
    /\ UNCHANGED <<row, contract, live, task, revival, answering, continuing, retiring, server>>

\* Mutant: only the paused runs are taken up again.
AttachServerForPaused ==
    /\ server.phase = "sealed"
    /\ \A r \in Runs : ~SealedRun(r) /\ post[r] # "sealed"
    /\ server' = [server EXCEPT !.phase = "up",
         !.revive = {r \in Runs : row[r].status = "paused"}]
    /\ UNCHANGED <<durable, live, task, revival, answering, continuing, retiring, post>>

\* attach, and the lists of the recovery passes that need it.
AttachServer ==
    /\ server.phase = "sealed"
    /\ \A r \in Runs : ~SealedRun(r) /\ post[r] # "sealed"
    /\ server' = [server EXCEPT !.phase = "up",
         !.revive = {r \in Runs : row[r].status = "paused"},
         !.resume = {r \in Runs : row[r].status = "failed"
                                    /\ row[r].cause = "turn-budget-exhausted"}]
    /\ UNCHANGED <<durable, live, task, revival, answering, continuing, retiring, post>>

RecoverPausedAsk(r) ==
    /\ Up /\ r \in server.revive
    /\ server' = [server EXCEPT !.revive = @ \ {r}]
    /\ revival' = IF NeedsRevival(r) THEN Revive(r) ELSE revival
    /\ UNCHANGED <<durable, live, task, answering, continuing, retiring, post>>

RecoverAutoContinue(r) ==
    /\ Up /\ r \in server.resume
    /\ server' = [server EXCEPT !.resume = @ \ {r}]
    /\ post' = IF row[r].count < MaxAutoContinues /\ ~HasContinuation(r) /\ post[r] = "none"
               THEN [post EXCEPT ![r] = "continue"] ELSE post
    /\ UNCHANGED <<durable, live, task, revival, answering, continuing, retiring>>

-----------------------------------------------------------------------------

ClientStep ==
    \/ \E r \in Runs : Dispatch(r) \/ Deliver(r) \/ KillRun(r) \/ DispatchContinue(r)
    \/ \E r \in Runs, a \in Asks : CreatePendingAsk(r, a)
    \/ \E a \in Asks, by \in Answerers : AnswerPendingAsk(a, by)

ProviderStep(r) ==
    \/ StartRefused(r) \/ MintFails(r) \/ RevivalRefused(r) \/ RevivalMintFails(r)
    \/ Receipt(r) \/ TurnBreaks(r) \/ TurnEnds(r)
    \/ \E cause \in {"turn-budget-exhausted", "other"} : TurnFails(r, cause)

\* What the process itself carries on: promises that resolve, timers.
RunStep(r) ==
    \/ StartPrepares(r) \/ MintResolves(r)
    \/ RevivalPrepares(r) \/ RevivalMinted(r)
    \/ \E found \in {"file", "none", "invalid"} : DoorCloses(r, found)
    \/ Retired(r) \/ Reported(r) \/ FireAutoContinue(r)

AnswerStep(x) == AnswerRevived(x) \/ AnswerRefused(x) \/ AnswerSent(x) \/ AnswerUnsent(x)

ContinueStep(c) ==
    ContinueRefused(c) \/ ContinuePreflighted(c) \/ \E r \in Runs : ContinueInserts(c, r)

BootStep ==
    \/ SweepDone \/ AttachServer
    \/ \E r \in Runs : \/ RecoverAgentRun(r) \/ RecoverSealedRun(r) \/ SealedVerified(r)
                        \/ RecoverPausedAsk(r) \/ RecoverAutoContinue(r)

Stop == DisposeAll \/ Crash \/ \E x \in answering : CrashAfterAnswer(x)

Next ==
    \/ ClientStep \/ BootStep \/ Stop
    \/ \E r \in Runs : ProviderStep(r) \/ RunStep(r)
    \/ \E x \in answering : AnswerStep(x)
    \/ \E c \in continuing : ContinueStep(c)

Spec == Init /\ [][Next]_vars

\* Boot runs to its end, a shutdown ends in a restart, the wall clock fires, a
\* door, a disposal, a verification and the preflight of a continuation return.
\* Nobody is obliged to dispatch, answer or kill. A provider may stay silent in
\* a turn, and the preflight and the mint of a start or of a revival, which are
\* awaited without a timeout before the wall clock is armed, may never return.
Fairness ==
    /\ WF_vars(BootStep)
    /\ WF_vars(server.phase = "closing" /\ Crash)
    /\ \A r \in Runs :
         /\ WF_vars(\E found \in {"file", "none", "invalid"} : DoorCloses(r, found))
         /\ WF_vars(WallClock(r))
         /\ WF_vars(Retired(r)) /\ WF_vars(Reported(r)) /\ WF_vars(FireAutoContinue(r))
         /\ WF_vars(\E c \in continuing : c.parent = r /\ ContinueStep(c))
    /\ \A a \in Asks, by \in Answerers :
         WF_vars(\E x \in answering : x.ask = a /\ x.by = by /\ AnswerStep(x))

FairSpec == Spec /\ Fairness

-----------------------------------------------------------------------------
(* What must hold.                                                         *)

\* agent_runs_row_state_consistency_guard: the statuses a continuation state
\* goes with.
RowConsistent(rw) ==
    rw.status \in
      CASE rw.state = "clean-pending"  -> {"queued", "spawning", "failed", "cancelled"}
        [] rw.state = "resume-pending" -> {"queued", "spawning", "paused", "failed", "cancelled"}
        [] rw.state = "resume-failed"  -> {"spawning", "paused", "failed", "cancelled"}
        [] OTHER -> {"spawning", "running", "paused", "completed", "failed", "cancelled"}

\* 0013: the moves its insert, transition and rotation triggers let through.
RowMoveAllowed(old, new) ==
    \/ old = NoRow /\ new.status = "queued" /\ new.attempt = 1
    \/ /\ old.status \in Terminal => new.status = old.status
       /\ new.status = "running" => new.state \in Confirmed
       /\ new.attempt # old.attempt =>
            /\ Active(old) /\ Active(new)
            /\ new.state = IF ResumeReady(old) THEN "resume-pending" ELSE "clean-pending"
       /\ new.state # old.state =>
            CASE new.state = "clean-pending"  -> FALSE
              [] new.state = "clean-started"  -> /\ old.state = "clean-pending"
                                                 /\ old.status = "spawning"
                                                 /\ new.attempt = old.attempt
              [] new.state = "resume-pending" -> ResumeReady(old) /\ new.attempt # old.attempt
              [] new.state = "native-resumed" -> /\ old.state = "resume-pending"
                                                 /\ old.status = "spawning"
              [] new.state = "resume-failed"  -> /\ old.state = "resume-pending"
                                                 /\ old.status \in {"spawning", "paused"}

RowStepAllowed(old, new) == RowMoveAllowed(old, new) /\ RowConsistent(new)

\* No sequence of starts, receipts, asks, answers, kills, revivals and boots
\* makes a row change that a trigger of 0013 would abort: no run is paused or
\* completed, by a turn or by the recovery of a sealed run, unconfirmed.
TriggersNeverFire ==
    [][\A r \in Runs : row'[r] # row[r] => RowStepAllowed(row[r], row'[r])]_vars

\* A run is paused exactly while one question of it is open, through kills,
\* crashes and boots; only an ended run can leave a question behind.
PausedWithItsAsk ==
    \A r \in Runs :
      /\ row[r].status = "paused" => Cardinality(OpenAsks(r)) = 1
      /\ Active(row[r]) /\ row[r].status # "paused" => OpenAsks(r) = {}

\* An installed runtime speaks for its row: it carries the attempt of a row
\* that has not ended, and it holds a receipt exactly when the row records one.
RuntimeSpeaksForItsRow ==
    \A r \in Runs : live[r] # NoLive =>
      /\ Active(row[r]) /\ live[r].attempt = row[r].attempt
      /\ live[r].confirmed <=> row[r].state \in Confirmed

\* While the server is up no run is active with nobody left to end it: its
\* start is under way, its runtime is installed, or it waits for an answer.
ActiveRunIsDriven ==
    \A r \in Runs : Up /\ Active(row[r]) =>
      task[r] # Idle \/ live[r] # NoLive \/ row[r].status = "paused"

HasRuntime(r) == ~RuntimeQuiescent(r)

\* Before the first restart two runs of one contract, which share a worktree,
\* never have a runtime, being minted, installed or disposed, at once.
OneRuntimePerWorktree ==
    server.crashes = 0 => \A r, q \in Runs : HasRuntime(r) /\ HasRuntime(q) => r = q

Phase(rw) ==
    CASE rw.status = "none"     -> "absent"
      [] rw.status = "paused"   -> "waiting"
      [] rw.status \in Terminal -> "ended"
      [] OTHER                  -> "working"

Question(q) ==
    [state |-> IF q.status = "cancelled" THEN "withdrawn" ELSE q.status, run |-> q.run]

X == INSTANCE RunExchange WITH
    phase <- [r \in Runs |-> Phase(row[r])],
    parent <- [r \in Runs |-> row[r].continues],
    question <- [a \in Asks |-> Question(ask[a])]

\* The rows keep the promise of RunExchange: one terminal for each run, one
\* answer for each question, in the step that resumes its run, and one living
\* continuation for each ended parent.
ImplementsRunExchange == X!XSpec

\* pc_ask_orchestrator tells the specialist that the answer arrives as its
\* next message (http/agent-runs.ts:519): an answered run is not ended by it.
AnswerReachesItsRun ==
    [][\A a \in Asks : ask[a].status = "open" /\ ask'[a].status = "answered"
                         => Active(row'[ask[a].run])]_vars

\* One run owns one worktree (docs/worktree-lifecycle.md:378), restarts included.
\* The code does not keep it: what relates the runs of a worktree is process memory.
WorktreeIsOwnedByOneRun ==
    \A r, q \in Runs : live[r] # NoLive /\ live[q] # NoLive => r = q

Exhausted(r) == row[r].cause = "turn-budget-exhausted"

\* A run that exhausted its turn budget and may continue is continued, or its
\* failure is reported: by this process or, after a stop, by the next one.
ExhaustedIsHandled ==
    \A r \in Runs : Exhausted(r) /\ row[r].count < MaxAutoContinues
                       ~> HasContinuation(r) \/ post[r] = "done"

\* A run whose start has resolved, or was cut off by a stop, ends or waits for
\* an answer, whatever its provider does in its turns: the wall clock armed at
\* the install, the shutdown and the sweep of the next boot see to it.
RunsEndOrWait ==
    \A r \in Runs : Active(row[r]) /\ task[r] = Idle
                       ~> (~Active(row[r]) \/ row[r].status = "paused")

====
