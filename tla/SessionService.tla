--------------------------- MODULE SessionService ---------------------------
(***************************************************************************)
(* The process that drives one project's conversation: the single-flight   *)
(* drain loop, the acquisition of a provider runtime, the delivery of a    *)
(* claimed turn, native interrupts with their watchdog, runtime quarantine,*)
(* shutdown, crash and boot recovery.                                      *)
(*                                                                         *)
(* Source: apps/server/src/chat/session-service.ts and send-queue.ts, over *)
(* the durable store of ConversationQueue.  The process has one thread; a  *)
(* step here is the synchronous stretch between two awaits, or one half of *)
(* it where it commits twice.  A runtime is named by the mint that made it.*)
(* Handoffs and their seeds are left to OrchestratorSessions.              *)
(***************************************************************************)
EXTENDS ConversationQueue

CONSTANT MaxStops   \* bound on the shutdowns and crashes

ASSUME StopAssumption == MaxStops \in Nat

VARIABLES service,  \* where the process is between two boots
          stops,    \* shutdowns and crashes so far
          queue,    \* SendQueue: [scheduled, redrain, phase, turn]
          runtime,  \* this.runtime, or None
          closing,  \* runtimes detached but not yet disposed (runtimeQuarantine)
          running,  \* <<runtime, turn>>: the stream of this turn is open
          pending,  \* <<runtime, request>>: a native interrupt that may still land
          control   \* interruptControls: request -> what its driver waits for

processVars == <<service, stops, queue, runtime, closing, running, pending, control>>
serviceVars == <<vars, processVars>>

Phase == {"idle",      \* not draining
          "acquire",   \* deliver awaits the disposal of the former runtime
          "mint",      \* deliver awaits mintSession
          "run",       \* deliver reads the stream of the turn
          "unready",   \* ensureRuntime threw, the turn is not settled yet
          "unsent",    \* sendTurn threw, the turn is not settled yet
          "lost",      \* the stream ended without a confirmed receipt
          "observe"}   \* settled; deliver has not returned to the loop yet

Idle0 == [scheduled |-> FALSE, redrain |-> FALSE, phase |-> "idle", turn |-> None]
NoControl == [c \in Command |-> "none"]

ServiceInit ==
  /\ Init
  /\ service = "down"
  /\ stops = 0
  /\ queue = Idle0
  /\ runtime = None
  /\ closing = {}
  /\ running = {}
  /\ pending = {}
  /\ control = NoControl

-----------------------------------------------------------------------------
Up == service \in {"gated", "ready"}

\* Awaited microtasks run before any timer, socket message or route.
Quiet == queue.phase \notin {"unready", "unsent", "lost"}

\* SendQueue.kick behind the readiness gate.
Kicked(q) ==
  IF service # "ready" THEN q
  ELSE IF q.phase # "idle" THEN [q EXCEPT !.redrain = TRUE]
  ELSE [q EXCEPT !.scheduled = TRUE]

\* A receipt of this runtime's attempt was confirmed.
Confirmed(m) ==
  /\ session[m.session].attempt = m.attempt
  /\ session[m.session].cont \in {"clean-started", "native-resumed"}

\* quarantineRuntime: detach, dispose, and hold the next mint until disposed.
Quarantine(s) ==
  IF runtime # None /\ runtime.session = s
  THEN runtime' = None /\ closing' = closing \cup {runtime}
  ELSE UNCHANGED <<runtime, closing>>

\* Mutant: leaving a session keeps its runtime attached.
KeepRuntime == UNCHANGED <<runtime, closing>>

\* teardownRunner
Teardown ==
  /\ runtime' = None
  /\ closing' = closing \cup ({runtime} \ {None})

-----------------------------------------------------------------------------
(***************************************************************************)
(* Client commands and session transitions, as the service performs them.  *)
(***************************************************************************)
SendCommand(c) ==
  /\ \/ \E in \in SendInput : EnqueueSend(c, in) \/ EnqueueDuplicate(c, in)
     \/ command[c].status = "applied" /\ command[c].input.kind = "send" /\ Replay(c)
  /\ queue' = Kicked(queue)
  /\ UNCHANGED <<service, stops, runtime, closing, running, pending, control>>

QuietCommand(c) ==
  /\ \/ \E in \in EditInput : Edit(c, in)
     \/ \E in \in RemoveInput : Remove(c, in)
     \/ Reject(c)
  /\ UNCHANGED processVars

\* Mutant: an interrupt that finds no runtime arms no watchdog.
StartWithRuntime(c, s) ==
  IF runtime # None /\ runtime.session = s
  THEN /\ control' = [control EXCEPT ![c] = "issued"]
       /\ pending' = pending \cup {<<runtime, c>>}
  ELSE UNCHANGED <<control, pending>>

\* startInterruptAttempt and the synchronous part of driveInterruptAttempt: a
\* runtime that is there is interrupted at once, otherwise the driver waits.
StartInterruptAttempt(c, s) ==
  IF runtime # None /\ runtime.session = s
  THEN /\ control' = [control EXCEPT ![c] = "issued"]
       /\ pending' = pending \cup {<<runtime, c>>}
  ELSE /\ control' = [control EXCEPT ![c] = "waiting"]
       /\ UNCHANGED pending

\* handleInterrupt; a replayed command starts nothing.
InterruptCommand(c) ==
  \E in \in InterruptInput :
    /\ Interrupt(c, in) \/ InterruptAndSendQueued(c, in) \/ InterruptAndSendNew(c, in)
    /\ StartInterruptAttempt(c, in.session)
    /\ UNCHANGED <<service, stops, queue, runtime, closing, running>>

ClientStep == Up /\ Quiet /\ \E c \in Command : SendCommand(c) \/ QuietCommand(c) \/ InterruptCommand(c)

SwitchSession ==
  /\ Up /\ Quiet
  /\ \/ /\ \/ \E old \in Session \cup {None}, new \in Session : ReplaceSession(old, new, FALSE)
           \/ \E old \in Session : CloseSession(old)
           \/ \E old, new \in Session : ContinueSession(old, new)
        /\ queue' = queue
     \/ /\ \E old \in Session \cup {None}, target \in Session : ResumeSession(old, target)
        /\ queue' = Kicked(queue)
  /\ Teardown
  /\ UNCHANGED <<service, stops, running, pending, control>>

-----------------------------------------------------------------------------
(***************************************************************************)
(* SendQueue.drain and SessionService.deliver.                             *)
(***************************************************************************)
\* The loop is about to look for a message: its microtask starts it, or the
\* delivery of the turn before has returned.
Looking ==
  /\ service = "ready"
  /\ queue.phase = "observe" \/ (queue.phase = "idle" /\ queue.scheduled)

Delivering(i, phase) ==
  queue' = [scheduled |-> FALSE, redrain |-> queue.redrain /\ queue.phase # "idle",
            phase |-> phase, turn |-> i]

\* ensureRuntime finds the session's runtime attached and current; sendTurn may
\* throw, which quarantines it.
ClaimReusing(i) ==
  /\ Looking /\ Claim(i)
  /\ runtime # None
  /\ runtime.session = item[i].session
  /\ \/ /\ Delivering(i, "run")
        /\ running' = running \cup {<<runtime, i>>}
        /\ UNCHANGED <<runtime, closing>>
     \/ /\ Delivering(i, "unsent")
        /\ Quarantine(item[i].session)
        /\ UNCHANGED running
  /\ UNCHANGED <<service, stops, pending, control>>

\* No runtime, one of another session, or one whose orchestrator definition is
\* no longer current: the old one is disposed first.
ClaimAcquiring(i) ==
  /\ Looking /\ Claim(i)
  /\ Delivering(i, "acquire")
  /\ Teardown
  /\ UNCHANGED <<service, stops, running, pending, control>>

\* The claim finds nothing.  Leaving the loop for want of a session keeps a
\* wake-up that came meanwhile.
StopDraining ==
  /\ Looking
  /\ ~ \E i \in Command :
         /\ IsFifoHead(i)
         /\ NoActiveTurn(item[i].session)
         /\ item[i].link # None => request[item[i].link].status = "confirmed"
         /\ SessionOpen(item[i].session)
  /\ queue' = [Idle0 EXCEPT !.scheduled = queue.phase = "observe" /\ queue.redrain /\ NoneActive]
  /\ UNCHANGED <<vars, service, stops, runtime, closing, running, pending, control>>

\* Mutant: a runtime is minted while the former one is still being disposed.
DisposedNotAwaited == TRUE

DisposalAwaited == closing = {}

TurnSession == item[queue.turn].session

\* ensureRuntime, past the disposal: rotate the attempt and call the adapter.
MintRuntime ==
  /\ service = "ready"
  /\ queue.phase = "acquire"
  /\ DisposalAwaited
  /\ PrepareCreate(TurnSession) \/ PrepareResume(TurnSession)
  /\ queue' = [queue EXCEPT !.phase = "mint"]
  /\ UNCHANGED <<queueVars, service, stops, runtime, closing, running, pending, control>>

\* markRuntimeResumeFailed, for the attempt just prepared.
ResumeMarkedFailed(s) == \E attempt \in 1..MaxAttempt : FailResume(s, attempt)

\* Preflight refuses the resume, or the selection cannot be used.
AcquireFails ==
  /\ service = "ready"
  /\ queue.phase = "acquire"
  /\ DisposalAwaited
  /\ ResumeMarkedFailed(TurnSession) \/ UNCHANGED sessVars
  /\ queue' = [queue EXCEPT !.phase = "unready"]
  /\ UNCHANGED <<queueVars, service, stops, runtime, closing, running, pending, control>>

CurrentMints(s) == {m \in minted : m.session = s /\ m.attempt = session[s].attempt}

\* mintSession resolves: the message is sent, and an interrupt that waited for
\* the runtime is issued.
MintResolves ==
  /\ service = "ready"
  /\ queue.phase = "mint"
  /\ \E m \in CurrentMints(TurnSession) :
       /\ runtime' = m
       /\ running' = running \cup {<<m, queue.turn>>}
       /\ pending' = pending \cup {<<m, c>> : c \in {d \in Command : control[d] = "waiting"}}
  /\ control' = [c \in Command |-> IF control[c] = "waiting" THEN "issued" ELSE control[c]]
  /\ queue' = [queue EXCEPT !.phase = "run"]
  /\ UNCHANGED <<vars, service, stops, closing>>

\* mintSession rejects, or sendTurn throws on the new runtime; a resume that was
\* not confirmed is marked failed either way.
MintFails ==
  /\ service = "ready"
  /\ queue.phase = "mint"
  /\ \E m \in CurrentMints(TurnSession) :
       /\ IF m.requested # None THEN ResumeMarkedFailed(m.session) ELSE UNCHANGED sessVars
       /\ \/ queue' = [queue EXCEPT !.phase = "unready"] /\ UNCHANGED closing
          \/ queue' = [queue EXCEPT !.phase = "unsent"] /\ closing' = closing \cup {m}
  /\ UNCHANGED <<queueVars, service, stops, runtime, running, pending, control>>

\* The provider attaches; an attachment nobody receives is left out.
ProviderAttaches ==
  /\ runtime # None /\ Attach(runtime)
  /\ UNCHANGED <<queueVars, processVars>>

\* onRuntimeSessionReceipt, inside its lifecycle fence.
ReceiptArrives ==
  /\ runtime # None
  /\ queue.phase = "run"
  /\ ConfirmCreated(runtime) \/ ConfirmResumed(runtime)
  /\ UNCHANGED <<queueVars, processVars>>

\* Mutant: a request that fails with its turn leaves the runtime attached.
NoLateInterrupts(i) == {}

\* stopSettledInterruptControls: requests that this settlement fails while
\* their native interrupt may still be on its way.
LateInterrupts(i) ==
  {c \in Command : /\ control[c] # "none"
                   /\ request[c].target = i
                   /\ request'[c].status = "failed"}

\* settleConversationTurn and what the callers do in the same stretch.
EndTurn(i, outcome, status, quarantine) ==
  /\ Settle(i, outcome, status)
  /\ queue' = [queue EXCEPT !.phase = "observe"]
  /\ running' = {p \in running : p[2] # i}
  /\ control' = [c \in Command |-> IF request[c].target = i THEN "none" ELSE control[c]]
  /\ IF quarantine \/ LateInterrupts(i) # {} THEN Quarantine(item[i].session)
     ELSE UNCHANGED <<runtime, closing>>

\* The runtime reports a terminal under a confirmed receipt.  Only a native
\* interrupt, or the disposal of the runtime, makes it an abort; the interrupt
\* hits whatever turn the runtime has open.
Terminal(i) ==
  \E p \in running : p[2] = i /\ queue.phase = "run" /\ Confirmed(p[1]) /\
    \/ \E outcome \in {"completed", "turn-failed"} :
         /\ EndTurn(i, outcome, "accepted", FALSE)
         /\ UNCHANGED <<service, stops, pending>>
    \/ \E q \in pending :
         /\ q[1] = p[1]
         /\ EndTurn(i, "aborted", "accepted", FALSE)
         /\ pending' = pending \ {q}
         /\ UNCHANGED <<service, stops>>
    \/ /\ runtime # p[1]
       /\ EndTurn(i, "aborted", "accepted", FALSE)
       /\ UNCHANGED <<service, stops, pending>>

\* The stream ended, or delivered a receipt that is stale or refused, before its
\* attempt was confirmed; a failed resume is recorded first.
StreamLost ==
  /\ queue.phase = "run"
  /\ \E p \in running :
       /\ p[2] = queue.turn
       /\ ~Confirmed(p[1])
       /\ \/ ResumeMarkedFailed(p[1].session)
          \/ (p[1].requested = None \/ runtime # p[1]) /\ UNCHANGED sessVars
  /\ queue' = [queue EXCEPT !.phase = "lost"]
  /\ UNCHANGED <<queueVars, service, stops, runtime, closing, running, pending, control>>

\* settleInfrastructureFailure, and the terminal of a lost stream.
SettleFailure ==
  /\ \/ queue.phase \in {"unready", "unsent"} /\ EndTurn(queue.turn, "turn-failed", "failed", FALSE)
     \/ queue.phase = "lost" /\ EndTurn(queue.turn, "turn-failed", "accepted", TRUE)
  /\ UNCHANGED <<service, stops, pending>>

DisposeResolves(m) ==
  /\ m \in closing
  /\ closing' = closing \ {m}
  /\ pending' = {p \in pending : p[1] # m}
  /\ UNCHANGED <<vars, service, stops, queue, runtime, running, control>>

-----------------------------------------------------------------------------
(***************************************************************************)
(* The driver and the watchdog of one interrupt request.                   *)
(***************************************************************************)
\* The attempt waited for a runtime that did not come.
DriveFails(c) ==
  /\ control[c] = "waiting"
  /\ queue.phase \notin {"acquire", "mint", "unsent"}
  /\ FailInterrupt(c, "runtime-interrupt-failed")
  /\ control' = [control EXCEPT ![c] = "none"]
  /\ UNCHANGED <<service, stops, queue, runtime, closing, running, pending>>

\* runtime.interrupt() rejects: negative evidence, the request may be repeated.
InterruptRejected(c) ==
  /\ Quiet
  /\ control[c] = "issued"
  /\ FailInterrupt(c, "runtime-interrupt-failed")
  /\ control' = [control EXCEPT ![c] = "none"]
  /\ pending' = {p \in pending : p[2] # c}
  /\ UNCHANGED <<service, stops, queue, runtime, closing, running>>

\* No correlated terminal within interruptTimeoutMs.
Watchdog(c) ==
  /\ Quiet
  /\ control[c] # "none"
  /\ FailInterrupt(c, "runtime-interrupt-inconclusive")
  /\ control' = [control EXCEPT ![c] = "none"]
  /\ Quarantine(item[request[c].target].session)
  /\ UNCHANGED <<service, stops, queue, running, pending>>

-----------------------------------------------------------------------------
(***************************************************************************)
(* Shutdown, crash and boot.                                               *)
(***************************************************************************)
\* Mutant: the shutdown forgets its interrupts without failing them.
OutstandingLeftOpen == UNCHANGED vars

\* At most one request is open: there is one active turn.
OutstandingFailed ==
  \/ \E c \in Command : control[c] # "none" /\ FailInterrupt(c, "runtime-interrupt-inconclusive")
  \/ control = NoControl /\ UNCHANGED vars

\* dispose: outstanding interrupts fail before the runtime is torn down.
Dispose ==
  /\ Up /\ Quiet
  /\ stops < MaxStops
  /\ OutstandingFailed
  /\ service' = "closing"
  /\ stops' = stops + 1
  /\ control' = NoControl
  /\ Teardown
  /\ UNCHANGED <<queue, running, pending>>

\* ensureRuntime runs into the lifecycle fence: the late runtime is disposed and
\* an unconfirmed resume is marked failed; the turn stays active for the boot.
Abandon ==
  /\ service = "closing"
  /\ queue.phase \in {"acquire", "mint"}
  /\ (queue.phase = "mint" /\ ResumeMarkedFailed(TurnSession)) \/ UNCHANGED sessVars
  /\ queue' = Idle0
  /\ UNCHANGED <<queueVars, service, stops, runtime, closing, running, pending, control>>

\* The process ends: a crash at any point, or the end of a shutdown.
Stop ==
  /\ service # "down"
  /\ service # "closing" => stops < MaxStops
  /\ service' = "down"
  /\ stops' = IF service = "closing" THEN stops ELSE stops + 1
  /\ queue' = Idle0
  /\ runtime' = None
  /\ closing' = {}
  /\ running' = {}
  /\ pending' = {}
  /\ control' = NoControl
  /\ UNCHANGED vars

\* runBootRecovery, before anything is served.
Recover ==
  /\ service = "down"
  /\ \E i \in Command : RecoverTurn(i)
  /\ UNCHANGED processVars

\* Mutant: serving starts beside the recovery.
RecoveryNotAwaited == TRUE

RecoveryDone == \A i \in Command : ~Active(i)

Boot ==
  /\ service = "down"
  /\ RecoveryDone
  /\ service' = "gated"
  /\ UNCHANGED <<vars, stops, queue, runtime, closing, running, pending, control>>

\* Mutant: opening the gate does not look at what survived the restart.
NotKicked(q) == q

Recovered(q) == [q EXCEPT !.scheduled = TRUE]

\* kickRecoveredQueues
EnableQueueDrain ==
  /\ service = "gated"
  /\ service' = "ready"
  /\ queue' = Recovered(queue)
  /\ UNCHANGED <<vars, stops, runtime, closing, running, pending, control>>

-----------------------------------------------------------------------------
DrainStep ==
  \/ \E i \in Command : ClaimReusing(i) \/ ClaimAcquiring(i)
  \/ StopDraining
  \/ SettleFailure

MintStep == MintRuntime \/ AcquireFails \/ MintResolves \/ MintFails

ProviderStep == ReceiptArrives \/ ProviderAttaches \/ StreamLost \/ \E i \in Command : Terminal(i)

InterruptStep == \E c \in Command : DriveFails(c) \/ InterruptRejected(c) \/ Watchdog(c)

LifecycleStep == Dispose \/ Abandon \/ Stop \/ Recover \/ Boot \/ EnableQueueDrain

ServiceNext ==
  \/ ClientStep
  \/ SwitchSession
  \/ DrainStep
  \/ MintStep
  \/ ProviderStep
  \/ InterruptStep
  \/ \E m \in closing : DisposeResolves(m)
  \/ LifecycleStep

ServiceSpec == ServiceInit /\ [][ServiceNext]_serviceVars

(***************************************************************************)
(* What the process itself guarantees: microtasks and timers run, a        *)
(* shutdown ends, a stopped server is booted again.  Providers may hang.   *)
(***************************************************************************)
ProcessFairness ==
  /\ WF_serviceVars(DrainStep)
  /\ WF_serviceVars(\E c \in Command : DriveFails(c) \/ Watchdog(c))
  /\ WF_serviceVars(Recover \/ Boot \/ EnableQueueDrain)
  /\ WF_serviceVars(service = "closing" /\ Stop)

TimedSpec == ServiceSpec /\ ProcessFairness

\* Providers that answer: mints settle, disposals resolve and streams end.
ProviderFairness ==
  /\ WF_serviceVars(MintStep)
  /\ WF_serviceVars(\E m \in closing : DisposeResolves(m))
  /\ WF_serviceVars(StreamLost \/ \E i \in Command : Terminal(i))

-----------------------------------------------------------------------------
ServiceTypeOK ==
  /\ TypeOK
  /\ service \in {"down", "gated", "ready", "closing"}
  /\ stops \in 0..MaxStops
  /\ queue \in [scheduled : BOOLEAN, redrain : BOOLEAN, phase : Phase,
                turn : Command \cup {None}]
  /\ runtime \in minted \cup {None}
  /\ closing \subseteq minted
  /\ running \subseteq minted \X Command
  /\ pending \subseteq minted \X Command
  /\ control \in [Command -> {"none", "waiting", "issued"}]

\* One runtime at a time: while one is minted or attached, none that was given
\* up before is still alive, so nothing a former runtime does late can reach
\* the provider thread, the tools or the working tree of its successor.
OneRuntime ==
  /\ Cardinality(closing) <= 1
  /\ runtime # None \/ (service = "ready" /\ queue.phase = "mint") => closing = {}
  /\ queue.phase = "mint" => runtime = None

\* The attached runtime is the current attempt of the active session: no switch,
\* resume or rotation leaves it behind with receipts nobody would accept.
RuntimeIsCurrent ==
  runtime # None =>
    /\ IsActive(runtime.session)
    /\ runtime.attempt = session[runtime.session].attempt

\* A turn is only sent to a runtime that no interrupt of another turn can still
\* hit: native interrupts name the session, not the turn.
InterruptHitsItsTarget ==
  \A p \in running, q \in pending : p[1] = q[1] => request[q[2]].target = p[2]

\* A turn that is active while the process serves is the one its loop delivers;
\* none is left active with nobody to settle it.
ActiveTurnIsDriven ==
  Up => \A i \in Command :
          Active(i) <=> queue.phase \notin {"idle", "observe"} /\ queue.turn = i

\* An open request has its watchdog armed for as long as the process serves.
RequestIsWatched ==
  Up => \A c \in Command : Requested(c) <=> control[c] # "none"

\* An interrupt is reported as done only while its own native interrupt is out,
\* sent to the runtime that streams the turn it is for, and its driver still
\* waits: the abort that a shutdown, a quarantine or a restart yields never
\* becomes the receipt of an interrupt whose outcome nobody knows.
ConfirmedByItsInterrupt ==
  [][\A c \in Command :
       request[c].status # "confirmed" /\ request'[c].status = "confirmed" =>
         /\ Up /\ Requested(c) /\ control[c] = "issued"
         /\ \E p \in running : p[2] = request[c].target /\ <<p[1], c>> \in pending]_serviceVars

\* An interrupt request is settled even if the provider never answers: by its
\* terminal, its watchdog, the shutdown or the next boot.
InterruptSettles == \A c \in Command : Requested(c) ~> ~Requested(c)

\* A queued message leaves the queue, across crashes, shutdowns and interrupts,
\* provided the providers answer.
QueueDrains == ProviderFairness => \A i \in Command : Queued(i) ~> ~Queued(i)
=============================================================================
