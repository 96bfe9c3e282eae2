------------------------ MODULE SessionServiceProofs ------------------------
(***************************************************************************)
(* Proofs about SessionService.  The process adds nothing to the store:    *)
(* each of its steps is a step of ConversationQueue or leaves the store    *)
(* alone, so every theorem of the store holds while the process runs.  On  *)
(* top of it stand the invariants that tie the process to the store.       *)
(***************************************************************************)
EXTENDS SessionService, ConversationQueueProofs

-----------------------------------------------------------------------------
(***************************************************************************)
(* The inductive invariant of the process.  Driven says what the loop      *)
(* knows of its turn in every phase, also during a shutdown, where         *)
(* ActiveTurnIsDriven says nothing.                                        *)
(***************************************************************************)
ProcessTypes ==
  /\ service \in {"down", "gated", "ready", "closing"}
  /\ stops \in 0..MaxStops
  /\ queue \in [scheduled : BOOLEAN, redrain : BOOLEAN, phase : Phase,
                turn : Command \cup {None}]
  /\ runtime \in minted \cup {None}
  /\ closing \subseteq minted
  /\ running \subseteq minted \X Command
  /\ pending \subseteq minted \X Command
  /\ control \in [Command -> {"none", "waiting", "issued"}]

Busy == queue.phase \notin {"idle", "observe"}

Driven == Busy => queue.turn \in Command /\ Active(queue.turn)

Halted ==
  /\ service = "down" => queue = Idle0
  /\ service = "gated" => queue.phase = "idle"

\* The types of the process and of the store it drives.
LEMMA ServiceTypesSplit == ServiceTypeOK <=> TypeOK /\ ProcessTypes
  BY DEF ServiceTypeOK, ProcessTypes

-----------------------------------------------------------------------------
(***************************************************************************)
(* The process implements the store.                                       *)
(***************************************************************************)
\* Ending a turn is one of the settlements the store allows.
LEMMA EndTurnIsStoreStep ==
  ASSUME NEW i \in Command, NEW outcome, NEW status, NEW q,
         EndTurn(i, outcome, status, q),
         \/ outcome \in {"completed", "aborted", "turn-failed"} /\ status = "accepted"
         \/ outcome = "turn-failed" /\ status = "failed"
  PROVE  Next
<1>1. Settle(i, outcome, status)
  BY DEF EndTurn
<1>2. SettleTerminal(i) \/ SettleInfrastructureFailure(i)
  BY <1>1 DEF SettleTerminal, SettleInfrastructureFailure
<1> QED
  BY <1>2 DEF Next, TurnStep

\* A step of the continuation that leaves the queue alone.
LEMMA ContinuationIsStoreStep ==
  ASSUME UNCHANGED queueVars,
         \/ \E s \in Session : PrepareCreate(s) \/ PrepareResume(s) \/ ResumeMarkedFailed(s)
         \/ \E m \in minted : Attach(m) \/ ConfirmCreated(m) \/ ConfirmResumed(m)
         \/ UNCHANGED sessVars
  PROVE  [Next]_vars
  BY DEF Next, SessionStep, Continuation, ResumeMarkedFailed, vars

\* The session a busy loop works for is a session, and the turn has an item.
LEMMA TurnSessionInSession ==
  ASSUME StoreOK, Driven, Busy
  PROVE  TurnSession \in Session
<1>1. queue.turn \in Command /\ item[queue.turn].status = "delivering"
  BY DEF Driven, StoreOK, OneTurnPerSession
<1> QED
  BY <1>1, PresentItem DEF StoreOK, TurnSession

\* Every step of the process is a step of the store or leaves it alone.
LEMMA ServiceStepIsStoreStep ==
  ASSUME StoreOK, SessionOK, ProcessTypes, Driven, [ServiceNext]_serviceVars
  PROVE  [Next]_vars
<1>1. CASE ClientStep
  BY <1>1 DEF ClientStep, SendCommand, QuietCommand, InterruptCommand, Next, ClientCommand, Replay
<1>2. CASE SwitchSession
  BY <1>2 DEF SwitchSession, Next, SessionStep
<1>3. CASE DrainStep
  <2>1. CASE \E i \in Command : ClaimReusing(i) \/ ClaimAcquiring(i)
    BY <2>1 DEF ClaimReusing, ClaimAcquiring, Next, TurnStep
  <2>2. CASE StopDraining
    BY <2>2 DEF StopDraining
  <2>3. CASE SettleFailure
    <3>1. queue.turn \in Command
      BY <2>3 DEF SettleFailure, Driven, Busy
    <3> QED
      BY <2>3, <3>1, EndTurnIsStoreStep DEF SettleFailure
  <2> QED
    BY <1>3, <2>1, <2>2, <2>3 DEF DrainStep
<1>4. CASE MintStep
  <2>1. CASE queue.phase \in {"acquire", "mint"}
    <3>1. TurnSession \in Session
      BY <2>1, TurnSessionInSession DEF Busy
    <3>2. \A m \in CurrentMints(TurnSession) : m.session \in Session
      BY <3>1 DEF CurrentMints
    <3>3. CASE MintResolves
      BY <3>3 DEF MintResolves
    <3> QED
      BY <1>4, <3>1, <3>2, <3>3, ContinuationIsStoreStep
      DEF MintStep, MintRuntime, AcquireFails, MintFails
  <2> QED
    BY <1>4, <2>1 DEF MintStep, MintRuntime, AcquireFails, MintResolves, MintFails
<1>5. CASE ProviderStep
  <2>1. \A p \in running : p[1].session \in Session /\ p[2] \in Command
    BY DEF ProcessTypes, SessionOK, Mint
  <2>2. CASE ReceiptArrives \/ ProviderAttaches
    <3>1. runtime \in minted
      BY <2>2 DEF ReceiptArrives, ProviderAttaches, ProcessTypes
    <3> QED
      BY <2>2, <3>1, ContinuationIsStoreStep DEF ReceiptArrives, ProviderAttaches
  <2>3. CASE StreamLost
    BY <2>3, <2>1, ContinuationIsStoreStep DEF StreamLost
  <2>4. CASE \E i \in Command : Terminal(i)
    BY <2>4, EndTurnIsStoreStep DEF Terminal
  <2> QED
    BY <1>5, <2>2, <2>3, <2>4 DEF ProviderStep
<1>6. CASE InterruptStep
  BY <1>6 DEF InterruptStep, DriveFails, InterruptRejected, Watchdog, Next, TurnStep
<1>7. CASE \E m \in closing : DisposeResolves(m)
  BY <1>7 DEF DisposeResolves
<1>8. CASE LifecycleStep
  <2>1. CASE Abandon
    <3>1. TurnSession \in Session
      BY <2>1, TurnSessionInSession DEF Busy, Abandon
    <3> QED
      BY <2>1, <3>1, ContinuationIsStoreStep DEF Abandon
  <2>2. CASE Dispose
    BY <2>2 DEF Dispose, OutstandingFailed, Next, TurnStep
  <2>3. CASE Recover
    BY <2>3 DEF Recover, Next, TurnStep
  <2> QED
    BY <1>8, <2>1, <2>2, <2>3 DEF LifecycleStep, Stop, Boot, EnableQueueDrain
<1>9. CASE UNCHANGED serviceVars
  BY <1>9 DEF serviceVars
<1> QED
  BY <1>1, <1>2, <1>3, <1>4, <1>5, <1>6, <1>7, <1>8, <1>9 DEF ServiceNext

-----------------------------------------------------------------------------
(***************************************************************************)
(* What each store operation does to the turns.                            *)
(***************************************************************************)
SameTurns == \A i \in Command : Active(i)' <=> Active(i)

\* A claim starts its turn and no other.
LEMMA ClaimStarts ==
  ASSUME StoreOK, NEW i \in Command, Claim(i)
  PROVE  Active(i)' /\ \A j \in Command \ {i} : Active(j)' <=> Active(j)
  BY DEF Claim, Active, StoreOK, QueueTypes

\* A settlement ends its turn, which was running, and no other.
LEMMA SettleEnds ==
  ASSUME StoreOK, NEW i \in Command, NEW outcome, NEW status, Settle(i, outcome, status)
  PROVE  Active(i) /\ ~Active(i)' /\ \A j \in Command \ {i} : Active(j)' <=> Active(j)
<1>1. turn' = [turn EXCEPT ![i] = [status |-> "ended", outcome |-> outcome]] /\ Active(i)
  BY DEF Settle
<1> QED
  BY <1>1 DEF Active, StoreOK, QueueTypes

\* No command, transition or failed interrupt touches a turn.
LEMMA OthersKeepTurns ==
  ASSUME ClientStep \/ SwitchSession \/ InterruptStep
  PROVE  SameTurns
<1>1. turn' = turn
  BY DEF ClientStep, SwitchSession, InterruptStep, SendCommand, QuietCommand, InterruptCommand,
     EnqueueSend, EnqueueDuplicate, Replay, Edit, Remove, Reject, Interrupt,
     InterruptAndSendQueued, InterruptAndSendNew, ReplaceSession, CloseSession, ContinueSession,
     ResumeSession, CancelQueue, DriveFails, InterruptRejected, Watchdog, FailInterrupt, vars,
     queueVars
<1> QED
  BY <1>1 DEF SameTurns, Active

\* The loop keeps its phase and turn, so it keeps driving what it drove.
LEMMA SameDriver ==
  ASSUME SameTurns, Driven, ActiveTurnIsDriven, Halted, service' = service,
         queue'.phase = queue.phase, queue'.turn = queue.turn, service = "down" => queue' = queue
  PROVE  Driven' /\ ActiveTurnIsDriven' /\ Halted'
  BY DEF SameTurns, Driven, Busy, ActiveTurnIsDriven, Up, Halted

\* A kick changes neither the phase of the loop nor its turn, and nothing before
\* the gate is open.
LEMMA DriverKickedKeeps ==
  ASSUME ProcessTypes PROVE /\ Kicked(queue).phase = queue.phase
                            /\ Kicked(queue).turn = queue.turn
                            /\ service # "ready" => Kicked(queue) = queue
  BY DEF ProcessTypes, Kicked

\* A loop that moves on with the same turn.
LEMMA SameTurnMovesOn ==
  ASSUME ProcessTypes, SameTurns, Driven, ActiveTurnIsDriven, Halted, Busy, service' = service,
         NEW phase \in Phase \ {"idle", "observe"}, queue' = [queue EXCEPT !.phase = phase]
  PROVE  Driven' /\ ActiveTurnIsDriven' /\ Halted'
<1>1. queue'.phase = phase /\ queue'.turn = queue.turn
  BY DEF ProcessTypes
<1>2. Driven' /\ ActiveTurnIsDriven'
  BY <1>1 DEF SameTurns, Driven, Busy, ActiveTurnIsDriven, Up
<1>3. service \notin {"down", "gated"}
  BY DEF Halted, Busy, Idle0
<1> QED
  BY <1>2, <1>3 DEF Halted

\* The loop that ends its turn drives nothing until it claims again.
LEMMA DriverEnds ==
  ASSUME StoreOK, ProcessTypes, Driven, ActiveTurnIsDriven, Halted, Busy, NEW i \in Command,
         NEW outcome, NEW status, NEW q, EndTurn(i, outcome, status, q), service' = service
  PROVE  Driven' /\ ActiveTurnIsDriven' /\ Halted'
<1>1. queue'.phase = "observe"
  BY DEF EndTurn, ProcessTypes
<1>2. Active(i) /\ ~Active(i)' /\ \A j \in Command \ {i} : Active(j)' <=> Active(j)
  BY SettleEnds DEF EndTurn
<1>3. Driven' /\ ActiveTurnIsDriven'
  BY <1>1, <1>2 DEF Driven, Busy, ActiveTurnIsDriven, Up
<1>4. service \notin {"down", "gated"}
  BY DEF Halted, Busy, Idle0
<1> QED
  BY <1>3, <1>4 DEF Halted

\* The step case: whoever starts, settles or abandons a turn moves the loop.
LEMMA DrivenInductive ==
  ASSUME StoreOK, SessionOK, ProcessTypes, Driven, ActiveTurnIsDriven, Halted,
         [ServiceNext]_serviceVars
  PROVE  Driven' /\ ActiveTurnIsDriven' /\ Halted'
<1>1. CASE ClientStep
  <2>1. SameTurns
    BY <1>1, OthersKeepTurns
  <2>2. service' = service /\ (queue' = queue \/ queue' = Kicked(queue))
    BY <1>1 DEF ClientStep, SendCommand, QuietCommand, InterruptCommand, processVars
  <2> QED
    BY <2>1, <2>2, SameDriver, DriverKickedKeeps
<1>2. CASE SwitchSession
  <2>1. SameTurns
    BY <1>2, OthersKeepTurns
  <2>2. service' = service /\ (queue' = queue \/ queue' = Kicked(queue))
    BY <1>2 DEF SwitchSession
  <2> QED
    BY <2>1, <2>2, SameDriver, DriverKickedKeeps
<1>3. CASE \E i \in Command : ClaimReusing(i) \/ ClaimAcquiring(i)
  <2>1. PICK i \in Command : ClaimReusing(i) \/ ClaimAcquiring(i)
    BY <1>3
  <2>2. Claim(i) /\ Looking /\ service' = service
    BY <2>1 DEF ClaimReusing, ClaimAcquiring
  <2>3. Active(i)' /\ \A j \in Command \ {i} : ~Active(j)'
    BY <2>2, ClaimStarts DEF ActiveTurnIsDriven, Up, Looking
  <2>4. queue'.phase \in {"run", "unsent", "acquire"} /\ queue'.turn = i
    BY <2>1 DEF ClaimReusing, ClaimAcquiring, Delivering
  <2> QED
    BY <2>2, <2>3, <2>4 DEF Driven, Busy, ActiveTurnIsDriven, Halted, Looking
<1>4. CASE StopDraining
  <2>1. queue'.phase = "idle" /\ UNCHANGED <<turn, service>> /\ Looking
    BY <1>4 DEF StopDraining, Idle0, vars, queueVars
  <2> QED
    BY <2>1 DEF Driven, Busy, ActiveTurnIsDriven, Halted, Looking, Active, Up
<1>5. CASE SettleFailure
  <2>1. Busy /\ queue.turn \in Command
    BY <1>5 DEF SettleFailure, Busy, Driven
  <2> QED
    BY <1>5, <2>1, DriverEnds DEF SettleFailure
<1>6. CASE MintStep
  <2>1. PICK phase \in {"mint", "unready", "run", "unsent"} : queue' = [queue EXCEPT !.phase = phase]
    BY <1>6 DEF MintStep, MintRuntime, AcquireFails, MintResolves, MintFails
  <2>2. Busy /\ service' = service /\ turn' = turn
    BY <1>6 DEF MintStep, MintRuntime, AcquireFails, MintResolves, MintFails, Busy, vars, queueVars
  <2>3. phase \in Phase \ {"idle", "observe"}
    BY DEF Phase
  <2> QED
    BY <2>1, <2>2, <2>3, SameTurnMovesOn DEF SameTurns, Active
<1>7. CASE ReceiptArrives \/ ProviderAttaches
  <2>1. UNCHANGED <<turn, queue, service>>
    BY <1>7 DEF ReceiptArrives, ProviderAttaches, queueVars, processVars
  <2> QED
    BY <2>1, SameDriver DEF SameTurns, Active
<1>8. CASE StreamLost
  <2>1. Busy /\ UNCHANGED <<turn, service>> /\ queue' = [queue EXCEPT !.phase = "lost"]
    BY <1>8 DEF StreamLost, queueVars, Busy
  <2>2. "lost" \in Phase \ {"idle", "observe"}
    BY DEF Phase
  <2> QED
    BY <2>1, <2>2, SameTurnMovesOn DEF SameTurns, Active
<1>9. CASE \E i \in Command : Terminal(i)
  BY <1>9, DriverEnds DEF Terminal, Busy
<1>10. CASE InterruptStep
  <2>1. SameTurns
    BY <1>10, OthersKeepTurns
  <2>2. UNCHANGED <<service, queue>>
    BY <1>10 DEF InterruptStep, DriveFails, InterruptRejected, Watchdog
  <2> QED
    BY <2>1, <2>2, SameDriver
<1>11. CASE \E m \in closing : DisposeResolves(m)
  <2>1. UNCHANGED <<turn, service, queue>>
    BY <1>11 DEF DisposeResolves, vars, queueVars
  <2> QED
    BY <2>1, SameDriver DEF SameTurns, Active
<1>12. CASE Dispose
  <2>1. service' = "closing" /\ UNCHANGED <<turn, queue>>
    BY <1>12 DEF Dispose, OutstandingFailed, FailInterrupt, vars, queueVars
  <2> QED
    BY <2>1 DEF Driven, Busy, ActiveTurnIsDriven, Halted, Active, Up
<1>13. CASE Abandon
  <2>1. service' = "closing" /\ queue'.phase = "idle"
    BY <1>13 DEF Abandon, Idle0
  <2> QED
    BY <2>1 DEF Driven, Busy, ActiveTurnIsDriven, Halted, Up
<1>14. CASE Stop
  <2>1. service' = "down" /\ queue' = Idle0
    BY <1>14 DEF Stop
  <2> QED
    BY <2>1 DEF Driven, Busy, ActiveTurnIsDriven, Halted, Up, Idle0
<1>15. CASE Recover
  <2>1. service' = "down" /\ queue' = Idle0
    BY <1>15 DEF Recover, Halted, processVars
  <2> QED
    BY <2>1 DEF Driven, Busy, ActiveTurnIsDriven, Halted, Up, Idle0
<1>16. CASE Boot
  <2>1. service' = "gated" /\ queue' = Idle0 /\ \A i \in Command : ~Active(i)'
    BY <1>16 DEF Boot, RecoveryDone, Halted, vars, queueVars, Active
  <2> QED
    BY <2>1 DEF Driven, Busy, ActiveTurnIsDriven, Halted, Up, Idle0
<1>17. CASE EnableQueueDrain
  <2>1. service = "gated" /\ service' = "ready" /\ turn' = turn
    BY <1>17 DEF EnableQueueDrain, vars, queueVars
  <2>2. queue'.phase = queue.phase /\ queue'.turn = queue.turn
    BY <1>17 DEF EnableQueueDrain, Recovered, ProcessTypes
  <2> QED
    BY <2>1, <2>2 DEF Driven, Busy, ActiveTurnIsDriven, Halted, Up, Active
<1>18. CASE UNCHANGED serviceVars
  <2>1. UNCHANGED <<turn, service, queue>>
    BY <1>18 DEF serviceVars, vars, queueVars, processVars
  <2> QED
    BY <2>1, SameDriver DEF SameTurns, Active
<1> QED
  BY <1>1, <1>2, <1>3, <1>4, <1>5, <1>6, <1>7, <1>8, <1>9, <1>10, <1>11, <1>12, <1>13, <1>14,
     <1>15, <1>16, <1>17, <1>18
  DEF ServiceNext, DrainStep, ProviderStep, LifecycleStep

-----------------------------------------------------------------------------
(***************************************************************************)
(* The variables of the process keep their ranges.                         *)
(***************************************************************************)
\* Mints are only ever added.
LEMMA MintedGrows ==
  ASSUME [Next]_vars PROVE minted \subseteq minted'
  BY StepIsRowStep DEF SessNext, RowTransition, Continuation, ReplaceRow, CloseRow, ReactivateRow,
     ContinueRow, DeleteRows, PrepareCreate, PrepareResume, ClearSeed, FailResume, Attach,
     ConfirmCreated, ConfirmResumed, sessVars

\* A kick keeps the type of the loop.
LEMMA KickedTypes ==
  ASSUME ProcessTypes
  PROVE  Kicked(queue) \in [scheduled : BOOLEAN, redrain : BOOLEAN, phase : Phase,
                            turn : Command \cup {None}]
  BY DEF ProcessTypes, Kicked

\* Moving to another phase, or to the initial loop, keeps the type of the loop.
LEMMA PhaseTypes ==
  ASSUME ProcessTypes, NEW phase \in Phase
  PROVE  [queue EXCEPT !.phase = phase] \in [scheduled : BOOLEAN, redrain : BOOLEAN, phase : Phase,
                                             turn : Command \cup {None}]
  BY DEF ProcessTypes

\* The end of a turn keeps every range: it only removes streams and drivers.
LEMMA EndTurnTypes ==
  ASSUME ProcessTypes, minted \subseteq minted', NEW i \in Command, NEW outcome, NEW status,
         NEW q, EndTurn(i, outcome, status, q), UNCHANGED <<service, stops>>,
         pending' \subseteq pending
  PROVE  ProcessTypes'
<1>1. queue' \in [scheduled : BOOLEAN, redrain : BOOLEAN, phase : Phase, turn : Command \cup {None}]
  BY PhaseTypes DEF EndTurn, Phase
<1>2. runtime' \in minted' \cup {None} /\ closing' \subseteq minted'
  BY DEF EndTurn, Quarantine, ProcessTypes
<1>3. running' \subseteq running
  BY DEF EndTurn
<1>4. control' \in [Command -> {"none", "waiting", "issued"}]
  BY DEF EndTurn, ProcessTypes
<1> QED
  BY <1>1, <1>2, <1>3, <1>4 DEF ProcessTypes

\* The step case of the ranges; mints only grow, so what names one stays in range.
LEMMA ProcessTypesInductive ==
  ASSUME StoreOK, SessionOK, ProcessTypes, Driven, [ServiceNext]_serviceVars
  PROVE  ProcessTypes'
<1>0. minted \subseteq minted'
  BY ServiceStepIsStoreStep, MintedGrows
<1>1. CASE ClientStep
  <2>1. PICK c \in Command : SendCommand(c) \/ QuietCommand(c) \/ InterruptCommand(c)
    BY <1>1 DEF ClientStep
  <2>2. CASE SendCommand(c)
    <3>1. queue' = Kicked(queue)
          /\ UNCHANGED <<service, stops, runtime, closing, running, pending, control>>
      BY <2>2 DEF SendCommand
    <3> QED
      BY <1>0, <3>1, KickedTypes DEF ProcessTypes
  <2>3. CASE QuietCommand(c)
    BY <1>0, <2>3 DEF QuietCommand, processVars, ProcessTypes
  <2>4. CASE InterruptCommand(c)
    <3>1. control' \in [Command -> {"none", "waiting", "issued"}] /\ pending' \subseteq minted \X Command
      BY <2>4 DEF InterruptCommand, StartInterruptAttempt, ProcessTypes
    <3> QED
      BY <1>0, <2>4, <3>1 DEF InterruptCommand, ProcessTypes
  <2> QED
    BY <2>1, <2>2, <2>3, <2>4
<1>2. CASE SwitchSession
  <2>1. /\ queue' = queue \/ queue' = Kicked(queue)
        /\ Teardown
        /\ UNCHANGED <<service, stops, running, pending, control>>
    BY <1>2 DEF SwitchSession
  <2>2. runtime' \in minted \cup {None} /\ closing' \subseteq minted
    BY <2>1 DEF Teardown, ProcessTypes
  <2>3. queue' \in [scheduled : BOOLEAN, redrain : BOOLEAN, phase : Phase, turn : Command \cup {None}]
    BY <2>1, KickedTypes DEF ProcessTypes
  <2> QED
    BY <1>0, <2>1, <2>2, <2>3 DEF ProcessTypes
<1>3. CASE \E i \in Command : ClaimReusing(i) \/ ClaimAcquiring(i)
  <2>1. PICK i \in Command : ClaimReusing(i) \/ ClaimAcquiring(i)
    BY <1>3
  <2>2. queue' \in [scheduled : BOOLEAN, redrain : BOOLEAN, phase : Phase, turn : Command \cup {None}]
    <3>1. PICK phase \in {"run", "unsent", "acquire"} : Delivering(i, phase)
      BY <2>1 DEF ClaimReusing, ClaimAcquiring
    <3>2. phase \in Phase
      BY DEF Phase
    <3> QED
      BY <3>1, <3>2 DEF Delivering, ProcessTypes
  <2>3. runtime' \in minted \cup {None} /\ closing' \subseteq minted /\ running' \subseteq minted \X Command
    BY <2>1 DEF ClaimReusing, ClaimAcquiring, Quarantine, Teardown, ProcessTypes
  <2> QED
    BY <1>0, <2>1, <2>2, <2>3 DEF ClaimReusing, ClaimAcquiring, ProcessTypes
<1>4. CASE StopDraining
  <2>1. queue' \in [scheduled : BOOLEAN, redrain : BOOLEAN, phase : Phase, turn : Command \cup {None}]
    BY <1>4, Zenon DEF StopDraining, Idle0, ProcessTypes, Phase
  <2> QED
    BY <1>0, <1>4, <2>1 DEF StopDraining, ProcessTypes
<1>5. CASE SettleFailure
  <2>1. queue.turn \in Command
    BY <1>5 DEF SettleFailure, Driven, Busy
  <2> QED
    BY <1>0, <1>5, <2>1, EndTurnTypes DEF SettleFailure
<1>6. CASE MintRuntime \/ AcquireFails
  <2>1. PICK phase \in Phase : queue' = [queue EXCEPT !.phase = phase]
    BY <1>6 DEF MintRuntime, AcquireFails, Phase
  <2> QED
    BY <1>0, <1>6, <2>1, PhaseTypes DEF MintRuntime, AcquireFails, ProcessTypes
<1>7. CASE MintResolves
  <2>1. queue.turn \in Command
    BY <1>7 DEF MintResolves, Driven, Busy
  <2>2. /\ runtime' \in minted /\ running' \subseteq minted \X Command
        /\ pending' \subseteq minted \X Command
    BY <1>7, <2>1 DEF MintResolves, CurrentMints, ProcessTypes
  <2>3. control' \in [Command -> {"none", "waiting", "issued"}]
    BY <1>7 DEF MintResolves, ProcessTypes
  <2>4. "run" \in Phase
    BY DEF Phase
  <2> QED
    BY <1>0, <1>7, <2>2, <2>3, <2>4, PhaseTypes DEF MintResolves, ProcessTypes
<1>8. CASE MintFails
  <2>1. closing' \subseteq minted
    BY <1>8 DEF MintFails, CurrentMints, ProcessTypes
  <2>2. PICK phase \in Phase : queue' = [queue EXCEPT !.phase = phase]
    BY <1>8 DEF MintFails, Phase
  <2> QED
    BY <1>0, <1>8, <2>1, <2>2, PhaseTypes DEF MintFails, ProcessTypes
<1>9. CASE ReceiptArrives \/ ProviderAttaches
  BY <1>0, <1>9 DEF ReceiptArrives, ProviderAttaches, processVars, ProcessTypes
<1>10. CASE StreamLost
  <2>1. "lost" \in Phase
    BY DEF Phase
  <2> QED
    BY <1>0, <1>10, <2>1, PhaseTypes DEF StreamLost, ProcessTypes
<1>11. CASE \E i \in Command : Terminal(i)
  BY <1>0, <1>11, EndTurnTypes DEF Terminal
<1>12. CASE InterruptStep
  BY <1>0, <1>12 DEF InterruptStep, DriveFails, InterruptRejected, Watchdog, Quarantine, ProcessTypes
<1>13. CASE \E m \in closing : DisposeResolves(m)
  BY <1>0, <1>13 DEF DisposeResolves, ProcessTypes
<1>14. CASE Dispose
  BY <1>0, <1>14, StopAssumption DEF Dispose, OutstandingFailed, Teardown, NoControl, ProcessTypes
<1>15. CASE Abandon
  BY <1>0, <1>15 DEF Abandon, Idle0, Phase, ProcessTypes
<1>16. CASE Stop
  BY <1>0, <1>16, StopAssumption DEF Stop, Idle0, NoControl, Phase, ProcessTypes
<1>17. CASE Recover \/ Boot
  BY <1>0, <1>17 DEF Recover, Boot, processVars, ProcessTypes
<1>18. CASE EnableQueueDrain
  BY <1>0, <1>18 DEF EnableQueueDrain, Recovered, ProcessTypes
<1>19. CASE UNCHANGED serviceVars
  BY <1>0, <1>19 DEF serviceVars, processVars, ProcessTypes
<1> QED
  BY <1>1, <1>2, <1>3, <1>4, <1>5, <1>6, <1>7, <1>8, <1>9, <1>10, <1>11, <1>12, <1>13, <1>14,
     <1>15, <1>16, <1>17, <1>18, <1>19
  DEF ServiceNext, DrainStep, MintStep, ProviderStep, LifecycleStep

-----------------------------------------------------------------------------
(***************************************************************************)
(* The invariant of the process and what follows from it.                  *)
(***************************************************************************)
ServiceInv == StoreOK /\ SessionOK /\ ProcessTypes /\ Driven /\ ActiveTurnIsDriven /\ Halted

\* Before the first boot nothing runs.
LEMMA ServiceInvInitial == ServiceInit => ServiceInv
<1> SUFFICES ASSUME ServiceInit PROVE ServiceInv
  OBVIOUS
<1>1. StoreOK /\ SessionOK
  BY StoreOKInitial, SessionOKInitial DEF ServiceInit, Init
<1>2. ProcessTypes /\ Driven /\ ActiveTurnIsDriven /\ Halted
  BY StopAssumption
  DEF ServiceInit, ProcessTypes, Driven, Busy, ActiveTurnIsDriven, Up, Halted, Idle0, NoControl, Phase
<1> QED
  BY <1>1, <1>2 DEF ServiceInv

\* The invariant holds of the store because a step of the process is one of the
\* store, and of the process by the lemmas above.
LEMMA ServiceInvInductive ==
  ASSUME ServiceInv, [ServiceNext]_serviceVars
  PROVE  ServiceInv'
<1>1. [Next]_vars
  BY ServiceStepIsStoreStep DEF ServiceInv
<1>2. StoreOK'
  BY <1>1, StoreOKInductive DEF ServiceInv
<1>3. SessionOK'
  BY <1>1, StepIsRowStep, SessionOKInductive DEF ServiceInv
<1>4. ProcessTypes'
  BY ProcessTypesInductive DEF ServiceInv
<1>5. Driven' /\ ActiveTurnIsDriven' /\ Halted'
  BY DrivenInductive DEF ServiceInv
<1> QED
  BY <1>2, <1>3, <1>4, <1>5 DEF ServiceInv

\* The invariant holds of every reachable state.
LEMMA AlwaysServiceInv == ServiceSpec => []ServiceInv
  BY ServiceInvInitial, ServiceInvInductive, PTL DEF ServiceSpec

\* Driving the store through the process, its awaits, timers, crashes and
\* shutdowns included, never does anything the store's own specification does
\* not allow.
LEMMA ServiceImplementsStore == ServiceSpec => Spec
<1>1. ServiceInit => Init
  BY DEF ServiceInit
<1>2. ServiceInv /\ [ServiceNext]_serviceVars => [Next]_vars
  BY ServiceStepIsStoreStep DEF ServiceInv
<1> QED
  BY <1>1, <1>2, AlwaysServiceInv, PTL DEF ServiceSpec, Spec

\* The state of store and process keeps its type.
THEOREM ServiceTypes == ServiceSpec => []ServiceTypeOK
  BY ServiceImplementsStore, StoreTypes, AlwaysServiceInv, ServiceTypesSplit, PTL DEF ServiceInv

\* A turn is active exactly while the one loop of the process works on it:
\* nothing leaves a turn active that nobody would settle.
THEOREM TurnsAreDriven == ServiceSpec => []ActiveTurnIsDriven
  BY AlwaysServiceInv, PTL DEF ServiceInv

-----------------------------------------------------------------------------
(***************************************************************************)
(* One runtime at a time.  Whoever detaches a runtime moves it to closing, *)
(* and the loop mints only once closing is empty; what makes this inductive *)
(* is that the loop detached the former runtime before it began to wait.   *)
(***************************************************************************)
Alone ==
  /\ \A a, b \in closing : a = b
  /\ runtime # None => closing = {}

Minting ==
  /\ queue.phase \in {"acquire", "mint"} => runtime = None
  /\ service = "ready" /\ queue.phase = "mint" => closing = {}

\* Detaching a runtime, entirely or for one session, leaves at most one closing.
LEMMA DetachKeepsAlone ==
  ASSUME Alone, ProcessTypes, Teardown \/ (\E s : Quarantine(s)) \/ UNCHANGED <<runtime, closing>>
  PROVE  /\ Alone'
         /\ runtime = None => UNCHANGED <<runtime, closing>>
         /\ Teardown => runtime' = None
  BY DEF Alone, Teardown, Quarantine

\* A step that detaches at most, in a phase the loop does not leave, or leaves
\* for one in which it mints nothing.
LEMMA DetachKeepsMinting ==
  ASSUME Alone, Minting, ProcessTypes,
         Teardown \/ (\E s : Quarantine(s)) \/ UNCHANGED <<runtime, closing>>,
         \/ queue'.phase = queue.phase
         \/ queue'.phase \notin {"acquire", "mint"},
         service' = "ready" => service = "ready" \/ queue'.phase = "idle"
  PROVE  Alone' /\ Minting'
  BY DetachKeepsAlone DEF Minting

\* A turn that ends moves the loop on and detaches the runtime at most.
LEMMA EndTurnKeepsMinting ==
  ASSUME Alone, Minting, ProcessTypes, NEW i \in Command, NEW outcome, NEW status, NEW q,
         EndTurn(i, outcome, status, q), service' = service
  PROVE  Alone' /\ Minting'
<1>1. queue'.phase = "observe"
  BY DEF EndTurn, ProcessTypes
<1>2. (\E s : Quarantine(s)) \/ UNCHANGED <<runtime, closing>>
  BY DEF EndTurn
<1> QED
  BY <1>1, <1>2, DetachKeepsMinting

\* The step case.
LEMMA AloneInductive ==
  ASSUME ServiceInv, Alone, Minting, [ServiceNext]_serviceVars
  PROVE  Alone' /\ Minting'
<1> USE DEF ServiceInv
<1>1. CASE ClientStep
  <2>1. /\ UNCHANGED <<runtime, closing, service>>
        /\ queue' = queue \/ queue' = Kicked(queue)
    BY <1>1 DEF ClientStep, SendCommand, QuietCommand, InterruptCommand, processVars
  <2> QED
    BY <2>1, DetachKeepsMinting, DriverKickedKeeps
<1>2. CASE SwitchSession
  <2>1. Teardown /\ service' = service /\ (queue' = queue \/ queue' = Kicked(queue))
    BY <1>2 DEF SwitchSession
  <2> QED
    BY <2>1, DetachKeepsMinting, DriverKickedKeeps
<1>3. CASE \E i \in Command : ClaimReusing(i)
  <2>1. PICK i \in Command : ClaimReusing(i)
    BY <1>3
  <2>2. /\ queue'.phase \in {"run", "unsent"} /\ service' = service
        /\ (\E s : Quarantine(s)) \/ UNCHANGED <<runtime, closing>>
    BY <2>1 DEF ClaimReusing, Delivering
  <2> QED
    BY <2>2, DetachKeepsMinting
<1>4. CASE \E i \in Command : ClaimAcquiring(i)
  <2>1. Teardown /\ queue'.phase = "acquire"
    BY <1>4 DEF ClaimAcquiring, Delivering
  <2> QED
    BY <2>1, DetachKeepsAlone DEF Minting
<1>5. CASE StopDraining
  <2>1. queue'.phase = "idle" /\ UNCHANGED <<runtime, closing, service>>
    BY <1>5 DEF StopDraining, Idle0
  <2> QED
    BY <2>1, DetachKeepsMinting
<1>6. CASE SettleFailure
  <2>1. queue.turn \in Command
    BY <1>6 DEF SettleFailure, Driven, Busy
  <2> QED
    BY <1>6, <2>1, EndTurnKeepsMinting DEF SettleFailure
<1>7. CASE MintRuntime
  <2>1. queue'.phase = "mint"
    BY <1>7 DEF MintRuntime, ProcessTypes
  <2> QED
    BY <1>7, <2>1 DEF MintRuntime, DisposalAwaited, Alone, Minting
<1>8. CASE AcquireFails
  <2>1. queue'.phase = "unready" /\ UNCHANGED <<runtime, closing, service>>
    BY <1>8 DEF AcquireFails, ProcessTypes
  <2> QED
    BY <2>1, DetachKeepsMinting
<1>9. CASE MintResolves
  <2>1. queue'.phase = "run" /\ closing' = {}
    BY <1>9 DEF MintResolves, ProcessTypes, Minting
  <2> QED
    BY <2>1 DEF Alone, Minting
<1>10. CASE MintFails
  <2>1. /\ queue'.phase \in {"unready", "unsent"} /\ runtime' = None /\ closing = {}
        /\ closing' = {} \/ \E m : closing' = {m}
    BY <1>10 DEF MintFails, ProcessTypes, Minting
  <2> QED
    BY <2>1 DEF Alone, Minting
<1>11. CASE ReceiptArrives \/ ProviderAttaches
  BY <1>11, DetachKeepsMinting DEF ReceiptArrives, ProviderAttaches, processVars
<1>12. CASE StreamLost
  <2>1. queue'.phase = "lost" /\ UNCHANGED <<runtime, closing, service>>
    BY <1>12 DEF StreamLost, ProcessTypes
  <2> QED
    BY <2>1, DetachKeepsMinting
<1>13. CASE \E i \in Command : Terminal(i)
  BY <1>13, EndTurnKeepsMinting DEF Terminal
<1>14. CASE InterruptStep
  <2>1. /\ UNCHANGED <<queue, service>>
        /\ (\E s : Quarantine(s)) \/ UNCHANGED <<runtime, closing>>
    BY <1>14 DEF InterruptStep, DriveFails, InterruptRejected, Watchdog
  <2> QED
    BY <2>1, DetachKeepsMinting
<1>15. CASE \E m \in closing : DisposeResolves(m)
  BY <1>15 DEF DisposeResolves, Alone, Minting
<1>16. CASE Dispose
  <2>1. Teardown /\ service' = "closing" /\ queue' = queue
    BY <1>16 DEF Dispose, OutstandingFailed
  <2> QED
    BY <2>1, DetachKeepsMinting
<1>17. CASE Abandon
  <2>1. queue'.phase = "idle" /\ UNCHANGED <<runtime, closing, service>>
    BY <1>17 DEF Abandon, Idle0
  <2> QED
    BY <2>1, DetachKeepsMinting
<1>18. CASE Stop
  BY <1>18 DEF Stop, Idle0, Alone, Minting
<1>19. CASE Recover
  BY <1>19, DetachKeepsMinting DEF Recover, processVars
<1>20. CASE Boot
  <2>1. UNCHANGED <<runtime, closing, queue>> /\ service' = "gated"
    BY <1>20 DEF Boot
  <2> QED
    BY <2>1, DetachKeepsMinting
<1>21. CASE EnableQueueDrain
  <2>1. queue'.phase = queue.phase /\ UNCHANGED <<runtime, closing>>
    BY <1>21 DEF EnableQueueDrain, Recovered, ProcessTypes
  <2>2. queue.phase # "mint"
    BY <1>21 DEF EnableQueueDrain, Halted
  <2> QED
    BY <2>1, <2>2 DEF Alone, Minting
<1>22. CASE UNCHANGED serviceVars
  BY <1>22, DetachKeepsMinting DEF serviceVars, processVars
<1> QED
  BY <1>1, <1>2, <1>3, <1>4, <1>5, <1>6, <1>7, <1>8, <1>9, <1>10, <1>11, <1>12, <1>13, <1>14,
     <1>15, <1>16, <1>17, <1>18, <1>19, <1>20, <1>21, <1>22
  DEF ServiceNext, DrainStep, MintStep, ProviderStep, LifecycleStep

\* No two runtimes of the conversation are ever alive together: a minted or
\* attached one excludes every runtime that is still being disposed.
THEOREM RuntimesAreSingle == ServiceSpec => []OneRuntime
<1>1. ServiceInit => Alone /\ Minting
  BY DEF ServiceInit, Alone, Minting, Idle0
<1>2. Alone /\ Minting => OneRuntime
  <2> SUFFICES ASSUME Alone, Minting PROVE OneRuntime
    OBVIOUS
  <2>1. closing = {} \/ \E m : closing = {m}
    BY DEF Alone
  <2>2. Cardinality(closing) <= 1
    <3>1. CASE closing = {}
      BY <3>1, FS_EmptySet
    <3>2. ASSUME NEW m, closing = {m} PROVE Cardinality(closing) <= 1
      <4>1. Cardinality({m}) = 1
        BY FS_Singleton, Zenon
      <4> QED
        BY <3>2, <4>1
    <3> QED
      BY <2>1, <3>1, <3>2
  <2> QED
    BY <2>2 DEF Alone, Minting, OneRuntime
<1> QED
  BY <1>1, <1>2, AlwaysServiceInv, AloneInductive, PTL DEF ServiceSpec

-----------------------------------------------------------------------------
(***************************************************************************)
(* Interrupt requests and their watchdogs.  A process that does not serve  *)
(* has none; that a boot finds no open request is RequestsOK of the store, *)
(* for the recovery before it has ended every turn.                        *)
(***************************************************************************)
Watched ==
  /\ RequestIsWatched
  /\ ~Up => control = NoControl

SameRequests == \A c \in Command : Requested(c)' <=> Requested(c)

\* A step that starts and stops neither requests nor drivers.
LEMMA UnwatchedStep ==
  ASSUME Watched, SameRequests, Up' = Up,
         \A c \in Command : control'[c] # "none" <=> control[c] # "none",
         control' = control \/ Up
  PROVE  Watched'
  BY DEF Watched, RequestIsWatched, SameRequests

\* A failed request loses its driver, and no other does.
LEMMA FailedIsUnwatched ==
  ASSUME StoreOK, ProcessTypes, Watched, NEW c \in Command, NEW code, FailInterrupt(c, code),
         control' = [control EXCEPT ![c] = "none"], service' = service, control[c] # "none"
  PROVE  Watched'
<1>1. /\ ~Requested(c)' /\ \A d \in Command \ {c} : Requested(d)' <=> Requested(d)
  BY DEF FailInterrupt, Requested, StoreOK, QueueTypes, Request
<1>2. Up /\ Up'
  BY DEF Watched, NoControl, Up
<1> QED
  BY <1>1, <1>2 DEF Watched, RequestIsWatched, ProcessTypes

\* The end of a turn settles exactly the requests whose drivers it stops.
LEMMA EndTurnKeepsWatch ==
  ASSUME StoreOK, ProcessTypes, Watched, NEW i \in Command, NEW outcome, NEW status, NEW q,
         EndTurn(i, outcome, status, q), service' = service
  PROVE  Watched'
<1>1. \A c \in Command : Requested(c)' <=> Requested(c) /\ request[c].target # i
  BY DEF EndTurn, Settle, Requested, StoreOK, QueueTypes, Request
<1>2. control' = [c \in Command |-> IF request[c].target = i THEN "none" ELSE control[c]]
  BY DEF EndTurn
<1>3. ~Up => control' = NoControl
  BY <1>2 DEF Watched, NoControl
<1> QED
  BY <1>1, <1>2, <1>3 DEF Watched, RequestIsWatched, Up

\* The step case.
LEMMA WatchedInductive ==
  ASSUME ServiceInv, RequestsOK, Watched, [ServiceNext]_serviceVars
  PROVE  Watched'
<1> USE DEF ServiceInv
<1>1. CASE \E c \in Command : Up /\ InterruptCommand(c)
  <2>1. PICK c \in Command : Up /\ InterruptCommand(c)
    BY <1>1
  <2>2. PICK in \in InterruptInput :
          /\ Interrupt(c, in) \/ InterruptAndSendQueued(c, in) \/ InterruptAndSendNew(c, in)
          /\ StartInterruptAttempt(c, in.session)
          /\ service' = service
    BY <2>1 DEF InterruptCommand
  <2>3. \E replacement : OpenRequest(c, in.target, replacement)
    BY <2>2 DEF Interrupt, InterruptAndSendQueued, InterruptAndSendNew
  <2>4. /\ Requested(c)'
        /\ \A d \in Command \ {c} : Requested(d)' <=> Requested(d)
    BY <2>3 DEF OpenRequest, Requested, StoreOK, QueueTypes
  <2>5. /\ control'[c] # "none"
        /\ \A d \in Command \ {c} : control'[d] = control[d]
    BY <2>2 DEF StartInterruptAttempt, ProcessTypes
  <2> QED
    BY <2>1, <2>2, <2>4, <2>5 DEF Watched, RequestIsWatched, Up
<1>2. CASE ClientStep /\ ~ \E c \in Command : Up /\ InterruptCommand(c)
  <2>1. PICK c \in Command : SendCommand(c) \/ QuietCommand(c)
    BY <1>2 DEF ClientStep
  <2>2. request' = request
    BY <2>1 DEF SendCommand, QuietCommand, EnqueueSend, EnqueueDuplicate, Replay, Edit, Remove,
       Reject, vars, queueVars
  <2>3. UNCHANGED <<control, service>>
    BY <2>1 DEF SendCommand, QuietCommand, processVars
  <2> QED
    BY <2>2, <2>3, UnwatchedStep DEF SameRequests, Requested, Up
<1>3. CASE SwitchSession
  <2>1. UNCHANGED <<request, control, service>>
    BY <1>3 DEF SwitchSession, ReplaceSession, CloseSession, ContinueSession, ResumeSession,
       CancelQueue, queueVars
  <2> QED
    BY <2>1, UnwatchedStep DEF SameRequests, Requested, Up
<1>4. CASE (\E i \in Command : ClaimReusing(i) \/ ClaimAcquiring(i)) \/ StopDraining
  <2>1. UNCHANGED <<request, control, service>>
    BY <1>4 DEF ClaimReusing, ClaimAcquiring, StopDraining, Claim, vars, queueVars
  <2> QED
    BY <2>1, UnwatchedStep DEF SameRequests, Requested, Up
<1>5. CASE SettleFailure
  <2>1. queue.turn \in Command
    BY <1>5 DEF SettleFailure, Driven, Busy
  <2> QED
    BY <1>5, <2>1, EndTurnKeepsWatch DEF SettleFailure
<1>6. CASE MintRuntime \/ AcquireFails \/ MintFails \/ ReceiptArrives \/ ProviderAttaches \/ StreamLost
  <2>1. UNCHANGED <<request, control, service>>
    BY <1>6 DEF MintRuntime, AcquireFails, MintFails, ReceiptArrives, ProviderAttaches, StreamLost,
       queueVars, processVars
  <2> QED
    BY <2>1, UnwatchedStep DEF SameRequests, Requested, Up
<1>7. CASE MintResolves
  <2>1. /\ UNCHANGED <<request, service>> /\ Up
        /\ \A c \in Command : control'[c] # "none" <=> control[c] # "none"
    BY <1>7 DEF MintResolves, vars, queueVars, Up, ProcessTypes
  <2> QED
    BY <2>1, UnwatchedStep DEF SameRequests, Requested, Up
<1>8. CASE \E i \in Command : Terminal(i)
  BY <1>8, EndTurnKeepsWatch DEF Terminal
<1>9. CASE InterruptStep
  <2>1. PICK c \in Command : DriveFails(c) \/ InterruptRejected(c) \/ Watchdog(c)
    BY <1>9 DEF InterruptStep
  <2>2. \E code : FailInterrupt(c, code)
    BY <2>1 DEF DriveFails, InterruptRejected, Watchdog
  <2>3. /\ control' = [control EXCEPT ![c] = "none"]
        /\ service' = service /\ control[c] # "none"
    BY <2>1 DEF DriveFails, InterruptRejected, Watchdog
  <2> QED
    BY <2>2, <2>3, FailedIsUnwatched
<1>10. CASE \E m \in closing : DisposeResolves(m)
  <2>1. UNCHANGED <<request, control, service>>
    BY <1>10 DEF DisposeResolves, vars, queueVars
  <2> QED
    BY <2>1, UnwatchedStep DEF SameRequests, Requested, Up
<1>11. CASE Dispose \/ Stop
  <2>1. control' = NoControl /\ ~Up'
    BY <1>11 DEF Dispose, Stop, Up
  <2> QED
    BY <2>1 DEF Watched, RequestIsWatched
<1>12. CASE Abandon \/ Recover
  <2>1. control' = control /\ ~Up /\ ~Up'
    BY <1>12 DEF Abandon, Recover, Up, processVars
  <2> QED
    BY <2>1 DEF Watched, RequestIsWatched, NoControl
<1>13. CASE Boot
  <2>1. control = NoControl /\ UNCHANGED <<request, control>> /\ RecoveryDone
    BY <1>13 DEF Boot, Watched, Up, vars, queueVars
  <2>2. \A c \in Command : ~Requested(c)
    BY <2>1 DEF RequestsOK, RequestOK, RecoveryDone, Requested
  <2> QED
    BY <2>1, <2>2 DEF Watched, RequestIsWatched, NoControl, Requested
<1>14. CASE EnableQueueDrain
  <2>1. UNCHANGED <<request, control>> /\ Up /\ Up'
    BY <1>14 DEF EnableQueueDrain, vars, queueVars, Up
  <2> QED
    BY <2>1, UnwatchedStep DEF SameRequests, Requested
<1>15. CASE UNCHANGED serviceVars
  <2>1. UNCHANGED <<request, control, service>>
    BY <1>15 DEF serviceVars, vars, queueVars, processVars
  <2> QED
    BY <2>1, UnwatchedStep DEF SameRequests, Requested, Up
<1> QED
  BY <1>1, <1>2, <1>3, <1>4, <1>5, <1>6, <1>7, <1>8, <1>9, <1>10, <1>11, <1>12, <1>13, <1>14, <1>15
  DEF ServiceNext, DrainStep, MintStep, ProviderStep, LifecycleStep, ClientStep

\* The drivers and their watchdogs, with the store's view of the requests.
LEMMA AlwaysWatched == ServiceSpec => [](Watched /\ RequestsOK /\ RequestsSingle)
<1>1. ServiceInit => Watched
  BY DEF ServiceInit, Watched, RequestIsWatched, Up, NoControl
<1>2. ServiceSpec => [](RequestsOK /\ RequestsSingle)
  BY ServiceImplementsStore, RequestsAlways, PTL
<1> QED
  BY <1>1, <1>2, AlwaysServiceInv, WatchedInductive, PTL DEF ServiceSpec

\* While the process serves, exactly the open interrupt requests have a driver
\* and its watchdog: none waits unwatched, and no watchdog outlives its request.
THEOREM RequestsAreWatched == ServiceSpec => []RequestIsWatched
  BY AlwaysWatched, PTL DEF Watched

-----------------------------------------------------------------------------
(***************************************************************************)
(* The attached runtime.  A row leaves its attempt behind in a transition, *)
(* which tears the runtime down first, and in a mint, before which the     *)
(* loop has detached it (Minting); everything else keeps the row's attempt *)
(* and its status.  A runtime is attached for the turn of the loop, whose  *)
(* session is active (Served of the store).                                *)
(***************************************************************************)
KeepsAttempts ==
  \A s \in Session : session'[s].status = session[s].status
                     /\ session'[s].attempt = session[s].attempt

\* The session of the turn the loop works on is active.
LEMMA TurnSessionIsOpen ==
  ASSUME StoreOK, Served, Driven, Busy
  PROVE  TurnSession \in Session /\ SessionOpen(TurnSession)
<1>1. queue.turn \in Command /\ Pending(queue.turn)
  BY DEF Driven, StoreOK, OneTurnPerSession, Pending
<1> QED
  BY <1>1, TurnSessionInSession DEF Served, TurnSession

\* Attachments, receipts and failed resumes keep attempts and statuses.
LEMMA ReceiptsKeepAttempts ==
  ASSUME SessionOK,
         \/ \E s \in Session : ResumeMarkedFailed(s)
         \/ \E m \in minted : Attach(m) \/ ConfirmCreated(m) \/ ConfirmResumed(m)
         \/ UNCHANGED sessVars
  PROVE  KeepsAttempts
<1>1. session \in [Session -> Row]
  BY DEF SessionOK
<1>2. CASE \E s \in Session : ResumeMarkedFailed(s)
  <2>1. PICK s \in Session : session' = [session EXCEPT ![s].cont = "resume-failed"]
    BY <1>2 DEF ResumeMarkedFailed, FailResume
  <2> QED
    BY <1>1, <2>1 DEF KeepsAttempts, Row
<1>3. CASE \E m \in minted : ConfirmCreated(m)
  <2>1. PICK m \in minted : session' = [session EXCEPT ![m.session] = BoundRow(@, ThreadOf(m))]
    BY <1>3 DEF ConfirmCreated
  <2>2. m.session \in Session
    BY DEF SessionOK, Mint
  <2> QED
    BY <1>1, <2>1, <2>2 DEF KeepsAttempts, Row, BoundRow
<1>4. CASE \E m \in minted : ConfirmResumed(m)
  <2>1. PICK m \in minted : session' = [session EXCEPT ![m.session].cont = "native-resumed"]
    BY <1>4 DEF ConfirmResumed
  <2> QED
    BY <1>1, <2>1 DEF KeepsAttempts, Row
<1>5. CASE (\E m \in minted : Attach(m)) \/ UNCHANGED sessVars
  BY <1>5 DEF Attach, KeepsAttempts, sessVars
<1> QED
  BY <1>2, <1>3, <1>4, <1>5

\* A runtime that stays attached keeps its attempt as long as the rows do.
LEMMA DetachKeepsCurrent ==
  ASSUME SessionOK, ProcessTypes, RuntimeIsCurrent, KeepsAttempts,
         Teardown \/ (\E s : Quarantine(s)) \/ UNCHANGED <<runtime, closing>>
  PROVE  RuntimeIsCurrent'
<1>1. runtime' = None \/ runtime' = runtime
  BY DEF Teardown, Quarantine
<1>2. runtime # None => runtime.session \in Session
  BY DEF ProcessTypes, SessionOK, Mint
<1> QED
  BY <1>1, <1>2 DEF RuntimeIsCurrent, KeepsAttempts, IsActive

\* No command, claim, settlement or interrupt touches a row.
LEMMA StoreStepsKeepAttempts ==
  ASSUME \/ ClientStep \/ StopDraining \/ SettleFailure \/ InterruptStep
         \/ \E i \in Command : ClaimReusing(i) \/ Terminal(i)
         \/ \E m \in closing : DisposeResolves(m)
         \/ Boot \/ Recover \/ EnableQueueDrain \/ UNCHANGED serviceVars
  PROVE  KeepsAttempts
<1>1. UNCHANGED sessVars
  <2>1. CASE ClientStep
    BY <2>1 DEF ClientStep, SendCommand, QuietCommand, InterruptCommand, EnqueueSend,
       EnqueueDuplicate, Replay, Edit, Remove, Reject, Interrupt, InterruptAndSendQueued,
       InterruptAndSendNew, vars
  <2>2. CASE SettleFailure \/ \E i \in Command : Terminal(i)
    BY <2>2 DEF SettleFailure, Terminal, EndTurn, Settle
  <2>3. CASE InterruptStep
    BY <2>3 DEF InterruptStep, DriveFails, InterruptRejected, Watchdog, FailInterrupt
  <2>4. CASE StopDraining \/ \E i \in Command : ClaimReusing(i)
    BY <2>4 DEF StopDraining, ClaimReusing, Claim, vars
  <2>5. CASE (\E m \in closing : DisposeResolves(m)) \/ Boot \/ EnableQueueDrain \/ UNCHANGED serviceVars
    BY <2>5 DEF DisposeResolves, Boot, EnableQueueDrain, serviceVars, vars
  <2>6. CASE Recover
    BY <2>6 DEF Recover, RecoverTurn, Settle
  <2> QED
    BY <2>1, <2>2, <2>3, <2>4, <2>5, <2>6
<1> QED
  BY <1>1 DEF KeepsAttempts, sessVars

\* The step case.
LEMMA CurrentInductive ==
  ASSUME ServiceInv, Served, Minting, RuntimeIsCurrent, [ServiceNext]_serviceVars
  PROVE  RuntimeIsCurrent'
<1> USE DEF ServiceInv
<1>1. CASE \/ ClientStep \/ StopDraining \/ SettleFailure \/ InterruptStep
           \/ \E i \in Command : ClaimReusing(i) \/ Terminal(i)
           \/ Boot \/ Recover \/ EnableQueueDrain \/ UNCHANGED serviceVars
  <2>1. (\E s : Quarantine(s)) \/ UNCHANGED <<runtime, closing>>
    BY <1>1 DEF ClientStep, SendCommand, QuietCommand, InterruptCommand, StopDraining,
       SettleFailure, InterruptStep, DriveFails, InterruptRejected, Watchdog, ClaimReusing,
       Terminal, EndTurn, Boot, Recover, EnableQueueDrain, serviceVars, processVars
  <2> QED
    BY <1>1, <2>1, StoreStepsKeepAttempts, DetachKeepsCurrent
<1>2. CASE SwitchSession \/ Dispose \/ Stop \/ \E i \in Command : ClaimAcquiring(i)
  <2>1. runtime' = None
    BY <1>2 DEF SwitchSession, Dispose, Stop, ClaimAcquiring, Teardown
  <2> QED
    BY <2>1 DEF RuntimeIsCurrent
<1>3. CASE MintRuntime \/ AcquireFails \/ MintFails \/ Abandon
  <2>1. runtime' = None
    BY <1>3 DEF MintRuntime, AcquireFails, MintFails, Abandon, Minting
  <2> QED
    BY <2>1 DEF RuntimeIsCurrent
<1>4. CASE MintResolves
  <2>1. runtime' \in CurrentMints(TurnSession) /\ session' = session
    BY <1>4 DEF MintResolves, vars, sessVars
  <2>2. SessionOpen(TurnSession)
    BY <1>4, TurnSessionIsOpen DEF MintResolves, Busy
  <2> QED
    BY <2>1, <2>2 DEF RuntimeIsCurrent, CurrentMints, SessionOpen, IsActive
<1>5. CASE ReceiptArrives \/ ProviderAttaches \/ StreamLost
  <2>1. UNCHANGED <<runtime, closing>>
    BY <1>5 DEF ReceiptArrives, ProviderAttaches, StreamLost, processVars
  <2>2. \A m \in minted : m.session \in Session
    BY DEF SessionOK, Mint
  <2>3. \/ \E s \in Session : ResumeMarkedFailed(s)
        \/ \E m \in minted : Attach(m) \/ ConfirmCreated(m) \/ ConfirmResumed(m)
        \/ UNCHANGED sessVars
    BY <1>5, <2>2 DEF ReceiptArrives, ProviderAttaches, StreamLost, ProcessTypes
  <2> QED
    BY <2>1, <2>3, ReceiptsKeepAttempts, DetachKeepsCurrent
<1>6. CASE \E m \in closing : DisposeResolves(m)
  <2>1. runtime' = runtime /\ KeepsAttempts
    BY <1>6, StoreStepsKeepAttempts DEF DisposeResolves
  <2>2. runtime # None => runtime.session \in Session
    BY DEF ProcessTypes, SessionOK, Mint
  <2> QED
    BY <2>1, <2>2 DEF RuntimeIsCurrent, KeepsAttempts, IsActive
<1> QED
  BY <1>1, <1>2, <1>3, <1>4, <1>5, <1>6
  DEF ServiceNext, DrainStep, MintStep, ProviderStep, LifecycleStep

\* What the last two theorems rest on, together.
LEMMA AlwaysAloneAndServed == ServiceSpec => [](ServiceInv /\ Alone /\ Minting /\ Served)
<1>1. ServiceInit => Alone /\ Minting
  BY DEF ServiceInit, Alone, Minting, Idle0
<1> QED
  BY <1>1, AlwaysServiceInv, AloneInductive, ServiceImplementsStore, AlwaysServed, PTL
  DEF ServiceSpec

\* The attached runtime is always the current attempt of the active session:
\* no switch, resume, rotation, failure or restart leaves it behind, so that
\* the receipts of what it delivers are accepted.
THEOREM RuntimesAreCurrent == ServiceSpec => []RuntimeIsCurrent
<1>1. ServiceInit => RuntimeIsCurrent
  BY DEF ServiceInit, RuntimeIsCurrent
<1> QED
  BY <1>1, AlwaysAloneAndServed, CurrentInductive, PTL DEF ServiceSpec

-----------------------------------------------------------------------------
(***************************************************************************)
(* Native interrupts name the session, so what protects a turn is that no  *)
(* interrupt meant for an earlier one is still on its way to its runtime.  *)
(* Streams says whose streams are open.  PendingInterrupts says that an    *)
(* interrupt on its way to the attached runtime has a driver, hence a      *)
(* request that is open, hence the turn of the loop as its target; all     *)
(* others are on their way to a runtime that is being disposed.            *)
(***************************************************************************)
Streams ==
  /\ \A p \in running : queue.phase \in {"run", "lost"} /\ p[2] = queue.turn
  /\ queue.phase \in {"acquire", "mint", "unready", "unsent"} => runtime = None
  /\ runtime # None => \A p \in running : p[1] = runtime

PendingInterrupts ==
  \A q \in pending :
    /\ ~Fresh(q[2])
    /\ q[1] \in closing \/ (q[1] = runtime /\ control[q[2]] = "issued")

Aimed == Streams /\ PendingInterrupts /\ InterruptHitsItsTarget

\* What the loop knows of the runtime and of the requests with a driver.
DriverOK == ServiceInv /\ Alone /\ Minting /\ Served /\ RequestsOK /\ RequestsSingle /\ Watched
            /\ OneActiveSession /\ RuntimeIsCurrent

\* A command that is known stays known, and its request keeps its target.
LEMMA TargetsAreKept ==
  ASSUME StoreOK, [Next]_vars, NEW c \in Command, ~Fresh(c)
  PROVE  ~Fresh(c)' /\ request'[c].target = request[c].target
<1>1. CASE ClientCommand
  <2>1. PICK d \in Command :
          \/ \E in \in SendInput : EnqueueSend(d, in) \/ EnqueueDuplicate(d, in)
          \/ \E in \in EditInput : Edit(d, in)
          \/ \E in \in RemoveInput : Remove(d, in)
          \/ \E in \in InterruptInput :
               Interrupt(d, in) \/ InterruptAndSendQueued(d, in) \/ InterruptAndSendNew(d, in)
          \/ Reject(d)
          \/ Replay(d)
    BY <1>1 DEF ClientCommand
  <2>2. CASE Replay(d)
    BY <2>2 DEF Replay, vars, queueVars, Fresh
  <2>3. CASE \/ \E in \in SendInput : EnqueueSend(d, in) \/ EnqueueDuplicate(d, in)
             \/ \E in \in EditInput : Edit(d, in)
             \/ \E in \in RemoveInput : Remove(d, in)
             \/ Reject(d)
    <3>1. Fresh(d) /\ request' = request /\ \E r : command' = [command EXCEPT ![d] = r]
      BY <2>3 DEF EnqueueSend, EnqueueDuplicate, Edit, Remove, Reject, StoreCommand
    <3> QED
      BY <3>1 DEF Fresh, StoreOK, QueueTypes
  <2>4. CASE \E in \in InterruptInput :
               Interrupt(d, in) \/ InterruptAndSendQueued(d, in) \/ InterruptAndSendNew(d, in)
    <3>1. /\ Fresh(d)
          /\ \E r : command' = [command EXCEPT ![d] = r]
          /\ \E r : request' = [request EXCEPT ![d] = r]
      BY <2>4 DEF Interrupt, InterruptAndSendQueued, InterruptAndSendNew, StoreCommand, OpenRequest
    <3> QED
      BY <3>1 DEF Fresh, StoreOK, QueueTypes
  <2> QED
    BY <2>1, <2>2, <2>3, <2>4
<1>2. CASE TurnStep
  <2>0. command' = command /\ request \in [Command -> Request]
    BY <1>2 DEF TurnStep, Claim, SettleTerminal, SettleInfrastructureFailure, RecoverTurn, Settle,
       FailInterrupt, StoreOK, QueueTypes
  <2>1. CASE \E i \in Command : Claim(i)
    BY <2>0, <2>1 DEF Claim, Fresh
  <2>2. CASE \E i \in Command : \/ SettleTerminal(i)
                                \/ SettleInfrastructureFailure(i)
                                \/ RecoverTurn(i)
    <3>1. PICK i \in Command : \E outcome, status : Settle(i, outcome, status)
      BY <2>2 DEF SettleTerminal, SettleInfrastructureFailure, RecoverTurn
    <3>2. \/ request'[c] = request[c]
          \/ request'[c] = [request[c] EXCEPT !.status = "confirmed"]
          \/ request'[c] = [request[c] EXCEPT !.status = "failed", !.code = "target-ended"]
      BY <3>1 DEF Settle
    <3>3. request[c] \in Request
      BY <2>0
    <3> QED
      BY <2>0, <3>2, <3>3 DEF Fresh, Request
  <2>3. CASE \E i \in Command : \E code : FailInterrupt(i, code)
    BY <2>0, <2>3 DEF FailInterrupt, Fresh, Request
  <2> QED
    BY <1>2, <2>1, <2>2, <2>3 DEF TurnStep
<1>3. CASE SessionStep \/ UNCHANGED vars
  <2>1. UNCHANGED <<command, request>>
    BY <1>3 DEF SessionStep, ReplaceSession, CloseSession, ResumeSession, ContinueSession,
       DeleteProject, CancelQueue, vars, queueVars
  <2> QED
    BY <2>1 DEF Fresh
<1> QED
  BY <1>1, <1>2, <1>3 DEF Next

\* A request with a driver is open, and its target is the turn of the loop.
LEMMA DrivenTarget ==
  ASSUME DriverOK, NEW c \in Command, control[c] # "none"
  PROVE  Up /\ Requested(c) /\ Busy /\ request[c].target = queue.turn
<1>1. Up /\ Requested(c)
  BY DEF DriverOK, Watched, RequestIsWatched, NoControl
<1>2. request[c].target \in Command /\ Active(request[c].target)
  BY <1>1 DEF DriverOK, RequestsOK, RequestOK, Requested
<1> QED
  BY <1>1, <1>2 DEF DriverOK, ServiceInv, ActiveTurnIsDriven, Busy

\* While the loop is busy, a runtime that is attached serves its turn.
LEMMA RuntimeServesTurn ==
  ASSUME DriverOK, Busy, runtime # None
  PROVE  runtime.session = item[queue.turn].session
<1>1. TurnSession \in Session /\ IsActive(TurnSession)
  BY TurnSessionIsOpen DEF DriverOK, ServiceInv, SessionOpen
<1>2. runtime.session \in Session /\ IsActive(runtime.session)
  BY DEF DriverOK, ServiceInv, ProcessTypes, SessionOK, Mint, RuntimeIsCurrent
<1> QED
  BY <1>1, <1>2 DEF DriverOK, OneActiveSession, TurnSession

\* The mint that names a runtime is none of the values that stand for nothing.
LEMMA PendingTypes ==
  ASSUME SessionOK, ProcessTypes, NEW q \in pending
  PROVE  q[1] \in minted /\ q[1] # None /\ q[2] \in Command /\ q = <<q[1], q[2]>>
  BY MintAssumption DEF SessionOK, ProcessTypes

\* No interrupt is on its way to the attached runtime while the loop is idle.
LEMMA IdleIsUndisturbed ==
  ASSUME DriverOK, PendingInterrupts, ~Busy, runtime # None
  PROVE  \A q \in pending : q[1] # runtime
<1>1. closing = {}
  BY DEF DriverOK, Alone
<1>2. \A q \in pending : q[2] \in Command /\ control[q[2]] = "issued"
  BY <1>1, PendingTypes DEF PendingInterrupts, DriverOK, ServiceInv
<1>3. ASSUME NEW q \in pending PROVE FALSE
  BY <1>2, <1>3, DrivenTarget
<1> QED
  BY <1>3

\* A step that opens no stream and sends no interrupt, and either detaches the
\* runtime or keeps the drivers of what is on its way to it.
LEMMA NothingSent ==
  ASSUME StoreOK, SessionOK, ProcessTypes, [Next]_vars, PendingInterrupts, InterruptHitsItsTarget,
         Teardown \/ (\E s : Quarantine(s)) \/ UNCHANGED <<runtime, closing>>,
         pending' \subseteq pending, running' \subseteq running,
         \/ runtime' = None
         \/ \A q \in pending' : q[1] = runtime /\ control[q[2]] = "issued"
                                  => control'[q[2]] = "issued"
  PROVE  PendingInterrupts' /\ InterruptHitsItsTarget'
<1>1. ASSUME NEW q \in pending'
      PROVE  q[2] \in Command /\ ~Fresh(q[2])' /\ request'[q[2]].target = request[q[2]].target
  <2>1. q \in pending /\ q[2] \in Command /\ ~Fresh(q[2])
    BY <1>1, PendingTypes DEF PendingInterrupts
  <2> QED
    BY <2>1, TargetsAreKept
<1>2. InterruptHitsItsTarget'
  BY <1>1 DEF InterruptHitsItsTarget
<1>3. ASSUME NEW q \in pending'
      PROVE  q[1] \in closing' \/ (q[1] = runtime' /\ control'[q[2]] = "issued")
  <2>1. /\ q[1] # None
        /\ q[1] \in closing \/ (q[1] = runtime /\ control[q[2]] = "issued")
    BY <1>3, PendingTypes DEF PendingInterrupts
  <2>2. closing \subseteq closing' /\ (runtime' = runtime \/ (runtime' = None /\ runtime \in closing' \cup {None}))
    BY DEF Teardown, Quarantine
  <2> QED
    BY <2>1, <2>2
<1> QED
  BY <1>1, <1>2, <1>3 DEF PendingInterrupts

\* A step that starts no delivery and opens no stream, in a phase of the same
\* kind, or after which no stream is open and nothing is acquired.
LEMMA NoStreamOpened ==
  ASSUME Streams,
         Teardown \/ (\E s : Quarantine(s)) \/ UNCHANGED <<runtime, closing>>,
         running' \subseteq running,
         \/ queue'.phase = queue.phase /\ queue'.turn = queue.turn
         \/ running' = {} /\ (queue'.phase \in {"idle", "observe"} \/ runtime' = None)
  PROVE  Streams'
<1>1. runtime' = None \/ runtime' = runtime
  BY DEF Teardown, Quarantine
<1> QED
  BY <1>1 DEF Streams

\* The end of the loop's turn closes its stream.  If the runtime stays
\* attached, then because the one interrupt that could be on its way to it is
\* what ended the turn.
LEMMA EndTurnAimed ==
  ASSUME DriverOK, Aimed, [Next]_vars, NEW i \in Command, NEW outcome, NEW status, NEW quarantine,
         EndTurn(i, outcome, status, quarantine), i = queue.turn, Busy, pending' \subseteq pending,
         \/ runtime = None
         \/ quarantine
         \/ outcome # "aborted"
         \/ \E q \in pending : q[1] = runtime /\ pending' = pending \ {q}
  PROVE  Aimed'
<1> USE DEF DriverOK, ServiceInv
<1>1. running' = {}
  BY DEF EndTurn, Aimed, Streams
<1>2. (\E s : Quarantine(s)) \/ UNCHANGED <<runtime, closing>>
  BY DEF EndTurn
<1>3. Streams'
  <2>1. queue'.phase = "observe"
    BY DEF EndTurn, ProcessTypes
  <2> QED
    BY <1>1, <1>2, <2>1, NoStreamOpened DEF Aimed
<1>4. CASE runtime' = None
  BY <1>1, <1>2, <1>3, <1>4, NothingSent DEF Aimed
<1>5. CASE runtime' # None
  <2>1. runtime # None /\ closing = {} /\ runtime.session = item[i].session
    BY <1>2, <1>5, RuntimeServesTurn DEF Quarantine, Alone
  <2>2. ~quarantine /\ LateInterrupts(i) = {}
    BY <1>5, <2>1 DEF EndTurn, Quarantine
  <2>3. \A q \in pending : q[2] \in Command /\ q[1] = runtime /\ control[q[2]] # "none"
    BY <2>1, PendingTypes DEF Aimed, PendingInterrupts
  <2>4. \A q \in pending : Requested(q[2]) /\ request[q[2]].target = i
    BY <2>3, DrivenTarget
  <2>5. pending' = {}
    <3>1. CASE outcome # "aborted"
      <4>1. ASSUME NEW q \in pending PROVE q[2] \in LateInterrupts(i)
        <5>1. q[2] \in Command /\ request[q[2]] \in Request
          BY <2>3 DEF StoreOK, QueueTypes
        <5>2. request'[q[2]].status = "failed"
          BY <2>4, <3>1, <5>1 DEF EndTurn, Settle, Confirms, Request
        <5> QED
          BY <2>3, <2>4, <5>1, <5>2 DEF LateInterrupts
      <4> QED
        BY <2>2, <4>1
    <3>2. CASE \E q \in pending : q[1] = runtime /\ pending' = pending \ {q}
      <4>1. PICK q \in pending : pending' = pending \ {q}
        BY <3>2
      <4>2. ASSUME NEW r \in pending PROVE r = q
        <5>1. r[2] = q[2]
          BY <2>3, <2>4 DEF RequestsSingle, RequestsOK, RequestOK, Requested
        <5> QED
          BY <5>1, <2>3, PendingTypes
      <4> QED
        BY <4>1, <4>2
    <3> QED
      BY <2>1, <2>2, <3>1, <3>2
  <2> QED
    BY <1>1, <1>2, <1>3, <2>5, NothingSent DEF Aimed
<1> QED
  BY <1>4, <1>5

\* A command that interrupts sends its interrupt to the runtime of its target.
LEMMA InterruptCommandAimed ==
  ASSUME DriverOK, Aimed, [Next]_vars, Up, NEW c \in Command, InterruptCommand(c)
  PROVE  Aimed'
<1> USE DEF DriverOK, ServiceInv
<1>1. PICK in \in InterruptInput :
        /\ Interrupt(c, in) \/ InterruptAndSendQueued(c, in) \/ InterruptAndSendNew(c, in)
        /\ StartInterruptAttempt(c, in.session)
        /\ UNCHANGED <<service, stops, queue, runtime, closing, running>>
  BY DEF InterruptCommand
<1>2. Fresh(c) /\ ~Fresh(c)' /\ InterruptAdmissible(in) /\ request'[c].target = in.target
  BY <1>1 DEF Interrupt, InterruptAndSendQueued, InterruptAndSendNew, StoreCommand, OpenRequest,
     Fresh, StoreOK, QueueTypes
<1>3. in.target = queue.turn
  BY <1>2 DEF InterruptAdmissible, InterruptInput, ActiveTurnIsDriven
<1>4. Streams'
  BY <1>1, NoStreamOpened DEF Aimed
<1>5. \A d \in Command \ {c} : control'[d] = control[d]
  BY <1>1 DEF StartInterruptAttempt, ProcessTypes
<1>6. ASSUME NEW q \in pending
      PROVE  /\ q[2] \in Command \ {c} /\ ~Fresh(q[2])'
             /\ request'[q[2]].target = request[q[2]].target
             /\ q[1] \in closing' \/ (q[1] = runtime' /\ control'[q[2]] = "issued")
  <2>1. q[2] \in Command \ {c} /\ ~Fresh(q[2])
    BY <1>2, PendingTypes DEF Aimed, PendingInterrupts
  <2> QED
    BY <1>1, <1>5, <2>1, TargetsAreKept DEF Aimed, PendingInterrupts
<1>7. CASE pending' = pending
  BY <1>1, <1>4, <1>6, <1>7 DEF Aimed, PendingInterrupts, InterruptHitsItsTarget
<1>8. CASE pending' = pending \cup {<<runtime, c>>} /\ control' = [control EXCEPT ![c] = "issued"]
  <2>1. PendingInterrupts'
    BY <1>1, <1>2, <1>6, <1>8 DEF PendingInterrupts, ProcessTypes
  <2>2. InterruptHitsItsTarget'
    <3>1. \A p \in running : p[2] = in.target
      BY <1>3 DEF Aimed, Streams
    <3> QED
      BY <1>1, <1>2, <1>6, <1>8, <3>1 DEF Aimed, InterruptHitsItsTarget
  <2> QED
    BY <1>4, <2>1, <2>2 DEF Aimed
<1> QED
  BY <1>1, <1>7, <1>8 DEF StartInterruptAttempt

\* A runtime that is minted has no interrupt of another turn on its way.
LEMMA MintAimed ==
  ASSUME DriverOK, Aimed, [Next]_vars, MintResolves
  PROVE  Aimed'
<1> USE DEF DriverOK, ServiceInv
<1>1. Busy /\ runtime = None /\ closing = {} /\ running = {}
  BY DEF MintResolves, Busy, Minting, Aimed, Streams
<1>2. pending = {}
  BY <1>1, PendingTypes DEF Aimed, PendingInterrupts
<1>3. PICK m \in CurrentMints(TurnSession) :
        /\ runtime' = m
        /\ running' = {<<m, queue.turn>>}
        /\ pending' = {<<m, c>> : c \in {d \in Command : control[d] = "waiting"}}
  BY <1>1, <1>2 DEF MintResolves
<1>4. queue'.phase = "run" /\ queue'.turn = queue.turn /\ UNCHANGED <<command, request>>
  BY DEF MintResolves, ProcessTypes, vars, queueVars
<1>5. ASSUME NEW c \in Command, control[c] = "waiting"
      PROVE  ~Fresh(c)' /\ control'[c] = "issued" /\ request'[c].target = queue.turn
  <2>1. Requested(c) /\ request[c].target = queue.turn
    BY <1>5, DrivenTarget
  <2>2. ~Fresh(c)
    BY <2>1 DEF StoreOK, FreshUnused, NoRequest, Requested
  <2> QED
    BY <1>4, <1>5, <2>1, <2>2 DEF MintResolves, Fresh
<1>6. Streams'
  BY <1>3, <1>4 DEF Streams
<1>7. PendingInterrupts' /\ InterruptHitsItsTarget'
  BY <1>3, <1>5 DEF PendingInterrupts, InterruptHitsItsTarget
<1> QED
  BY <1>6, <1>7 DEF Aimed

\* A turn is sent to a runtime that is attached only if no interrupt is on its
\* way there.
LEMMA ReuseAimed ==
  ASSUME DriverOK, Aimed, [Next]_vars, NEW i \in Command, ClaimReusing(i)
  PROVE  Aimed'
<1> USE DEF DriverOK, ServiceInv
<1>1. ~Busy /\ runtime # None /\ running = {} /\ UNCHANGED <<pending, control>>
  BY DEF ClaimReusing, Looking, Busy, Aimed, Streams
<1>2. \A q \in pending : q[1] # runtime
  BY <1>1, IdleIsUndisturbed DEF Aimed
<1>3. CASE Delivering(i, "run") /\ running' = running \cup {<<runtime, i>>} /\ UNCHANGED <<runtime, closing>>
  <2>1. Streams'
    BY <1>1, <1>3 DEF Delivering, Streams
  <2>2. closing = {}
    BY <1>1 DEF Alone
  <2>3. pending' = {}
    BY <1>1, <1>2, <2>2 DEF Aimed, PendingInterrupts
  <2> QED
    BY <2>1, <2>3 DEF Aimed, PendingInterrupts, InterruptHitsItsTarget
<1>4. CASE Delivering(i, "unsent") /\ Quarantine(item[i].session) /\ UNCHANGED running
  <2>1. runtime' = None
    BY <1>4 DEF ClaimReusing, Quarantine
  <2>2. Streams'
    BY <1>1, <1>4, <2>1 DEF Streams
  <2> QED
    BY <1>1, <1>4, <2>1, <2>2, NothingSent DEF Aimed
<1> QED
  BY <1>3, <1>4 DEF ClaimReusing

\* A driver that gives up takes its interrupt back, or the runtime with it.
LEMMA GivingUpAimed ==
  ASSUME DriverOK, Aimed, [Next]_vars, InterruptStep
  PROVE  Aimed'
<1> USE DEF DriverOK, ServiceInv
<1>1. PICK c \in Command : DriveFails(c) \/ InterruptRejected(c) \/ Watchdog(c)
  BY DEF InterruptStep
<1>2. /\ control[c] # "none" /\ control' = [control EXCEPT ![c] = "none"]
      /\ UNCHANGED <<queue, running>> /\ pending' \subseteq pending
      /\ (\E s : Quarantine(s)) \/ UNCHANGED <<runtime, closing>>
  BY <1>1 DEF DriveFails, InterruptRejected, Watchdog
<1>3. Streams'
  BY <1>2, NoStreamOpened DEF Aimed
<1>4. \A d \in Command \ {c} : control'[d] = control[d]
  BY <1>2 DEF ProcessTypes
<1>5. CASE DriveFails(c) \/ InterruptRejected(c)
  <2>1. \A q \in pending' : q[1] = runtime /\ control[q[2]] = "issued" => q[2] \in Command \ {c}
    BY <1>2, <1>5, PendingTypes DEF DriveFails, InterruptRejected
  <2> QED
    BY <1>2, <1>3, <1>4, <2>1, NothingSent DEF Aimed
<1>6. CASE Watchdog(c)
  <2>1. Busy /\ request[c].target = queue.turn
    BY <1>2, DrivenTarget
  <2>2. runtime' = None
    BY <1>6, <2>1, RuntimeServesTurn DEF Watchdog, Quarantine
  <2> QED
    BY <1>2, <1>3, <2>2, NothingSent DEF Aimed
<1> QED
  BY <1>1, <1>5, <1>6

\* The step case.
LEMMA AimedInductive ==
  ASSUME DriverOK, Aimed, [Next]_vars, [ServiceNext]_serviceVars
  PROVE  Aimed'
<1> USE DEF DriverOK, ServiceInv
<1>1. CASE ClientStep
  <2>1. PICK c \in Command : Up /\ (SendCommand(c) \/ QuietCommand(c) \/ InterruptCommand(c))
    BY <1>1 DEF ClientStep
  <2>2. CASE SendCommand(c) \/ QuietCommand(c)
    <3>1. /\ UNCHANGED <<runtime, closing, running, pending, control>>
          /\ queue' = queue \/ queue' = Kicked(queue)
      BY <2>2 DEF SendCommand, QuietCommand, processVars
    <3>2. Streams'
      BY <3>1, NoStreamOpened, DriverKickedKeeps DEF Aimed
    <3> QED
      BY <3>1, <3>2, NothingSent DEF Aimed
  <2> QED
    BY <2>1, <2>2, InterruptCommandAimed
<1>2. CASE SwitchSession
  <2>1. /\ Teardown /\ UNCHANGED <<running, pending>>
        /\ queue' = queue \/ queue' = Kicked(queue)
    BY <1>2 DEF SwitchSession
  <2>2. Streams' /\ runtime' = None
    BY <2>1, NoStreamOpened, DriverKickedKeeps DEF Aimed, Teardown
  <2> QED
    BY <2>1, <2>2, NothingSent DEF Aimed
<1>3. CASE \E i \in Command : ClaimReusing(i)
  BY <1>3, ReuseAimed
<1>4. CASE \E i \in Command : ClaimAcquiring(i)
  <2>1. Teardown /\ runtime' = None /\ running' = {} /\ UNCHANGED <<running, pending>>
    BY <1>4 DEF ClaimAcquiring, Teardown, Looking, Aimed, Streams
  <2>2. Streams'
    BY <2>1, NoStreamOpened DEF Aimed
  <2> QED
    BY <2>1, <2>2, NothingSent DEF Aimed
<1>5. CASE StopDraining
  <2>1. /\ UNCHANGED <<runtime, closing, running, pending, control>>
        /\ running' = {} /\ queue'.phase = "idle"
    BY <1>5 DEF StopDraining, Looking, Idle0, Aimed, Streams
  <2>2. Streams'
    BY <2>1, NoStreamOpened DEF Aimed
  <2> QED
    BY <2>1, <2>2, NothingSent DEF Aimed
<1>6. CASE SettleFailure
  <2>1. Busy /\ queue.turn \in Command /\ pending' = pending
    BY <1>6 DEF SettleFailure, Busy, Driven
  <2>2. queue.phase \in {"unready", "unsent"} => runtime = None
    BY DEF Aimed, Streams
  <2> QED
    BY <1>6, <2>1, <2>2, EndTurnAimed DEF SettleFailure
<1>7. CASE MintRuntime \/ AcquireFails \/ MintFails \/ Abandon
  <2>1. /\ runtime = None /\ running = {} /\ UNCHANGED <<runtime, running, pending, control>>
        /\ closing \subseteq closing'
    BY <1>7 DEF MintRuntime, AcquireFails, MintFails, Abandon, Aimed, Streams
  <2>2. Streams'
    BY <2>1 DEF Streams
  <2>3. UNCHANGED <<command, request>>
    BY <1>7 DEF MintRuntime, AcquireFails, MintFails, Abandon, queueVars
  <2> QED
    BY <2>1, <2>2, <2>3 DEF Aimed, PendingInterrupts, InterruptHitsItsTarget, Fresh
<1>8. CASE MintResolves
  BY <1>8, MintAimed
<1>9. CASE StreamLost
  <2>1. /\ UNCHANGED <<runtime, closing, running, pending, control>>
        /\ queue'.phase = "lost" /\ queue'.turn = queue.turn
    BY <1>9 DEF StreamLost, ProcessTypes
  <2>2. Streams'
    BY <2>1 DEF Aimed, Streams
  <2> QED
    BY <2>1, <2>2, NothingSent DEF Aimed
<1>10. CASE \E i \in Command : Terminal(i)
  <2>1. PICK i \in Command, p \in running :
          /\ p[2] = i /\ queue.phase = "run"
          /\ \/ \E outcome \in {"completed", "turn-failed"} :
                  EndTurn(i, outcome, "accepted", FALSE) /\ pending' = pending
             \/ \E q \in pending :
                  q[1] = p[1] /\ EndTurn(i, "aborted", "accepted", FALSE) /\ pending' = pending \ {q}
             \/ runtime # p[1] /\ EndTurn(i, "aborted", "accepted", FALSE) /\ pending' = pending
    BY <1>10 DEF Terminal
  <2>2. Busy /\ i = queue.turn /\ (runtime = None \/ p[1] = runtime)
    BY <2>1 DEF Busy, Aimed, Streams
  <2> QED
    BY <2>1, <2>2, EndTurnAimed
<1>11. CASE InterruptStep
  BY <1>11, GivingUpAimed
<1>12. CASE \E m \in closing : DisposeResolves(m)
  <2>1. PICK m \in closing : DisposeResolves(m)
    BY <1>12
  <2>2. /\ closing' = closing \ {m} /\ pending' = {p \in pending : p[1] # m}
        /\ UNCHANGED <<command, request, queue, runtime, running, control>>
    BY <2>1 DEF DisposeResolves, vars, queueVars
  <2> QED
    BY <2>2 DEF Aimed, Streams, PendingInterrupts, InterruptHitsItsTarget, Fresh
<1>13. CASE Dispose
  <2>1. Teardown /\ runtime' = None /\ UNCHANGED <<queue, running, pending>>
    BY <1>13 DEF Dispose, Teardown
  <2>2. Streams'
    BY <2>1, NoStreamOpened DEF Aimed
  <2> QED
    BY <2>1, <2>2, NothingSent DEF Aimed
<1>14. CASE Stop
  BY <1>14 DEF Stop, Idle0, Aimed, Streams, PendingInterrupts, InterruptHitsItsTarget
<1>15. CASE \/ ReceiptArrives \/ ProviderAttaches \/ Recover \/ Boot \/ EnableQueueDrain
            \/ UNCHANGED serviceVars
  <2>1. /\ UNCHANGED <<runtime, closing, running, pending, control>>
        /\ queue'.phase = queue.phase /\ queue'.turn = queue.turn
    BY <1>15 DEF ReceiptArrives, ProviderAttaches, Recover, Boot, EnableQueueDrain, Recovered,
       serviceVars, processVars, ProcessTypes
  <2>2. Streams'
    BY <2>1, NoStreamOpened DEF Aimed
  <2> QED
    BY <2>1, <2>2, NothingSent DEF Aimed
<1> QED
  BY <1>1, <1>2, <1>3, <1>4, <1>5, <1>6, <1>7, <1>8, <1>9, <1>10, <1>11, <1>12, <1>13, <1>14, <1>15
  DEF ServiceNext, DrainStep, MintStep, ProviderStep, LifecycleStep

\* A native interrupt, which names no turn, hits the turn it was meant for:
\* neither a terminal that overtakes it, nor a rejection, a watchdog, a switch
\* or a restart lets it reach the next turn of the same runtime.
THEOREM InterruptsHitTheirTargets == ServiceSpec => []InterruptHitsItsTarget
<1>1. ServiceInit => Aimed
  BY DEF ServiceInit, Idle0, Aimed, Streams, PendingInterrupts, InterruptHitsItsTarget
<1>2. Aimed => InterruptHitsItsTarget
  BY DEF Aimed
<1>3. ServiceSpec => []OneActiveSession
  BY ServiceImplementsStore, StoreImplementsRows, ActiveSessionIsUnique, PTL
<1>4. ServiceSpec => []DriverOK
  BY <1>3, AlwaysAloneAndServed, AlwaysWatched, RuntimesAreCurrent, PTL DEF DriverOK
<1>5. ServiceSpec => [][Next]_vars
  BY ServiceImplementsStore, PTL DEF Spec
<1> QED
  BY <1>1, <1>2, <1>4, <1>5, AimedInductive, PTL DEF ServiceSpec
=============================================================================
