--------------------------- MODULE ConversationFeed ---------------------------
(***************************************************************************)
(* The chat channel of one orchestrator session, from the transaction that *)
(* appends a conversation event to what a browser tab shows: the event log *)
(* with its outbox, the relay, the socket with its connect snapshot, the   *)
(* registry of permission requests, and the tab's projector.               *)
(*                                                                         *)
(* Source: packages/db/src/repos/conversation-events.ts, apps/server/src:  *)
(* chat/conversation-relay.ts, chat/ask-registry.ts, chat/turn-runner.ts,  *)
(* chat/session-service.ts, runner/claude-adapter.ts, ws/hub.ts, ws/       *)
(* router.ts, boot-recovery.ts; apps/web/src: lib/ws-client.ts, features/  *)
(* chat/chat-reducer.ts.                                                   *)
(*                                                                         *)
(* A turn is claimed from the send queue or started by the runtime on its  *)
(* own.  An action is one task of the server's or of the tab's event loop: *)
(* what follows a native message in microtasks belongs to its action.      *)
(***************************************************************************)
EXTENDS Integers, Sequences, FiniteSets, SequencesExt

CONSTANTS Turn,      \* turns claimed from the queue
          SelfTurn,  \* turns a runtime starts unsolicited
          Call,      \* tool calls; each belongs to one turn and asks once
          None,
          Legacy,    \* hidden rows a migration left in the log
          MaxFaults, \* bound on failing drains, lost sockets and ends of the process
          MaxLag     \* bound on the frames under way when a task begins

ASSUME FeedAssumption ==
  /\ Turn \cap SelfTurn = {} /\ None \notin Turn \cup SelfTurn \cup Call
  /\ IsFiniteSet(Call)
  /\ Legacy \in Nat /\ MaxFaults \in Nat /\ MaxLag \in Nat

VARIABLES log,      \* conversation_events by sequence
          relayed,  \* rows marked in conversation_outbox, in order
          turn,     \* the active row of conversation_turns
          phase,    \* where SendQueue.drain stands in deliver
          asks,     \* AskRegistry, by call
          runtime,  \* SessionService.runtime
          open,     \* the adapter's currentTurn
          cut,      \* turns dispose ended, whose runner has yet to read it
          link,     \* the tab's socket
          chan,     \* frames under way to the tab, in order
          replies,  \* ask-reply frames under way to the server
          tab,      \* the tab's ChatState
          lost,     \* history: unsolicited turns the end of a process cut off
          lagged,   \* history: a drain failed
          faults

serverVars == <<turn, phase, asks, runtime, open, cut>>
storeVars == <<log, relayed, chan, faults, lagged>>
vars == <<serverVars, storeVars, link, replies, tab, lost>>

AnyTurn == Turn \cup SelfTurn
Settled == {"succeeded", "failed", "denied"}

\* A call that has no state yet is in none of these.
ASSUME StateAssumption == None \notin {"requested", "approval-needed", "running"} \cup Settled

\* The send-state, user, session-state and activity events of one claim are its
\* "start", a terminal event is the "end"; "marker" leads an unsolicited turn,
\* "notice" is the context-size notice, and the "hidden" row was left by a
\* migration.  Text, deltas, the later phases of an activity and the calls that
\* need no permission are left out.
Plain(kind, t) == [kind |-> kind, turn |-> t, call |-> None, state |-> None]
Tool(t, c, s) == [kind |-> "tool", turn |-> t, call |-> c, state |-> s]
Hidden == Plain("hidden", None)

\* toolStateTransitionError
ToolMove(from, to) ==
  CASE from = None -> to = "requested"
    [] from = "requested" -> to \in {"approval-needed", "running", "denied", "failed"}
    [] from = "approval-needed" -> to \in {"running", "denied"}
    [] from = "running" -> to \in {"succeeded", "failed"}
    [] OTHER -> FALSE

\* The latest event of a call, and the state it left the call in.
LastOf(c) == SelectLastInSeq(log, LAMBDA e : e.call = c)
StateOf(c) == IF LastOf(c) = 0 THEN None ELSE log[LastOf(c)].state
CallsOf(t) == {c \in Call : LastOf(c) # 0 /\ log[LastOf(c)].turn = t}
Used == {log[i].turn : i \in DOMAIN log}
FreshCalls == {c \in Call : LastOf(c) = 0}
Ended(t) == \E i \in DOMAIN log : log[i] = Plain("end", t)

-----------------------------------------------------------------------------
(* The tab: features/chat/chat-reducer.ts.                                 *)

NoTool == [state |-> None, turn |-> None]
NoContext == [valid |-> TRUE, started |-> None, observed |-> None]
Conflicted == [NoContext EXCEPT !.valid = FALSE]

\* initialChatState
Blank ==
  [through |-> 0, held |-> {}, broken |-> FALSE,
   tools |-> [c \in Call |-> NoTool], ended |-> {}, activity |-> None, busy |-> FALSE,
   evidence |-> None, superseded |-> {}, context |-> NoContext,
   cards |-> {}, waiting |-> {}, answered |-> {}, active |-> None]

\* withFrameContextTurnEvidence
FoldEvidence(s, e) ==
  IF e.kind = "context" THEN s
  ELSE IF e.turn # s.evidence /\ e.turn \in s.superseded THEN [s EXCEPT !.context = Conflicted]
  ELSE [s EXCEPT !.superseded = @ \cup ({s.evidence} \ {None, e.turn}), !.evidence = e.turn]

\* foldStableFrame of a tool-state event, with the cards it makes live or stale.
FoldTool(s, e) ==
  LET c == e.call IN
  IF ~ToolMove(s.tools[c].state, e.state) \/ e.turn \in s.ended
     \/ s.tools[c].turn \notin {None, e.turn}
  THEN [s EXCEPT !.broken = TRUE]
  ELSE LET seen == [s EXCEPT !.tools[c] = [state |-> e.state, turn |-> e.turn],
                             !.activity = e.turn] IN
       CASE e.state = "requested" -> seen
         [] e.state = "approval-needed" ->
              [seen EXCEPT !.cards = @ \cup ({c} \cap (s.waiting \ s.answered)),
                           !.waiting = @ \ ({c} \ s.answered)]
         [] OTHER -> [seen EXCEPT !.cards = @ \ {c}, !.waiting = @ \ {c},
                                  !.answered = @ \ ({c} \cap s.cards)]

NoCards(s) == [s EXCEPT !.activity = None, !.cards = {}, !.waiting = {}, !.answered = {}]

\* foldContextProjection of a context-observation.
FoldContext(s, e) ==
  IF /\ s.context.valid
     /\ s.context.started = e.turn /\ s.evidence = e.turn
     /\ e.turn \in s.ended /\ s.context.observed # e.turn
  THEN [s EXCEPT !.context.observed = e.turn]
  ELSE [s EXCEPT !.context = Conflicted]

\* foldFrame of the event at a sequence number.
FoldEvent(s, i) ==
  LET e == log[i]
      seen == [FoldEvidence(s, e) EXCEPT !.through = i]
  IN  CASE e.kind = "tool" -> FoldTool(seen, e)
        [] e.kind = "start" ->
             IF e.turn \in s.ended THEN [seen EXCEPT !.broken = TRUE, !.context = Conflicted]
             ELSE [seen EXCEPT !.activity = e.turn, !.busy = TRUE,
                               !.context.started = IF seen.context.valid THEN e.turn ELSE None]
        [] e.kind = "end" ->
             [NoCards(seen) EXCEPT !.ended = @ \cup {e.turn},
                !.broken = @ \/ \E c \in Call : s.tools[c].turn = e.turn
                                                /\ s.tools[c].state \notin Settled]
        [] e.kind = "idle" -> [NoCards(seen) EXCEPT !.busy = FALSE]
        [] e.kind = "context" -> FoldContext(seen, e)
        [] OTHER -> seen

\* The fold of the rows behind row a, up to row b: a replay leaves the hidden ones
\* out, and the relay sends none of them.
FoldRows(s, a, b) ==
  LET shown[i \in a..b] == IF i = a THEN s
                           ELSE IF log[i] = Hidden THEN shown[i - 1]
                           ELSE FoldEvent(shown[i - 1], i)
  IN  shown[b]

\* reduceConversationEvent: a duplicate is ignored, a frame beyond a gap is
\* held, and the next frame takes the held ones behind it along.
ApplyEvent(s, i) ==
  IF i <= s.through \/ i \in s.held THEN s
  ELSE IF i > s.through + 1 THEN [s EXCEPT !.held = @ \cup {i}]
  ELSE LET run == {j \in s.held : i + 1 .. j \subseteq s.held}
       IN  [FoldRows(s, i - 1, i + Cardinality(run)) EXCEPT !.held = @ \ run]

\* applyAsk of each call of C, of which none touches another's card.
ApplyAsks(s, C) ==
  LET fresh == C \ (s.answered \cup s.cards \cup s.waiting)
      turnIsActive == (s.active # None /\ s.active \notin s.ended) \/ s.activity # None \/ s.busy
      current(c) == s.activity = s.tools[c].turn
  IN  [s EXCEPT
        !.cards = @ \cup {c \in fresh : s.tools[c].state = "approval-needed" /\ current(c)},
        !.waiting = @ \cup {c \in fresh : \/ s.tools[c].state = "requested" /\ current(c)
                                          \/ s.tools[c].state = None /\ turnIsActive}]

\* applySessionChanged, reduceReplay and the asks behind them.  The high water
\* accounts for the hidden rows a replay leaves out.
ApplySnapshot(frame) ==
  ApplyAsks([FoldRows(Blank, 0, frame.upTo) EXCEPT !.through = frame.upTo, !.active = frame.active],
            frame.asks)

-----------------------------------------------------------------------------
(* The server.                                                             *)

\* The active row of conversation_turns: none once the terminal is written.
ActiveTurn == IF phase \in {"minting", "running", "down"} THEN turn ELSE None
NoAsks == [c \in Call |-> FALSE]

\* A task of the server.  A disposed turn is read, and the queue goes on, in the
\* microtasks of the task that disposed of it.
InTask == phase # "down" /\ cut = {} /\ Len(chan) <= MaxLag

Event(i) == [kind |-> "event", seq |-> i]
StateFrame(t) == [kind |-> "state", active |-> t]
Broadcast(frames) == IF link = "closed" THEN chan ELSE chan \o frames

\* ConversationRelay.drain up to row n, then the frames sent outside the outbox.
\* A drain that throws has fanned up to row i and marked the rows before it.
Drain(n, after) ==
  \/ /\ relayed' = n
     /\ chan' = Broadcast([i \in 1..(n - relayed) |-> Event(relayed + i)] \o after)
     /\ UNCHANGED <<faults, lagged>>
  \/ /\ faults < MaxFaults
     /\ faults' = faults + 1 /\ lagged' = TRUE
     /\ \E i \in relayed..n :
          /\ relayed' = IF i = relayed THEN i ELSE i - 1
          /\ chan' = Broadcast([k \in 1..(i - relayed) |-> Event(relayed + k)] \o after)

\* commitConversationEvent of each row, and publishCommittedEvents.
Publish(rows, after) ==
  /\ log' = log \o rows
  /\ Drain(Len(log) + Len(rows), after)

\* Mutant: a turn ends and leaves its calls as they are.
CallsStayOpen(t) == <<>>

\* closeOpenTools, closeOpenConversationToolCallsInDb
Closings(t) ==
  LET opened == SetToSeq({c \in CallsOf(t) : StateOf(c) \notin Settled}) IN
  [i \in DOMAIN opened |->
     Tool(t, opened[i], IF StateOf(opened[i]) = "approval-needed" THEN "denied" ELSE "failed")]

\* What settleConversationTurn writes, or the runner of an unsolicited turn.
EndRows(t) ==
  Closings(t) \o <<Plain("end", t)>> \o (IF t \in Turn THEN <<Plain("idle", t)>> ELSE <<>>)

\* SendQueue.drain and deliver: a runtime that is busy with a turn of its own or
\* closed refuses the turn, which fails, and is quarantined.
Claim ==
  /\ phase = "idle" /\ Turn \ Used # {} /\ (cut # {} \/ InTask)
  /\ LET t == CHOOSE t \in Turn \ Used : TRUE
         started == <<Plain("start", t)>>
     IN  \/ /\ runtime = "none"
            /\ turn' = t /\ phase' = "minting"
            /\ Publish(started, <<StateFrame(t)>>)
            /\ UNCHANGED <<asks, runtime, open, cut>>
         \/ /\ runtime = "up" /\ open = None
            /\ turn' = t /\ phase' = "running" /\ open' = t
            /\ Publish(started, <<StateFrame(t)>>)
            /\ UNCHANGED <<asks, runtime, cut>>
         \/ /\ runtime = "closed" \/ open # None
            /\ asks' = NoAsks /\ runtime' = "none"
            /\ open' = None /\ cut' = {open} \ {None}
            /\ Publish(started \o EndRows(t), <<StateFrame(None)>>)
            /\ UNCHANGED <<turn, phase>>
  /\ UNCHANGED <<link, replies, tab, lost>>

\* The turn dispose ended reaches its runner.
CutEnds(u) ==
  /\ phase # "down" /\ u \in cut
  /\ cut' = cut \ {u} /\ asks' = NoAsks
  /\ Publish(EndRows(u), <<>>)
  /\ UNCHANGED <<turn, phase, runtime, open, link, replies, tab, lost>>

\* ensureRuntime and mintSession, then sendTurn.
Minted ==
  /\ InTask /\ phase = "minting"
  /\ phase' = "running" /\ runtime' = "up" /\ open' = turn
  /\ UNCHANGED <<storeVars, turn, asks, cut, link, replies, tab, lost>>

\* settleInfrastructureFailure: the runtime failed to start.
MintFails ==
  /\ InTask /\ phase = "minting"
  /\ phase' = "idle" /\ turn' = None /\ asks' = NoAsks
  /\ Publish(EndRows(turn), <<StateFrame(None)>>)
  /\ UNCHANGED <<runtime, open, cut, link, replies, tab, lost>>

\* A tool observation of the open turn: runTurn's emitTool.
Observed(c, s, after) == Publish(<<Tool(open, c, s)>>, after)

\* The end of a running call.
ToolReturns(c) ==
  /\ InTask /\ open # None /\ c \in CallsOf(open)
  /\ StateOf(c) = "running"
  /\ Observed(c, "succeeded", <<>>)
  /\ UNCHANGED <<serverVars, link, replies, tab, lost>>

\* createClaudePermissionHandler and AskRegistry.ask; publish sends the card
\* once the two rows are committed, relayed or not.
Ask ==
  /\ InTask /\ open # None /\ FreshCalls # {}
  /\ LET c == CHOOSE c \in FreshCalls : TRUE IN
     /\ asks' = [asks EXCEPT ![c] = TRUE]
     /\ Publish(<<Tool(open, c, "requested"), Tool(open, c, "approval-needed")>>,
                <<[kind |-> "ask", call |-> c]>>)
  /\ UNCHANGED <<turn, phase, runtime, open, cut, link, replies, tab, lost>>

\* Mutant: a decided ask stays pending.
DecideAndKeep(c, s) == UNCHANGED asks /\ Observed(c, s, <<>>)

\* The decision of an ask reaches the permission handler of the open turn.
Decide(c, s) ==
  /\ asks' = [asks EXCEPT ![c] = FALSE]
  /\ Observed(c, s, <<>>)

\* handleAskReply: the first decision of an ask counts, a later reply finds none.
ReplyArrives ==
  /\ InTask /\ replies # <<>>
  /\ replies' = Tail(replies)
  /\ LET r == Head(replies) IN
     IF asks[r.call] THEN Decide(r.call, IF r.allow THEN "running" ELSE "denied")
                     ELSE UNCHANGED <<asks, storeVars>>
  /\ UNCHANGED <<turn, phase, runtime, open, cut, link, tab, lost>>

\* The watchdog of an ask, or the provider's abort signal.
AskLapses(c) ==
  /\ InTask /\ asks[c]
  /\ Decide(c, "denied")
  /\ UNCHANGED <<turn, phase, runtime, open, cut, link, replies, tab, lost>>

\* The native result of the open turn, or the end of the query with it.
TurnEnds(after) ==
  /\ InTask /\ open # None
  /\ runtime' = after /\ open' = None /\ asks' = NoAsks
  /\ phase' = IF open \in Turn THEN "observing" ELSE phase
  /\ Publish(EndRows(open), IF open \in Turn THEN <<StateFrame(None)>> ELSE <<>>)
  /\ UNCHANGED <<turn, cut, link, replies, tab, lost>>

\* A failed interrupt of the claimed turn quarantines its runtime: no context is
\* observed.
Quarantined ==
  /\ InTask /\ phase = "running"
  /\ runtime' = "none" /\ open' = None /\ asks' = NoAsks
  /\ phase' = "idle" /\ turn' = None
  /\ Publish(EndRows(turn), <<StateFrame(None)>>)
  /\ UNCHANGED <<cut, link, replies, tab, lost>>

\* The query loop of an idle runtime ends.
RuntimeCloses ==
  /\ InTask /\ runtime = "up" /\ open = None
  /\ runtime' = "closed"
  /\ UNCHANGED <<storeVars, turn, phase, asks, open, cut, link, replies, tab, lost>>

\* admitUnsolicitedTurn and handleUnsolicitedTurn: any native message between
\* turns opens one, whatever deliver waits for.
SelfStart ==
  /\ InTask /\ runtime = "up" /\ open = None
  /\ SelfTurn \ Used # {}
  /\ open' = CHOOSE u \in SelfTurn \ Used : TRUE
  /\ Publish(<<Plain("marker", open')>>, <<>>)
  /\ UNCHANGED <<turn, phase, asks, runtime, cut, link, replies, tab, lost>>

\* observeContextAfterTurn, up to the row; a size over the threshold, which only
\* an undisturbed runtime can report, leads to compaction.
Undisturbed == runtime = "up" /\ open = None /\ log[Len(log)].turn = turn

\* Mutant: the retry of the observation does not see that it was written.
ObserveAgain ==
  /\ InTask /\ phase = "observing" /\ Len(log) < 12
  /\ \/ phase' = "idle" /\ turn' = None
     \/ UNCHANGED <<phase, turn>>
  /\ Publish(<<Plain("context", turn)>>, <<>>)
  /\ UNCHANGED <<asks, runtime, open, cut, link, replies, tab, lost>>

ObserveContext ==
  /\ InTask /\ phase = "observing"
  /\ \/ phase' = "idle" /\ turn' = None
     \/ Undisturbed /\ phase' = "compacting" /\ UNCHANGED turn
  /\ Publish(<<Plain("context", turn)>>, <<>>)
  /\ UNCHANGED <<asks, runtime, open, cut, link, replies, tab, lost>>

\* applyContextSizePolicy: runtime.compact succeeded, or a notice is written.
CompactDone ==
  /\ InTask /\ phase = "compacting"
  /\ phase' = "idle" /\ turn' = None
  /\ Publish(<<>>, <<>>) \/ Publish(<<Plain("notice", turn)>>, <<>>)
  /\ UNCHANGED <<asks, runtime, open, cut, link, replies, tab, lost>>

\* Mutant: the interval is never set.
NoTimer == FALSE

\* The interval that drains what a failing drain left behind.
RelayTimer ==
  /\ InTask /\ relayed < Len(log)
  /\ Drain(Len(log), <<>>)
  /\ UNCHANGED <<log, serverVars, link, replies, tab, lost>>

\* The process ends: what was in memory is gone, and every socket.
StopServer ==
  /\ phase # "down" /\ faults < MaxFaults
  /\ faults' = faults + 1
  /\ phase' = "down" /\ turn' = ActiveTurn
  /\ lost' = lost \cup ((cut \cup {open}) \cap SelfTurn)
  /\ asks' = NoAsks /\ runtime' = "none" /\ open' = None /\ cut' = {}
  /\ link' = "closed" /\ chan' = <<>> /\ replies' = <<>>
  /\ UNCHANGED <<log, relayed, lagged, tab>>

\* runBootRecovery settles the active row; startServer drains before it listens.
Boot ==
  /\ phase = "down"
  /\ phase' = "idle" /\ turn' = None
  /\ log' = log \o (IF turn = None THEN <<>> ELSE EndRows(turn))
  /\ relayed' = Len(log')
  /\ UNCHANGED <<chan, faults, lagged, asks, runtime, open, cut, link, replies, tab, lost>>

-----------------------------------------------------------------------------
(* The socket and the tab.                                                 *)

\* Mutant: the high water of a replay is the number of rows it shows.
VisibleRows == Len(SelectSeq(log, LAMBDA e : e # Hidden))

\* getConversationHighWaterSequence
HighWater == Len(log)

\* attachSocket sends connectSnapshot and subscribes; onopen bumps the epoch.
Connect ==
  /\ InTask /\ link = "closed"
  /\ link' = "joining"
  /\ chan' = <<[kind |-> "snapshot", upTo |-> HighWater, active |-> ActiveTurn,
                asks |-> {c \in Call : asks[c]}]>>
  /\ UNCHANGED <<log, relayed, faults, lagged, serverVars, replies, tab, lost>>

\* The socket is lost with what was under way; the tab keeps its state.
Drop ==
  /\ link # "closed" /\ faults < MaxFaults
  /\ faults' = faults + 1
  /\ link' = "closed" /\ chan' = <<>> /\ replies' = <<>>
  /\ UNCHANGED <<log, relayed, lagged, serverVars, tab, lost>>

Arrives == chan # <<>> /\ chan' = Tail(chan)

\* ProjectSocket.route, into the chat store and the connection store.
Deliver ==
  /\ Arrives
  /\ LET f == Head(chan) IN
     /\ tab' = CASE f.kind = "event" -> ApplyEvent(tab, f.seq)
                 [] f.kind = "ask" -> ApplyAsks(tab, {f.call})
                 [] f.kind = "state" -> [tab EXCEPT !.active = f.active]
                 [] f.kind = "snapshot" -> ApplySnapshot(f)
     /\ link' = IF f.kind = "snapshot" THEN "live" ELSE link
  /\ UNCHANGED <<log, relayed, faults, lagged, serverVars, replies, lost>>

\* handleAskReply of ChatSurface, and answerAsk.
Answer(c, allow) ==
  /\ link = "live" /\ c \in tab.cards \ tab.answered
  /\ replies' = Append(replies, [call |-> c, allow |-> allow])
  /\ tab' = [tab EXCEPT !.answered = @ \cup {c}]
  /\ UNCHANGED <<storeVars, serverVars, link, lost>>

Init ==
  /\ log = [i \in 1..Legacy |-> Hidden] /\ relayed = Legacy
  /\ turn = None /\ phase = "idle" /\ asks = NoAsks
  /\ runtime = "none" /\ open = None /\ cut = {}
  /\ link = "closed" /\ chan = <<>> /\ replies = <<>>
  /\ tab = Blank
  /\ lost = {} /\ faults = 0 /\ lagged = FALSE

Next ==
  \/ Claim \/ Minted \/ MintFails \/ Quarantined \/ RuntimeCloses \/ SelfStart
  \/ \E u \in SelfTurn : CutEnds(u)
  \/ \E after \in {"up", "closed"} : TurnEnds(after)
  \/ Ask \/ ReplyArrives
  \/ \E c \in Call : ToolReturns(c) \/ AskLapses(c)
  \/ ObserveContext \/ CompactDone
  \/ RelayTimer \/ StopServer \/ Boot
  \/ Connect \/ Drop \/ Deliver
  \/ \E c \in Call, allow \in BOOLEAN : Answer(c, allow)

Spec == Init /\ [][Next]_vars

\* The interval fires, frames arrive, a lost socket is reopened, an ask lapses and
\* a stopped server is started again.  Nobody has to send, to answer or to work,
\* and a runtime may stay silent.
Fairness ==
  /\ WF_vars(RelayTimer) /\ WF_chan(Arrives) /\ WF_vars(Connect)
  /\ WF_vars(Boot) /\ WF_vars(\E u \in SelfTurn : CutEnds(u))
  /\ WF_vars(\E c \in Call : AskLapses(c))

FairSpec == Spec /\ Fairness

-----------------------------------------------------------------------------
(* Properties.                                                             *)

TypeOK ==
  /\ relayed \in 0..Len(log)
  /\ turn \in Turn \cup {None}
  /\ phase \in {"idle", "minting", "running", "observing", "compacting", "down"}
  /\ asks \in [Call -> BOOLEAN]
  /\ runtime \in {"none", "up", "closed"}
  /\ open \in AnyTurn \cup {None} /\ cut \subseteq SelfTurn
  /\ link \in {"closed", "joining", "live"}
  /\ lost \subseteq SelfTurn

\* What the first n rows say of a call and of the turns that ended.
StateAt(c, n) ==
  LET i == SelectLastInSeq(SubSeq(log, 1, n), LAMBDA e : e.call = c)
  IN  IF i = 0 THEN NoTool ELSE [state |-> log[i].state, turn |-> log[i].turn]
EndedAt(n) == {t \in AnyTurn : \E i \in 1..n : log[i] = Plain("end", t)}

\* A tab that has its snapshot shows exactly a prefix of the log: no frame is
\* held behind a gap, none conflicts, and every call and every turn is in the
\* state the prefix leaves it in, whatever was sent twice or in the snapshot too.
ScreenFollowsTheLog ==
  link = "live" =>
    /\ tab.through <= Len(log) /\ tab.held = {} /\ ~tab.broken
    /\ \A c \in Call : tab.tools[c] = StateAt(c, tab.through)
    /\ tab.ended = EndedAt(tab.through)

\* The context projection of a tab is given up only after an unsolicited turn and
\* another turn overlapped in the log.
ContextConflictNeedsAnOverlap ==
  link = "live" /\ ~tab.context.valid =>
    \E i, j, k \in 1..tab.through :
      /\ i < j /\ j < k
      /\ log[i].turn = log[k].turn /\ log[j].turn # log[i].turn
      /\ {log[i].turn, log[j].turn} \cap SelfTurn # {}

\* A turn ends at most once, with no call left open and nothing but its own
\* context after it; a turn without an end is under way, except an unsolicited
\* one that the end of the process cut off.
TurnsEndOnce ==
  \A t \in AnyTurn :
    LET own == {i \in DOMAIN log : log[i].turn = t}
        ends == {i \in own : log[i].kind = "end"}
    IN  /\ \A e \in ends :
             /\ \A i \in own : i > e => log[i].kind \in {"idle", "context", "notice"}
             /\ \A c \in CallsOf(t) : StateOf(c) \in Settled
        /\ own # {} /\ ends = {} => t \in {ActiveTurn, open} \cup cut \cup lost

\* Every row of a call follows the row before it as toolStateTransitionError
\* demands, in the same turn: the check in the commit never rejects a row, whoever
\* writes it - an observation, a decision, a lapse, or the end of the turn.
CallsMoveLegally ==
  \A j \in DOMAIN log : log[j].call \in Call =>
    LET earlier == {i \in 1..(j - 1) : log[i].call = log[j].call}
    IN  /\ earlier = {} => ToolMove(None, log[j].state)
        /\ \A i \in earlier : (\A k \in earlier : k <= i) =>
             log[i].turn = log[j].turn /\ ToolMove(log[i].state, log[j].state)

\* An ask waits exactly while its call does: no call of the open turn waits for a
\* decision nobody can give, and no ask outlives the turn of its call.
AsksAreTheWaitingCalls ==
  \A c \in Call :
    asks[c] <=> open # None /\ c \in CallsOf(open) /\ StateOf(c) = "approval-needed"

\* A tab that is up to date shows a card for every ask that waits, unless a drain
\* failed, and never one that nothing waits for.
CardsAreTheOpenAsks ==
  link = "live" /\ chan = <<>> /\ tab.through = Len(log) =>
    /\ \A c \in tab.cards : asks[c]
    /\ \A c \in Call : asks[c] /\ ~lagged => c \in tab.cards

\* A tab catches up with the log again and again, and no card stays for ever.
FeedCatchesUp ==
  []<>(link = "live" /\ tab.through = Len(log) /\ tab.cards = {})

=============================================================================
