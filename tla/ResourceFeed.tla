----------------------------- MODULE ResourceFeed -----------------------------
(***************************************************************************)
(* The resource channel from the transaction that changes a resource to    *)
(* the lists a browser page shows: the live outbox, the relay that fans    *)
(* its rows to sockets, the replay a subscribing socket gets, the cursor   *)
(* and store of the page, and the HTTP lists the store is laid over.       *)
(*                                                                         *)
(* Source: packages/db/src/repos/live-outbox.ts, apps/server/src/resources/*)
(* relay.ts, ws/router.ts, ws/hub.ts and apps/web/src: lib/ws-client.ts,   *)
(* state/resource-store.ts, features/agent-runs, features/contracts.       *)
(*                                                                         *)
(* One page of one project.  A resource changes by one outbox row at a     *)
(* time, so the number of its last row stands for its version; cursor 0    *)
(* stands for "no cursor".                                                 *)
(***************************************************************************)
EXTENDS Integers, Sequences

CONSTANTS Run, Contract,  \* the resources of the project, by entity
          MaxRows,        \* bound on outbox rows
          MaxBreaks,      \* bound on lost sockets, restarts and page loads
          MaxFailures     \* bound on failing HTTP requests

ASSUME FeedAssumption ==
  /\ Run \cap Contract = {}
  /\ MaxRows \in Nat /\ MaxBreaks \in Nat /\ MaxFailures \in Nat

VARIABLES log,        \* every row ever committed to live_outbox, by seq
          version,    \* resource -> the row of its last change, 0: not created
          listed,     \* runs within the retention of the run list
          delivered,  \* ResourceRelay.deliveredCursor
          conn,       \* the page's socket
          wire,       \* frames under way to the page, in order
          up,         \* subscribe frame under way to the server
          cursor,     \* the page's persisted cursor
          store,      \* resource-store: resource -> the row of its live event
          fetch,      \* HTTP list -> its request
          seed,       \* HTTP list -> the last list the page adopted
          breaks, failures

serverVars == <<log, version, listed, delivered>>
pageVars == <<cursor, store, fetch, seed>>
vars == <<serverVars, conn, wire, up, pageVars, breaks, failures>>

Resource == Run \cup Contract
List == {"runs", "contracts"}
HighWater == Len(log)

\* No subscribe frame under way.
Silent == MaxRows + 1

\* What one list request answers: the version of each resource in the list, 0
\* for those it leaves out, and the high water it was read at.
Snapshot == [asOf : 0..MaxRows, rows : [Resource -> 0..MaxRows]]
Nothing == [asOf |-> 0, rows |-> [r \in Resource |-> 0]]
Request == {[status |-> s, list |-> Nothing] : s \in {"idle", "sent", "failed"}}
           \cup [status : {"answered"}, list : Snapshot]
Sent == [status |-> "sent", list |-> Nothing]

Init ==
  /\ log = <<>> /\ version = [r \in Resource |-> 0] /\ listed = Run /\ delivered = 0
  /\ conn = "closed" /\ wire = <<>> /\ up = Silent
  /\ cursor = 0
  /\ store = [r \in Resource |-> 0]
  /\ fetch = [l \in List |-> Sent]
  /\ seed = [l \in List |-> Nothing]
  /\ breaks = 0 /\ failures = 0

-----------------------------------------------------------------------------
\* listLiveEventsAfter: the rows after a cursor, in order.  Nothing prunes the
\* outbox, so its floor is never above a cursor.
RowsAfter(c) == SubSeq([n \in 1..HighWater |-> n], c + 1, HighWater)

\* Every transaction that changes a resource appends its row.
Commit(r) ==
  /\ HighWater < MaxRows
  /\ r \in Contract \cup listed
  /\ log' = Append(log, r)
  /\ version' = [version EXCEPT ![r] = HighWater + 1]
  /\ UNCHANGED <<listed, delivered, conn, wire, up, pageVars, breaks, failures>>

\* A terminal run leaves the recent window of the run list; nothing announces it.
AgeOut(r) ==
  /\ r \in listed
  /\ listed' = listed \ {r}
  /\ UNCHANGED <<log, version, delivered, conn, wire, up, pageVars, breaks, failures>>

\* ResourceRelay.drain, from the interval timer.
Drain ==
  /\ delivered < HighWater
  /\ delivered' = HighWater
  /\ wire' = IF conn = "closed" THEN wire ELSE wire \o RowsAfter(delivered)
  /\ UNCHANGED <<log, version, listed, conn, up, pageVars, breaks, failures>>

-----------------------------------------------------------------------------
\* attachSocket: the socket is in the project's room before the page knows.
Join ==
  /\ conn = "closed"
  /\ conn' = "joined"
  /\ UNCHANGED <<serverVars, wire, up, pageVars, breaks, failures>>

\* Mutant: the epoch reaches no list.
EpochUnread(requests) == requests

\* bumpEpoch: the run list is fetched again and the request before it is
\* cancelled.  The contract list does not depend on the epoch.
Epoch(requests) == [requests EXCEPT !["runs"] = Sent]

\* ws.onopen
Open ==
  /\ conn = "joined"
  /\ conn' = "open"
  /\ up' = cursor
  /\ fetch' = Epoch(fetch)
  /\ UNCHANGED <<serverVars, wire, cursor, store, seed, breaks, failures>>

\* ResourceRelay.catchUp
CatchUp ==
  /\ up # Silent
  /\ wire' = IF up = 0 THEN wire ELSE wire \o RowsAfter(up)
  /\ up' = Silent
  /\ UNCHANGED <<serverVars, conn, pageVars, breaks, failures>>

\* resourceEventWins: a strictly older version loses.
Wins(old, new) == IF new < old THEN old ELSE new

\* onResource: the cursor follows the frame, whether it is newer or not.
ReceiveRow ==
  /\ conn = "open" /\ wire # <<>>
  /\ LET n == Head(wire) IN
       /\ cursor' = n
       /\ store' = [store EXCEPT ![log[n]] = Wins(@, n)]
  /\ wire' = Tail(wire)
  /\ UNCHANGED <<serverVars, conn, up, fetch, seed, breaks, failures>>

-----------------------------------------------------------------------------
\* Runs outside the recent window are left out of their list.
Listing(l) ==
  [r \in Resource |-> IF r \in (IF l = "runs" THEN listed ELSE Contract) THEN version[r] ELSE 0]

\* The route handler reads the rows and the high water in one go.
Answer(l) ==
  /\ fetch[l] = Sent
  /\ fetch' = [fetch EXCEPT ![l] = [status |-> "answered",
                 list |-> [asOf |-> HighWater, rows |-> Listing(l)]]]
  /\ UNCHANGED <<serverVars, conn, wire, up, cursor, store, seed, breaks, failures>>

Adopt(l) ==
  /\ fetch[l].status = "answered"
  /\ seed' = [seed EXCEPT ![l] = fetch[l].list]
  /\ fetch' = [fetch EXCEPT ![l] = [status |-> "idle", list |-> Nothing]]
  /\ UNCHANGED <<serverVars, conn, wire, up, cursor, store, breaks, failures>>

\* The run list keeps its rows and says so; the contract list shows none.
FetchFails(l) ==
  /\ fetch[l].status \in {"sent", "answered"}
  /\ failures < MaxFailures
  /\ failures' = failures + 1
  /\ fetch' = [fetch EXCEPT ![l] = [status |-> "failed", list |-> Nothing]]
  /\ seed' = IF l = "contracts" THEN [seed EXCEPT ![l] = Nothing] ELSE seed
  /\ UNCHANGED <<serverVars, conn, wire, up, cursor, store, breaks>>

\* The user asks for the failed run list again.
Retry ==
  /\ fetch["runs"].status = "failed"
  /\ fetch' = [fetch EXCEPT !["runs"] = Sent]
  /\ UNCHANGED <<serverVars, conn, wire, up, cursor, store, seed, breaks, failures>>

-----------------------------------------------------------------------------
Break == breaks < MaxBreaks /\ breaks' = breaks + 1

\* The socket is gone, and with it what was under way.
Detached == conn' = "closed" /\ wire' = <<>> /\ up' = Silent

\* The socket dies with everything it carries.
Drop ==
  /\ conn # "closed"
  /\ Break /\ Detached
  /\ UNCHANGED <<serverVars, pageVars, failures>>

\* The server stops and boots: primeToHead leaves what was not fanned to the
\* replay of the sockets that come back.
Restart ==
  /\ Break /\ Detached
  /\ delivered' = HighWater
  /\ UNCHANGED <<log, version, listed, pageVars, failures>>

\* The page is loaded again, or its project shown again in a page that kept the
\* store; the cursor is in localStorage.
Mount(kept) ==
  /\ Break /\ Detached
  /\ store' = IF kept THEN store ELSE [r \in Resource |-> 0]
  /\ fetch' = [l \in List |-> Sent]
  /\ seed' = [l \in List |-> Nothing]
  /\ UNCHANGED <<serverVars, cursor, failures>>

Next ==
  \/ \E r \in Resource : Commit(r)
  \/ \E r \in Run : AgeOut(r)
  \/ Drain
  \/ Join
  \/ Open
  \/ CatchUp
  \/ ReceiveRow
  \/ \E l \in List : Answer(l)
  \/ \E l \in List : Adopt(l)
  \/ \E l \in List : FetchFails(l)
  \/ Retry
  \/ Drop
  \/ Restart
  \/ \E kept \in BOOLEAN : Mount(kept)

Spec == Init /\ [][Next]_vars

(***************************************************************************)
(* Timers fire, a closed socket is opened again, frames under way arrive   *)
(* unless the socket dies, and requests are answered or fail.              *)
(***************************************************************************)
LiveSpec ==
  /\ Spec
  /\ WF_vars(Drain) /\ WF_vars(Join) /\ WF_vars(Open)
  /\ WF_vars(CatchUp) /\ WF_vars(ReceiveRow)
  /\ WF_vars(\E l \in List : Answer(l)) /\ WF_vars(\E l \in List : Adopt(l))

-----------------------------------------------------------------------------
\* Mutant: a live event is laid over a list that omits its resource.
OverlayAlways(base, asOf, live) == IF base < live THEN live ELSE base

\* overlayAgentRunPayloads: a live event the list already covers, of a run the
\* list leaves out, is dropped.
Overlay(base, asOf, live) ==
  IF base = 0 /\ live <= asOf THEN 0
  ELSE IF base < live THEN live ELSE base

\* The row of a run the page shows, 0 for none.
ShownRun(r) ==
  Overlay(seed["runs"].rows[r], seed["runs"].asOf, store[r])

\* overlayContracts: the higher version wins.
ShownContract(c) == Wins(seed["contracts"].rows[c], store[c])

\* The socket is up, and nothing is under way to the page.
Settled ==
  /\ conn = "open" /\ up = Silent /\ wire = <<>>
  /\ delivered = HighWater

TypeOK ==
  /\ log \in Seq(Resource) /\ HighWater <= MaxRows
  /\ version \in [Resource -> 0..HighWater]
  /\ delivered \in 0..HighWater /\ listed \subseteq Run
  /\ conn \in {"closed", "joined", "open"}
  /\ wire \in Seq(1..HighWater) /\ up \in 0..HighWater \cup {Silent}
  /\ conn = "closed" => wire = <<>> /\ up = Silent
  /\ cursor \in 0..HighWater
  /\ store \in [Resource -> 0..HighWater]
  /\ \A r \in Resource : store[r] # 0 => log[store[r]] = r
  /\ fetch \in [List -> Request]
  /\ seed \in [List -> Snapshot]
  /\ breaks \in 0..MaxBreaks /\ failures \in 0..MaxFailures

\* A settled page whose run list was fetched shows every listed run as the
\* server has it, whatever was lost, replayed twice or overtaken on the way.
RunsConverge ==
  Settled /\ fetch["runs"].status = "idle" =>
    \A r \in listed : ShownRun(r) = version[r]

\* A run that a list left out after its last change had aged out: no event of it
\* that the store kept, or that a replay delivers again, brings it back.
AgedOutStaysGone ==
  \A r \in Run \ listed :
    seed["runs"].rows[r] = 0 /\ version[r] <= seed["runs"].asOf => ShownRun(r) = 0

\* connection.ts:20, "Bumps on every socket open so HTTP-seeded lists refetch
\* (kills the refresh-to-see-new-data bug)": a settled page shows every contract
\* as the server has it.  What the code does instead: the contract list is
\* fetched when the page mounts and never again.
ContractsConverge ==
  Settled /\ fetch["contracts"].status = "idle" =>
    \A c \in Contract : ShownContract(c) = version[c]

\* Every change of a listed run is shown in the end, or the page says that its
\* list could not be read, across lost sockets, restarts and page loads.
RunsAreShown ==
  \A r \in Run, n \in 1..MaxRows :
    version[r] = n ~>
      (ShownRun(r) >= n \/ fetch["runs"].status = "failed" \/ r \notin listed)
=============================================================================
