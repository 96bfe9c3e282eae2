------------------------------- MODULE Landing -------------------------------
(***************************************************************************)
(* Landing accepted work, abandoning it and reclaiming its worktree:       *)
(* dispatch/service.ts (verifyAndLand, reviewContract, landAcceptedContract*)
(* approveContractAbandonment, the teardown attempts and the janitor),     *)
(* dispatch/worktrees.ts (the git side), repos/contracts.ts (the CAS doors)*)
(* and boot-recovery.ts.  One action is one stretch between two awaits.    *)
(*                                                                         *)
(* Contracts share one repository: a target branch that landings, and the  *)
(* people who work in it, advance, and one FIFO of mutations.  A commit of *)
(* an agent branch is numbered, 0 is the base it was provisioned on; a     *)
(* commit of the target branch is the number of commits before it.  The    *)
(* version of a contract row only tells a caller whether the row it read   *)
(* is still the row: `exact` holds the readers for whom it is.  Dispatch,  *)
(* asks and auto-continuation are in AgentRuns; independent review and its *)
(* checkouts are not modelled here.                                        *)
(***************************************************************************)
EXTENDS Naturals, FiniteSets, Sequences

CONSTANTS Contract,     \* repository contracts, each with its provisioned worktree
          AutoMerge,    \* those created under the auto-merge policy
          Continued,    \* those that other runs may continue
          Unwanted,     \* those whose abandonment may be approved
          MaxCommits,   \* bound on the commits of one agent branch
          MaxOutside,   \* bound on what others do: commit on a branch, hold a directory
          MaxFaults,    \* bound on killed runs, refused leases, failed disposals and Git calls
          MaxCrashes    \* bound on the times the process stops

ASSUME LandingAssumption ==
  /\ AutoMerge \subseteq Contract /\ Continued \subseteq Contract /\ Unwanted \subseteq Contract
  /\ {MaxCommits, MaxOutside, MaxFaults, MaxCrashes} \subseteq Nat

VARIABLES
  contract,  \* the agent_contracts rows
  run,       \* the current producer: status, deliveredAt, lifecycleState
  branch,    \* the agent branches: tip and existence
  head,      \* commits of the target branch
  merges,    \* the merge commits among them
  worktree,  \* directory and registration, and the worktrees row
  held,      \* worktrees whose files a process still holds open
  task,      \* the post-terminal task of the producer
  decision,  \* the pc_review_contract call in flight
  queue,     \* landingLocks: the chain of repository mutations
  step,      \* where the mutation at the head of the chain stands
  attempt,   \* teardownAttemptsInFlight
  retry,     \* teardownRetries: "armed", or "fired" while its attempt runs
  exact,     \* readers whose snapshot of a contract is still the row
  stage,     \* of the boot: the recovery pass, "attached", "down"
  todo,      \* contracts the pass still has to handle
  spent      \* how much of each bound is used

git     == <<branch, head, merges>>
chain   == <<queue, step>>
reclaim == <<attempt, retry>>
boot    == <<stage, todo>>
vars    == <<contract, run, worktree, git, held, task, decision, chain, reclaim, exact,
             boot, spent>>

Commit  == 0..MaxCommits
Reader  == {"task", "accept", "boot", "browser"}
Status  == {"none", "pending", "landed", "conflict", "failed", "stale-base",
            "abandoning", "abandoned"}
Life    == {"parked", "failed", "cancelled", "merging", "merged", "stranded", "completed"}
Stages  == {"sealed", "landings", "abandonments", "teardowns", "scan", "sweep", "attached", "down"}

Reopenable == {"none", "conflict", "failed", "stale-base"}
Settled    == {"landed", "abandoning", "abandoned"}

Init ==
  /\ contract = [c \in Contract |-> [seal |-> 0, verif |-> "none", judged |-> 0, base |-> 0,
                                     landing |-> "none", landed |-> 0, approved |-> 0]]
  /\ run = [c \in Contract |-> [status |-> "live", delivered |-> FALSE, life |-> "parked"]]
  /\ branch = [c \in Contract |-> [tip |-> 0, there |-> TRUE]]
  /\ head = 0
  /\ merges = {}
  /\ worktree = [c \in Contract |-> [dir |-> "registered", row |-> "active"]]
  /\ held = {}
  /\ task = [c \in Contract |-> "none"]
  /\ decision = [c \in Contract |-> "none"]
  /\ queue = <<>>
  /\ step = "start"
  /\ attempt = [c \in Contract |-> "none"]
  /\ retry = [c \in Contract |-> "none"]
  /\ exact = {}
  /\ stage = "attached"
  /\ todo = {}
  /\ spent = [outside |-> 0, faults |-> 0, crashes |-> 0]

------------------------------------------------------------------------------
(***************************************************************************)
(* What the doors look at, and how they write.                             *)
(***************************************************************************)
Up == stage # "down"

Attached == stage = "attached"

Live(c) == run[c].status = "live"

\* contractRuntimeQuiescenceIssue: nothing of the producer runs any more and its
\* post-terminal task has ended well.
Quiescent(c) == ~Live(c) /\ task[c] = "none"

Merged(c, t) == \E m \in merges : m.contract = c /\ m.tip >= t

\* rev-list --count base..branch: the branch has commits that the first n of the
\* target do not hold.
Ahead(c, n) ==
  branch[c].tip > 0 /\ ~\E m \in merges : m.contract = c /\ m.tip >= branch[c].tip /\ m.onto < n

\* Mutant: the target is not asked whether it holds the branch.
AlreadyLandedUnasked(c) == FALSE

\* probeAlreadyLanded: the branch had commits of its own when the base was verified,
\* and the target has them now.  After a verdict on a target that held the branch
\* already it does not answer so.
AlreadyLanded(c) ==
  branch[c].there /\ Ahead(c, contract[c].base) /\ Merged(c, branch[c].tip)

\* awaitingReviewOrLanding
Awaiting(c) ==
  /\ contract[c].landing \notin {"landed", "abandoned"}
  /\ contract[c].verif = "passed" \/ contract[c].seal > 0

\* Every write of a row moves its version: only the writers that keep the row they
\* wrote still have an exact snapshot of it.
Write(c, row, keep) ==
  /\ contract' = [contract EXCEPT ![c] = row]
  /\ exact' = {e \in exact : e[2] # c \/ e[1] \in keep}

Judged(c, verdict) == [contract[c] EXCEPT !.verif = verdict, !.judged = contract[c].seal]

\* The evidence a browser approved includes the tip of the branch and the target.
ForgetApprovals(S) == exact' = {e \in exact : e[1] # "browser" \/ e[2] \notin S}

\* canTransition, with merge-ready, verifying, conflict and the other parks as
\* "parked" and tearing-down as "merged"; a refused stamp changes nothing.
Legal(from, to) ==
  \/ from = to
  \/ to = "merging" /\ from \in {"parked", "failed"}
  \/ to = "merged" /\ from \in {"parked", "merging", "stranded"}
  \/ to = "completed" /\ from \in {"parked", "merged", "failed", "stranded"}
  \/ to = "stranded" /\ from \in {"parked", "merging", "merged"}
  \/ to = "failed" /\ from \in {"parked", "merging", "merged"}
  \/ to = "parked" /\ from = "merging"
  \/ to = "cancelled" /\ from = "parked"

Stamp(c, to) == run' = [run EXCEPT ![c].life = IF Legal(@, to) THEN to ELSE @]

May(what, bound) == spent[what] < bound
Spend(what)      == spent' = [spent EXCEPT ![what] = @ + 1]
Fault            == May("faults", MaxFaults) /\ Spend("faults")

------------------------------------------------------------------------------
(***************************************************************************)
(* The chain of repository mutations.                                      *)
(***************************************************************************)
Op(kind, c, by) == [kind |-> kind, c |-> c, by |-> by, tip |-> 0]

\* enqueueRepositoryMutation
Enqueue(op) == queue' = Append(queue, op) /\ UNCHANGED step

Running(kind, s) == Up /\ queue # <<>> /\ Head(queue).kind = kind /\ step = s

\* The mutation settles: the next one starts, and whoever awaited this one goes on.
Release(after) ==
  LET op == Head(queue) IN
  /\ queue' = Tail(queue)
  /\ step' = "start"
  /\ task' = IF op.by = "task" THEN [task EXCEPT ![op.c] = after] ELSE task
  /\ decision' = IF op.by = "accept" THEN [decision EXCEPT ![op.c] = "none"] ELSE decision

\* ... and without a write: the snapshot it was given is of no more use.
Give(after) ==
  /\ Release(after)
  /\ exact' = exact \ {<<Head(queue).by, Head(queue).c>>}
  /\ UNCHANGED contract

Proceed(s) == step' = s /\ UNCHANGED <<queue, task, decision>>

------------------------------------------------------------------------------
(***************************************************************************)
(* The producing run and its post-terminal task.                           *)
(***************************************************************************)
AgentCommits(c) ==
  /\ Attached /\ Live(c) /\ branch[c].tip < MaxCommits
  /\ branch' = [branch EXCEPT ![c].tip = @ + 1]
  /\ UNCHANGED <<contract, run, worktree, head, merges, held, task, decision, chain, reclaim,
                 exact, boot, spent>>

\* submitDeliverable, which asks for a row and not for a runtime.
SubmitDeliverable(c) ==
  /\ Up /\ Live(c)
  /\ branch[c].tip > 0
  /\ contract[c].landing \notin {"abandoning", "abandoned"}
  /\ Write(c, [contract[c] EXCEPT !.seal = branch[c].tip], {})
  /\ run' = [run EXCEPT ![c].delivered = TRUE]
  /\ UNCHANGED <<worktree, git, held, task, decision, chain, reclaim, boot, spent>>

\* settleTerminal: delivery is the sole done-signal.
RunEnds(c, status) ==
  /\ Attached /\ Live(c)
  /\ status = "completed" => run[c].delivered
  /\ run' = [run EXCEPT ![c].status = status,
                        ![c].life = IF status = "failed" /\ Legal(@, "failed")
                                    THEN "failed" ELSE @]
  /\ task' = [task EXCEPT ![c] = "retire"]
  /\ UNCHANGED <<contract, worktree, git, held, decision, chain, reclaim, exact, boot, spent>>

\* killRun: the runtime, if the row has one, is retired, and nothing is verified.
KillRun(c) ==
  /\ Up /\ Live(c) /\ Fault
  /\ run' = [run EXCEPT ![c].status = "cancelled",
                        ![c].life = IF Legal(@, "cancelled") THEN "cancelled" ELSE @]
  /\ task' = [task EXCEPT ![c] = IF Attached THEN "dispose" ELSE @]
  /\ UNCHANGED <<contract, worktree, git, held, decision, chain, reclaim, exact, boot>>

\* session.dispose ends; one that fails keeps the run from ever being quiescent.
Disposed(c) ==
  /\ Up /\ task[c] = "dispose"
  /\ \/ task' = [task EXCEPT ![c] = "none"] /\ UNCHANGED spent
     \/ task' = [task EXCEPT ![c] = "failed"] /\ Fault
  /\ UNCHANGED <<contract, run, worktree, git, held, decision, chain, reclaim, exact, boot>>

\* verifyAndLand begins: a completed run has its predicates evaluated on the row as
\* it is now, a failed one needs none and never touches a settled contract.
StartVerification(c, status) ==
  IF status = "completed"
  THEN /\ exact' = exact \cup {<<"task", c>>}
       /\ task' = [task EXCEPT ![c] = "verify"]
       /\ UNCHANGED contract
  ELSE /\ IF contract[c].landing \in Settled
          THEN UNCHANGED <<contract, exact>>
          ELSE Write(c, Judged(c, "failed"), {})
       /\ task' = [task EXCEPT ![c] = "none"]

\* The runtime of an ended run is retired.  A repository lease that cannot be had
\* defers the verification of a completed run.
Retire(c) ==
  /\ Up /\ task[c] = "retire"
  /\ \/ StartVerification(c, run[c].status) /\ UNCHANGED spent
     \/ /\ Fault
        /\ \E after \in {"failed"} \cup (IF run[c].status = "completed" THEN {"none"} ELSE {}) :
             task' = [task EXCEPT ![c] = after]
        /\ UNCHANGED <<contract, exact>>
  /\ UNCHANGED <<run, worktree, git, held, decision, chain, reclaim, boot>>

\* The predicates are evaluated.  The outcome of an evaluation whose evidence moved
\* meanwhile is discarded; a passed one lands by itself under the auto-merge policy
\* unless something blocks it.
VerifyEnds(c, outcome) ==
  /\ Up /\ task[c] = "verify"
  /\ \/ /\ contract[c].landing = "landed" \/ <<"task", c>> \notin exact
        /\ task' = [task EXCEPT ![c] = "none"]
        /\ exact' = exact \ {<<"task", c>>}
        /\ UNCHANGED <<contract, run, chain>>
     \/ /\ contract[c].landing # "landed" /\ <<"task", c>> \in exact
        /\ task' = [task EXCEPT ![c] = "none"]
        /\ Write(c, Judged(c, outcome), {})
        /\ UNCHANGED <<run, chain>>
     \/ /\ contract[c].landing # "landed" /\ <<"task", c>> \in exact
        /\ c \in AutoMerge /\ outcome = "passed"
        /\ Write(c, Judged(c, outcome), {"task"})
        /\ Enqueue(Op("land", c, "task"))
        /\ task' = [task EXCEPT ![c] = "land"]
        /\ UNCHANGED run
  /\ UNCHANGED <<worktree, git, held, decision, reclaim, boot, spent>>

------------------------------------------------------------------------------
(***************************************************************************)
(* pc_review_contract and the continuation.                                *)
(***************************************************************************)
\* Mutant: a settled contract is reviewed again.
ReviewableSettled(c) ==
  /\ Up
  /\ decision[c] = "none" /\ Quiescent(c)

\* The route is open as soon as the server listens, before the recovery passes end.
Reviewable(c) ==
  /\ Up
  /\ decision[c] = "none" /\ Quiescent(c)
  /\ contract[c].landing \in Reopenable

\* Reject: the verdict is written at once.
Reject(c) ==
  /\ Reviewable(c)
  /\ Write(c, Judged(c, "failed"), {})
  /\ UNCHANGED <<run, worktree, git, held, task, decision, chain, reclaim, boot, spent>>

\* Accept: the row is read, then the target branch.
Accept(c) ==
  /\ Reviewable(c)
  /\ decision' = [decision EXCEPT ![c] = "reading"]
  /\ exact' = exact \cup {<<"accept", c>>}
  /\ UNCHANGED <<contract, run, worktree, git, held, task, chain, reclaim, boot, spent>>

\* The target has been read.  A row that moved meanwhile, or a read that fails, refuses
\* the verdict; else the accept is the verification of the seal, and its base is the
\* target read.
AcceptReads(c) ==
  /\ Up /\ decision[c] = "reading"
  /\ \/ /\ <<"accept", c>> \in exact
        /\ Write(c, [Judged(c, "passed") EXCEPT !.base = head], {"accept"})
        /\ \/ /\ Enqueue(Op("land", c, "accept"))
              /\ decision' = [decision EXCEPT ![c] = "landing"]
              /\ UNCHANGED spent
           \/ /\ Fault
              /\ decision' = [decision EXCEPT ![c] = "none"]
              /\ UNCHANGED chain
     \/ /\ IF <<"accept", c>> \in exact THEN Fault ELSE UNCHANGED spent
        /\ decision' = [decision EXCEPT ![c] = "none"]
        /\ exact' = exact \ {<<"accept", c>>}
        /\ UNCHANGED <<contract, chain>>
  /\ UNCHANGED <<run, worktree, git, held, task, reclaim, boot>>

\* Mutant: the landing of the contract is not looked at again after the lease was awaited.
ContinueWhileSettling(c) ==
  /\ Attached /\ c \in Continued
  /\ decision[c] = "none" /\ Quiescent(c)
  /\ worktree[c].dir = "registered" /\ worktree[c].row \in {"active", "stranded"}
  /\ run' = [run EXCEPT ![c] = [status |-> "live", delivered |-> FALSE, life |-> "parked"]]
  /\ Write(c, contract[c], {})
  /\ UNCHANGED <<worktree, git, held, task, decision, chain, reclaim, boot, spent>>

\* dispatchContinue: a new run takes over the contract and its worktree.  The seal,
\* its verdict and its base stay on the row.
Continue(c) ==
  /\ Attached /\ c \in Continued
  /\ decision[c] = "none" /\ Quiescent(c)
  /\ contract[c].landing \in Reopenable
  /\ worktree[c].dir = "registered" /\ worktree[c].row \in {"active", "stranded"}
  /\ run' = [run EXCEPT ![c] = [status |-> "live", delivered |-> FALSE, life |-> "parked"]]
  /\ Write(c, contract[c], {})
  /\ UNCHANGED <<worktree, git, held, task, decision, chain, reclaim, boot, spent>>

------------------------------------------------------------------------------
(***************************************************************************)
(* landAcceptedContractLocked, one stretch between Git commands a step.    *)
(***************************************************************************)
\* What the mutation still holds: the snapshot it was given, kept by its own writes.
Owns(op) == <<op.by, op.c>> \in exact

\* settleLanding: only the exact pending reservation is settled.
CanSettle(op) == contract[op.c].landing = "pending" /\ Owns(op) /\ ~Live(op.c)

\* The landing is parked or landed, or its receipt lost the comparison and nothing
\* is written; `life` is stamped either way.
SettleParked(op, status, life) ==
  /\ IF CanSettle(op)
     THEN /\ Write(op.c, [contract[op.c] EXCEPT !.landing = status], {})
          /\ Release("none")
     ELSE Give("none")
  /\ Stamp(op.c, life)

SettleLanded(op, tip) ==
  IF CanSettle(op)
  THEN /\ Write(op.c, [contract[op.c] EXCEPT !.landing = "landed", !.landed = tip], {})
       /\ Stamp(op.c, "merged")
       /\ Proceed("remove")
  ELSE Give("none") /\ UNCHANGED run

\* The row is read again under the lock and reserved; a lease that cannot be had
\* throws, which fails the task that awaited the landing.
LandStarts ==
  LET op == Head(queue)
      row == contract[op.c] IN
  /\ Running("land", "start")
  /\ \/ /\ ~Owns(op) \/ row.landing \in Settled \/ row.verif # "passed" \/ Live(op.c)
        /\ Give("none") /\ UNCHANGED spent
     \/ /\ Owns(op) /\ row.landing \notin Settled /\ row.verif = "passed" /\ ~Live(op.c)
        /\ IF row.landing = "pending"
           THEN UNCHANGED <<contract, exact>>
           ELSE Write(op.c, [row EXCEPT !.landing = "pending"], {op.by})
        /\ Proceed("check") /\ UNCHANGED spent
     \/ Fault /\ Give("failed")
  /\ UNCHANGED <<run, worktree, git, held, reclaim, boot>>

\* The branch must still stand at the seal; a branch the target took since the base
\* was verified is not merged again; the target must still stand at that base.  A
\* failed read of the branch skips its check, a failed probe answers no, and without
\* the target nothing lands.
LandChecks ==
  LET op == Head(queue)
      row == contract[op.c]
      tip == branch[op.c].tip IN
  /\ Running("land", "check")
  /\ \E sealRead, probed, targetRead \in BOOLEAN :
       LET moved == sealRead /\ row.seal > 0 /\ tip # row.seal
           found == ~moved /\ probed /\ AlreadyLanded(op.c)
           open  == ~moved /\ ~found IN
       /\ IF sealRead /\ probed /\ targetRead THEN UNCHANGED spent ELSE Fault
       /\ \/ moved /\ SettleParked(op, "failed", "failed")
          \/ found /\ SettleLanded(op, tip)
          \/ open /\ ~targetRead /\ SettleParked(op, "failed", "failed")
          \/ open /\ targetRead /\ head # row.base /\ SettleParked(op, "stale-base", "parked")
          \/ /\ open /\ targetRead /\ head = row.base
             /\ Stamp(op.c, "merging")
             /\ Proceed("merge") /\ UNCHANGED <<contract, exact>>
  /\ UNCHANGED <<worktree, git, held, reclaim, boot>>

\* Mutant: landBranch merges without reading the target again.
LandMergesUnchecked ==
  LET op == Head(queue)
      tip == branch[op.c].tip IN
  /\ Running("land", "merge")
  /\ merges' = merges \cup {[contract |-> op.c, tip |-> tip, onto |-> head]}
  /\ head' = head + 1
  /\ queue' = [queue EXCEPT ![1].tip = tip]
  /\ step' = "record"
  /\ ForgetApprovals(Contract)
  /\ UNCHANGED <<contract, run, branch, task, decision, worktree, held, reclaim, boot, spent>>

\* landBranch: the target is read again and the branch is merged by its name.  What
\* others do between those last two Git commands is not modelled.  A merge of nothing
\* that the target lacks moves nothing.
LandMerges ==
  LET op == Head(queue)
      tip == branch[op.c].tip IN
  /\ Running("land", "merge")
  /\ \/ /\ head # contract[op.c].base
        /\ SettleParked(op, "stale-base", "parked")
        /\ UNCHANGED <<git, spent>>
     \/ /\ \/ SettleParked(op, "conflict", "parked") /\ UNCHANGED spent
           \/ SettleParked(op, "failed", "failed") /\ Fault
        /\ UNCHANGED git
     \/ /\ head = contract[op.c].base
        /\ IF ~Ahead(op.c, head)
           THEN UNCHANGED git
           ELSE /\ merges' = merges \cup {[contract |-> op.c, tip |-> tip, onto |-> head]}
                /\ head' = head + 1
                /\ UNCHANGED branch
        /\ queue' = [queue EXCEPT ![1].tip = tip]
        /\ step' = "record"
        /\ ForgetApprovals(Contract)
        /\ UNCHANGED <<contract, run, task, decision, spent>>
  /\ UNCHANGED <<worktree, held, reclaim, boot>>

\* The receipt of the merge is read and written before anything is torn down.
LandRecords ==
  LET op == Head(queue) IN
  /\ Running("land", "record")
  /\ \/ SettleLanded(op, op.tip) /\ UNCHANGED spent
     \/ SettleParked(op, "failed", "failed") /\ Fault
  /\ UNCHANGED <<worktree, git, held, reclaim, boot>>

------------------------------------------------------------------------------
(***************************************************************************)
(* settleLandedCleanup, run by the landing itself and by the attempts of   *)
(* the janitor, of the retries and of the boot: the directory, then the    *)
(* branch, then the row, then the sweep of what others left behind.        *)
(***************************************************************************)
At(actor, c, s) ==
  IF actor = "op"
  THEN Running("land", s) /\ Head(queue).c = c
  ELSE Up /\ attempt[c] = s

Goto(actor, c, s) ==
  IF actor = "op"
  THEN Proceed(s) /\ UNCHANGED reclaim
  ELSE attempt' = [attempt EXCEPT ![c] = s] /\ UNCHANGED <<chain, retry, task, decision>>

\* A failed reclaim strands the run, it never completes it, and arms a retry; one
\* that a retry began may have been the last of its train.
Cleaned(actor, c, ok) ==
  /\ Stamp(c, IF ok THEN "completed" ELSE "stranded")
  /\ \E next \in (IF ok THEN {"none"}
                 ELSE IF actor = "attempt" /\ retry[c] = "fired" THEN {"armed", "none"}
                 ELSE {"armed"}) :
       retry' = [retry EXCEPT ![c] = next]
  /\ IF actor = "op"
     THEN Release("none") /\ UNCHANGED attempt
     ELSE attempt' = [attempt EXCEPT ![c] = "none"] /\ UNCHANGED <<chain, task, decision>>

SetDir(c, dir) == worktree' = [worktree EXCEPT ![c].dir = dir]

\* git worktree remove unregisters a directory even when files in it cannot be
\* deleted; one that is there without a registration is left to the sweep.
CleanupRemoves(actor, c) ==
  LET at == worktree[c].dir
      stale == branch[c].tip # contract[c].landed IN
  /\ At(actor, c, "remove")
  /\ \/ /\ at = "loose" \/ (at = "registered" /\ stale)
        /\ Cleaned(actor, c, FALSE) /\ UNCHANGED <<worktree, spent>>
     \/ /\ Fault
        /\ Cleaned(actor, c, FALSE) /\ UNCHANGED worktree
     \/ /\ at = "registered" /\ ~stale /\ c \in held
        /\ SetDir(c, "loose")
        /\ Cleaned(actor, c, FALSE) /\ UNCHANGED spent
     \/ /\ at = "absent" \/ (at = "registered" /\ ~stale /\ c \notin held)
        /\ SetDir(c, "absent")
        /\ Goto(actor, c, "branch") /\ UNCHANGED <<run, spent>>
  /\ UNCHANGED <<contract, git, held, exact, boot>>

\* Mutant: the branch is deleted wherever it stands.
CleanupDeletesAnyTip(actor, c) ==
  /\ At(actor, c, "branch")
  /\ branch' = [branch EXCEPT ![c].there = FALSE]
  /\ Goto(actor, c, "row")
  /\ UNCHANGED <<contract, run, worktree, head, merges, held, exact, boot, spent>>

\* The branch is deleted only where the receipt says it stands.
CleanupDeletes(actor, c) ==
  /\ At(actor, c, "branch")
  /\ IF branch[c].there /\ branch[c].tip # contract[c].landed
     THEN Cleaned(actor, c, FALSE) /\ UNCHANGED branch
     ELSE /\ branch' = [branch EXCEPT ![c].there = FALSE]
          /\ Goto(actor, c, "row") /\ UNCHANGED run
  /\ UNCHANGED <<contract, worktree, head, merges, held, exact, boot, spent>>

CleanupDestroysRow(actor, c) ==
  /\ At(actor, c, "row")
  /\ worktree' = [worktree EXCEPT ![c].row = "destroyed"]
  /\ Goto(actor, c, "sweep")
  /\ UNCHANGED <<contract, run, git, held, exact, boot, spent>>

\* sweepOrphanedWorktreeDirs: a directory git does not know, that no row, run or
\* approval keeps, is deleted, and its row destroyed.
Orphans ==
  {c \in Contract :
    /\ worktree[c].dir = "loose"
    /\ worktree[c].row # "active" /\ ~(worktree[c].row = "stranded" /\ Awaiting(c))
    /\ ~Live(c) /\ contract[c].landing # "abandoning" /\ c \notin held}

SweepOrphans ==
  worktree' = [c \in Contract |->
    IF c \in Orphans THEN [dir |-> "absent", row |-> "destroyed"] ELSE worktree[c]]

CleanupSweeps(actor, c) ==
  /\ At(actor, c, "sweep")
  /\ SweepOrphans
  /\ Cleaned(actor, c, TRUE)
  /\ UNCHANGED <<contract, git, held, exact, boot, spent>>

\* Mutant: only worktree rows are looked at.
UnreclaimedRow(c) == contract[c].landing = "landed" /\ worktree[c].row \in {"active", "stranded"}

\* listContractsLandedTeardownIncomplete: a worktree that survived, or a producer
\* whose lifecycle is not completed.
Unreclaimed(c) ==
  /\ contract[c].landing = "landed"
  /\ \/ worktree[c].row \in {"active", "stranded"}
     \/ run[c].life \in {"parked", "failed", "merging", "merged", "stranded"}

\* attemptLandedTeardown: callers for one contract share one attempt.
StartAttempt(c) ==
  /\ attempt' = [attempt EXCEPT ![c] = "remove"]
  /\ Stamp(c, "merged")

\* recoverIncompleteTeardowns, by the interval and by every run that settles, those
\* the sealed pass settles too.
Teardown(c) ==
  /\ stage \in {"attached", "sealed"} /\ attempt[c] = "none" /\ Unreclaimed(c)
  /\ StartAttempt(c)
  /\ UNCHANGED <<contract, worktree, git, held, task, decision, chain, retry, exact, boot,
                 spent>>

\* runTeardownRetry, which asks nothing but that the contract is landed.
Retry(c) ==
  /\ Up /\ attempt[c] = "none" /\ retry[c] = "armed"
  /\ retry' = [retry EXCEPT ![c] = "fired"]
  /\ StartAttempt(c)
  /\ UNCHANGED <<contract, worktree, git, held, task, decision, chain, exact, boot, spent>>

------------------------------------------------------------------------------
(***************************************************************************)
(* The stranded scan and the orphan sweep, at boot and by the janitor.     *)
(***************************************************************************)
\* reconcileStrandedWorktrees, one synchronous pass over the rows.
Reconciled ==
  LET there(c)  == worktree[c].dir # "absent"
      strand(c) == /\ worktree[c].row = "active"
                   /\ contract[c].landing # "abandoning" /\ ~Awaiting(c)
                   /\ ~there(c) \/ ~Live(c)
      revive(c) == /\ worktree[c].row = "stranded"
                   /\ there(c) /\ (Live(c) \/ Awaiting(c))
      resolve(c) == /\ worktree[c].row = "stranded"
                    /\ ~there(c) /\ contract[c].landing = "abandoned" IN
  /\ worktree' = [c \in Contract |->
       [worktree[c] EXCEPT !.row = IF strand(c) THEN "stranded"
                                   ELSE IF revive(c) THEN "active"
                                   ELSE IF resolve(c) THEN "destroyed" ELSE @]]
  /\ run' = [c \in Contract |->
       [run[c] EXCEPT !.life = IF strand(c) /\ Legal(@, "stranded") THEN "stranded" ELSE @]]

JanitorReconciles ==
  /\ Attached
  /\ Reconciled
  /\ UNCHANGED <<contract, git, held, task, decision, chain, reclaim, exact, boot, spent>>

JanitorSweeps ==
  /\ Attached
  /\ SweepOrphans
  /\ UNCHANGED <<contract, run, git, held, task, decision, chain, reclaim, exact, boot, spent>>

------------------------------------------------------------------------------
(***************************************************************************)
(* Abandonment, approved in the browser on a preview.                      *)
(***************************************************************************)
ApproveAbandonment(c) ==
  /\ Attached /\ c \in Unwanted
  /\ contract[c].landing \in Reopenable \cup {"abandoning"}
  /\ \A i \in 1..Len(queue) : queue[i] # Op("abandon", c, "browser")
  /\ Enqueue(Op("abandon", c, "browser"))
  /\ exact' = exact \cup {<<"browser", c>>}
  /\ UNCHANGED <<contract, run, worktree, git, held, task, decision, reclaim, boot, spent>>

\* inspectContractAbandonmentLocked with the approval's own checks.  The branch must
\* descend from the verified base: it does from the one it was provisioned on.
Abandonable(c) ==
  /\ contract[c].landing \in Reopenable
  /\ Quiescent(c) /\ decision[c] = "none"
  /\ worktree[c].dir = "registered" /\ worktree[c].row \in {"active", "stranded"}
  /\ contract[c].base = 0 /\ ~AlreadyLanded(c)

\* An approval is written down before anything is removed; one that is already
\* written is driven again.  A failed read refuses it.
AbandonStarts ==
  LET op == Head(queue)
      c == op.c IN
  /\ Running("abandon", "start")
  /\ \/ /\ op.by = "browser" /\ Owns(op) /\ Abandonable(c)
        /\ Write(c, [contract[c] EXCEPT !.landing = "abandoning", !.approved = branch[c].tip], {})
        /\ Proceed("remove") /\ UNCHANGED spent
     \/ /\ contract[c].landing = "abandoning" /\ Quiescent(c) /\ decision[c] = "none"
        /\ Proceed("remove") /\ UNCHANGED <<contract, exact, spent>>
     \/ /\ \/ ~Owns(op) \/ ~Abandonable(c)
        /\ contract[c].landing = "abandoning" => ~(Quiescent(c) /\ decision[c] = "none")
        /\ Give("none") /\ UNCHANGED spent
     \/ Fault /\ Give("none")
  /\ UNCHANGED <<run, worktree, git, held, reclaim, boot>>

Drifted(c) == branch[c].tip # contract[c].approved

AbandonRemoves ==
  LET c == Head(queue).c
      stuck == worktree[c].dir # "absent" /\ c \in held IN
  /\ Running("abandon", "remove")
  /\ IF Drifted(c)
     THEN Give("none") /\ UNCHANGED worktree
     ELSE IF stuck
     THEN SetDir(c, "loose") /\ Give("none")
     ELSE SetDir(c, "absent") /\ Proceed("row") /\ UNCHANGED <<contract, exact>>
  /\ UNCHANGED <<run, git, held, reclaim, boot, spent>>

\* The branch must have been preserved where it was approved.
AbandonDestroysRow ==
  LET c == Head(queue).c IN
  /\ Running("abandon", "row")
  /\ IF Drifted(c)
     THEN Give("none") /\ UNCHANGED worktree
     ELSE /\ worktree' = [worktree EXCEPT ![c].row = "destroyed"]
          /\ Proceed("settle") /\ UNCHANGED <<contract, exact>>
  /\ UNCHANGED <<run, git, held, reclaim, boot, spent>>

AbandonSettles ==
  LET c == Head(queue).c IN
  /\ Running("abandon", "settle")
  /\ Write(c, [contract[c] EXCEPT !.landing = "abandoned"], {})
  /\ Release("none")
  /\ UNCHANGED <<run, worktree, git, held, reclaim, boot, spent>>

------------------------------------------------------------------------------
(***************************************************************************)
(* The process stops, and recovers in ordered passes before it attaches.   *)
(***************************************************************************)
Crash ==
  /\ Up /\ May("crashes", MaxCrashes) /\ Spend("crashes")
  /\ stage' = "down" /\ todo' = {}
  /\ task' = [c \in Contract |-> "none"]
  /\ decision' = [c \in Contract |-> "none"]
  /\ queue' = <<>> /\ step' = "start"
  /\ attempt' = [c \in Contract |-> "none"]
  /\ retry' = [c \in Contract |-> "none"]
  /\ exact' = {}
  /\ UNCHANGED <<contract, run, worktree, git, held>>

\* A live run that delivered is left to the sealed pass, any other one is failed and
\* the verification of its contract parked.
Lost(c) == Live(c) /\ ~run[c].delivered

Sealed(c) ==
  \/ Live(c) /\ run[c].delivered
  \/ /\ run[c].status \in {"completed", "failed"} /\ run[c].delivered
     /\ contract[c].seal > 0 /\ contract[c].verif = "none" /\ contract[c].landing \notin Settled

Boot ==
  /\ stage = "down"
  /\ stage' = "sealed"
  /\ todo' = {c \in Contract : Sealed(c)}
  /\ contract' = [c \in Contract |->
       IF Lost(c) /\ contract[c].landing = "none"
       THEN [contract[c] EXCEPT !.verif = "pending"] ELSE contract[c]]
  /\ run' = [c \in Contract |->
       IF Lost(c) THEN [run[c] EXCEPT !.status = "failed",
                                      !.life = IF Legal(@, "failed") THEN "failed" ELSE @]
       ELSE run[c]]
  /\ UNCHANGED <<worktree, git, held, task, decision, chain, reclaim, exact, spent>>

\* Each pass awaits what it started.
Settling ==
  \/ \E c \in Contract : task[c] \in {"verify", "land"}
  \/ \E i \in 1..Len(queue) : queue[i].by = "boot"
  \/ stage = "teardowns" /\ \E c \in Contract : attempt[c] # "none"

\* Mutant: a reservation is not driven again by the boot.
TodoSkippingLandings(s) ==
  CASE s = "abandonments" -> {c \in Contract : contract[c].landing = "abandoning"}
    [] s = "teardowns"    -> {c \in Contract : Unreclaimed(c)}
    [] OTHER              -> {}

Todo(s) ==
  CASE s = "landings"     -> {c \in Contract : contract[c].landing = "pending"}
    [] s = "abandonments" -> {c \in Contract : contract[c].landing = "abandoning"}
    [] s = "teardowns"    -> {c \in Contract : Unreclaimed(c)}
    [] OTHER              -> {}

PassEnds ==
  /\ stage \in {"sealed", "landings", "abandonments", "teardowns"}
  /\ todo = {} /\ ~Settling
  /\ stage' = CASE stage = "sealed" -> "landings" [] stage = "landings" -> "abandonments"
                [] stage = "abandonments" -> "teardowns" [] OTHER -> "scan"
  /\ todo' = Todo(stage')
  /\ UNCHANGED <<contract, run, worktree, git, held, task, decision, chain, reclaim, exact, spent>>

\* The list was read when the pass began; the turn of c comes when the contracts listed
\* before it, of this repository or of another, have been awaited.
Handle(c, s) == stage = s /\ c \in todo /\ ~Settling /\ todo' = todo \ {c} /\ UNCHANGED stage

\* recoverSealedRuns: delivery is the done-signal, the run completes and what it
\* sealed is verified, unless no lease can be had.
RecoverSealed(c) ==
  /\ Handle(c, "sealed")
  /\ LET status == IF Live(c) THEN "completed" ELSE run[c].status IN
     /\ run' = [run EXCEPT ![c].status = status]
     /\ \/ /\ contract[c].landing = "landed" \/ status = "cancelled"
           /\ UNCHANGED <<contract, task, exact, spent>>
        \/ /\ contract[c].landing # "landed" /\ status # "cancelled"
           /\ StartVerification(c, status) /\ UNCHANGED spent
        \/ status = "completed" /\ Fault /\ UNCHANGED <<contract, task, exact>>
  /\ UNCHANGED <<worktree, git, held, decision, chain, reclaim>>

\* recoverPendingLandings, recoverApprovedAbandonments: the mutation is queued again;
\* without a lease it waits for the next boot.
RecoverMutation(c, s, kind, status) ==
  /\ Handle(c, s)
  /\ \/ /\ contract[c].landing = status
        /\ Enqueue(Op(kind, c, "boot"))
        /\ exact' = exact \cup {<<"boot", c>>}
        /\ UNCHANGED spent
     \/ contract[c].landing # status /\ UNCHANGED <<chain, exact, spent>>
     \/ Fault /\ UNCHANGED <<chain, exact>>
  /\ UNCHANGED <<contract, run, worktree, git, held, task, decision, reclaim>>

\* recoverIncompleteTeardowns
RecoverTeardown(c) ==
  /\ Handle(c, "teardowns")
  /\ StartAttempt(c)
  /\ UNCHANGED <<contract, worktree, git, held, task, decision, chain, retry, exact, spent>>

BootReconciles ==
  /\ stage = "scan"
  /\ Reconciled
  /\ stage' = "sweep"
  /\ UNCHANGED <<contract, git, held, task, decision, chain, reclaim, exact, todo, spent>>

Attach ==
  /\ stage = "sweep"
  /\ SweepOrphans
  /\ stage' = "attached"
  /\ UNCHANGED <<contract, run, git, held, task, decision, chain, reclaim, exact, todo, spent>>

------------------------------------------------------------------------------
(***************************************************************************)
(* Everyone else: people working in the repository, processes with files   *)
(* of a worktree open.                                                     *)
(***************************************************************************)
OutsideCommit ==
  /\ May("outside", MaxOutside) /\ Spend("outside")
  /\ head' = head + 1
  /\ ForgetApprovals(Contract)
  /\ UNCHANGED <<contract, run, worktree, branch, merges, held, task, decision, chain, reclaim, boot>>

StrayCommit(c) ==
  /\ May("outside", MaxOutside) /\ Spend("outside")
  /\ branch[c].there /\ branch[c].tip < MaxCommits
  /\ branch' = [branch EXCEPT ![c].tip = @ + 1]
  /\ ForgetApprovals({c})
  /\ UNCHANGED <<contract, run, worktree, head, merges, held, task, decision, chain, reclaim, boot>>

Hold(c) ==
  /\ May("outside", MaxOutside) /\ Spend("outside")
  /\ c \notin held /\ worktree[c].dir = "registered"
  /\ held' = held \cup {c}
  /\ UNCHANGED <<contract, run, worktree, git, task, decision, chain, reclaim, exact, boot>>

LetGo(c) ==
  /\ c \in held
  /\ held' = held \ {c}
  /\ UNCHANGED <<contract, run, worktree, git, task, decision, chain, reclaim, exact, boot, spent>>

------------------------------------------------------------------------------
Producer(c) ==
  \/ AgentCommits(c)
  \/ SubmitDeliverable(c)
  \/ \E status \in {"completed", "failed"} : RunEnds(c, status)
  \/ KillRun(c)
  \/ Continue(c)

Orchestrator(c) == Accept(c) \/ Reject(c) \/ ApproveAbandonment(c)

PostTerminal(c) ==
  \/ Disposed(c)
  \/ Retire(c)
  \/ \E outcome \in {"passed", "failed", "pending"} : VerifyEnds(c, outcome)

Process(c) == PostTerminal(c) \/ AcceptReads(c) \/ Teardown(c) \/ Retry(c)

Chain ==
  \/ LandStarts \/ LandChecks \/ LandMerges \/ LandRecords
  \/ AbandonStarts \/ AbandonRemoves \/ AbandonDestroysRow \/ AbandonSettles

Cleanup(actor, c) ==
  \/ CleanupRemoves(actor, c) \/ CleanupDeletes(actor, c)
  \/ CleanupDestroysRow(actor, c) \/ CleanupSweeps(actor, c)

Recovery ==
  \/ Boot \/ PassEnds \/ BootReconciles \/ Attach
  \/ \E c \in Contract :
       \/ RecoverSealed(c) \/ RecoverTeardown(c)
       \/ RecoverMutation(c, "landings", "land", "pending")
       \/ RecoverMutation(c, "abandonments", "abandon", "abandoning")

Others == OutsideCommit \/ \E c \in Contract : StrayCommit(c) \/ Hold(c) \/ LetGo(c)

Next ==
  \/ Chain \/ Recovery \/ JanitorReconciles \/ JanitorSweeps \/ Crash \/ Others
  \/ \E c \in Contract :
       \/ Producer(c) \/ Orchestrator(c) \/ Process(c)
       \/ \E actor \in {"op", "attempt"} : Cleanup(actor, c)

Spec == Init /\ [][Next]_vars

\* The promises the process waits for settle, the boot runs, the interval of the
\* janitor fires and files are let go of; nobody has to commit, review, continue or
\* approve anything.  A recovery pass awaits the attempts it began or joined, not those
\* of retries that fire later: it goes on even if it never sees them all at rest.
Fairness ==
  /\ WF_vars(Chain) /\ SF_vars(Recovery)
  /\ WF_vars(JanitorReconciles) /\ WF_vars(JanitorSweeps)
  /\ \A c \in Contract :
       /\ WF_vars(PostTerminal(c)) /\ WF_vars(AcceptReads(c))
       /\ WF_vars(Teardown(c)) /\ WF_vars(Retry(c)) /\ WF_vars(LetGo(c))
       /\ \A actor \in {"op", "attempt"} : WF_vars(Cleanup(actor, c))

FairSpec == Spec /\ Fairness

------------------------------------------------------------------------------
Landings == [seal : Commit, verif : {"none", "pending", "passed", "failed"}, judged : Commit,
             base : Nat, landing : Status, landed : Commit, approved : Commit]
Runs     == [status : {"live", "completed", "failed", "cancelled"}, delivered : BOOLEAN, life : Life]
Branches == [tip : Commit, there : BOOLEAN]
Merges   == [contract : Contract, tip : Commit, onto : Nat]
Trees    == [dir : {"registered", "loose", "absent"}, row : {"active", "stranded", "destroyed"}]
Ops      == [kind : {"land", "abandon"}, c : Contract, by : Reader, tip : Commit]
Tasks    == {"none", "retire", "dispose", "verify", "land", "failed"}
Steps    == {"start", "check", "merge", "record", "remove", "branch", "row", "sweep", "settle"}

TypeOK ==
  /\ contract \in [Contract -> Landings]
  /\ run \in [Contract -> Runs]
  /\ branch \in [Contract -> Branches]
  /\ head \in Nat
  /\ merges \subseteq Merges
  /\ worktree \in [Contract -> Trees]
  /\ held \subseteq Contract
  /\ task \in [Contract -> Tasks]
  /\ decision \in [Contract -> {"none", "reading", "landing"}]
  /\ queue \in Seq(Ops)
  /\ step \in Steps
  /\ attempt \in [Contract -> {"none"} \cup Steps]
  /\ retry \in [Contract -> {"none", "armed", "fired"}]
  /\ exact \subseteq Reader \X Contract
  /\ stage \in Stages
  /\ todo \subseteq Contract
  /\ spent \in [{"outside", "faults", "crashes"} -> Nat]

\* Work reaches the target branch only under a reservation of its contract, with
\* nothing of its producer running, on the very base the verdict on its seal was given
\* for, whatever lands, is rejected or is continued meanwhile; and under a verdict that
\* passed it, unless another writer has taken the row from the landing: then it gets
\* no receipt.
MergesVerifiedWork ==
  [][\A m \in merges' \ merges :
       LET row == contract[m.contract] IN
       /\ row.landing = "pending" /\ ~Live(m.contract)
       /\ row.judged = row.seal /\ (Owns(Head(queue)) => row.verif = "passed")
       /\ m.onto = row.base /\ m.tip >= row.seal]_vars

\* A branch the target holds whole is never taken for one that was not merged and
\* abandoned: its contract is landed, on the way to it, or parked where a later
\* verdict finds it, however its receipt was lost.
MergedWorkIsRecorded ==
  \A c \in Contract :
    branch[c].tip > 0 /\ Merged(c, branch[c].tip) =>
      contract[c].landing \notin {"none", "abandoning", "abandoned"}

\* A landing that was interrupted is driven again at boot, and converges
\* (repos/contracts.ts, listContractsPendingLanding): a re-drive that meets no fault
\* leaves no reservation behind.  The code does not keep it: the verification that the
\* boot fires for a sealed run writes over the reservation of a verdict that came before
\* recovery ended, and the re-drive then refuses the contract.
RedriveConverges ==
  [][LET op == Head(queue) IN
     /\ queue # <<>> /\ op.kind = "land" /\ op.by = "boot"
     /\ queue' = Tail(queue) /\ stage' = stage /\ spent.faults = 0
     => contract'[op.c].landing # "pending"]_vars

\* A branch is deleted only when everything on it is in the target and its contract
\* says so: a commit added after the merge, and abandoned work, keep their branch.
WorkIsNeverLost ==
  \A c \in Contract :
    ~branch[c].there => contract[c].landing = "landed" /\ (branch[c].tip = 0 \/ Merged(c, branch[c].tip))

\* The directory of a run that lives, and of work that waits for a verdict or a
\* landing, is there: no janitor, retry, boot pass or second request removes it.
WorktreeIsHeld ==
  \A c \in Contract :
    worktree[c].dir # "registered" =>
      ~Live(c) /\ contract[c].landing \in {"landed", "abandoning", "abandoned"}

\* The row of landed work outlives its branch: recovery destroys it only once the ref
\* is known to be gone (docs/worktree-lifecycle.md, Recovery).  The code does not keep
\* it: the orphan sweep destroys the row of a directory it deletes and never looks at
\* the branch.
RowOutlivesBranch ==
  \A c \in Contract :
    contract[c].landed > 0 /\ worktree[c].row = "destroyed" => ~branch[c].there

\* A run is completed only when directory, registration, branch and row are gone.
CompletedMeansReclaimed ==
  \A c \in Contract :
    run[c].life = "completed" =>
      /\ contract[c].landing = "landed"
      /\ worktree[c] = [dir |-> "absent", row |-> "destroyed"] /\ ~branch[c].there

\* A receipt is final: once landed or abandoned, no late verification, verdict,
\* second landing or recovery pass writes the contract again.
ReceiptIsFinal ==
  [][\A c \in Contract :
       contract[c].landing \in {"landed", "abandoned"} => contract'[c] = contract[c]]_vars

\* Landed work is reclaimed: directory, branch and row go, however often files were
\* held or the process stopped, unless the branch moved meanwhile.  After a fault the
\* code may leave it to the next boot or the janitor, and no further boot is certain.
LandedIsReclaimed ==
  \A c \in Contract :
    contract[c].landing = "landed" ~>
      \/ worktree[c] = [dir |-> "absent", row |-> "destroyed"] /\ ~branch[c].there
      \/ branch[c].tip # contract[c].landed
      \/ spent.faults > 0

\* A reservation is settled: no stop, refusal or lost comparison leaves a contract
\* pending, where no continuation, verdict or abandonment is let in.  A fault during
\* the recovery of the boot may, and so may a verification it fires over the
\* reservation (RedriveConverges).
ReservationSettles ==
  \A c \in Contract :
    contract[c].landing = "pending" ~>
      contract[c].landing # "pending" \/ contract[c].verif # "passed" \/ spent.faults > 0

=============================================================================
