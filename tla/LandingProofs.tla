---------------------------- MODULE LandingProofs ----------------------------
(***************************************************************************)
(* What Landing keeps true for any contracts and any bounds.               *)
(*                                                                         *)
(* LandingInv ties each caller to what it owns: a live run to an open      *)
(* contract, a mutation that still holds its row to the verdict it was     *)
(* reserved under, the mutation at the head of the chain to its receipt,   *)
(* and every attempt at a worktree to a landed contract.  Before it   *)
(* comes type correctness: what the helpers write (records, the queue, a   *)
(* run's stamp), one lemma per action, and the theorem.                    *)
(***************************************************************************)
EXTENDS Landing, TLAPS

------------------------------------------------------------------------------
(* Types.                                                                     *)

\* The records that the doors write.
LEMMA LandingShapes ==
  ASSUME NEW row \in Landings
  PROVE  /\ row.seal \in Commit /\ row.judged \in Commit /\ row.landed \in Commit
         /\ row.landing \in Status /\ row.base \in Nat
         /\ \A v \in {"none", "pending", "passed", "failed"} :
              /\ [row EXCEPT !.verif = v] \in Landings
              /\ [row EXCEPT !.verif = v, !.judged = row.seal] \in Landings
         /\ \A t \in Commit : [row EXCEPT !.seal = t] \in Landings
         /\ \A n \in Nat : [row EXCEPT !.base = n] \in Landings
         /\ \A s \in Status : /\ [row EXCEPT !.landing = s] \in Landings
                              /\ \A t \in Commit :
                                   /\ [row EXCEPT !.landing = s, !.landed = t] \in Landings
                                   /\ [row EXCEPT !.landing = s, !.approved = t] \in Landings
  BY DEF Landings

LEMMA RunShapes ==
  ASSUME NEW r \in Runs
  PROVE  /\ r.status \in {"live", "completed", "failed", "cancelled"}
         /\ r.life \in Life
         /\ [r EXCEPT !.delivered = TRUE] \in Runs
         /\ \A l \in Life : [r EXCEPT !.life = l] \in Runs
         /\ \A s \in {"live", "completed", "failed", "cancelled"} :
              /\ [r EXCEPT !.status = s] \in Runs
              /\ \A l \in Life : [r EXCEPT !.status = s, !.life = l] \in Runs
         /\ [status |-> "live", delivered |-> FALSE, life |-> "parked"] \in Runs
  BY DEF Runs, Life

LEMMA TreeShapes ==
  ASSUME NEW w \in Trees
  PROVE  /\ \A d \in {"registered", "loose", "absent"} : [w EXCEPT !.dir = d] \in Trees
         /\ \A r \in {"active", "stranded", "destroyed"} : [w EXCEPT !.row = r] \in Trees
         /\ w.row \in {"active", "stranded", "destroyed"}
         /\ [dir |-> "absent", row |-> "destroyed"] \in Trees
  BY DEF Trees

LEMMA OpShapes ==
  /\ \A kind \in {"land", "abandon"}, c \in Contract, by \in Reader : Op(kind, c, by) \in Ops
  /\ \A op \in Ops : /\ op.c \in Contract /\ op.by \in Reader /\ op.tip \in Commit
                     /\ op.kind \in {"land", "abandon"}
                     /\ \A t \in Commit : [op EXCEPT !.tip = t] \in Ops
<1>1. 0 \in Commit BY LandingAssumption DEF Commit
<1>2. \A kind \in {"land", "abandon"}, c \in Contract, by \in Reader : Op(kind, c, by) \in Ops
  BY <1>1 DEF Op, Ops
<1> QED BY <1>2 DEF Ops

LEMMA JudgedShape ==
  ASSUME TypeOK, NEW c \in Contract, NEW v \in {"none", "pending", "passed", "failed"}
  PROVE  Judged(c, v) \in Landings
  BY LandingShapes DEF TypeOK, Judged

\* What the helpers write.
LEMMA WriteTypes ==
  ASSUME TypeOK, NEW c \in Contract, NEW row \in Landings, NEW keep, Write(c, row, keep)
  PROVE  contract' \in [Contract -> Landings] /\ exact' \subseteq Reader \X Contract
  BY DEF TypeOK, Write

LEMMA StampTypes ==
  ASSUME TypeOK, NEW c \in Contract, NEW to \in Life, Stamp(c, to)
  PROVE  run' \in [Contract -> Runs]
<1> DEFINE l == IF Legal(run[c].life, to) THEN to ELSE run[c].life
<1>1. run[c] \in Runs BY DEF TypeOK
<1>2. l \in Life BY <1>1, RunShapes
<1>3. run' = [run EXCEPT ![c] = [run[c] EXCEPT !.life = l]]
  BY DEF Stamp, TypeOK
<1>4. [run[c] EXCEPT !.life = l] \in Runs BY <1>1, <1>2, RunShapes
<1> QED BY <1>3, <1>4 DEF TypeOK

LEMMA SpendTypes ==
  ASSUME TypeOK, NEW what \in {"outside", "faults", "crashes"}, Spend(what)
  PROVE  spent' \in [{"outside", "faults", "crashes"} -> Nat]
  BY DEF TypeOK, Spend

LEMMA FaultTypes ==
  ASSUME TypeOK, Fault
  PROVE  spent' \in [{"outside", "faults", "crashes"} -> Nat]
  BY SpendTypes DEF Fault

LEMMA HeadTypes ==
  ASSUME TypeOK, queue # <<>>
  PROVE  /\ Head(queue) \in Ops /\ Head(queue) = queue[1] /\ Len(queue) \in Nat /\ Len(queue) > 0
         /\ Head(queue).c \in Contract /\ Head(queue).tip \in Commit
         /\ Tail(queue) \in Seq(Ops) /\ Len(Tail(queue)) = Len(queue) - 1
         /\ \A i \in 1..Len(queue) - 1 : Tail(queue)[i] = queue[i + 1]
<1>1. queue \in Seq(Ops) BY DEF TypeOK
<1>2. Head(queue) \in Ops /\ Head(queue) = queue[1] /\ Len(queue) \in Nat /\ Len(queue) > 0
  BY <1>1
<1>3. Tail(queue) \in Seq(Ops) /\ Len(Tail(queue)) = Len(queue) - 1
  BY <1>1
<1>4. \A i \in 1..Len(queue) - 1 : Tail(queue)[i] = queue[i + 1]
  BY <1>1
<1> QED BY <1>2, <1>3, <1>4, OpShapes

LEMMA EnqueueTypes ==
  ASSUME TypeOK, NEW op \in Ops, Enqueue(op)
  PROVE  /\ queue' \in Seq(Ops) /\ queue' # <<>> /\ Len(queue') = Len(queue) + 1
         /\ step' = step
         /\ queue'[Len(queue) + 1] = op
         /\ \A i \in 1..Len(queue) : queue'[i] = queue[i]
         /\ Head(queue') = IF queue = <<>> THEN op ELSE Head(queue)
<1>1. queue \in Seq(Ops) /\ Len(queue) \in Nat BY DEF TypeOK
<1>2. queue' = Append(queue, op) /\ step' = step BY DEF Enqueue
<1>3. queue' \in Seq(Ops) /\ Len(queue') = Len(queue) + 1 /\ queue'[Len(queue) + 1] = op
  BY <1>1, <1>2
<1>4. \A i \in 1..Len(queue) : queue'[i] = queue[i]
  BY <1>1, <1>2
<1>5. queue' # <<>> /\ Head(queue') = queue'[1]
  BY <1>1, <1>3
<1>6. Head(queue') = IF queue = <<>> THEN op ELSE Head(queue)
  BY <1>1, <1>3, <1>4, <1>5
<1> QED BY <1>2, <1>3, <1>4, <1>5, <1>6

\* A mutation settles.
LEMMA ReleaseTypes ==
  ASSUME TypeOK, queue # <<>>, NEW after \in Tasks, Release(after)
  PROVE  /\ queue' \in Seq(Ops) /\ step' = "start"
         /\ task' \in [Contract -> Tasks]
         /\ decision' \in [Contract -> {"none", "reading", "landing"}]
  BY HeadTypes DEF TypeOK, Release, Steps

LEMMA GiveTypes ==
  ASSUME TypeOK, queue # <<>>, NEW after \in Tasks, Give(after)
  PROVE  /\ queue' \in Seq(Ops) /\ step' = "start"
         /\ task' \in [Contract -> Tasks]
         /\ decision' \in [Contract -> {"none", "reading", "landing"}]
         /\ contract' = contract /\ exact' \subseteq Reader \X Contract
<1>1. Release(after) BY DEF Give
<1>2. contract' = contract /\ exact' \subseteq exact BY DEF Give
<1> QED BY <1>1, <1>2, ReleaseTypes DEF TypeOK

LEMMA CleanedTypes ==
  ASSUME TypeOK, NEW actor \in {"op", "attempt"}, NEW c \in Contract, NEW ok \in BOOLEAN,
         actor = "op" => queue # <<>>, Cleaned(actor, c, ok)
  PROVE  /\ run' \in [Contract -> Runs]
         /\ queue' \in Seq(Ops) /\ step' \in Steps
         /\ task' \in [Contract -> Tasks]
         /\ decision' \in [Contract -> {"none", "reading", "landing"}]
         /\ attempt' \in [Contract -> {"none"} \cup Steps]
         /\ retry' \in [Contract -> {"none", "armed", "fired"}]
<1>1. run' \in [Contract -> Runs]
  BY StampTypes DEF Cleaned, Life
<1>2. retry' \in [Contract -> {"none", "armed", "fired"}]
  BY DEF Cleaned, TypeOK
<1>3. CASE actor = "op"
  <2>1. Release("none") /\ attempt' = attempt BY <1>3 DEF Cleaned
  <2> QED BY <1>1, <1>2, <1>3, <2>1, ReleaseTypes DEF TypeOK, Tasks, Steps
<1>4. CASE actor # "op"
  BY <1>1, <1>2, <1>4 DEF Cleaned, chain, TypeOK
<1> QED BY <1>3, <1>4

LEMMA GotoTypes ==
  ASSUME TypeOK, NEW actor \in {"op", "attempt"}, NEW c \in Contract, NEW s \in Steps, Goto(actor, c, s)
  PROVE  /\ queue' \in Seq(Ops) /\ step' \in Steps
         /\ task' \in [Contract -> Tasks]
         /\ decision' \in [Contract -> {"none", "reading", "landing"}]
         /\ attempt' \in [Contract -> {"none"} \cup Steps]
         /\ retry' \in [Contract -> {"none", "armed", "fired"}]
  BY DEF Goto, Proceed, chain, reclaim, TypeOK

LEMMA SetDirTypes ==
  ASSUME TypeOK, NEW c \in Contract, NEW d \in {"registered", "loose", "absent"}, SetDir(c, d)
  PROVE  worktree' \in [Contract -> Trees]
<1>1. worktree' = [worktree EXCEPT ![c] = [worktree[c] EXCEPT !.dir = d]]
  BY DEF SetDir, TypeOK
<1> QED BY <1>1, TreeShapes DEF TypeOK

LEMMA SweepTypes ==
  ASSUME TypeOK, SweepOrphans PROVE worktree' \in [Contract -> Trees]
  BY TreeShapes DEF TypeOK, SweepOrphans

LEMMA BranchShapes ==
  ASSUME NEW b \in Branches
  PROVE  /\ b.tip \in Commit /\ b.tip \in Nat /\ b.there \in BOOLEAN
         /\ b.tip < MaxCommits => [b EXCEPT !.tip = b.tip + 1] \in Branches
         /\ [b EXCEPT !.there = FALSE] \in Branches
<1>1. MaxCommits \in Nat BY LandingAssumption
<1>2. b.tip \in Commit /\ b.tip \in Nat /\ b.there \in BOOLEAN
  BY <1>1 DEF Branches, Commit
<1>3. b.tip < MaxCommits => b.tip + 1 \in Commit
  BY <1>1, <1>2 DEF Commit
<1>4. \A t \in Commit : [b EXCEPT !.tip = t] \in Branches
  BY DEF Branches
<1>5. [b EXCEPT !.there = FALSE] \in Branches
  BY DEF Branches
<1> QED BY <1>2, <1>3, <1>4, <1>5

LEMMA StartVerificationTypes ==
  ASSUME TypeOK, NEW c \in Contract, NEW status, StartVerification(c, status)
  PROVE  /\ contract' \in [Contract -> Landings] /\ exact' \subseteq Reader \X Contract
         /\ task' \in [Contract -> Tasks]
<1>1. task' \in [Contract -> Tasks]
  BY DEF TypeOK, StartVerification, Tasks
<1>2. CASE status = "completed" \/ contract[c].landing \in Settled
  BY <1>1, <1>2 DEF TypeOK, StartVerification, Reader
<1>3. CASE status # "completed" /\ contract[c].landing \notin Settled
  BY <1>1, <1>3, JudgedShape, WriteTypes DEF StartVerification
<1> QED BY <1>2, <1>3

\* The two ways a landing settles.
LEMMA SettleTypes ==
  ASSUME TypeOK, queue # <<>>, NEW life \in Life,
         \/ \E status \in Status : SettleParked(Head(queue), status, life)
         \/ \E tip \in Commit : SettleLanded(Head(queue), tip)
  PROVE  /\ contract' \in [Contract -> Landings] /\ exact' \subseteq Reader \X Contract
         /\ run' \in [Contract -> Runs]
         /\ queue' \in Seq(Ops) /\ step' \in Steps
         /\ task' \in [Contract -> Tasks]
         /\ decision' \in [Contract -> {"none", "reading", "landing"}]
<1> DEFINE op == Head(queue)
<1>1. op.c \in Contract /\ contract[op.c] \in Landings
  BY HeadTypes DEF TypeOK
<1>2. "none" \in Tasks /\ {"start", "remove"} \subseteq Steps /\ "landed" \in Status /\ "merged" \in Life
  BY DEF Tasks, Steps, Status, Life
<1>3. ASSUME NEW status \in Status, SettleParked(op, status, life)
      PROVE  /\ contract' \in [Contract -> Landings] /\ exact' \subseteq Reader \X Contract
             /\ run' \in [Contract -> Runs]
             /\ queue' \in Seq(Ops) /\ step' \in Steps
             /\ task' \in [Contract -> Tasks]
             /\ decision' \in [Contract -> {"none", "reading", "landing"}]
  <2>1. run' \in [Contract -> Runs]
    BY <1>1, <1>3, StampTypes DEF SettleParked
  <2>2. CASE CanSettle(op)
    <3>1. [contract[op.c] EXCEPT !.landing = status] \in Landings
      BY <1>1, LandingShapes
    <3>2. Write(op.c, [contract[op.c] EXCEPT !.landing = status], {}) /\ Release("none")
      BY <1>3, <2>2 DEF SettleParked
    <3> QED BY <1>1, <1>2, <2>1, <3>1, <3>2, WriteTypes, ReleaseTypes
  <2>3. CASE ~CanSettle(op)
    <3>1. Give("none") BY <1>3, <2>3 DEF SettleParked
    <3> QED BY <1>2, <2>1, <3>1, GiveTypes DEF TypeOK
  <2> QED BY <2>2, <2>3
<1>4. ASSUME NEW tip \in Commit, SettleLanded(op, tip)
      PROVE  /\ contract' \in [Contract -> Landings] /\ exact' \subseteq Reader \X Contract
             /\ run' \in [Contract -> Runs]
             /\ queue' \in Seq(Ops) /\ step' \in Steps
             /\ task' \in [Contract -> Tasks]
             /\ decision' \in [Contract -> {"none", "reading", "landing"}]
  <2>1. CASE CanSettle(op)
    <3>1. [contract[op.c] EXCEPT !.landing = "landed", !.landed = tip] \in Landings
      BY <1>1, <1>2, LandingShapes
    <3>2. /\ Write(op.c, [contract[op.c] EXCEPT !.landing = "landed", !.landed = tip], {})
          /\ Stamp(op.c, "merged") /\ Proceed("remove")
      BY <1>4, <2>1 DEF SettleLanded
    <3>3. /\ contract' \in [Contract -> Landings] /\ exact' \subseteq Reader \X Contract
          /\ run' \in [Contract -> Runs]
      BY <1>1, <1>2, <3>1, <3>2, WriteTypes, StampTypes
    <3> QED BY <1>2, <3>2, <3>3 DEF Proceed, TypeOK
  <2>2. CASE ~CanSettle(op)
    <3>1. Give("none") /\ run' = run BY <1>4, <2>2 DEF SettleLanded
    <3> QED BY <1>2, <3>1, GiveTypes DEF TypeOK
  <2> QED BY <2>1, <2>2
<1> QED BY <1>3, <1>4

\* A mutation that goes on, or that settles without a write.
LEMMA StepTypes ==
  ASSUME TypeOK, queue # <<>>,
         \/ \E after \in Tasks : Give(after)
         \/ \E s \in Steps : Proceed(s) /\ UNCHANGED <<contract, exact>>
  PROVE  /\ contract' = contract /\ exact' \subseteq Reader \X Contract
         /\ queue' \in Seq(Ops) /\ step' \in Steps
         /\ task' \in [Contract -> Tasks]
         /\ decision' \in [Contract -> {"none", "reading", "landing"}]
<1>1. ASSUME NEW after \in Tasks, Give(after)
      PROVE  /\ contract' = contract /\ exact' \subseteq Reader \X Contract
             /\ queue' \in Seq(Ops) /\ step' \in Steps
             /\ task' \in [Contract -> Tasks]
             /\ decision' \in [Contract -> {"none", "reading", "landing"}]
  BY <1>1, GiveTypes DEF Steps
<1>2. ASSUME NEW s \in Steps, Proceed(s), UNCHANGED <<contract, exact>>
      PROVE  /\ contract' = contract /\ exact' \subseteq Reader \X Contract
             /\ queue' \in Seq(Ops) /\ step' \in Steps
             /\ task' \in [Contract -> Tasks]
             /\ decision' \in [Contract -> {"none", "reading", "landing"}]
  BY <1>2 DEF Proceed, TypeOK
<1> QED BY <1>1, <1>2

LEMMA AgentCommitsTypes ==
  ASSUME TypeOK, NEW c \in Contract, AgentCommits(c)
  PROVE  TypeOK'
<1>1. contract' \in [Contract -> Landings] /\ exact' \subseteq Reader \X Contract
  BY DEF TypeOK, Reader, Status, AgentCommits
<1>2. run' \in [Contract -> Runs] /\ worktree' \in [Contract -> Trees]
  BY DEF TypeOK, Life, AgentCommits
<1>3. branch' \in [Contract -> Branches] /\ head' \in Nat /\ merges' \subseteq Merges
  BY BranchShapes DEF TypeOK, git, AgentCommits
<1>4. task' \in [Contract -> Tasks] /\ decision' \in [Contract -> {"none", "reading", "landing"}]
  BY DEF TypeOK, Tasks, AgentCommits
<1>5. queue' \in Seq(Ops) /\ step' \in Steps
  BY DEF TypeOK, chain, Steps, Reader, AgentCommits
<1>6. /\ attempt' \in [Contract -> {"none"} \cup Steps] /\ retry' \in [Contract -> {"none", "armed", "fired"}]
        /\ held' \subseteq Contract
  BY DEF TypeOK, reclaim, Steps, AgentCommits
<1>7. /\ stage' \in Stages /\ todo' \subseteq Contract
        /\ spent' \in [{"outside", "faults", "crashes"} -> Nat]
  BY DEF TypeOK, boot, Stages, AgentCommits
<1> QED BY <1>1, <1>2, <1>3, <1>4, <1>5, <1>6, <1>7 DEF TypeOK

LEMMA RunEndsTypes ==
  ASSUME TypeOK, NEW c \in Contract, NEW status \in {"completed", "failed"}, RunEnds(c, status)
  PROVE  TypeOK'
<1>1. contract' \in [Contract -> Landings] /\ exact' \subseteq Reader \X Contract
  BY DEF TypeOK, Reader, Status, RunEnds
<1>2. run' \in [Contract -> Runs] /\ worktree' \in [Contract -> Trees]
  BY RunShapes DEF TypeOK, Life, RunEnds, Legal
<1>3. branch' \in [Contract -> Branches] /\ head' \in Nat /\ merges' \subseteq Merges
  BY DEF TypeOK, git, RunEnds
<1>4. task' \in [Contract -> Tasks] /\ decision' \in [Contract -> {"none", "reading", "landing"}]
  BY DEF TypeOK, Tasks, RunEnds
<1>5. queue' \in Seq(Ops) /\ step' \in Steps
  BY DEF TypeOK, chain, Steps, Reader, RunEnds
<1>6. /\ attempt' \in [Contract -> {"none"} \cup Steps] /\ retry' \in [Contract -> {"none", "armed", "fired"}]
        /\ held' \subseteq Contract
  BY DEF TypeOK, reclaim, Steps, RunEnds
<1>7. /\ stage' \in Stages /\ todo' \subseteq Contract
        /\ spent' \in [{"outside", "faults", "crashes"} -> Nat]
  BY DEF TypeOK, boot, Stages, RunEnds
<1> QED BY <1>1, <1>2, <1>3, <1>4, <1>5, <1>6, <1>7 DEF TypeOK

LEMMA KillRunTypes ==
  ASSUME TypeOK, NEW c \in Contract, KillRun(c)
  PROVE  TypeOK'
<1>1. contract' \in [Contract -> Landings] /\ exact' \subseteq Reader \X Contract
  BY DEF TypeOK, Reader, Status, KillRun
<1>2. run' \in [Contract -> Runs] /\ worktree' \in [Contract -> Trees]
  BY RunShapes DEF TypeOK, Life, KillRun, Legal
<1>3. branch' \in [Contract -> Branches] /\ head' \in Nat /\ merges' \subseteq Merges
  BY DEF TypeOK, git, KillRun
<1>4. task' \in [Contract -> Tasks] /\ decision' \in [Contract -> {"none", "reading", "landing"}]
  BY DEF TypeOK, Tasks, KillRun
<1>5. queue' \in Seq(Ops) /\ step' \in Steps
  BY DEF TypeOK, chain, Steps, Reader, KillRun
<1>6. /\ attempt' \in [Contract -> {"none"} \cup Steps] /\ retry' \in [Contract -> {"none", "armed", "fired"}]
        /\ held' \subseteq Contract
  BY DEF TypeOK, reclaim, Steps, KillRun
<1>7. /\ stage' \in Stages /\ todo' \subseteq Contract
        /\ spent' \in [{"outside", "faults", "crashes"} -> Nat]
  BY FaultTypes, SpendTypes DEF TypeOK, boot, Stages, KillRun
<1> QED BY <1>1, <1>2, <1>3, <1>4, <1>5, <1>6, <1>7 DEF TypeOK

LEMMA DisposedTypes ==
  ASSUME TypeOK, NEW c \in Contract, Disposed(c)
  PROVE  TypeOK'
<1>1. contract' \in [Contract -> Landings] /\ exact' \subseteq Reader \X Contract
  BY DEF TypeOK, Reader, Status, Disposed
<1>2. run' \in [Contract -> Runs] /\ worktree' \in [Contract -> Trees]
  BY DEF TypeOK, Life, Disposed
<1>3. branch' \in [Contract -> Branches] /\ head' \in Nat /\ merges' \subseteq Merges
  BY DEF TypeOK, git, Disposed
<1>4. task' \in [Contract -> Tasks] /\ decision' \in [Contract -> {"none", "reading", "landing"}]
  BY DEF TypeOK, Tasks, Disposed
<1>5. queue' \in Seq(Ops) /\ step' \in Steps
  BY DEF TypeOK, chain, Steps, Reader, Disposed
<1>6. /\ attempt' \in [Contract -> {"none"} \cup Steps] /\ retry' \in [Contract -> {"none", "armed", "fired"}]
        /\ held' \subseteq Contract
  BY DEF TypeOK, reclaim, Steps, Disposed
<1>7. /\ stage' \in Stages /\ todo' \subseteq Contract
        /\ spent' \in [{"outside", "faults", "crashes"} -> Nat]
  BY FaultTypes, SpendTypes DEF TypeOK, boot, Stages, Disposed
<1> QED BY <1>1, <1>2, <1>3, <1>4, <1>5, <1>6, <1>7 DEF TypeOK

LEMMA RetireTypes ==
  ASSUME TypeOK, NEW c \in Contract, Retire(c)
  PROVE  TypeOK'
<1>1. contract' \in [Contract -> Landings] /\ exact' \subseteq Reader \X Contract
  BY JudgedShape, LandingShapes, StartVerificationTypes, WriteTypes DEF TypeOK, Reader, Status, Retire
<1>2. run' \in [Contract -> Runs] /\ worktree' \in [Contract -> Trees]
  BY DEF TypeOK, Life, Retire
<1>3. branch' \in [Contract -> Branches] /\ head' \in Nat /\ merges' \subseteq Merges
  BY DEF TypeOK, git, Retire
<1>4. task' \in [Contract -> Tasks] /\ decision' \in [Contract -> {"none", "reading", "landing"}]
  BY StartVerificationTypes DEF TypeOK, Tasks, Retire
<1>5. queue' \in Seq(Ops) /\ step' \in Steps
  BY DEF TypeOK, chain, Steps, Reader, Retire
<1>6. /\ attempt' \in [Contract -> {"none"} \cup Steps] /\ retry' \in [Contract -> {"none", "armed", "fired"}]
        /\ held' \subseteq Contract
  BY DEF TypeOK, reclaim, Steps, Retire
<1>7. /\ stage' \in Stages /\ todo' \subseteq Contract
        /\ spent' \in [{"outside", "faults", "crashes"} -> Nat]
  BY FaultTypes, SpendTypes DEF TypeOK, boot, Stages, Retire
<1> QED BY <1>1, <1>2, <1>3, <1>4, <1>5, <1>6, <1>7 DEF TypeOK

LEMMA VerifyEndsTypes ==
  ASSUME TypeOK, NEW c \in Contract, NEW outcome \in {"passed", "failed", "pending"}, VerifyEnds(c, outcome)
  PROVE  TypeOK'
<1>1. contract' \in [Contract -> Landings] /\ exact' \subseteq Reader \X Contract
  BY JudgedShape, LandingShapes, WriteTypes DEF TypeOK, Reader, Status, VerifyEnds
<1>2. run' \in [Contract -> Runs] /\ worktree' \in [Contract -> Trees]
  BY DEF TypeOK, Life, VerifyEnds
<1>3. branch' \in [Contract -> Branches] /\ head' \in Nat /\ merges' \subseteq Merges
  BY DEF TypeOK, git, VerifyEnds
<1>4. task' \in [Contract -> Tasks] /\ decision' \in [Contract -> {"none", "reading", "landing"}]
  BY DEF TypeOK, Tasks, VerifyEnds
<1>5. queue' \in Seq(Ops) /\ step' \in Steps
  BY EnqueueTypes, OpShapes DEF TypeOK, chain, Steps, Reader, VerifyEnds
<1>6. /\ attempt' \in [Contract -> {"none"} \cup Steps] /\ retry' \in [Contract -> {"none", "armed", "fired"}]
        /\ held' \subseteq Contract
  BY DEF TypeOK, reclaim, Steps, VerifyEnds
<1>7. /\ stage' \in Stages /\ todo' \subseteq Contract
        /\ spent' \in [{"outside", "faults", "crashes"} -> Nat]
  BY DEF TypeOK, boot, Stages, VerifyEnds
<1> QED BY <1>1, <1>2, <1>3, <1>4, <1>5, <1>6, <1>7 DEF TypeOK

LEMMA RejectTypes ==
  ASSUME TypeOK, NEW c \in Contract, Reject(c)
  PROVE  TypeOK'
<1>1. contract' \in [Contract -> Landings] /\ exact' \subseteq Reader \X Contract
  BY JudgedShape, LandingShapes, WriteTypes DEF TypeOK, Reader, Status, Reject, Reviewable
<1>2. run' \in [Contract -> Runs] /\ worktree' \in [Contract -> Trees]
  BY DEF TypeOK, Life, Reject, Reviewable
<1>3. branch' \in [Contract -> Branches] /\ head' \in Nat /\ merges' \subseteq Merges
  BY DEF TypeOK, git, Reject, Reviewable
<1>4. task' \in [Contract -> Tasks] /\ decision' \in [Contract -> {"none", "reading", "landing"}]
  BY DEF TypeOK, Tasks, Reject, Reviewable
<1>5. queue' \in Seq(Ops) /\ step' \in Steps
  BY DEF TypeOK, chain, Steps, Reader, Reject, Reviewable
<1>6. /\ attempt' \in [Contract -> {"none"} \cup Steps] /\ retry' \in [Contract -> {"none", "armed", "fired"}]
        /\ held' \subseteq Contract
  BY DEF TypeOK, reclaim, Steps, Reject, Reviewable
<1>7. /\ stage' \in Stages /\ todo' \subseteq Contract
        /\ spent' \in [{"outside", "faults", "crashes"} -> Nat]
  BY DEF TypeOK, boot, Stages, Reject, Reviewable
<1> QED BY <1>1, <1>2, <1>3, <1>4, <1>5, <1>6, <1>7 DEF TypeOK

LEMMA AcceptTypes ==
  ASSUME TypeOK, NEW c \in Contract, Accept(c)
  PROVE  TypeOK'
<1>1. contract' \in [Contract -> Landings] /\ exact' \subseteq Reader \X Contract
  BY DEF TypeOK, Reader, Status, Accept, Reviewable
<1>2. run' \in [Contract -> Runs] /\ worktree' \in [Contract -> Trees]
  BY DEF TypeOK, Life, Accept, Reviewable
<1>3. branch' \in [Contract -> Branches] /\ head' \in Nat /\ merges' \subseteq Merges
  BY DEF TypeOK, git, Accept, Reviewable
<1>4. task' \in [Contract -> Tasks] /\ decision' \in [Contract -> {"none", "reading", "landing"}]
  BY DEF TypeOK, Tasks, Accept, Reviewable
<1>5. queue' \in Seq(Ops) /\ step' \in Steps
  BY DEF TypeOK, chain, Steps, Reader, Accept, Reviewable
<1>6. /\ attempt' \in [Contract -> {"none"} \cup Steps] /\ retry' \in [Contract -> {"none", "armed", "fired"}]
        /\ held' \subseteq Contract
  BY DEF TypeOK, reclaim, Steps, Accept, Reviewable
<1>7. /\ stage' \in Stages /\ todo' \subseteq Contract
        /\ spent' \in [{"outside", "faults", "crashes"} -> Nat]
  BY DEF TypeOK, boot, Stages, Accept, Reviewable
<1> QED BY <1>1, <1>2, <1>3, <1>4, <1>5, <1>6, <1>7 DEF TypeOK

LEMMA AcceptReadsTypes ==
  ASSUME TypeOK, NEW c \in Contract, AcceptReads(c)
  PROVE  TypeOK'
<1>1. contract' \in [Contract -> Landings] /\ exact' \subseteq Reader \X Contract
  BY JudgedShape, LandingShapes, WriteTypes DEF TypeOK, Reader, Status, AcceptReads, Judged
<1>2. run' \in [Contract -> Runs] /\ worktree' \in [Contract -> Trees]
  BY DEF TypeOK, Life, AcceptReads
<1>3. branch' \in [Contract -> Branches] /\ head' \in Nat /\ merges' \subseteq Merges
  BY DEF TypeOK, git, AcceptReads
<1>4. task' \in [Contract -> Tasks] /\ decision' \in [Contract -> {"none", "reading", "landing"}]
  BY DEF TypeOK, Tasks, AcceptReads
<1>5. queue' \in Seq(Ops) /\ step' \in Steps
  BY EnqueueTypes, OpShapes DEF TypeOK, chain, Steps, Reader, AcceptReads
<1>6. /\ attempt' \in [Contract -> {"none"} \cup Steps] /\ retry' \in [Contract -> {"none", "armed", "fired"}]
        /\ held' \subseteq Contract
  BY DEF TypeOK, reclaim, Steps, AcceptReads
<1>7. /\ stage' \in Stages /\ todo' \subseteq Contract
        /\ spent' \in [{"outside", "faults", "crashes"} -> Nat]
  BY FaultTypes, SpendTypes DEF TypeOK, boot, Stages, AcceptReads
<1> QED BY <1>1, <1>2, <1>3, <1>4, <1>5, <1>6, <1>7 DEF TypeOK

LEMMA ContinueTypes ==
  ASSUME TypeOK, NEW c \in Contract, Continue(c)
  PROVE  TypeOK'
<1>1. contract' \in [Contract -> Landings] /\ exact' \subseteq Reader \X Contract
  BY LandingShapes, WriteTypes DEF TypeOK, Reader, Status, Continue
<1>2. run' \in [Contract -> Runs] /\ worktree' \in [Contract -> Trees]
  BY RunShapes DEF TypeOK, Life, Continue
<1>3. branch' \in [Contract -> Branches] /\ head' \in Nat /\ merges' \subseteq Merges
  BY DEF TypeOK, git, Continue
<1>4. task' \in [Contract -> Tasks] /\ decision' \in [Contract -> {"none", "reading", "landing"}]
  BY DEF TypeOK, Tasks, Continue
<1>5. queue' \in Seq(Ops) /\ step' \in Steps
  BY DEF TypeOK, chain, Steps, Reader, Continue
<1>6. /\ attempt' \in [Contract -> {"none"} \cup Steps] /\ retry' \in [Contract -> {"none", "armed", "fired"}]
        /\ held' \subseteq Contract
  BY DEF TypeOK, reclaim, Steps, Continue
<1>7. /\ stage' \in Stages /\ todo' \subseteq Contract
        /\ spent' \in [{"outside", "faults", "crashes"} -> Nat]
  BY DEF TypeOK, boot, Stages, Continue
<1> QED BY <1>1, <1>2, <1>3, <1>4, <1>5, <1>6, <1>7 DEF TypeOK

LEMMA CleanupSweepsTypes ==
  ASSUME TypeOK, NEW actor \in {"op", "attempt"}, NEW c \in Contract, CleanupSweeps(actor, c)
  PROVE  TypeOK'
<1>1. contract' \in [Contract -> Landings] /\ exact' \subseteq Reader \X Contract
  BY DEF TypeOK, Reader, Status, CleanupSweeps, At, Running
<1>2. run' \in [Contract -> Runs] /\ worktree' \in [Contract -> Trees]
  BY CleanedTypes, HeadTypes, StampTypes, SweepTypes DEF TypeOK, Life, CleanupSweeps, At, Running
<1>3. branch' \in [Contract -> Branches] /\ head' \in Nat /\ merges' \subseteq Merges
  BY HeadTypes DEF TypeOK, git, CleanupSweeps, At, Running
<1>4. task' \in [Contract -> Tasks] /\ decision' \in [Contract -> {"none", "reading", "landing"}]
  BY CleanedTypes, HeadTypes, ReleaseTypes DEF TypeOK, Tasks, CleanupSweeps, At, Running
<1>5. queue' \in Seq(Ops) /\ step' \in Steps
  BY CleanedTypes, HeadTypes, ReleaseTypes DEF TypeOK, chain, Steps, Reader, CleanupSweeps, At, Running
<1>6. /\ attempt' \in [Contract -> {"none"} \cup Steps] /\ retry' \in [Contract -> {"none", "armed", "fired"}]
        /\ held' \subseteq Contract
  BY CleanedTypes, HeadTypes DEF TypeOK, reclaim, Steps, CleanupSweeps, At, Running
<1>7. /\ stage' \in Stages /\ todo' \subseteq Contract
        /\ spent' \in [{"outside", "faults", "crashes"} -> Nat]
  BY DEF TypeOK, boot, Stages, CleanupSweeps, At, Running
<1> QED BY <1>1, <1>2, <1>3, <1>4, <1>5, <1>6, <1>7 DEF TypeOK

LEMMA TeardownTypes ==
  ASSUME TypeOK, NEW c \in Contract, Teardown(c)
  PROVE  TypeOK'
<1>1. contract' \in [Contract -> Landings] /\ exact' \subseteq Reader \X Contract
  BY DEF TypeOK, Reader, Status, Teardown, StartAttempt
<1>2. run' \in [Contract -> Runs] /\ worktree' \in [Contract -> Trees]
  BY StampTypes DEF TypeOK, Life, Teardown, StartAttempt
<1>3. branch' \in [Contract -> Branches] /\ head' \in Nat /\ merges' \subseteq Merges
  BY DEF TypeOK, git, Teardown, StartAttempt
<1>4. task' \in [Contract -> Tasks] /\ decision' \in [Contract -> {"none", "reading", "landing"}]
  BY DEF TypeOK, Tasks, Teardown, StartAttempt
<1>5. queue' \in Seq(Ops) /\ step' \in Steps
  BY DEF TypeOK, chain, Steps, Reader, Teardown, StartAttempt
<1>6. /\ attempt' \in [Contract -> {"none"} \cup Steps] /\ retry' \in [Contract -> {"none", "armed", "fired"}]
        /\ held' \subseteq Contract
  BY DEF TypeOK, reclaim, Steps, Teardown, StartAttempt
<1>7. /\ stage' \in Stages /\ todo' \subseteq Contract
        /\ spent' \in [{"outside", "faults", "crashes"} -> Nat]
  BY DEF TypeOK, boot, Stages, Teardown, StartAttempt
<1> QED BY <1>1, <1>2, <1>3, <1>4, <1>5, <1>6, <1>7 DEF TypeOK

LEMMA RetryTypes ==
  ASSUME TypeOK, NEW c \in Contract, Retry(c)
  PROVE  TypeOK'
<1>1. contract' \in [Contract -> Landings] /\ exact' \subseteq Reader \X Contract
  BY DEF TypeOK, Reader, Status, Retry, StartAttempt
<1>2. run' \in [Contract -> Runs] /\ worktree' \in [Contract -> Trees]
  BY StampTypes DEF TypeOK, Life, Retry, StartAttempt
<1>3. branch' \in [Contract -> Branches] /\ head' \in Nat /\ merges' \subseteq Merges
  BY DEF TypeOK, git, Retry, StartAttempt
<1>4. task' \in [Contract -> Tasks] /\ decision' \in [Contract -> {"none", "reading", "landing"}]
  BY DEF TypeOK, Tasks, Retry, StartAttempt
<1>5. queue' \in Seq(Ops) /\ step' \in Steps
  BY DEF TypeOK, chain, Steps, Reader, Retry, StartAttempt
<1>6. /\ attempt' \in [Contract -> {"none"} \cup Steps] /\ retry' \in [Contract -> {"none", "armed", "fired"}]
        /\ held' \subseteq Contract
  BY DEF TypeOK, reclaim, Steps, Retry, StartAttempt
<1>7. /\ stage' \in Stages /\ todo' \subseteq Contract
        /\ spent' \in [{"outside", "faults", "crashes"} -> Nat]
  BY DEF TypeOK, boot, Stages, Retry, StartAttempt
<1> QED BY <1>1, <1>2, <1>3, <1>4, <1>5, <1>6, <1>7 DEF TypeOK

LEMMA JanitorReconcilesTypes ==
  ASSUME TypeOK, JanitorReconciles
  PROVE  TypeOK'
<1>1. contract' \in [Contract -> Landings] /\ exact' \subseteq Reader \X Contract
  BY DEF TypeOK, Reader, Status, JanitorReconciles, Reconciled
<1>2. run' \in [Contract -> Runs] /\ worktree' \in [Contract -> Trees]
  BY HeadTypes, RunShapes, TreeShapes DEF TypeOK, Life, JanitorReconciles, Reconciled
<1>3. branch' \in [Contract -> Branches] /\ head' \in Nat /\ merges' \subseteq Merges
  BY DEF TypeOK, git, JanitorReconciles, Reconciled
<1>4. task' \in [Contract -> Tasks] /\ decision' \in [Contract -> {"none", "reading", "landing"}]
  BY DEF TypeOK, Tasks, JanitorReconciles, Reconciled
<1>5. queue' \in Seq(Ops) /\ step' \in Steps
  BY DEF TypeOK, chain, Steps, Reader, JanitorReconciles, Reconciled
<1>6. /\ attempt' \in [Contract -> {"none"} \cup Steps] /\ retry' \in [Contract -> {"none", "armed", "fired"}]
        /\ held' \subseteq Contract
  BY DEF TypeOK, reclaim, Steps, JanitorReconciles, Reconciled
<1>7. /\ stage' \in Stages /\ todo' \subseteq Contract
        /\ spent' \in [{"outside", "faults", "crashes"} -> Nat]
  BY DEF TypeOK, boot, Stages, JanitorReconciles, Reconciled
<1> QED BY <1>1, <1>2, <1>3, <1>4, <1>5, <1>6, <1>7 DEF TypeOK

LEMMA JanitorSweepsTypes ==
  ASSUME TypeOK, JanitorSweeps
  PROVE  TypeOK'
<1>1. contract' \in [Contract -> Landings] /\ exact' \subseteq Reader \X Contract
  BY DEF TypeOK, Reader, Status, JanitorSweeps
<1>2. run' \in [Contract -> Runs] /\ worktree' \in [Contract -> Trees]
  BY SweepTypes DEF TypeOK, Life, JanitorSweeps
<1>3. branch' \in [Contract -> Branches] /\ head' \in Nat /\ merges' \subseteq Merges
  BY DEF TypeOK, git, JanitorSweeps
<1>4. task' \in [Contract -> Tasks] /\ decision' \in [Contract -> {"none", "reading", "landing"}]
  BY DEF TypeOK, Tasks, JanitorSweeps
<1>5. queue' \in Seq(Ops) /\ step' \in Steps
  BY DEF TypeOK, chain, Steps, Reader, JanitorSweeps
<1>6. /\ attempt' \in [Contract -> {"none"} \cup Steps] /\ retry' \in [Contract -> {"none", "armed", "fired"}]
        /\ held' \subseteq Contract
  BY DEF TypeOK, reclaim, Steps, JanitorSweeps
<1>7. /\ stage' \in Stages /\ todo' \subseteq Contract
        /\ spent' \in [{"outside", "faults", "crashes"} -> Nat]
  BY DEF TypeOK, boot, Stages, JanitorSweeps
<1> QED BY <1>1, <1>2, <1>3, <1>4, <1>5, <1>6, <1>7 DEF TypeOK

LEMMA ApproveAbandonmentTypes ==
  ASSUME TypeOK, NEW c \in Contract, ApproveAbandonment(c)
  PROVE  TypeOK'
<1>1. contract' \in [Contract -> Landings] /\ exact' \subseteq Reader \X Contract
  BY DEF TypeOK, Reader, Status, ApproveAbandonment
<1>2. run' \in [Contract -> Runs] /\ worktree' \in [Contract -> Trees]
  BY DEF TypeOK, Life, ApproveAbandonment
<1>3. branch' \in [Contract -> Branches] /\ head' \in Nat /\ merges' \subseteq Merges
  BY DEF TypeOK, git, ApproveAbandonment
<1>4. task' \in [Contract -> Tasks] /\ decision' \in [Contract -> {"none", "reading", "landing"}]
  BY DEF TypeOK, Tasks, ApproveAbandonment
<1>5. queue' \in Seq(Ops) /\ step' \in Steps
  BY EnqueueTypes, OpShapes DEF TypeOK, chain, Steps, Reader, ApproveAbandonment
<1>6. /\ attempt' \in [Contract -> {"none"} \cup Steps] /\ retry' \in [Contract -> {"none", "armed", "fired"}]
        /\ held' \subseteq Contract
  BY DEF TypeOK, reclaim, Steps, ApproveAbandonment
<1>7. /\ stage' \in Stages /\ todo' \subseteq Contract
        /\ spent' \in [{"outside", "faults", "crashes"} -> Nat]
  BY DEF TypeOK, boot, Stages, ApproveAbandonment
<1> QED BY <1>1, <1>2, <1>3, <1>4, <1>5, <1>6, <1>7 DEF TypeOK

LEMMA CrashTypes ==
  ASSUME TypeOK, Crash
  PROVE  TypeOK'
<1>1. contract' \in [Contract -> Landings] /\ exact' \subseteq Reader \X Contract
  BY DEF TypeOK, Reader, Status, Crash
<1>2. run' \in [Contract -> Runs] /\ worktree' \in [Contract -> Trees]
  BY DEF TypeOK, Life, Crash
<1>3. branch' \in [Contract -> Branches] /\ head' \in Nat /\ merges' \subseteq Merges
  BY DEF TypeOK, git, Crash
<1>4. task' \in [Contract -> Tasks] /\ decision' \in [Contract -> {"none", "reading", "landing"}]
  BY DEF TypeOK, Tasks, Crash
<1>5. queue' \in Seq(Ops) /\ step' \in Steps
  BY DEF TypeOK, chain, Steps, Reader, Crash
<1>6. /\ attempt' \in [Contract -> {"none"} \cup Steps] /\ retry' \in [Contract -> {"none", "armed", "fired"}]
        /\ held' \subseteq Contract
  BY DEF TypeOK, reclaim, Steps, Crash
<1>7. /\ stage' \in Stages /\ todo' \subseteq Contract
        /\ spent' \in [{"outside", "faults", "crashes"} -> Nat]
  BY SpendTypes DEF TypeOK, boot, Stages, Crash
<1> QED BY <1>1, <1>2, <1>3, <1>4, <1>5, <1>6, <1>7 DEF TypeOK

LEMMA PassEndsTypes ==
  ASSUME TypeOK, PassEnds
  PROVE  TypeOK'
<1>1. contract' \in [Contract -> Landings] /\ exact' \subseteq Reader \X Contract
  BY DEF TypeOK, Reader, Status, PassEnds, Todo
<1>2. run' \in [Contract -> Runs] /\ worktree' \in [Contract -> Trees]
  BY DEF TypeOK, Life, PassEnds, Todo
<1>3. branch' \in [Contract -> Branches] /\ head' \in Nat /\ merges' \subseteq Merges
  BY DEF TypeOK, git, PassEnds, Todo
<1>4. task' \in [Contract -> Tasks] /\ decision' \in [Contract -> {"none", "reading", "landing"}]
  BY DEF TypeOK, Tasks, PassEnds, Todo
<1>5. queue' \in Seq(Ops) /\ step' \in Steps
  BY DEF TypeOK, chain, Steps, Reader, PassEnds, Todo
<1>6. /\ attempt' \in [Contract -> {"none"} \cup Steps] /\ retry' \in [Contract -> {"none", "armed", "fired"}]
        /\ held' \subseteq Contract
  BY DEF TypeOK, reclaim, Steps, PassEnds, Todo
<1>7. /\ stage' \in Stages /\ todo' \subseteq Contract
        /\ spent' \in [{"outside", "faults", "crashes"} -> Nat]
  BY DEF TypeOK, boot, Stages, PassEnds, Todo
<1> QED BY <1>1, <1>2, <1>3, <1>4, <1>5, <1>6, <1>7 DEF TypeOK

LEMMA RecoverSealedTypes ==
  ASSUME TypeOK, NEW c \in Contract, RecoverSealed(c)
  PROVE  TypeOK'
<1>1. contract' \in [Contract -> Landings] /\ exact' \subseteq Reader \X Contract
  BY JudgedShape, LandingShapes, StartVerificationTypes, WriteTypes DEF TypeOK, Reader, Status, RecoverSealed, Handle
<1>2. run' \in [Contract -> Runs] /\ worktree' \in [Contract -> Trees]
  BY RunShapes DEF TypeOK, Life, RecoverSealed, Handle
<1>3. branch' \in [Contract -> Branches] /\ head' \in Nat /\ merges' \subseteq Merges
  BY DEF TypeOK, git, RecoverSealed, Handle
<1>4. task' \in [Contract -> Tasks] /\ decision' \in [Contract -> {"none", "reading", "landing"}]
  BY StartVerificationTypes DEF TypeOK, Tasks, RecoverSealed, Handle
<1>5. queue' \in Seq(Ops) /\ step' \in Steps
  BY DEF TypeOK, chain, Steps, Reader, RecoverSealed, Handle
<1>6. /\ attempt' \in [Contract -> {"none"} \cup Steps] /\ retry' \in [Contract -> {"none", "armed", "fired"}]
        /\ held' \subseteq Contract
  BY DEF TypeOK, reclaim, Steps, RecoverSealed, Handle
<1>7. /\ stage' \in Stages /\ todo' \subseteq Contract
        /\ spent' \in [{"outside", "faults", "crashes"} -> Nat]
  BY FaultTypes, SpendTypes DEF TypeOK, boot, Stages, RecoverSealed, Handle
<1> QED BY <1>1, <1>2, <1>3, <1>4, <1>5, <1>6, <1>7 DEF TypeOK

LEMMA RecoverMutationTypes ==
  ASSUME TypeOK, NEW c \in Contract, NEW s, NEW kind \in {"land", "abandon"}, NEW status, RecoverMutation(c, s, kind, status)
  PROVE  TypeOK'
<1>1. contract' \in [Contract -> Landings] /\ exact' \subseteq Reader \X Contract
  BY DEF TypeOK, Reader, Status, RecoverMutation, Handle
<1>2. run' \in [Contract -> Runs] /\ worktree' \in [Contract -> Trees]
  BY DEF TypeOK, Life, RecoverMutation, Handle
<1>3. branch' \in [Contract -> Branches] /\ head' \in Nat /\ merges' \subseteq Merges
  BY DEF TypeOK, git, RecoverMutation, Handle
<1>4. task' \in [Contract -> Tasks] /\ decision' \in [Contract -> {"none", "reading", "landing"}]
  BY DEF TypeOK, Tasks, RecoverMutation, Handle
<1>5. queue' \in Seq(Ops) /\ step' \in Steps
  BY EnqueueTypes, OpShapes DEF TypeOK, chain, Steps, Reader, RecoverMutation, Handle
<1>6. /\ attempt' \in [Contract -> {"none"} \cup Steps] /\ retry' \in [Contract -> {"none", "armed", "fired"}]
        /\ held' \subseteq Contract
  BY DEF TypeOK, reclaim, Steps, RecoverMutation, Handle
<1>7. /\ stage' \in Stages /\ todo' \subseteq Contract
        /\ spent' \in [{"outside", "faults", "crashes"} -> Nat]
  BY FaultTypes, SpendTypes DEF TypeOK, boot, Stages, RecoverMutation, Handle
<1> QED BY <1>1, <1>2, <1>3, <1>4, <1>5, <1>6, <1>7 DEF TypeOK

LEMMA RecoverTeardownTypes ==
  ASSUME TypeOK, NEW c \in Contract, RecoverTeardown(c)
  PROVE  TypeOK'
<1>1. contract' \in [Contract -> Landings] /\ exact' \subseteq Reader \X Contract
  BY DEF TypeOK, Reader, Status, RecoverTeardown, Handle, StartAttempt
<1>2. run' \in [Contract -> Runs] /\ worktree' \in [Contract -> Trees]
  BY StampTypes DEF TypeOK, Life, RecoverTeardown, Handle, StartAttempt
<1>3. branch' \in [Contract -> Branches] /\ head' \in Nat /\ merges' \subseteq Merges
  BY DEF TypeOK, git, RecoverTeardown, Handle, StartAttempt
<1>4. task' \in [Contract -> Tasks] /\ decision' \in [Contract -> {"none", "reading", "landing"}]
  BY DEF TypeOK, Tasks, RecoverTeardown, Handle, StartAttempt
<1>5. queue' \in Seq(Ops) /\ step' \in Steps
  BY DEF TypeOK, chain, Steps, Reader, RecoverTeardown, Handle, StartAttempt
<1>6. /\ attempt' \in [Contract -> {"none"} \cup Steps] /\ retry' \in [Contract -> {"none", "armed", "fired"}]
        /\ held' \subseteq Contract
  BY DEF TypeOK, reclaim, Steps, RecoverTeardown, Handle, StartAttempt
<1>7. /\ stage' \in Stages /\ todo' \subseteq Contract
        /\ spent' \in [{"outside", "faults", "crashes"} -> Nat]
  BY DEF TypeOK, boot, Stages, RecoverTeardown, Handle, StartAttempt
<1> QED BY <1>1, <1>2, <1>3, <1>4, <1>5, <1>6, <1>7 DEF TypeOK

LEMMA BootReconcilesTypes ==
  ASSUME TypeOK, BootReconciles
  PROVE  TypeOK'
<1>1. contract' \in [Contract -> Landings] /\ exact' \subseteq Reader \X Contract
  BY DEF TypeOK, Reader, Status, BootReconciles, Reconciled
<1>2. run' \in [Contract -> Runs] /\ worktree' \in [Contract -> Trees]
  BY HeadTypes, RunShapes, TreeShapes DEF TypeOK, Life, BootReconciles, Reconciled
<1>3. branch' \in [Contract -> Branches] /\ head' \in Nat /\ merges' \subseteq Merges
  BY DEF TypeOK, git, BootReconciles, Reconciled
<1>4. task' \in [Contract -> Tasks] /\ decision' \in [Contract -> {"none", "reading", "landing"}]
  BY DEF TypeOK, Tasks, BootReconciles, Reconciled
<1>5. queue' \in Seq(Ops) /\ step' \in Steps
  BY DEF TypeOK, chain, Steps, Reader, BootReconciles, Reconciled
<1>6. /\ attempt' \in [Contract -> {"none"} \cup Steps] /\ retry' \in [Contract -> {"none", "armed", "fired"}]
        /\ held' \subseteq Contract
  BY DEF TypeOK, reclaim, Steps, BootReconciles, Reconciled
<1>7. /\ stage' \in Stages /\ todo' \subseteq Contract
        /\ spent' \in [{"outside", "faults", "crashes"} -> Nat]
  BY DEF TypeOK, boot, Stages, BootReconciles, Reconciled
<1> QED BY <1>1, <1>2, <1>3, <1>4, <1>5, <1>6, <1>7 DEF TypeOK

LEMMA AttachTypes ==
  ASSUME TypeOK, Attach
  PROVE  TypeOK'
<1>1. contract' \in [Contract -> Landings] /\ exact' \subseteq Reader \X Contract
  BY DEF TypeOK, Reader, Status, Attach
<1>2. run' \in [Contract -> Runs] /\ worktree' \in [Contract -> Trees]
  BY SweepTypes DEF TypeOK, Life, Attach
<1>3. branch' \in [Contract -> Branches] /\ head' \in Nat /\ merges' \subseteq Merges
  BY DEF TypeOK, git, Attach
<1>4. task' \in [Contract -> Tasks] /\ decision' \in [Contract -> {"none", "reading", "landing"}]
  BY DEF TypeOK, Tasks, Attach
<1>5. queue' \in Seq(Ops) /\ step' \in Steps
  BY DEF TypeOK, chain, Steps, Reader, Attach
<1>6. /\ attempt' \in [Contract -> {"none"} \cup Steps] /\ retry' \in [Contract -> {"none", "armed", "fired"}]
        /\ held' \subseteq Contract
  BY DEF TypeOK, reclaim, Steps, Attach
<1>7. /\ stage' \in Stages /\ todo' \subseteq Contract
        /\ spent' \in [{"outside", "faults", "crashes"} -> Nat]
  BY DEF TypeOK, boot, Stages, Attach
<1> QED BY <1>1, <1>2, <1>3, <1>4, <1>5, <1>6, <1>7 DEF TypeOK

LEMMA OutsideCommitTypes ==
  ASSUME TypeOK, OutsideCommit
  PROVE  TypeOK'
<1>1. contract' \in [Contract -> Landings] /\ exact' \subseteq Reader \X Contract
  BY DEF TypeOK, Reader, Status, OutsideCommit, ForgetApprovals
<1>2. run' \in [Contract -> Runs] /\ worktree' \in [Contract -> Trees]
  BY DEF TypeOK, Life, OutsideCommit, ForgetApprovals
<1>3. branch' \in [Contract -> Branches] /\ head' \in Nat /\ merges' \subseteq Merges
  BY DEF TypeOK, git, OutsideCommit, ForgetApprovals
<1>4. task' \in [Contract -> Tasks] /\ decision' \in [Contract -> {"none", "reading", "landing"}]
  BY DEF TypeOK, Tasks, OutsideCommit, ForgetApprovals
<1>5. queue' \in Seq(Ops) /\ step' \in Steps
  BY DEF TypeOK, chain, Steps, Reader, OutsideCommit, ForgetApprovals
<1>6. /\ attempt' \in [Contract -> {"none"} \cup Steps] /\ retry' \in [Contract -> {"none", "armed", "fired"}]
        /\ held' \subseteq Contract
  BY DEF TypeOK, reclaim, Steps, OutsideCommit, ForgetApprovals
<1>7. /\ stage' \in Stages /\ todo' \subseteq Contract
        /\ spent' \in [{"outside", "faults", "crashes"} -> Nat]
  BY SpendTypes DEF TypeOK, boot, Stages, OutsideCommit, ForgetApprovals
<1> QED BY <1>1, <1>2, <1>3, <1>4, <1>5, <1>6, <1>7 DEF TypeOK

LEMMA StrayCommitTypes ==
  ASSUME TypeOK, NEW c \in Contract, StrayCommit(c)
  PROVE  TypeOK'
<1>1. contract' \in [Contract -> Landings] /\ exact' \subseteq Reader \X Contract
  BY DEF TypeOK, Reader, Status, StrayCommit, ForgetApprovals
<1>2. run' \in [Contract -> Runs] /\ worktree' \in [Contract -> Trees]
  BY DEF TypeOK, Life, StrayCommit, ForgetApprovals
<1>3. branch' \in [Contract -> Branches] /\ head' \in Nat /\ merges' \subseteq Merges
  BY BranchShapes DEF TypeOK, git, StrayCommit, ForgetApprovals
<1>4. task' \in [Contract -> Tasks] /\ decision' \in [Contract -> {"none", "reading", "landing"}]
  BY DEF TypeOK, Tasks, StrayCommit, ForgetApprovals
<1>5. queue' \in Seq(Ops) /\ step' \in Steps
  BY DEF TypeOK, chain, Steps, Reader, StrayCommit, ForgetApprovals
<1>6. /\ attempt' \in [Contract -> {"none"} \cup Steps] /\ retry' \in [Contract -> {"none", "armed", "fired"}]
        /\ held' \subseteq Contract
  BY DEF TypeOK, reclaim, Steps, StrayCommit, ForgetApprovals
<1>7. /\ stage' \in Stages /\ todo' \subseteq Contract
        /\ spent' \in [{"outside", "faults", "crashes"} -> Nat]
  BY SpendTypes DEF TypeOK, boot, Stages, StrayCommit, ForgetApprovals
<1> QED BY <1>1, <1>2, <1>3, <1>4, <1>5, <1>6, <1>7 DEF TypeOK

LEMMA HoldTypes ==
  ASSUME TypeOK, NEW c \in Contract, Hold(c)
  PROVE  TypeOK'
<1>1. contract' \in [Contract -> Landings] /\ exact' \subseteq Reader \X Contract
  BY DEF TypeOK, Reader, Status, Hold
<1>2. run' \in [Contract -> Runs] /\ worktree' \in [Contract -> Trees]
  BY DEF TypeOK, Life, Hold
<1>3. branch' \in [Contract -> Branches] /\ head' \in Nat /\ merges' \subseteq Merges
  BY DEF TypeOK, git, Hold
<1>4. task' \in [Contract -> Tasks] /\ decision' \in [Contract -> {"none", "reading", "landing"}]
  BY DEF TypeOK, Tasks, Hold
<1>5. queue' \in Seq(Ops) /\ step' \in Steps
  BY DEF TypeOK, chain, Steps, Reader, Hold
<1>6. /\ attempt' \in [Contract -> {"none"} \cup Steps] /\ retry' \in [Contract -> {"none", "armed", "fired"}]
        /\ held' \subseteq Contract
  BY DEF TypeOK, reclaim, Steps, Hold
<1>7. /\ stage' \in Stages /\ todo' \subseteq Contract
        /\ spent' \in [{"outside", "faults", "crashes"} -> Nat]
  BY SpendTypes DEF TypeOK, boot, Stages, Hold
<1> QED BY <1>1, <1>2, <1>3, <1>4, <1>5, <1>6, <1>7 DEF TypeOK

LEMMA LetGoTypes ==
  ASSUME TypeOK, NEW c \in Contract, LetGo(c)
  PROVE  TypeOK'
<1>1. contract' \in [Contract -> Landings] /\ exact' \subseteq Reader \X Contract
  BY DEF TypeOK, Reader, Status, LetGo
<1>2. run' \in [Contract -> Runs] /\ worktree' \in [Contract -> Trees]
  BY DEF TypeOK, Life, LetGo
<1>3. branch' \in [Contract -> Branches] /\ head' \in Nat /\ merges' \subseteq Merges
  BY DEF TypeOK, git, LetGo
<1>4. task' \in [Contract -> Tasks] /\ decision' \in [Contract -> {"none", "reading", "landing"}]
  BY DEF TypeOK, Tasks, LetGo
<1>5. queue' \in Seq(Ops) /\ step' \in Steps
  BY DEF TypeOK, chain, Steps, Reader, LetGo
<1>6. /\ attempt' \in [Contract -> {"none"} \cup Steps] /\ retry' \in [Contract -> {"none", "armed", "fired"}]
        /\ held' \subseteq Contract
  BY DEF TypeOK, reclaim, Steps, LetGo
<1>7. /\ stage' \in Stages /\ todo' \subseteq Contract
        /\ spent' \in [{"outside", "faults", "crashes"} -> Nat]
  BY DEF TypeOK, boot, Stages, LetGo
<1> QED BY <1>1, <1>2, <1>3, <1>4, <1>5, <1>6, <1>7 DEF TypeOK

LEMMA SubmitDeliverableTypes ==
  ASSUME TypeOK, NEW c \in Contract, SubmitDeliverable(c)
  PROVE  TypeOK'
<1>1. [contract[c] EXCEPT !.seal = branch[c].tip] \in Landings
  BY LandingShapes, BranchShapes DEF TypeOK
<1>2. contract' \in [Contract -> Landings] /\ exact' \subseteq Reader \X Contract
  BY <1>1, WriteTypes DEF SubmitDeliverable
<1>3. run' \in [Contract -> Runs]
  BY RunShapes DEF TypeOK, SubmitDeliverable
<1> QED BY <1>2, <1>3 DEF TypeOK, SubmitDeliverable, git, chain, reclaim, boot

LEMMA LandStartsTypes ==
  ASSUME TypeOK, LandStarts
  PROVE  TypeOK'
<1> DEFINE op == Head(queue)
<1>1. queue # <<>> /\ op.c \in Contract /\ contract[op.c] \in Landings
  BY HeadTypes DEF TypeOK, LandStarts, Running
<1>2. {"none", "failed"} \subseteq Tasks /\ "check" \in Steps /\ "pending" \in Status
  BY DEF Tasks, Steps, Status
<1>3. /\ contract' \in [Contract -> Landings] /\ exact' \subseteq Reader \X Contract
      /\ queue' \in Seq(Ops) /\ step' \in Steps
      /\ task' \in [Contract -> Tasks]
      /\ decision' \in [Contract -> {"none", "reading", "landing"}]
  <2>1. CASE Give("none") \/ Give("failed")
    BY <1>1, <1>2, <2>1, StepTypes DEF TypeOK
  <2>2. CASE Proceed("check") /\ UNCHANGED <<contract, exact>>
    BY <1>1, <1>2, <2>2, StepTypes DEF TypeOK
  <2>3. CASE Proceed("check") /\ Write(op.c, [contract[op.c] EXCEPT !.landing = "pending"], {op.by})
    <3>1. [contract[op.c] EXCEPT !.landing = "pending"] \in Landings
      BY <1>1, <1>2, LandingShapes
    <3>2. contract' \in [Contract -> Landings] /\ exact' \subseteq Reader \X Contract
      BY <1>1, <2>3, <3>1, WriteTypes
    <3> QED BY <1>2, <2>3, <3>2 DEF Proceed, TypeOK
  <2> QED BY <2>1, <2>2, <2>3 DEF LandStarts
<1>4. spent' \in [{"outside", "faults", "crashes"} -> Nat]
  BY FaultTypes DEF LandStarts, TypeOK
<1> QED BY <1>3, <1>4 DEF TypeOK, LandStarts, git, reclaim, boot

LEMMA LandChecksTypes ==
  ASSUME TypeOK, LandChecks
  PROVE  TypeOK'
<1> DEFINE op == Head(queue)
<1>1. queue # <<>> /\ op.c \in Contract /\ branch[op.c].tip \in Commit
  BY HeadTypes, BranchShapes DEF TypeOK, LandChecks, Running
<1>2. /\ "merge" \in Steps /\ {"failed", "stale-base"} \subseteq Status
      /\ {"failed", "parked", "merging", "merged"} \subseteq Life
  BY DEF Steps, Status, Life
<1>3. /\ contract' \in [Contract -> Landings] /\ exact' \subseteq Reader \X Contract
      /\ run' \in [Contract -> Runs]
      /\ queue' \in Seq(Ops) /\ step' \in Steps
      /\ task' \in [Contract -> Tasks]
      /\ decision' \in [Contract -> {"none", "reading", "landing"}]
  <2>1. CASE \/ SettleParked(op, "failed", "failed") \/ SettleParked(op, "stale-base", "parked")
             \/ SettleLanded(op, branch[op.c].tip)
    BY <1>1, <1>2, <2>1, SettleTypes
  <2>2. CASE Stamp(op.c, "merging") /\ Proceed("merge") /\ UNCHANGED <<contract, exact>>
    <3>1. run' \in [Contract -> Runs] BY <1>1, <1>2, <2>2, StampTypes
    <3> QED BY <1>1, <1>2, <2>2, <3>1, StepTypes DEF TypeOK
  <2> QED BY <2>1, <2>2 DEF LandChecks
<1>4. spent' \in [{"outside", "faults", "crashes"} -> Nat]
  BY FaultTypes DEF LandChecks, TypeOK
<1> QED BY <1>3, <1>4 DEF TypeOK, LandChecks, git, reclaim, boot

LEMMA LandMergesTypes ==
  ASSUME TypeOK, LandMerges
  PROVE  TypeOK'
<1> DEFINE op  == Head(queue)
           tip == branch[op.c].tip
<1>1. queue # <<>> /\ op \in Ops /\ op = queue[1] /\ op.c \in Contract /\ tip \in Commit
  BY HeadTypes, BranchShapes DEF TypeOK, LandMerges, Running
<1>2. CASE \/ SettleParked(op, "stale-base", "parked") /\ UNCHANGED <<git, spent>>
           \/ (SettleParked(op, "conflict", "parked") /\ UNCHANGED spent) /\ UNCHANGED git
           \/ (SettleParked(op, "failed", "failed") /\ Fault) /\ UNCHANGED git
  <2>1. {"stale-base", "conflict", "failed"} \subseteq Status /\ {"parked", "failed"} \subseteq Life
    BY DEF Status, Life
  <2>2. /\ contract' \in [Contract -> Landings] /\ exact' \subseteq Reader \X Contract
        /\ run' \in [Contract -> Runs]
        /\ queue' \in Seq(Ops) /\ step' \in Steps
        /\ task' \in [Contract -> Tasks]
        /\ decision' \in [Contract -> {"none", "reading", "landing"}]
    BY <1>1, <1>2, <2>1, SettleTypes
  <2>3. spent' \in [{"outside", "faults", "crashes"} -> Nat]
    BY <1>2, FaultTypes DEF TypeOK
  <2> QED BY <1>2, <2>2, <2>3 DEF TypeOK, LandMerges, git, reclaim, boot
<1>3. CASE /\ IF ~Ahead(op.c, head)
              THEN UNCHANGED git
              ELSE /\ merges' = merges \cup {[contract |-> op.c, tip |-> tip, onto |-> head]}
                   /\ head' = head + 1
                   /\ UNCHANGED branch
           /\ queue' = [queue EXCEPT ![1].tip = tip]
           /\ step' = "record"
           /\ ForgetApprovals(Contract)
           /\ UNCHANGED <<contract, run, task, decision, spent>>
  <2>1. merges' \subseteq Merges /\ head' \in Nat /\ branch' = branch
    BY <1>1, <1>3 DEF TypeOK, Merges, git
  <2>2. queue' = [queue EXCEPT ![1] = [queue[1] EXCEPT !.tip = tip]]
    BY <1>1, <1>3, HeadTypes DEF TypeOK
  <2>3. [queue[1] EXCEPT !.tip = tip] \in Ops
    BY <1>1, OpShapes
  <2>4. queue \in Seq(Ops) /\ 1 \in 1..Len(queue)
    BY <1>1, HeadTypes DEF TypeOK
  <2>5. queue' \in Seq(Ops)
    BY <2>2, <2>3, <2>4
  <2>6. exact' \subseteq Reader \X Contract /\ step' \in Steps
    BY <1>3 DEF ForgetApprovals, TypeOK, Steps
  <2> QED BY <1>3, <2>1, <2>5, <2>6 DEF TypeOK, LandMerges, reclaim, boot
<1> QED BY <1>2, <1>3 DEF LandMerges

LEMMA LandRecordsTypes ==
  ASSUME TypeOK, LandRecords
  PROVE  TypeOK'
<1> DEFINE op == Head(queue)
<1>1. queue # <<>> /\ op.tip \in Commit
  BY HeadTypes DEF LandRecords, Running
<1>2. "failed" \in Status /\ "failed" \in Life
  BY DEF Status, Life
<1>3. /\ contract' \in [Contract -> Landings] /\ exact' \subseteq Reader \X Contract
      /\ run' \in [Contract -> Runs]
      /\ queue' \in Seq(Ops) /\ step' \in Steps
      /\ task' \in [Contract -> Tasks]
      /\ decision' \in [Contract -> {"none", "reading", "landing"}]
  <2>1. SettleLanded(op, op.tip) \/ SettleParked(op, "failed", "failed")
    BY DEF LandRecords
  <2> QED BY <1>1, <1>2, <2>1, SettleTypes
<1>4. spent' \in [{"outside", "faults", "crashes"} -> Nat]
  BY FaultTypes DEF LandRecords, TypeOK
<1> QED BY <1>3, <1>4 DEF TypeOK, LandRecords, git, reclaim, boot

LEMMA CleanupRemovesTypes ==
  ASSUME TypeOK, NEW actor \in {"op", "attempt"}, NEW c \in Contract, CleanupRemoves(actor, c)
  PROVE  TypeOK'
<1>1. actor = "op" => queue # <<>>
  BY DEF CleanupRemoves, At, Running
<1>2. /\ run' \in [Contract -> Runs]
      /\ queue' \in Seq(Ops) /\ step' \in Steps
      /\ task' \in [Contract -> Tasks]
      /\ decision' \in [Contract -> {"none", "reading", "landing"}]
      /\ attempt' \in [Contract -> {"none"} \cup Steps]
      /\ retry' \in [Contract -> {"none", "armed", "fired"}]
  <2>1. CASE Cleaned(actor, c, FALSE)
    BY <1>1, <2>1, CleanedTypes
  <2>2. CASE Goto(actor, c, "branch") /\ run' = run
    <3>1. "branch" \in Steps BY DEF Steps
    <3> QED BY <2>2, <3>1, GotoTypes DEF TypeOK
  <2> QED BY <2>1, <2>2 DEF CleanupRemoves
<1>3. worktree' \in [Contract -> Trees]
  BY SetDirTypes DEF CleanupRemoves, TypeOK
<1>4. spent' \in [{"outside", "faults", "crashes"} -> Nat]
  BY FaultTypes DEF CleanupRemoves, TypeOK
<1> QED BY <1>2, <1>3, <1>4 DEF TypeOK, CleanupRemoves, git, boot

LEMMA CleanupDeletesTypes ==
  ASSUME TypeOK, NEW actor \in {"op", "attempt"}, NEW c \in Contract, CleanupDeletes(actor, c)
  PROVE  TypeOK'
<1>1. actor = "op" => queue # <<>>
  BY DEF CleanupDeletes, At, Running
<1>2. CASE Cleaned(actor, c, FALSE) /\ UNCHANGED branch
  BY <1>1, <1>2, CleanedTypes DEF TypeOK, CleanupDeletes, boot
<1>3. CASE branch' = [branch EXCEPT ![c].there = FALSE] /\ Goto(actor, c, "row") /\ UNCHANGED run
  <2>1. branch' = [branch EXCEPT ![c] = [branch[c] EXCEPT !.there = FALSE]]
    BY <1>3 DEF TypeOK
  <2>2. branch' \in [Contract -> Branches]
    BY <2>1, BranchShapes DEF TypeOK
  <2>3. "row" \in Steps BY DEF Steps
  <2> QED BY <1>3, <2>2, <2>3, GotoTypes DEF TypeOK, CleanupDeletes, boot
<1> QED BY <1>2, <1>3 DEF CleanupDeletes

LEMMA CleanupDestroysRowTypes ==
  ASSUME TypeOK, NEW actor \in {"op", "attempt"}, NEW c \in Contract, CleanupDestroysRow(actor, c)
  PROVE  TypeOK'
<1>1. worktree' = [worktree EXCEPT ![c] = [worktree[c] EXCEPT !.row = "destroyed"]]
  BY DEF CleanupDestroysRow, TypeOK
<1>2. worktree' \in [Contract -> Trees]
  BY <1>1, TreeShapes DEF TypeOK
<1>3. "sweep" \in Steps BY DEF Steps
<1> QED BY <1>2, <1>3, GotoTypes DEF TypeOK, CleanupDestroysRow, git, boot

LEMMA AbandonStartsTypes ==
  ASSUME TypeOK, AbandonStarts
  PROVE  TypeOK'
<1> DEFINE c == Head(queue).c
<1>1. queue # <<>> /\ c \in Contract /\ contract[c] \in Landings /\ branch[c].tip \in Commit
  BY HeadTypes, BranchShapes DEF TypeOK, AbandonStarts, Running
<1>2. "none" \in Tasks /\ "remove" \in Steps /\ "abandoning" \in Status
  BY DEF Tasks, Steps, Status
<1>3. /\ contract' \in [Contract -> Landings] /\ exact' \subseteq Reader \X Contract
      /\ queue' \in Seq(Ops) /\ step' \in Steps
      /\ task' \in [Contract -> Tasks]
      /\ decision' \in [Contract -> {"none", "reading", "landing"}]
  <2>1. CASE Give("none") \/ (Proceed("remove") /\ UNCHANGED <<contract, exact>>)
    BY <1>1, <1>2, <2>1, StepTypes DEF TypeOK
  <2>2. CASE /\ Write(c, [contract[c] EXCEPT !.landing = "abandoning", !.approved = branch[c].tip], {})
             /\ Proceed("remove")
    <3>1. [contract[c] EXCEPT !.landing = "abandoning", !.approved = branch[c].tip] \in Landings
      BY <1>1, <1>2, LandingShapes
    <3>2. contract' \in [Contract -> Landings] /\ exact' \subseteq Reader \X Contract
      BY <1>1, <2>2, <3>1, WriteTypes
    <3> QED BY <1>2, <2>2, <3>2 DEF Proceed, TypeOK
  <2> QED BY <2>1, <2>2 DEF AbandonStarts
<1>4. spent' \in [{"outside", "faults", "crashes"} -> Nat]
  BY FaultTypes DEF AbandonStarts, TypeOK
<1> QED BY <1>3, <1>4 DEF TypeOK, AbandonStarts, git, reclaim, boot

LEMMA AbandonRemovesTypes ==
  ASSUME TypeOK, AbandonRemoves
  PROVE  TypeOK'
<1> DEFINE c == Head(queue).c
<1>1. queue # <<>> /\ c \in Contract
  BY HeadTypes DEF AbandonRemoves, Running
<1>2. "none" \in Tasks /\ "row" \in Steps
  BY DEF Tasks, Steps
<1>3. Give("none") \/ (Proceed("row") /\ UNCHANGED <<contract, exact>>)
  BY DEF AbandonRemoves
<1>4. worktree' \in [Contract -> Trees]
  BY <1>1, SetDirTypes DEF AbandonRemoves, TypeOK
<1> QED BY <1>1, <1>2, <1>3, <1>4, StepTypes DEF TypeOK, AbandonRemoves, git, reclaim, boot

LEMMA AbandonDestroysRowTypes ==
  ASSUME TypeOK, AbandonDestroysRow
  PROVE  TypeOK'
<1> DEFINE c == Head(queue).c
<1>1. queue # <<>> /\ c \in Contract
  BY HeadTypes DEF AbandonDestroysRow, Running
<1>2. "none" \in Tasks /\ "settle" \in Steps
  BY DEF Tasks, Steps
<1>3. Give("none") \/ (Proceed("settle") /\ UNCHANGED <<contract, exact>>)
  BY DEF AbandonDestroysRow
<1>4. [worktree[c] EXCEPT !.row = "destroyed"] \in Trees
  BY <1>1, TreeShapes DEF TypeOK
<1>5. \/ worktree' = worktree
      \/ worktree' = [worktree EXCEPT ![c] = [worktree[c] EXCEPT !.row = "destroyed"]]
  BY <1>1 DEF AbandonDestroysRow, TypeOK
<1>6. worktree' \in [Contract -> Trees]
  BY <1>1, <1>4, <1>5 DEF TypeOK
<1> QED BY <1>1, <1>2, <1>3, <1>6, StepTypes DEF TypeOK, AbandonDestroysRow, git, reclaim, boot

LEMMA AbandonSettlesTypes ==
  ASSUME TypeOK, AbandonSettles
  PROVE  TypeOK'
<1> DEFINE c == Head(queue).c
<1>1. queue # <<>> /\ c \in Contract /\ contract[c] \in Landings
  BY HeadTypes DEF TypeOK, AbandonSettles, Running
<1>2. [contract[c] EXCEPT !.landing = "abandoned"] \in Landings
  BY <1>1, LandingShapes DEF Status
<1>3. contract' \in [Contract -> Landings] /\ exact' \subseteq Reader \X Contract
  BY <1>1, <1>2, WriteTypes DEF AbandonSettles
<1>4. "none" \in Tasks BY DEF Tasks
<1>5. /\ queue' \in Seq(Ops) /\ step' \in Steps
      /\ task' \in [Contract -> Tasks]
      /\ decision' \in [Contract -> {"none", "reading", "landing"}]
  BY <1>1, <1>4, ReleaseTypes DEF AbandonSettles, Steps
<1> QED BY <1>3, <1>5 DEF TypeOK, AbandonSettles, git, reclaim, boot

LEMMA BootTypes ==
  ASSUME TypeOK, Boot
  PROVE  TypeOK'
<1>1. \A c \in Contract : [contract[c] EXCEPT !.verif = "pending"] \in Landings
  BY LandingShapes DEF TypeOK
<1>2. contract' \in [Contract -> Landings]
  BY <1>1 DEF Boot, TypeOK
<1>3. run' \in [Contract -> Runs]
  BY RunShapes DEF Boot, TypeOK, Life, Legal
<1> QED BY <1>2, <1>3 DEF TypeOK, Boot, chain, reclaim, git, Stages

LEMMA InitTypes == ASSUME Init PROVE TypeOK
<1>1. 0 \in Commit BY LandingAssumption DEF Commit
<1>2. /\ [seal |-> 0, verif |-> "none", judged |-> 0, base |-> 0,
          landing |-> "none", landed |-> 0, approved |-> 0] \in Landings
      /\ [tip |-> 0, there |-> TRUE] \in Branches
      /\ [status |-> "live", delivered |-> FALSE, life |-> "parked"] \in Runs
      /\ [dir |-> "registered", row |-> "active"] \in Trees
  BY <1>1 DEF Landings, Branches, Runs, Trees, Status, Life
<1>3. /\ contract \in [Contract -> Landings] /\ run \in [Contract -> Runs]
      /\ branch \in [Contract -> Branches] /\ worktree \in [Contract -> Trees]
  BY <1>2 DEF Init
<1>4. queue \in Seq(Ops) BY DEF Init
<1>5. /\ task \in [Contract -> Tasks] /\ decision \in [Contract -> {"none", "reading", "landing"}]
      /\ step \in Steps /\ stage \in Stages
      /\ attempt \in [Contract -> {"none"} \cup Steps] /\ retry \in [Contract -> {"none", "armed", "fired"}]
  BY DEF Init, Tasks, Steps, Stages
<1>6. spent \in [{"outside", "faults", "crashes"} -> Nat]
  BY DEF Init
<1>7. head \in Nat /\ merges \subseteq Merges /\ held \subseteq Contract /\ exact \subseteq Reader \X Contract
      /\ todo \subseteq Contract
  BY DEF Init
<1> QED BY <1>3, <1>4, <1>5, <1>6, <1>7 DEF TypeOK

LEMMA StutterTypes == ASSUME TypeOK, UNCHANGED vars PROVE TypeOK'
<1>1. /\ UNCHANGED <<contract, run, branch, head, merges, worktree, held, task, decision>>
      /\ UNCHANGED <<queue, step, attempt, retry, exact, stage, todo, spent>>
  BY DEF vars, git, chain, reclaim, boot
<1>2. /\ contract' \in [Contract -> Landings] /\ run' \in [Contract -> Runs]
      /\ branch' \in [Contract -> Branches] /\ head' \in Nat /\ merges' \subseteq Merges
      /\ worktree' \in [Contract -> Trees] /\ held' \subseteq Contract
      /\ task' \in [Contract -> Tasks] /\ decision' \in [Contract -> {"none", "reading", "landing"}]
  BY <1>1 DEF TypeOK
<1>3. /\ queue' \in Seq(Ops) /\ step' \in Steps
      /\ attempt' \in [Contract -> {"none"} \cup Steps] /\ retry' \in [Contract -> {"none", "armed", "fired"}]
      /\ exact' \subseteq Reader \X Contract /\ stage' \in Stages /\ todo' \subseteq Contract
      /\ spent' \in [{"outside", "faults", "crashes"} -> Nat]
  BY <1>1 DEF TypeOK
<1> QED BY <1>2, <1>3 DEF TypeOK

LEMMA NextTypes == ASSUME TypeOK, [Next]_vars PROVE TypeOK'
<1>1. CASE UNCHANGED vars BY <1>1, StutterTypes
<1>2. CASE Chain
  BY <1>2, LandStartsTypes, LandChecksTypes, LandMergesTypes, LandRecordsTypes, AbandonStartsTypes,
     AbandonRemovesTypes, AbandonDestroysRowTypes, AbandonSettlesTypes DEF Chain
<1>3. CASE Recovery
  <2>1. CASE Boot \/ PassEnds \/ BootReconciles \/ Attach
    BY <2>1, BootTypes, PassEndsTypes, BootReconcilesTypes, AttachTypes
  <2>2. ASSUME NEW c \in Contract,
               \/ RecoverSealed(c) \/ RecoverTeardown(c)
               \/ RecoverMutation(c, "landings", "land", "pending")
               \/ RecoverMutation(c, "abandonments", "abandon", "abandoning")
        PROVE  TypeOK'
    BY <2>2, RecoverSealedTypes, RecoverTeardownTypes, RecoverMutationTypes
  <2> QED BY <1>3, <2>1, <2>2 DEF Recovery
<1>4. CASE JanitorReconciles \/ JanitorSweeps \/ Crash
  BY <1>4, JanitorReconcilesTypes, JanitorSweepsTypes, CrashTypes
<1>5. CASE Others
  BY <1>5, OutsideCommitTypes, StrayCommitTypes, HoldTypes, LetGoTypes DEF Others
<1>6. ASSUME NEW c \in Contract, Producer(c) PROVE TypeOK'
  BY <1>6, AgentCommitsTypes, SubmitDeliverableTypes, RunEndsTypes, KillRunTypes, ContinueTypes DEF Producer
<1>7. ASSUME NEW c \in Contract, Orchestrator(c) PROVE TypeOK'
  BY <1>7, AcceptTypes, RejectTypes, ApproveAbandonmentTypes DEF Orchestrator
<1>8. ASSUME NEW c \in Contract, Process(c) PROVE TypeOK'
  BY <1>8, DisposedTypes, RetireTypes, VerifyEndsTypes, AcceptReadsTypes, TeardownTypes, RetryTypes
     DEF Process, PostTerminal
<1>9. ASSUME NEW c \in Contract, NEW actor \in {"op", "attempt"}, Cleanup(actor, c) PROVE TypeOK'
  BY <1>9, CleanupRemovesTypes, CleanupDeletesTypes, CleanupDestroysRowTypes, CleanupSweepsTypes DEF Cleanup
<1> QED BY <1>1, <1>2, <1>3, <1>4, <1>5, <1>6, <1>7, <1>8, <1>9 DEF Next

\* Every variable stays in its type, for any contracts and any bounds.
THEOREM LandingTypes == Spec => []TypeOK
<1>1. Init => TypeOK BY InitTypes
<1>2. TypeOK /\ [Next]_vars => TypeOK' BY NextTypes
<1> QED BY <1>1, <1>2, PTL DEF Spec

------------------------------------------------------------------------------
(* The invariant.                                                             *)

Cleaning == {"remove", "branch", "row", "sweep"}

\* The mutation at the head of the chain is of that kind, for c, and in one of the steps S.
AtHead(kind, c, S) == queue # <<>> /\ Head(queue).kind = kind /\ Head(queue).c = c /\ step \in S

\* A cleanup of c, by the landing or by an attempt, is in one of the steps S.
Reclaiming(c, S) == attempt[c] \in S \/ AtHead("land", c, S)

DownOK ==
  /\ queue = <<>> => step = "start"
  /\ stage = "down" => queue = <<>> /\ exact = {}

TaskOK(c) ==
  /\ stage = "down" => task[c] = "none" /\ attempt[c] = "none" /\ retry[c] = "none"
  /\ task[c] \in {"retire", "dispose"} => stage = "attached"
  /\ task[c] \in {"verify", "land"} => stage \in {"sealed", "attached"}

LiveOK(c) ==
  Live(c) =>
    /\ task[c] = "none" /\ contract[c].landing \in Reopenable
    /\ stage \in {"sealed", "attached", "down"}
    /\ stage = "sealed" => c \in todo

RowOK(c) ==
  /\ contract[c].landing = "pending" => contract[c].judged = contract[c].seal
  /\ contract[c].landing \in {"abandoning", "abandoned"} => task[c] \notin {"retire", "verify"}
  /\ stage = "sealed" /\ c \in todo =>
       task[c] = "none" /\ contract[c].landing \notin {"abandoning", "abandoned"}
  /\ stage = "teardowns" /\ c \in todo => contract[c].landing = "landed"
  /\ decision[c] = "reading" /\ <<"accept", c>> \in exact => contract[c].landing \in Reopenable

OpOK(op) ==
  /\ op.by = "task" => op.kind = "land" /\ task[op.c] = "land"
  /\ op.by = "accept" => op.kind = "land" /\ decision[op.c] = "landing"
  /\ op.by = "boot" => \/ op.kind = "land" /\ stage = "landings"
                       \/ op.kind = "abandon" /\ stage = "abandonments"
  /\ op.by = "browser" => op.kind = "abandon" /\ stage = "attached"
  /\ op.kind = "land" /\ Owns(op) /\ contract[op.c].verif = "passed" =>
       contract[op.c].judged = contract[op.c].seal

QueueOK ==
  /\ \A i \in 1..Len(queue) : OpOK(queue[i])
  /\ \A i, j \in 1..Len(queue) :
       queue[i].by = queue[j].by /\ queue[i].c = queue[j].c /\ queue[i].by \in {"task", "accept"}
         => i = j

HeadOK(c) ==
  /\ AtHead("land", c, {"check", "merge", "record"}) =>
       contract[c].landing = "pending" /\ (Owns(Head(queue)) => contract[c].verif = "passed")
  /\ AtHead("land", c, Cleaning) => contract[c].landing = "landed"
  /\ AtHead("abandon", c, {"remove", "row", "settle"}) => contract[c].landing = "abandoning"
  /\ AtHead("land", c, {"record"}) => Head(queue).tip = 0 \/ Merged(c, Head(queue).tip)

ReclaimOK(c) ==
  /\ attempt[c] # "none" \/ retry[c] # "none" => contract[c].landing = "landed"
  /\ Reclaiming(c, {"branch", "row", "sweep"}) => worktree[c].dir = "absent"
  /\ Reclaiming(c, {"row", "sweep"}) => ~branch[c].there
  /\ Reclaiming(c, {"sweep"}) => worktree[c].row = "destroyed"

MergesOK == \A m \in merges : m.tip <= branch[m.contract].tip

LandedOK(c) ==
  /\ contract[c].landing = "landed" => contract[c].landed = 0 \/ Merged(c, contract[c].landed)
  /\ branch[c].tip > 0 /\ Merged(c, branch[c].tip) =>
       contract[c].landing \notin {"none", "abandoning", "abandoned"}
  /\ contract[c].seal <= branch[c].tip
  /\ ~branch[c].there => contract[c].landing = "landed" /\ (branch[c].tip = 0 \/ Merged(c, branch[c].tip))

TreeOK(c) ==
  /\ worktree[c].dir # "registered" =>
       ~Live(c) /\ contract[c].landing \in {"landed", "abandoning", "abandoned"}
  /\ run[c].life = "completed" =>
       /\ contract[c].landing = "landed"
       /\ worktree[c].dir = "absent" /\ worktree[c].row = "destroyed" /\ ~branch[c].there

ContractOK(c) ==
  TaskOK(c) /\ LiveOK(c) /\ RowOK(c) /\ HeadOK(c) /\ ReclaimOK(c) /\ LandedOK(c) /\ TreeOK(c)

LandingInv ==
  /\ TypeOK /\ DownOK /\ QueueOK /\ MergesOK
  /\ \A c \in Contract : ContractOK(c)

------------------------------------------------------------------------------
(* The chain.                                                                 *)

\* What a contract's fields are, for the provers.
LEMMA Fields ==
  ASSUME TypeOK, NEW c \in Contract
  PROVE  /\ contract[c] \in Landings /\ run[c] \in Runs /\ branch[c] \in Branches /\ worktree[c] \in Trees
         /\ contract[c].landing \in Status /\ contract[c].seal \in Nat /\ branch[c].tip \in Nat
         /\ contract[c].landed \in Nat /\ contract[c].seal \in Commit /\ branch[c].tip \in Commit
         /\ task[c] \in Tasks /\ step \in Steps
         /\ \A m \in merges : m.tip \in Nat /\ m.contract \in Contract
<1>1. \A t \in Commit : t \in Nat BY LandingAssumption DEF Commit
<1> QED BY <1>1 DEF TypeOK, Landings, Branches, Merges

\* The mutation at the head, if it is under way and for c, is the one that was.
HeadKept(c) ==
  queue' # <<>> /\ Head(queue').c = c /\ step' # "start" =>
    queue # <<>> /\ Head(queue') = Head(queue) /\ step' = step

LEMMA EnqueueKeepsHead ==
  ASSUME TypeOK, DownOK, NEW op \in Ops, Enqueue(op)
  PROVE  \A c \in Contract : HeadKept(c)
  BY EnqueueTypes DEF DownOK, HeadKept

LEMMA ReleaseKeepsHead ==
  ASSUME TypeOK, queue # <<>>, NEW after \in Tasks, Release(after)
  PROVE  \A c \in Contract : HeadKept(c)
  BY ReleaseTypes DEF HeadKept

\* Nothing that a queued mutation relies on is taken from it.
Undisturbed ==
  /\ stage' = stage
  /\ \A c \in Contract : /\ task[c] = "land" => task'[c] = "land"
                         /\ decision[c] = "landing" => decision'[c] = "landing"
  /\ \A c \in Contract, by \in Reader :
       <<by, c>> \in exact' =>
         \/ /\ <<by, c>> \in exact
            /\ contract'[c].verif = contract[c].verif /\ contract'[c].judged = contract[c].judged
            /\ contract'[c].seal = contract[c].seal
         \/ contract'[c].verif # "passed" \/ contract'[c].judged = contract'[c].seal
         \/ by = "task" /\ task[c] # "land"
         \/ by = "accept" /\ decision[c] # "landing"
         \/ by = "boot" /\ \A i \in 1..Len(queue) : queue[i].by # "boot"
         \/ by = "browser"

LEMMA OpUndisturbed ==
  ASSUME TypeOK, Undisturbed, NEW i \in 1..Len(queue), OpOK(queue[i]),
         NEW op \in Ops, op.kind = queue[i].kind, op.c = queue[i].c, op.by = queue[i].by
  PROVE  OpOK(op)'
<1>1. op.c \in Contract /\ op.by \in Reader BY OpShapes
<1>2. /\ op.by = "task" => op.kind = "land" /\ task'[op.c] = "land"
      /\ op.by = "accept" => op.kind = "land" /\ decision'[op.c] = "landing"
      /\ op.by = "boot" => \/ op.kind = "land" /\ stage' = "landings"
                           \/ op.kind = "abandon" /\ stage' = "abandonments"
      /\ op.by = "browser" => op.kind = "abandon" /\ stage' = "attached"
  BY <1>1 DEF OpOK, Undisturbed
<1>3. ASSUME op.kind = "land", <<op.by, op.c>> \in exact', contract'[op.c].verif = "passed"
      PROVE  contract'[op.c].judged = contract'[op.c].seal
  BY <1>1, <1>3 DEF OpOK, Undisturbed, Owns
<1> QED BY <1>2, <1>3 DEF OpOK, Owns

LEMMA QueueStays ==
  ASSUME TypeOK, QueueOK, Undisturbed, UNCHANGED queue
  PROVE  QueueOK'
<1>1. ASSUME NEW i \in 1..Len(queue) PROVE OpOK(queue[i])'
  <2>1. queue[i] \in Ops BY DEF TypeOK
  <2>2. OpOK(queue[i]) BY DEF QueueOK
  <2> QED BY <2>1, <2>2, OpUndisturbed DEF OpOK, Owns
<1> QED BY <1>1 DEF QueueOK

\* A caller that has no mutation in the chain enqueues one.
LEMMA QueueGrows ==
  ASSUME TypeOK, QueueOK, Undisturbed, NEW op \in Ops, Enqueue(op), OpOK(op)',
         \A i \in 1..Len(queue) :
           queue[i].by = op.by /\ queue[i].c = op.c => op.by \notin {"task", "accept"}
  PROVE  QueueOK'
<1>1. /\ Len(queue') = Len(queue) + 1 /\ Len(queue) \in Nat
      /\ queue'[Len(queue) + 1] = op
      /\ \A i \in 1..Len(queue) : queue'[i] = queue[i]
  BY EnqueueTypes DEF TypeOK
<1>2. ASSUME NEW i \in 1..Len(queue') PROVE OpOK(queue[i])'
  <2>1. CASE i = Len(queue) + 1
    <3>1. queue'[i] = op BY <1>1, <2>1
    <3> QED BY <3>1 DEF OpOK, Owns
  <2>2. CASE i # Len(queue) + 1
    <3>1. i \in 1..Len(queue) BY <1>1, <2>2
    <3>2. queue'[i] = queue[i] /\ queue[i] \in Ops /\ OpOK(queue[i])
      BY <1>1, <3>1 DEF TypeOK, QueueOK
    <3>3. \A o \in Ops : o.kind = queue[i].kind /\ o.c = queue[i].c /\ o.by = queue[i].by => OpOK(o)'
      BY <3>1, <3>2, OpUndisturbed
    <3> QED BY <3>2, <3>3 DEF OpOK, Owns
  <2> QED BY <2>1, <2>2
<1>3. ASSUME NEW i \in 1..Len(queue'), NEW j \in 1..Len(queue'),
             queue'[i].by = queue'[j].by, queue'[i].c = queue'[j].c, queue'[i].by \in {"task", "accept"}
      PROVE  i = j
  <2>1. i \in 1..Len(queue) + 1 /\ j \in 1..Len(queue) + 1 BY <1>1
  <2>2. CASE i \in 1..Len(queue) /\ j \in 1..Len(queue)
    BY <1>1, <1>3, <2>2 DEF QueueOK
  <2>3. CASE i \notin 1..Len(queue) \/ j \notin 1..Len(queue)
    BY <1>1, <1>3, <2>1, <2>3
  <2> QED BY <2>2, <2>3
<1> QED BY <1>2, <1>3 DEF QueueOK

\* The head settles: the caller that waited for it goes on, and nobody else does.
LEMMA QueueReleases ==
  ASSUME TypeOK, QueueOK, queue # <<>>, NEW after \in Tasks, Release(after), stage' = stage,
         exact' \subseteq exact,
         \A c \in Contract : /\ contract'[c].verif = contract[c].verif
                             /\ contract'[c].judged = contract[c].judged
                             /\ contract'[c].seal = contract[c].seal
  PROVE  QueueOK'
<1>1. /\ Head(queue) \in Ops /\ Head(queue) = queue[1] /\ Len(queue) \in Nat /\ Len(queue) > 0
      /\ Len(queue') = Len(queue) - 1
      /\ \A i \in 1..Len(queue) - 1 : queue'[i] = queue[i + 1]
  BY HeadTypes DEF Release
<1>2. ASSUME NEW i \in 1..Len(queue') PROVE OpOK(queue[i])'
  <2> DEFINE o == queue[i + 1]
  <2>1. i + 1 \in 1..Len(queue) /\ 1 \in 1..Len(queue) /\ i + 1 # 1 BY <1>1
  <2>2. queue'[i] = o /\ o \in Ops /\ o.c \in Contract BY <1>1, <2>1, OpShapes DEF TypeOK
  <2>3. OpOK(o) BY <2>1 DEF QueueOK
  <2>4. o.by \in {"task", "accept"} => o.by # Head(queue).by \/ o.c # Head(queue).c
    BY <1>1, <2>1 DEF QueueOK
  <2>5. o.by = "task" => o.kind = "land" /\ task'[o.c] = "land"
    BY <2>2, <2>3, <2>4 DEF OpOK, Release, TypeOK
  <2>6. o.by = "accept" => o.kind = "land" /\ decision'[o.c] = "landing"
    BY <2>2, <2>3, <2>4 DEF OpOK, Release, TypeOK
  <2>7. /\ o.by = "boot" => \/ o.kind = "land" /\ stage' = "landings"
                            \/ o.kind = "abandon" /\ stage' = "abandonments"
        /\ o.by = "browser" => o.kind = "abandon" /\ stage' = "attached"
    BY <2>3 DEF OpOK
  <2>8. o.kind = "land" /\ <<o.by, o.c>> \in exact' /\ contract'[o.c].verif = "passed" =>
          contract'[o.c].judged = contract'[o.c].seal
    BY <2>2, <2>3 DEF OpOK, Owns
  <2> QED BY <2>2, <2>5, <2>6, <2>7, <2>8 DEF OpOK, Owns
<1>3. ASSUME NEW i \in 1..Len(queue'), NEW j \in 1..Len(queue'),
             queue'[i].by = queue'[j].by, queue'[i].c = queue'[j].c, queue'[i].by \in {"task", "accept"}
      PROVE  i = j
  <2>1. i + 1 \in 1..Len(queue) /\ j + 1 \in 1..Len(queue) BY <1>1
  <2>2. queue'[i] = queue[i + 1] /\ queue'[j] = queue[j + 1] BY <1>1
  <2>3. i + 1 = j + 1 BY <1>3, <2>1, <2>2 DEF QueueOK
  <2> QED BY <2>3
<1> QED BY <1>2, <1>3 DEF QueueOK

\* What settling does to the callers.
LEMMA ReleaseFrees ==
  ASSUME TypeOK, QueueOK, queue # <<>>, NEW after \in Tasks, Release(after), NEW c \in Contract
  PROVE  /\ \/ task'[c] = task[c]
            \/ c = Head(queue).c /\ task[c] = "land" /\ task'[c] = after
         /\ \/ decision'[c] = decision[c]
            \/ c = Head(queue).c /\ decision[c] = "landing" /\ decision'[c] = "none"
         /\ ~ (queue' # <<>> /\ step' # "start")
<1>1. Head(queue) = queue[1] /\ OpOK(queue[1]) BY HeadTypes DEF QueueOK
<1> QED BY <1>1, HeadTypes DEF OpOK, Release, TypeOK

------------------------------------------------------------------------------
(* One contract at a time.                                                    *)

\* The step leaves c, its callers and its mutation alone; the sweep may delete the
\* orphaned directory of any contract.
LeftAlone(c) ==
  /\ contract'[c] = contract[c] /\ run'[c] = run[c] /\ branch'[c] = branch[c]
  /\ task'[c] = task[c] /\ decision'[c] = decision[c]
  /\ attempt'[c] = attempt[c] /\ retry'[c] = retry[c]
  /\ \/ worktree'[c] = worktree[c]
     \/ /\ worktree[c].dir # "registered"
        /\ worktree'[c].dir = "absent" /\ worktree'[c].row = "destroyed"
  /\ \A by \in Reader : <<by, c>> \in exact' => <<by, c>> \in exact
  /\ HeadKept(c)

\* Nobody else's landing or boot pass concerns c.
NotConcerned(c) ==
  /\ stage' = stage /\ (c \in todo' <=> c \in todo)
  /\ \A t : Merged(c, t)' <=> Merged(c, t)

LEMMA MergesKept ==
  ASSUME UNCHANGED merges PROVE \A c, t : Merged(c, t)' <=> Merged(c, t)
  BY DEF Merged

\* What the head holds survives a step that leaves its row in its status: a row that
\* stays verified, or that the head no longer holds.
LEMMA HeadStays ==
  ASSUME TypeOK, QueueOK, NEW c \in Contract, HeadOK(c), HeadKept(c),
         contract'[c].landing = contract[c].landing,
         \A t : Merged(c, t) => Merged(c, t)',
         \A by \in Reader : <<by, c>> \in exact' =>
           \/ /\ <<by, c>> \in exact
              /\ contract[c].verif = "passed" => contract'[c].verif = "passed"
           \/ by = "task" /\ task[c] # "land"
           \/ by = "accept" /\ decision[c] # "landing"
           \/ by = "boot" /\ \A i \in 1..Len(queue) : queue[i].by # "boot"
           \/ by = "browser"
  PROVE  HeadOK(c)'
<1>1. SUFFICES ASSUME queue' # <<>>, Head(queue').c = c, step' # "start"
               PROVE  HeadOK(c)'
  BY DEF HeadOK, AtHead, Cleaning
<1>2. queue # <<>> /\ Head(queue') = Head(queue) /\ step' = step
  BY <1>1 DEF HeadKept
<1>3. /\ Head(queue) = queue[1] /\ 1 \in 1..Len(queue) /\ Head(queue).by \in Reader
      /\ OpOK(Head(queue)) /\ Head(queue).c = c
  BY <1>1, <1>2, HeadTypes, OpShapes DEF QueueOK
<1>4. ASSUME Head(queue).kind = "land", Owns(Head(queue))'
      PROVE  Owns(Head(queue)) /\ (contract[c].verif = "passed" => contract'[c].verif = "passed")
  <2> DEFINE by == Head(queue).by
  <2>1. <<by, c>> \in exact' BY <1>2, <1>3, <1>4 DEF Owns
  <2>2. /\ by = "task" => task[c] = "land"
        /\ by = "accept" => decision[c] = "landing"
        /\ by # "browser"
    BY <1>3, <1>4 DEF OpOK
  <2>3. ~(by = "boot" /\ \A i \in 1..Len(queue) : queue[i].by # "boot")
    BY <1>3
  <2>4. <<by, c>> \in exact /\ (contract[c].verif = "passed" => contract'[c].verif = "passed")
    BY <1>3, <2>1, <2>2, <2>3
  <2> QED BY <1>3, <2>4 DEF Owns
<1>5. \A kind, S : AtHead(kind, c, S)' <=> AtHead(kind, c, S)
  BY <1>1, <1>2 DEF AtHead
<1>6. ASSUME AtHead("land", c, {"check", "merge", "record"})'
      PROVE  contract'[c].landing = "pending" /\ (Owns(Head(queue))' => contract'[c].verif = "passed")
  BY <1>4, <1>5, <1>6 DEF HeadOK, AtHead
<1>7. AtHead("land", c, {"record"})' => Head(queue').tip = 0 \/ Merged(c, Head(queue).tip)'
  <2>1. AtHead("land", c, {"record"})' => Head(queue).tip = 0 \/ Merged(c, Head(queue).tip)
    BY <1>5 DEF HeadOK
  <2> QED BY <1>2, <2>1 DEF Merged
<1>8. AtHead("land", c, Cleaning)' => contract'[c].landing = "landed"
  BY <1>5 DEF HeadOK
<1>9. AtHead("abandon", c, {"remove", "row", "settle"})' => contract'[c].landing = "abandoning"
  BY <1>5 DEF HeadOK
<1> QED BY <1>6, <1>7, <1>8, <1>9 DEF HeadOK

LEMMA OtherContract ==
  ASSUME TypeOK, QueueOK, NEW c \in Contract, ContractOK(c), LeftAlone(c), NotConcerned(c)
  PROVE  ContractOK(c)'
<1>1. /\ contract'[c] = contract[c] /\ run'[c] = run[c] /\ branch'[c] = branch[c]
      /\ task'[c] = task[c] /\ decision'[c] = decision[c]
      /\ attempt'[c] = attempt[c] /\ retry'[c] = retry[c]
      /\ stage' = stage /\ (c \in todo' <=> c \in todo)
      /\ <<"accept", c>> \in exact' => <<"accept", c>> \in exact
  BY DEF LeftAlone, NotConcerned, Reader
<1>2. \A kind, S : "start" \notin S /\ AtHead(kind, c, S)' => AtHead(kind, c, S) /\ Head(queue)' = Head(queue)
  BY DEF LeftAlone, HeadKept, AtHead
<1>3. \A t : Merged(c, t)' <=> Merged(c, t) BY DEF NotConcerned
<1>4. TaskOK(c)' /\ LiveOK(c)' /\ RowOK(c)'
  BY <1>1 DEF ContractOK, TaskOK, LiveOK, RowOK, Live
<1>5. HeadOK(c)'
  <2>1. HeadOK(c) BY DEF ContractOK
  <2> QED BY <1>1, <1>3, <2>1, HeadStays DEF LeftAlone
<1>6. ReclaimOK(c)'
  BY <1>1, <1>2 DEF ContractOK, ReclaimOK, Reclaiming, LeftAlone
<1>7. LandedOK(c)'
  BY <1>1, <1>3 DEF ContractOK, LandedOK
<1>8. TreeOK(c)'
  BY <1>1 DEF ContractOK, TreeOK, Live, LeftAlone
<1> QED BY <1>4, <1>5, <1>6, <1>7, <1>8 DEF ContractOK

LEMMA WriteKeeps ==
  ASSUME TypeOK, NEW c \in Contract, NEW row, NEW keep, Write(c, row, keep)
  PROVE  /\ contract'[c] = row
         /\ \A d \in Contract : d # c => contract'[d] = contract[d]
         /\ exact' \subseteq exact
         /\ \A by \in Reader : <<by, c>> \in exact' <=> <<by, c>> \in exact /\ by \in keep
<1>1. contract'[c] = row /\ \A d \in Contract : d # c => contract'[d] = contract[d]
  BY DEF Write, TypeOK
<1>2. exact' \subseteq exact BY DEF Write
<1>3. ASSUME NEW by \in Reader PROVE <<by, c>> \in exact' <=> <<by, c>> \in exact /\ by \in keep
  BY DEF Write
<1> QED BY <1>1, <1>2, <1>3

LEMMA StartVerificationDoes ==
  ASSUME TypeOK, NEW c \in Contract, NEW status, StartVerification(c, status)
  PROVE  /\ \A d \in Contract : d # c => contract'[d] = contract[d] /\ task'[d] = task[d]
         /\ contract'[c].landing = contract[c].landing /\ contract'[c].seal = contract[c].seal
         /\ contract'[c].landed = contract[c].landed
         /\ \/ contract'[c].verif = contract[c].verif /\ contract'[c].judged = contract[c].judged
            \/ contract'[c].verif = "failed" /\ contract'[c].judged = contract[c].seal
         /\ \A by \in Reader : <<by, c>> \in exact' =>
              by = "task" \/ (<<by, c>> \in exact /\ contract'[c].verif = contract[c].verif)
         /\ task'[c] \in {"verify", "none"}
         /\ exact' \subseteq exact \cup {<<"task", c>>}
<1>1. contract[c] \in Landings BY Fields
<1>2. CASE status = "completed" \/ contract[c].landing \in Settled
  BY <1>2 DEF StartVerification, TypeOK
<1>3. CASE status # "completed" /\ contract[c].landing \notin Settled
  <2>1. Write(c, Judged(c, "failed"), {}) /\ task' = [task EXCEPT ![c] = "none"]
    BY <1>3 DEF StartVerification
  <2>2. /\ contract'[c] = Judged(c, "failed") /\ exact' \subseteq exact
        /\ \A by \in Reader : <<by, c>> \notin exact'
        /\ \A d \in Contract : d # c => contract'[d] = contract[d]
    BY ONLY TypeOK, c \in Contract, <2>1, WriteKeeps
  <2> QED BY <1>1, <2>1, <2>2 DEF TypeOK, Judged, Landings
<1> QED BY <1>2, <1>3

LEMMA OneContract ==
  ASSUME LandingInv, TypeOK', NEW c \in Contract, DownOK', QueueOK', MergesOK', ContractOK(c)',
         \A d \in Contract : d # c => LeftAlone(d) /\ NotConcerned(d)
  PROVE  LandingInv'
<1>1. ASSUME NEW d \in Contract, d # c PROVE ContractOK(d)'
  BY <1>1, OtherContract DEF LandingInv
<1> QED BY <1>1 DEF LandingInv

LEMMA NoContract ==
  ASSUME LandingInv, TypeOK', DownOK', QueueOK', MergesOK',
         \A c \in Contract : LeftAlone(c) /\ NotConcerned(c)
  PROVE  LandingInv'
  BY OtherContract DEF LandingInv

LEMMA AgentCommitsInv ==
  ASSUME LandingInv, NEW c \in Contract, AgentCommits(c)
  PROVE  LandingInv'
<1>1. TypeOK /\ DownOK /\ QueueOK /\ MergesOK /\ ContractOK(c) /\ TypeOK'
  BY AgentCommitsTypes DEF LandingInv
<1>2. /\ contract'[c] = contract[c]
      /\ run'[c] = run[c]
      /\ branch'[c].tip = branch[c].tip + 1 /\ branch'[c].there = branch[c].there
      /\ worktree'[c] = worktree[c]
      /\ task'[c] = task[c] /\ decision'[c] = decision[c] /\ attempt'[c] = attempt[c] /\ retry'[c] = retry[c]
      /\ exact' = exact
      /\ merges' = merges /\ stage' = stage
      /\ c \in todo' <=> c \in todo
      /\ run[c].status = "live"
      /\ stage = "attached"
  <2>1. /\ contract'[c] = contract[c]
        /\ run'[c] = run[c]
        /\ worktree'[c] = worktree[c]
        /\ task'[c] = task[c] /\ decision'[c] = decision[c] /\ attempt'[c] = attempt[c] /\ retry'[c] = retry[c]
        /\ exact' = exact
        /\ merges' = merges /\ stage' = stage
        /\ c \in todo' <=> c \in todo
        /\ run[c].status = "live"
        /\ stage = "attached"
    BY DEF AgentCommits, git, reclaim, boot, Live, Attached
  <2>2. branch'[c].tip = branch[c].tip + 1 /\ branch'[c].there = branch[c].there
    BY <1>1, Fields DEF TypeOK, Branches, AgentCommits, git
  <2> QED BY <2>1, <2>2
<1>3. HeadKept(c) /\ \A d \in Contract : NotConcerned(d) /\ (d # c => LeftAlone(d))
  <2>1. \A d \in Contract : HeadKept(d)
    BY <1>1 DEF HeadKept, chain, AgentCommits
  <2>2. \A d \in Contract : NotConcerned(d)
    BY <1>1, MergesKept DEF NotConcerned, git, boot, AgentCommits
  <2>3. \A d \in Contract : d # c => LeftAlone(d)
    BY <1>1, <2>1 DEF TypeOK, LeftAlone, git, reclaim, AgentCommits
  <2> QED BY <2>1, <2>2, <2>3
<1>4. DownOK'
  BY <1>1, <1>2 DEF DownOK, Attached, Up, chain, boot, AgentCommits
<1>5. QueueOK'
  <2>1. Undisturbed /\ UNCHANGED queue
    BY <1>1, <1>2, <1>3, Fields DEF Undisturbed, LeftAlone, NotConcerned, ContractOK, TaskOK, LiveOK, Live, Tasks, chain, AgentCommits
  <2> QED BY <1>1, <2>1, QueueStays
<1>6. MergesOK'
  BY <1>1, Fields DEF TypeOK, MergesOK, Branches, git, AgentCommits
<1>7. TaskOK(c)' /\ LiveOK(c)' /\ RowOK(c)'
  BY <1>1, <1>2, <1>3, Fields DEF Merged, ContractOK, TaskOK, LiveOK, RowOK, Tasks, Live, Reopenable
<1>8. HeadOK(c)' /\ ReclaimOK(c)'
  BY <1>1, <1>2, <1>3, Fields DEF Merged, ContractOK, TaskOK, LiveOK, RowOK, HeadOK, ReclaimOK, Reclaiming, AtHead, Cleaning, HeadKept, MergesOK, Live, Reopenable
<1>9. LandedOK(c)' /\ TreeOK(c)'
  BY <1>1, <1>2, <1>3, Fields DEF ContractOK, LiveOK, LandedOK, TreeOK, Live, Merged, MergesOK, Reopenable
<1> QED BY <1>1, <1>3, <1>4, <1>5, <1>6, <1>7, <1>8, <1>9, OneContract DEF ContractOK

LEMMA SubmitDeliverableInv ==
  ASSUME LandingInv, NEW c \in Contract, SubmitDeliverable(c)
  PROVE  LandingInv'
<1>1. TypeOK /\ DownOK /\ QueueOK /\ MergesOK /\ ContractOK(c) /\ TypeOK'
  BY SubmitDeliverableTypes DEF LandingInv
<1>2. /\ contract'[c].seal = branch[c].tip /\ contract'[c].verif = contract[c].verif /\ contract'[c].judged = contract[c].judged /\ contract'[c].landing = contract[c].landing /\ contract'[c].landed = contract[c].landed
      /\ run'[c].status = run[c].status /\ run'[c].life = run[c].life
      /\ branch'[c] = branch[c]
      /\ worktree'[c] = worktree[c]
      /\ task'[c] = task[c] /\ decision'[c] = decision[c] /\ attempt'[c] = attempt[c] /\ retry'[c] = retry[c]
      /\ exact' \subseteq exact /\ \A by \in Reader : <<by, c>> \notin exact'
      /\ merges' = merges /\ stage' = stage
      /\ c \in todo' <=> c \in todo
      /\ run[c].status = "live"
  <2>0. /\ contract'[c] = [contract[c] EXCEPT !.seal = branch[c].tip]
        /\ exact' \subseteq exact
        /\ \A by \in Reader : <<by, c>> \in exact' <=> <<by, c>> \in exact /\ by \in {}
    <3>1. Write(c, [contract[c] EXCEPT !.seal = branch[c].tip], {}) BY DEF SubmitDeliverable
    <3> QED BY ONLY <1>1, <3>1, WriteKeeps
  <2>1. /\ branch'[c] = branch[c]
        /\ worktree'[c] = worktree[c]
        /\ task'[c] = task[c] /\ decision'[c] = decision[c] /\ attempt'[c] = attempt[c] /\ retry'[c] = retry[c]
        /\ merges' = merges /\ stage' = stage
        /\ c \in todo' <=> c \in todo
        /\ run[c].status = "live"
    BY DEF SubmitDeliverable, git, reclaim, boot, Live
  <2>2. contract'[c].seal = branch[c].tip /\ contract'[c].verif = contract[c].verif /\ contract'[c].judged = contract[c].judged /\ contract'[c].landing = contract[c].landing /\ contract'[c].landed = contract[c].landed
    BY <1>1, <2>0, Fields DEF TypeOK, Landings, Branches, SubmitDeliverable
  <2>3. run'[c].status = run[c].status /\ run'[c].life = run[c].life
    BY <1>1, <2>0, Fields DEF TypeOK, Runs, SubmitDeliverable, Live
  <2>4. exact' \subseteq exact /\ \A by \in Reader : <<by, c>> \notin exact'
    BY <1>1, <2>0, Fields DEF TypeOK, Reader, SubmitDeliverable
  <2> QED BY <2>1, <2>2, <2>3, <2>4
<1>3. HeadKept(c) /\ \A d \in Contract : NotConcerned(d) /\ (d # c => LeftAlone(d))
  <2>1. \A d \in Contract : HeadKept(d)
    BY <1>1 DEF HeadKept, chain, SubmitDeliverable, Write
  <2>2. \A d \in Contract : NotConcerned(d)
    BY <1>1, MergesKept DEF NotConcerned, git, boot, SubmitDeliverable, Write
  <2>3. \A d \in Contract : d # c => LeftAlone(d)
    BY <1>1, <2>1 DEF TypeOK, LeftAlone, git, reclaim, SubmitDeliverable, Write
  <2> QED BY <2>1, <2>2, <2>3
<1>4. DownOK'
  BY <1>1, <1>2 DEF DownOK, Attached, Up, chain, boot, SubmitDeliverable, Write
<1>5. QueueOK'
  <2>1. Undisturbed /\ UNCHANGED queue
    BY <1>1, <1>2, <1>3, Fields DEF Undisturbed, LeftAlone, NotConcerned, ContractOK, TaskOK, LiveOK, Live, Tasks, chain, SubmitDeliverable, Write
  <2> QED BY <1>1, <2>1, QueueStays
<1>6. MergesOK'
  BY <1>1, Fields DEF TypeOK, MergesOK, Branches, git, SubmitDeliverable, Write
<1>7. TaskOK(c)' /\ LiveOK(c)' /\ RowOK(c)'
  BY <1>1, <1>2, <1>3, Fields DEF Merged, ContractOK, TaskOK, LiveOK, RowOK, Tasks, Live, Reopenable
<1>8. HeadOK(c)' /\ ReclaimOK(c)'
  BY <1>1, <1>2, <1>3, Fields DEF Merged, ContractOK, TaskOK, LiveOK, RowOK, HeadOK, ReclaimOK, Reclaiming, AtHead, Cleaning, HeadKept, MergesOK, Live, Reopenable
<1>9. LandedOK(c)' /\ TreeOK(c)'
  BY <1>1, <1>2, <1>3, Fields DEF ContractOK, LiveOK, LandedOK, TreeOK, Live, Merged, MergesOK, Reopenable
<1> QED BY <1>1, <1>3, <1>4, <1>5, <1>6, <1>7, <1>8, <1>9, OneContract DEF ContractOK

LEMMA RunEndsInv ==
  ASSUME LandingInv, NEW c \in Contract, NEW status \in {"completed", "failed"}, RunEnds(c, status)
  PROVE  LandingInv'
<1>1. TypeOK /\ DownOK /\ QueueOK /\ MergesOK /\ ContractOK(c) /\ TypeOK'
  BY RunEndsTypes DEF LandingInv
<1>2. /\ contract'[c] = contract[c]
      /\ run'[c].status # "live" /\ run'[c].life \in {run[c].life, "failed"}
      /\ branch'[c] = branch[c]
      /\ worktree'[c] = worktree[c]
      /\ task'[c] = "retire" /\ decision'[c] = decision[c] /\ attempt'[c] = attempt[c] /\ retry'[c] = retry[c]
      /\ exact' = exact
      /\ merges' = merges /\ stage' = stage
      /\ c \in todo' <=> c \in todo
      /\ run[c].status = "live"
      /\ stage = "attached"
  <2>1. /\ contract'[c] = contract[c]
        /\ branch'[c] = branch[c]
        /\ worktree'[c] = worktree[c]
        /\ exact' = exact
        /\ merges' = merges /\ stage' = stage
        /\ c \in todo' <=> c \in todo
        /\ run[c].status = "live"
        /\ stage = "attached"
    BY DEF RunEnds, git, boot, Live, Attached
  <2>2. run'[c].status # "live" /\ run'[c].life \in {run[c].life, "failed"}
    BY <1>1, Fields DEF TypeOK, Runs, RunEnds, Live
  <2>3. task'[c] = "retire" /\ decision'[c] = decision[c] /\ attempt'[c] = attempt[c] /\ retry'[c] = retry[c]
    BY <1>1, Fields DEF TypeOK, RunEnds, reclaim
  <2> QED BY <2>1, <2>2, <2>3
<1>3. HeadKept(c) /\ \A d \in Contract : NotConcerned(d) /\ (d # c => LeftAlone(d))
  <2>1. \A d \in Contract : HeadKept(d)
    BY <1>1 DEF HeadKept, chain, RunEnds
  <2>2. \A d \in Contract : NotConcerned(d)
    BY <1>1, MergesKept DEF NotConcerned, git, boot, RunEnds
  <2>3. \A d \in Contract : d # c => LeftAlone(d)
    BY <1>1, <2>1 DEF TypeOK, LeftAlone, git, reclaim, RunEnds
  <2> QED BY <2>1, <2>2, <2>3
<1>4. DownOK'
  BY <1>1, <1>2 DEF DownOK, Attached, Up, chain, boot, RunEnds
<1>5. QueueOK'
  <2>1. Undisturbed /\ UNCHANGED queue
    BY <1>1, <1>2, <1>3, Fields DEF Undisturbed, LeftAlone, NotConcerned, ContractOK, TaskOK, LiveOK, Live, Tasks, chain, RunEnds
  <2> QED BY <1>1, <2>1, QueueStays
<1>6. MergesOK'
  BY <1>1, Fields DEF TypeOK, MergesOK, Branches, git, RunEnds
<1>7. TaskOK(c)' /\ LiveOK(c)' /\ RowOK(c)'
  BY <1>1, <1>2, <1>3, Fields DEF Merged, ContractOK, TaskOK, LiveOK, RowOK, Tasks, Live, Reopenable
<1>8. HeadOK(c)' /\ ReclaimOK(c)'
  BY <1>1, <1>2, <1>3, Fields DEF Merged, ContractOK, TaskOK, LiveOK, RowOK, HeadOK, ReclaimOK, Reclaiming, AtHead, Cleaning, HeadKept, MergesOK, Live, Reopenable
<1>9. LandedOK(c)' /\ TreeOK(c)'
  BY <1>1, <1>2, <1>3, Fields DEF ContractOK, LiveOK, LandedOK, TreeOK, Live, Merged, MergesOK, Reopenable
<1> QED BY <1>1, <1>3, <1>4, <1>5, <1>6, <1>7, <1>8, <1>9, OneContract DEF ContractOK

LEMMA KillRunInv ==
  ASSUME LandingInv, NEW c \in Contract, KillRun(c)
  PROVE  LandingInv'
<1>1. TypeOK /\ DownOK /\ QueueOK /\ MergesOK /\ ContractOK(c) /\ TypeOK'
  BY KillRunTypes DEF LandingInv
<1>2. /\ contract'[c] = contract[c]
      /\ run'[c].status = "cancelled" /\ run'[c].life \in {run[c].life, "cancelled"}
      /\ branch'[c] = branch[c]
      /\ worktree'[c] = worktree[c]
      /\ (task'[c] = IF stage = "attached" THEN "dispose" ELSE task[c]) /\ decision'[c] = decision[c] /\ attempt'[c] = attempt[c] /\ retry'[c] = retry[c]
      /\ exact' = exact
      /\ merges' = merges /\ stage' = stage
      /\ c \in todo' <=> c \in todo
      /\ run[c].status = "live"
      /\ stage # "down"
  <2>1. /\ contract'[c] = contract[c]
        /\ branch'[c] = branch[c]
        /\ worktree'[c] = worktree[c]
        /\ exact' = exact
        /\ merges' = merges /\ stage' = stage
        /\ c \in todo' <=> c \in todo
        /\ run[c].status = "live"
        /\ stage # "down"
    BY DEF KillRun, git, boot, Live, Up
  <2>2. run'[c].status = "cancelled" /\ run'[c].life \in {run[c].life, "cancelled"}
    BY <1>1, Fields DEF TypeOK, Runs, KillRun, Live
  <2>3. (task'[c] = IF stage = "attached" THEN "dispose" ELSE task[c]) /\ decision'[c] = decision[c] /\ attempt'[c] = attempt[c] /\ retry'[c] = retry[c]
    BY <1>1, Fields DEF TypeOK, KillRun, Attached, reclaim
  <2> QED BY <2>1, <2>2, <2>3
<1>3. HeadKept(c) /\ \A d \in Contract : NotConcerned(d) /\ (d # c => LeftAlone(d))
  <2>1. \A d \in Contract : HeadKept(d)
    BY <1>1 DEF HeadKept, chain, KillRun
  <2>2. \A d \in Contract : NotConcerned(d)
    BY <1>1, MergesKept DEF NotConcerned, git, boot, KillRun
  <2>3. \A d \in Contract : d # c => LeftAlone(d)
    BY <1>1, <2>1 DEF TypeOK, LeftAlone, git, reclaim, KillRun
  <2> QED BY <2>1, <2>2, <2>3
<1>4. DownOK'
  BY <1>1, <1>2 DEF DownOK, Attached, Up, chain, boot, KillRun
<1>5. QueueOK'
  <2>1. Undisturbed /\ UNCHANGED queue
    BY <1>1, <1>2, <1>3, Fields DEF Undisturbed, LeftAlone, NotConcerned, ContractOK, TaskOK, LiveOK, Live, Tasks, chain, KillRun
  <2> QED BY <1>1, <2>1, QueueStays
<1>6. MergesOK'
  BY <1>1, Fields DEF TypeOK, MergesOK, Branches, git, KillRun
<1>7. TaskOK(c)' /\ LiveOK(c)' /\ RowOK(c)'
  BY <1>1, <1>2, <1>3, Fields DEF Merged, ContractOK, TaskOK, LiveOK, RowOK, Tasks, Live, Reopenable
<1>8. HeadOK(c)' /\ ReclaimOK(c)'
  BY <1>1, <1>2, <1>3, Fields DEF Merged, ContractOK, TaskOK, LiveOK, RowOK, HeadOK, ReclaimOK, Reclaiming, AtHead, Cleaning, HeadKept, MergesOK, Live, Reopenable
<1>9. LandedOK(c)' /\ TreeOK(c)'
  BY <1>1, <1>2, <1>3, Fields DEF ContractOK, LiveOK, LandedOK, TreeOK, Live, Merged, MergesOK, Reopenable
<1> QED BY <1>1, <1>3, <1>4, <1>5, <1>6, <1>7, <1>8, <1>9, OneContract DEF ContractOK

LEMMA DisposedInv ==
  ASSUME LandingInv, NEW c \in Contract, Disposed(c)
  PROVE  LandingInv'
<1>1. TypeOK /\ DownOK /\ QueueOK /\ MergesOK /\ ContractOK(c) /\ TypeOK'
  BY DisposedTypes DEF LandingInv
<1>2. /\ contract'[c] = contract[c]
      /\ run'[c] = run[c]
      /\ branch'[c] = branch[c]
      /\ worktree'[c] = worktree[c]
      /\ task'[c] \in {"none", "failed"} /\ decision'[c] = decision[c] /\ attempt'[c] = attempt[c] /\ retry'[c] = retry[c]
      /\ exact' = exact
      /\ merges' = merges /\ stage' = stage
      /\ c \in todo' <=> c \in todo
      /\ task[c] = "dispose"
      /\ stage # "down"
  <2>1. /\ contract'[c] = contract[c]
        /\ run'[c] = run[c]
        /\ branch'[c] = branch[c]
        /\ worktree'[c] = worktree[c]
        /\ exact' = exact
        /\ merges' = merges /\ stage' = stage
        /\ c \in todo' <=> c \in todo
        /\ task[c] = "dispose"
        /\ stage # "down"
    BY DEF Disposed, git, boot, Up
  <2>2. task'[c] \in {"none", "failed"} /\ decision'[c] = decision[c] /\ attempt'[c] = attempt[c] /\ retry'[c] = retry[c]
    BY <1>1, Fields DEF TypeOK, Disposed, Attached, reclaim
  <2> QED BY <2>1, <2>2
<1>3. HeadKept(c) /\ \A d \in Contract : NotConcerned(d) /\ (d # c => LeftAlone(d))
  <2>1. \A d \in Contract : HeadKept(d)
    BY <1>1 DEF HeadKept, chain, Disposed
  <2>2. \A d \in Contract : NotConcerned(d)
    BY <1>1, MergesKept DEF NotConcerned, git, boot, Disposed
  <2>3. \A d \in Contract : d # c => LeftAlone(d)
    BY <1>1, <2>1 DEF TypeOK, LeftAlone, git, reclaim, Disposed
  <2> QED BY <2>1, <2>2, <2>3
<1>4. DownOK'
  BY <1>1, <1>2 DEF DownOK, Attached, Up, chain, boot, Disposed
<1>5. QueueOK'
  <2>1. Undisturbed /\ UNCHANGED queue
    BY <1>1, <1>2, <1>3, Fields DEF Undisturbed, LeftAlone, NotConcerned, ContractOK, TaskOK, LiveOK, Live, Tasks, chain, Disposed
  <2> QED BY <1>1, <2>1, QueueStays
<1>6. MergesOK'
  BY <1>1, Fields DEF TypeOK, MergesOK, Branches, git, Disposed
<1>7. TaskOK(c)' /\ LiveOK(c)' /\ RowOK(c)'
  BY <1>1, <1>2, <1>3, Fields DEF Merged, ContractOK, TaskOK, LiveOK, RowOK, Tasks, Live, Reopenable
<1>8. HeadOK(c)' /\ ReclaimOK(c)'
  <2>1. \A t : Merged(c, t) => Merged(c, t)' BY <1>2, MergesKept
  <2>2. HeadOK(c)'
    BY <1>1, <1>2, <1>3, <2>1, HeadStays DEF ContractOK, Reader
  <2>3. ReclaimOK(c)'
    BY <1>1, <1>2, <1>3, Fields DEF Merged, ContractOK, TaskOK, LiveOK, RowOK, ReclaimOK, Reclaiming, AtHead, HeadKept, MergesOK, Live, Reopenable
  <2> QED BY <2>2, <2>3
<1>9. LandedOK(c)' /\ TreeOK(c)'
  BY <1>1, <1>2, <1>3, Fields DEF ContractOK, LiveOK, LandedOK, TreeOK, Live, Merged, MergesOK, Reopenable
<1> QED BY <1>1, <1>3, <1>4, <1>5, <1>6, <1>7, <1>8, <1>9, OneContract DEF ContractOK

LEMMA ContinueInv ==
  ASSUME LandingInv, NEW c \in Contract, Continue(c)
  PROVE  LandingInv'
<1>1. TypeOK /\ DownOK /\ QueueOK /\ MergesOK /\ ContractOK(c) /\ TypeOK'
  BY ContinueTypes DEF LandingInv
<1>2. /\ contract'[c] = contract[c]
      /\ run'[c].status = "live" /\ run'[c].life = "parked"
      /\ branch'[c] = branch[c]
      /\ worktree'[c] = worktree[c]
      /\ task'[c] = task[c] /\ decision'[c] = decision[c] /\ attempt'[c] = attempt[c] /\ retry'[c] = retry[c]
      /\ exact' \subseteq exact /\ \A by \in Reader : <<by, c>> \notin exact'
      /\ merges' = merges /\ stage' = stage
      /\ c \in todo' <=> c \in todo
      /\ stage = "attached"
      /\ contract[c].landing \in Reopenable
      /\ task[c] = "none" /\ decision[c] = "none"
      /\ worktree[c].dir = "registered"
  <2>0. /\ contract'[c] = contract[c]
        /\ exact' \subseteq exact
        /\ \A by \in Reader : <<by, c>> \in exact' <=> <<by, c>> \in exact /\ by \in {}
    <3>1. Write(c, contract[c], {}) BY DEF Continue, Quiescent
    <3> QED BY ONLY <1>1, <3>1, WriteKeeps
  <2>1. /\ contract'[c] = contract[c]
        /\ branch'[c] = branch[c]
        /\ worktree'[c] = worktree[c]
        /\ task'[c] = task[c] /\ decision'[c] = decision[c] /\ attempt'[c] = attempt[c] /\ retry'[c] = retry[c]
        /\ merges' = merges /\ stage' = stage
        /\ c \in todo' <=> c \in todo
        /\ stage = "attached"
        /\ contract[c].landing \in Reopenable
        /\ task[c] = "none" /\ decision[c] = "none"
        /\ worktree[c].dir = "registered"
    BY <2>0 DEF Continue, Quiescent, git, reclaim, boot, Attached
  <2>2. run'[c].status = "live" /\ run'[c].life = "parked"
    BY <1>1, <2>0, Fields DEF TypeOK, Runs, Continue, Quiescent
  <2>3. exact' \subseteq exact /\ \A by \in Reader : <<by, c>> \notin exact'
    BY <1>1, <2>0, Fields DEF TypeOK, Reader, Continue, Quiescent
  <2> QED BY <2>1, <2>2, <2>3
<1>3. HeadKept(c) /\ \A d \in Contract : NotConcerned(d) /\ (d # c => LeftAlone(d))
  <2>1. \A d \in Contract : HeadKept(d)
    BY <1>1 DEF HeadKept, chain, Continue, Write, Quiescent
  <2>2. \A d \in Contract : NotConcerned(d)
    BY <1>1, MergesKept DEF NotConcerned, git, boot, Continue, Write, Quiescent
  <2>3. \A d \in Contract : d # c => LeftAlone(d)
    BY <1>1, <2>1 DEF TypeOK, LeftAlone, git, reclaim, Continue, Write, Quiescent
  <2> QED BY <2>1, <2>2, <2>3
<1>4. DownOK'
  BY <1>1, <1>2 DEF DownOK, Attached, Up, chain, boot, Continue, Write, Quiescent
<1>5. QueueOK'
  <2>1. Undisturbed /\ UNCHANGED queue
    BY <1>1, <1>2, <1>3, Fields DEF Undisturbed, LeftAlone, NotConcerned, ContractOK, TaskOK, LiveOK, Live, Tasks, chain, Continue, Write, Quiescent
  <2> QED BY <1>1, <2>1, QueueStays
<1>6. MergesOK'
  BY <1>1, Fields DEF TypeOK, MergesOK, Branches, git, Continue, Write, Quiescent
<1>7. TaskOK(c)' /\ LiveOK(c)' /\ RowOK(c)'
  BY <1>1, <1>2, <1>3, Fields DEF Merged, ContractOK, TaskOK, LiveOK, RowOK, Tasks, Live, Reopenable
<1>8. HeadOK(c)' /\ ReclaimOK(c)'
  BY <1>1, <1>2, <1>3, Fields DEF Merged, ContractOK, TaskOK, LiveOK, RowOK, HeadOK, ReclaimOK, Reclaiming, AtHead, Cleaning, HeadKept, MergesOK, Live, Reopenable
<1>9. LandedOK(c)' /\ TreeOK(c)'
  BY <1>1, <1>2, <1>3, Fields DEF ContractOK, LiveOK, LandedOK, TreeOK, Live, Merged, MergesOK, Reopenable
<1> QED BY <1>1, <1>3, <1>4, <1>5, <1>6, <1>7, <1>8, <1>9, OneContract DEF ContractOK

LEMMA RejectInv ==
  ASSUME LandingInv, NEW c \in Contract, Reject(c)
  PROVE  LandingInv'
<1>1. TypeOK /\ DownOK /\ QueueOK /\ MergesOK /\ ContractOK(c) /\ TypeOK'
  BY RejectTypes DEF LandingInv
<1>2. /\ contract'[c].seal = contract[c].seal /\ contract'[c].verif = "failed" /\ contract'[c].judged = contract[c].seal /\ contract'[c].landing = contract[c].landing /\ contract'[c].landed = contract[c].landed
      /\ run'[c] = run[c]
      /\ branch'[c] = branch[c]
      /\ worktree'[c] = worktree[c]
      /\ task'[c] = task[c] /\ decision'[c] = decision[c] /\ attempt'[c] = attempt[c] /\ retry'[c] = retry[c]
      /\ exact' \subseteq exact /\ \A by \in Reader : <<by, c>> \notin exact'
      /\ merges' = merges /\ stage' = stage
      /\ c \in todo' <=> c \in todo
      /\ contract[c].landing \in Reopenable
      /\ stage # "down"
  <2>0. /\ contract'[c] = [contract[c] EXCEPT !.verif = "failed", !.judged = contract[c].seal]
        /\ exact' \subseteq exact
        /\ \A by \in Reader : <<by, c>> \in exact' <=> <<by, c>> \in exact /\ by \in {}
    <3>1. Write(c, [contract[c] EXCEPT !.verif = "failed", !.judged = contract[c].seal], {}) BY DEF Reject, Reviewable, Judged, Quiescent
    <3> QED BY ONLY <1>1, <3>1, WriteKeeps
  <2>1. /\ run'[c] = run[c]
        /\ branch'[c] = branch[c]
        /\ worktree'[c] = worktree[c]
        /\ task'[c] = task[c] /\ decision'[c] = decision[c] /\ attempt'[c] = attempt[c] /\ retry'[c] = retry[c]
        /\ merges' = merges /\ stage' = stage
        /\ c \in todo' <=> c \in todo
        /\ contract[c].landing \in Reopenable
        /\ stage # "down"
    BY <1>1, <2>0 DEF TypeOK, Reject, Reviewable, Judged, Quiescent, git, reclaim, boot, Up
  <2>2. contract'[c].seal = contract[c].seal /\ contract'[c].verif = "failed" /\ contract'[c].judged = contract[c].seal /\ contract'[c].landing = contract[c].landing /\ contract'[c].landed = contract[c].landed
    BY <1>1, <2>0, Fields DEF TypeOK, Landings, Reject, Reviewable, Judged, Quiescent
  <2>3. exact' \subseteq exact /\ \A by \in Reader : <<by, c>> \notin exact'
    BY <1>1, <2>0, Fields DEF TypeOK, Reader, Reject, Reviewable, Judged, Quiescent
  <2> QED BY <2>1, <2>2, <2>3
<1>3. HeadKept(c) /\ \A d \in Contract : NotConcerned(d) /\ (d # c => LeftAlone(d))
  <2>1. \A d \in Contract : HeadKept(d)
    BY <1>1 DEF HeadKept, chain, Reject, Reviewable, Write, Judged, Quiescent
  <2>2. \A d \in Contract : NotConcerned(d)
    BY <1>1, MergesKept DEF NotConcerned, git, boot, Reject, Reviewable, Write, Judged, Quiescent
  <2>3. \A d \in Contract : d # c => LeftAlone(d)
    BY <1>1, <2>1 DEF TypeOK, LeftAlone, git, reclaim, Reject, Reviewable, Write, Judged, Quiescent
  <2> QED BY <2>1, <2>2, <2>3
<1>4. DownOK'
  BY <1>1, <1>2 DEF DownOK, Attached, Up, chain, boot, Reject, Reviewable, Write, Judged, Quiescent
<1>5. QueueOK'
  <2>1. Undisturbed /\ UNCHANGED queue
    BY <1>1, <1>2, <1>3, Fields DEF Undisturbed, LeftAlone, NotConcerned, ContractOK, TaskOK, LiveOK, Live, Tasks, chain, Reject, Reviewable, Write, Judged, Quiescent
  <2> QED BY <1>1, <2>1, QueueStays
<1>6. MergesOK'
  BY <1>1, Fields DEF TypeOK, MergesOK, Branches, git, Reject, Reviewable, Write, Judged, Quiescent
<1>7. TaskOK(c)' /\ LiveOK(c)' /\ RowOK(c)'
  BY <1>1, <1>2, <1>3, Fields DEF Merged, ContractOK, TaskOK, LiveOK, RowOK, Tasks, Live, Reopenable
<1>8. HeadOK(c)' /\ ReclaimOK(c)'
  BY <1>1, <1>2, <1>3, Fields DEF Merged, ContractOK, TaskOK, LiveOK, RowOK, HeadOK, ReclaimOK, Reclaiming, AtHead, Cleaning, HeadKept, MergesOK, Live, Reopenable
<1>9. LandedOK(c)' /\ TreeOK(c)'
  BY <1>1, <1>2, <1>3, Fields DEF ContractOK, LiveOK, LandedOK, TreeOK, Live, Merged, MergesOK, Reopenable
<1> QED BY <1>1, <1>3, <1>4, <1>5, <1>6, <1>7, <1>8, <1>9, OneContract DEF ContractOK

LEMMA AcceptInv ==
  ASSUME LandingInv, NEW c \in Contract, Accept(c)
  PROVE  LandingInv'
<1>1. TypeOK /\ DownOK /\ QueueOK /\ MergesOK /\ ContractOK(c) /\ TypeOK'
  BY AcceptTypes DEF LandingInv
<1>2. /\ contract'[c] = contract[c]
      /\ run'[c] = run[c]
      /\ branch'[c] = branch[c]
      /\ worktree'[c] = worktree[c]
      /\ task'[c] = task[c] /\ decision'[c] = "reading" /\ attempt'[c] = attempt[c] /\ retry'[c] = retry[c]
      /\ exact' = exact \cup {<<"accept", c>>}
      /\ merges' = merges /\ stage' = stage
      /\ c \in todo' <=> c \in todo
      /\ contract[c].landing \in Reopenable /\ decision[c] = "none"
      /\ stage # "down"
      /\ run[c].status # "live" /\ task[c] = "none"
  <2>1. /\ contract'[c] = contract[c]
        /\ run'[c] = run[c]
        /\ branch'[c] = branch[c]
        /\ worktree'[c] = worktree[c]
        /\ merges' = merges /\ stage' = stage
        /\ c \in todo' <=> c \in todo
        /\ contract[c].landing \in Reopenable /\ decision[c] = "none"
        /\ stage # "down"
        /\ run[c].status # "live" /\ task[c] = "none"
    BY DEF Accept, Reviewable, Quiescent, git, boot, Live, Up
  <2>2. task'[c] = task[c] /\ decision'[c] = "reading" /\ attempt'[c] = attempt[c] /\ retry'[c] = retry[c]
    BY <1>1, Fields DEF TypeOK, Accept, Reviewable, Quiescent, reclaim
  <2>3. exact' = exact \cup {<<"accept", c>>}
    BY <1>1, Fields DEF TypeOK, Reader, Accept, Reviewable, Quiescent
  <2> QED BY <2>1, <2>2, <2>3
<1>3. HeadKept(c) /\ \A d \in Contract : NotConcerned(d) /\ (d # c => LeftAlone(d))
  <2>1. \A d \in Contract : HeadKept(d)
    BY <1>1 DEF HeadKept, chain, Accept, Reviewable, Quiescent
  <2>2. \A d \in Contract : NotConcerned(d)
    BY <1>1, MergesKept DEF NotConcerned, git, boot, Accept, Reviewable, Quiescent
  <2>3. \A d \in Contract : d # c => LeftAlone(d)
    BY <1>1, <2>1 DEF TypeOK, LeftAlone, git, reclaim, Accept, Reviewable, Quiescent
  <2> QED BY <2>1, <2>2, <2>3
<1>4. DownOK'
  BY <1>1, <1>2 DEF DownOK, Attached, Up, chain, boot, Accept, Reviewable, Quiescent
<1>5. QueueOK'
  <2>1. Undisturbed /\ UNCHANGED queue
    BY <1>1, <1>2, <1>3, Fields DEF Undisturbed, LeftAlone, NotConcerned, ContractOK, TaskOK, LiveOK, Live, Tasks, chain, Accept, Reviewable, Quiescent
  <2> QED BY <1>1, <2>1, QueueStays
<1>6. MergesOK'
  BY <1>1, Fields DEF TypeOK, MergesOK, Branches, git, Accept, Reviewable, Quiescent
<1>7. TaskOK(c)' /\ LiveOK(c)' /\ RowOK(c)'
  BY <1>1, <1>2, <1>3, Fields DEF Merged, ContractOK, TaskOK, LiveOK, RowOK, Tasks, Live, Reopenable
<1>8. HeadOK(c)' /\ ReclaimOK(c)'
  BY <1>1, <1>2, <1>3, Fields DEF Merged, ContractOK, TaskOK, LiveOK, RowOK, HeadOK, ReclaimOK, Reclaiming, AtHead, Cleaning, HeadKept, MergesOK, Live, Reopenable
<1>9. LandedOK(c)' /\ TreeOK(c)'
  BY <1>1, <1>2, <1>3, Fields DEF ContractOK, LiveOK, LandedOK, TreeOK, Live, Merged, MergesOK, Reopenable
<1> QED BY <1>1, <1>3, <1>4, <1>5, <1>6, <1>7, <1>8, <1>9, OneContract DEF ContractOK

LEMMA RetireInv ==
  ASSUME LandingInv, NEW c \in Contract, Retire(c)
  PROVE  LandingInv'
<1>1. TypeOK /\ DownOK /\ QueueOK /\ MergesOK /\ ContractOK(c) /\ TypeOK'
  BY RetireTypes DEF LandingInv
<1>a. /\ \A d \in Contract : d # c => contract'[d] = contract[d] /\ task'[d] = task[d]
      /\ contract'[c].landing = contract[c].landing /\ contract'[c].seal = contract[c].seal
      /\ contract'[c].landed = contract[c].landed
      /\ \/ contract'[c].verif = contract[c].verif /\ contract'[c].judged = contract[c].judged
         \/ contract'[c].verif = "failed" /\ contract'[c].judged = contract[c].seal
      /\ \A by \in Reader : <<by, c>> \in exact' =>
           by = "task" \/ (<<by, c>> \in exact /\ contract'[c].verif = contract[c].verif)
      /\ task'[c] \in {"verify", "none", "failed"}
      /\ exact' \subseteq exact \cup {<<"task", c>>}
      /\ \A d \in Contract : <<"accept", d>> \in exact' => <<"accept", d>> \in exact
  <2>1. CASE StartVerification(c, run[c].status)
    BY <1>1, <2>1, StartVerificationDoes
  <2>2. CASE ~StartVerification(c, run[c].status)
    BY <1>1, <2>2 DEF Retire, TypeOK
  <2> QED BY <2>1, <2>2
<1>b. UNCHANGED <<run, worktree, git, held, decision, chain, reclaim, boot>>
  BY DEF Retire
<1>2. /\ contract'[c].seal = contract[c].seal /\ ((contract'[c].verif = contract[c].verif /\ contract'[c].judged = contract[c].judged)
           \/ (contract'[c].verif = "failed" /\ contract'[c].judged = contract[c].seal)) /\ contract'[c].landing = contract[c].landing /\ contract'[c].landed = contract[c].landed
      /\ run'[c] = run[c]
      /\ branch'[c] = branch[c]
      /\ worktree'[c] = worktree[c]
      /\ task'[c] \in {"verify", "none", "failed"} /\ decision'[c] = decision[c] /\ attempt'[c] = attempt[c] /\ retry'[c] = retry[c]
      /\ exact' \subseteq exact \cup {<<"task", c>>}
      /\ merges' = merges /\ stage' = stage
      /\ c \in todo' <=> c \in todo
      /\ task[c] = "retire"
      /\ stage = "attached"
  <2>1. /\ run'[c] = run[c]
        /\ branch'[c] = branch[c]
        /\ worktree'[c] = worktree[c]
        /\ merges' = merges /\ stage' = stage
        /\ c \in todo' <=> c \in todo
        /\ task[c] = "retire"
    BY <1>1, <1>a, <1>b DEF TypeOK, Retire, git, boot
  <2>2. contract'[c].seal = contract[c].seal /\ ((contract'[c].verif = contract[c].verif /\ contract'[c].judged = contract[c].judged)
           \/ (contract'[c].verif = "failed" /\ contract'[c].judged = contract[c].seal)) /\ contract'[c].landing = contract[c].landing /\ contract'[c].landed = contract[c].landed
    BY <1>a
  <2>3. task'[c] \in {"verify", "none", "failed"} /\ decision'[c] = decision[c] /\ attempt'[c] = attempt[c] /\ retry'[c] = retry[c]
    BY <1>1, <1>a, <1>b, Fields DEF TypeOK, Retire, Attached, reclaim
  <2>4. exact' \subseteq exact \cup {<<"task", c>>}
    BY <1>1, <1>a, <1>b, Fields DEF TypeOK, Reader, Retire
  <2>5. stage = "attached"
    BY <1>1 DEF Retire, ContractOK, TaskOK
  <2> QED BY <2>1, <2>2, <2>3, <2>4, <2>5
<1>3. HeadKept(c) /\ \A d \in Contract : NotConcerned(d) /\ (d # c => LeftAlone(d))
  <2>1. \A d \in Contract : HeadKept(d)
    BY <1>1, <1>a, <1>b DEF HeadKept, chain, vars
  <2>2. \A d \in Contract : NotConcerned(d)
    BY <1>1, <1>a, <1>b, MergesKept DEF NotConcerned, git, boot, vars
  <2>3. \A d \in Contract : d # c => LeftAlone(d)
    BY <1>1, <2>1, <1>a, <1>b DEF TypeOK, LeftAlone, git, reclaim, vars
  <2> QED BY <2>1, <2>2, <2>3
<1>4. DownOK'
  BY <1>1, <1>a, <1>b, <1>2 DEF DownOK, Attached, Up, chain, boot, Retire
<1>5. QueueOK'
  <2>1. Undisturbed /\ UNCHANGED queue
    BY <1>1, <1>2, <1>3, <1>a, <1>b, Fields DEF Undisturbed, LeftAlone, NotConcerned, ContractOK, TaskOK, LiveOK, Live, Tasks, chain, Retire
  <2> QED BY <1>1, <2>1, QueueStays
<1>6. MergesOK'
  BY <1>1, Fields DEF TypeOK, MergesOK, Branches, git, Retire
<1>7. TaskOK(c)' /\ LiveOK(c)' /\ RowOK(c)'
  BY <1>1, <1>2, <1>3, Fields DEF Merged, ContractOK, TaskOK, LiveOK, RowOK, Tasks, Live, Reopenable
<1>8. HeadOK(c)' /\ ReclaimOK(c)'
  <2>1. \A t : Merged(c, t) => Merged(c, t)' BY <1>2, MergesKept
  <2>2. HeadOK(c)'
    BY <1>1, <1>2, <1>3, <1>a, <2>1, HeadStays DEF ContractOK, Reader
  <2>3. ReclaimOK(c)'
    BY <1>1, <1>2, <1>3, Fields DEF Merged, ContractOK, TaskOK, LiveOK, RowOK, ReclaimOK, Reclaiming, AtHead, HeadKept, MergesOK, Live, Reopenable
  <2> QED BY <2>2, <2>3
<1>9. LandedOK(c)' /\ TreeOK(c)'
  BY <1>1, <1>2, <1>3, Fields DEF ContractOK, LiveOK, LandedOK, TreeOK, Live, Merged, MergesOK, Reopenable
<1> QED BY <1>1, <1>3, <1>4, <1>5, <1>6, <1>7, <1>8, <1>9, OneContract DEF ContractOK

LEMMA TeardownInv ==
  ASSUME LandingInv, NEW c \in Contract, Teardown(c)
  PROVE  LandingInv'
<1>1. TypeOK /\ DownOK /\ QueueOK /\ MergesOK /\ ContractOK(c) /\ TypeOK'
  BY TeardownTypes DEF LandingInv
<1>2. /\ contract'[c] = contract[c]
      /\ run'[c].status = run[c].status /\ run'[c].life \in {run[c].life, "merged"}
      /\ branch'[c] = branch[c]
      /\ worktree'[c] = worktree[c]
      /\ task'[c] = task[c] /\ decision'[c] = decision[c] /\ attempt'[c] = "remove" /\ retry'[c] = retry[c]
      /\ exact' = exact
      /\ merges' = merges /\ stage' = stage
      /\ c \in todo' <=> c \in todo
      /\ contract[c].landing = "landed" /\ stage # "down"
  <2>1. /\ contract'[c] = contract[c]
        /\ branch'[c] = branch[c]
        /\ worktree'[c] = worktree[c]
        /\ exact' = exact
        /\ merges' = merges /\ stage' = stage
        /\ c \in todo' <=> c \in todo
    BY DEF Teardown, StartAttempt, Stamp, git, boot
  <2>2. run'[c].status = run[c].status /\ run'[c].life \in {run[c].life, "merged"}
    BY <1>1, Fields DEF TypeOK, Runs, Teardown, StartAttempt, Stamp, Live
  <2>3. task'[c] = task[c] /\ decision'[c] = decision[c] /\ attempt'[c] = "remove" /\ retry'[c] = retry[c]
    BY <1>1, Fields DEF TypeOK, Teardown, StartAttempt, Stamp, reclaim
  <2>4. contract[c].landing = "landed" /\ stage # "down"
    BY <1>1, Fields DEF TypeOK, Landings, Teardown, StartAttempt, Stamp, ContractOK, ReclaimOK, Unreclaimed, Up
  <2> QED BY <2>1, <2>2, <2>3, <2>4
<1>3. HeadKept(c) /\ \A d \in Contract : NotConcerned(d) /\ (d # c => LeftAlone(d))
  <2>1. \A d \in Contract : HeadKept(d)
    BY <1>1 DEF HeadKept, chain, Teardown, StartAttempt, Stamp
  <2>2. \A d \in Contract : NotConcerned(d)
    BY <1>1, MergesKept DEF NotConcerned, git, boot, Teardown, StartAttempt, Stamp
  <2>3. \A d \in Contract : d # c => LeftAlone(d)
    BY <1>1, <2>1 DEF TypeOK, LeftAlone, git, reclaim, Teardown, StartAttempt, Stamp
  <2> QED BY <2>1, <2>2, <2>3
<1>4. DownOK'
  BY <1>1, <1>2 DEF DownOK, Attached, Up, chain, boot, Teardown, StartAttempt, Stamp
<1>5. QueueOK'
  <2>1. Undisturbed /\ UNCHANGED queue
    BY <1>1, <1>2, <1>3, Fields DEF Undisturbed, LeftAlone, NotConcerned, ContractOK, TaskOK, LiveOK, Live, Tasks, chain, Teardown, StartAttempt, Stamp
  <2> QED BY <1>1, <2>1, QueueStays
<1>6. MergesOK'
  BY <1>1, Fields DEF TypeOK, MergesOK, Branches, git, Teardown, StartAttempt, Stamp
<1>7. TaskOK(c)' /\ LiveOK(c)' /\ RowOK(c)'
  BY <1>1, <1>2, <1>3, Fields DEF Merged, ContractOK, TaskOK, LiveOK, RowOK, Tasks, Live, Reopenable
<1>8. HeadOK(c)' /\ ReclaimOK(c)'
  BY <1>1, <1>2, <1>3, Fields DEF Merged, ContractOK, TaskOK, LiveOK, RowOK, HeadOK, ReclaimOK, Reclaiming, AtHead, Cleaning, HeadKept, MergesOK, Live, Reopenable
<1>9. LandedOK(c)' /\ TreeOK(c)'
  BY <1>1, <1>2, <1>3, Fields DEF ContractOK, LiveOK, LandedOK, TreeOK, Live, Merged, MergesOK, Reopenable
<1> QED BY <1>1, <1>3, <1>4, <1>5, <1>6, <1>7, <1>8, <1>9, OneContract DEF ContractOK

LEMMA RetryInv ==
  ASSUME LandingInv, NEW c \in Contract, Retry(c)
  PROVE  LandingInv'
<1>1. TypeOK /\ DownOK /\ QueueOK /\ MergesOK /\ ContractOK(c) /\ TypeOK'
  BY RetryTypes DEF LandingInv
<1>2. /\ contract'[c] = contract[c]
      /\ run'[c].status = run[c].status /\ run'[c].life \in {run[c].life, "merged"}
      /\ branch'[c] = branch[c]
      /\ worktree'[c] = worktree[c]
      /\ task'[c] = task[c] /\ decision'[c] = decision[c] /\ attempt'[c] = "remove" /\ retry'[c] = "fired"
      /\ exact' = exact
      /\ merges' = merges /\ stage' = stage
      /\ c \in todo' <=> c \in todo
      /\ contract[c].landing = "landed" /\ stage # "down"
  <2>1. /\ contract'[c] = contract[c]
        /\ branch'[c] = branch[c]
        /\ worktree'[c] = worktree[c]
        /\ exact' = exact
        /\ merges' = merges /\ stage' = stage
        /\ c \in todo' <=> c \in todo
    BY DEF Retry, StartAttempt, Stamp, git, boot
  <2>2. run'[c].status = run[c].status /\ run'[c].life \in {run[c].life, "merged"}
    BY <1>1, Fields DEF TypeOK, Runs, Retry, StartAttempt, Stamp, Live
  <2>3. task'[c] = task[c] /\ decision'[c] = decision[c] /\ attempt'[c] = "remove" /\ retry'[c] = "fired"
    BY <1>1, Fields DEF TypeOK, Retry, StartAttempt, Stamp, reclaim
  <2>4. contract[c].landing = "landed" /\ stage # "down"
    BY <1>1, Fields DEF TypeOK, Landings, Retry, StartAttempt, Stamp, ContractOK, ReclaimOK, Unreclaimed, Up
  <2> QED BY <2>1, <2>2, <2>3, <2>4
<1>3. HeadKept(c) /\ \A d \in Contract : NotConcerned(d) /\ (d # c => LeftAlone(d))
  <2>1. \A d \in Contract : HeadKept(d)
    BY <1>1 DEF HeadKept, chain, Retry, StartAttempt, Stamp
  <2>2. \A d \in Contract : NotConcerned(d)
    BY <1>1, MergesKept DEF NotConcerned, git, boot, Retry, StartAttempt, Stamp
  <2>3. \A d \in Contract : d # c => LeftAlone(d)
    BY <1>1, <2>1 DEF TypeOK, LeftAlone, git, reclaim, Retry, StartAttempt, Stamp
  <2> QED BY <2>1, <2>2, <2>3
<1>4. DownOK'
  BY <1>1, <1>2 DEF DownOK, Attached, Up, chain, boot, Retry, StartAttempt, Stamp
<1>5. QueueOK'
  <2>1. Undisturbed /\ UNCHANGED queue
    BY <1>1, <1>2, <1>3, Fields DEF Undisturbed, LeftAlone, NotConcerned, ContractOK, TaskOK, LiveOK, Live, Tasks, chain, Retry, StartAttempt, Stamp
  <2> QED BY <1>1, <2>1, QueueStays
<1>6. MergesOK'
  BY <1>1, Fields DEF TypeOK, MergesOK, Branches, git, Retry, StartAttempt, Stamp
<1>7. TaskOK(c)' /\ LiveOK(c)' /\ RowOK(c)'
  BY <1>1, <1>2, <1>3, Fields DEF Merged, ContractOK, TaskOK, LiveOK, RowOK, Tasks, Live, Reopenable
<1>8. HeadOK(c)' /\ ReclaimOK(c)'
  BY <1>1, <1>2, <1>3, Fields DEF Merged, ContractOK, TaskOK, LiveOK, RowOK, HeadOK, ReclaimOK, Reclaiming, AtHead, Cleaning, HeadKept, MergesOK, Live, Reopenable
<1>9. LandedOK(c)' /\ TreeOK(c)'
  BY <1>1, <1>2, <1>3, Fields DEF ContractOK, LiveOK, LandedOK, TreeOK, Live, Merged, MergesOK, Reopenable
<1> QED BY <1>1, <1>3, <1>4, <1>5, <1>6, <1>7, <1>8, <1>9, OneContract DEF ContractOK

LEMMA StrayCommitInv ==
  ASSUME LandingInv, NEW c \in Contract, StrayCommit(c)
  PROVE  LandingInv'
<1>1. TypeOK /\ DownOK /\ QueueOK /\ MergesOK /\ ContractOK(c) /\ TypeOK'
  BY StrayCommitTypes DEF LandingInv
<1>a. branch'[c].tip = branch[c].tip + 1 /\ branch'[c].there = branch[c].there
  <2>1. branch'[c] = [branch[c] EXCEPT !.tip = branch[c].tip + 1] BY <1>1 DEF StrayCommit, TypeOK
  <2> QED BY <1>1, <2>1, Fields DEF Branches
<1>2. /\ contract'[c] = contract[c]
      /\ run'[c] = run[c]
      /\ branch'[c].tip = branch[c].tip + 1 /\ branch'[c].there = branch[c].there
      /\ worktree'[c] = worktree[c]
      /\ task'[c] = task[c] /\ decision'[c] = decision[c] /\ attempt'[c] = attempt[c] /\ retry'[c] = retry[c]
      /\ exact' \subseteq exact
      /\ merges' = merges /\ stage' = stage
      /\ c \in todo' <=> c \in todo
      /\ branch[c].there
  <2>1. contract'[c] = contract[c]
    BY <1>1, <1>a, Fields DEF TypeOK, Landings, Runs, Branches, Trees, Reader, Live, Attached, Up, git, reclaim, boot, StrayCommit
  <2>2. run'[c] = run[c]
    BY <1>1, <1>a, Fields DEF TypeOK, Landings, Runs, Branches, Trees, Reader, Live, Attached, Up, git, reclaim, boot, StrayCommit
  <2>3. branch'[c].tip = branch[c].tip + 1 /\ branch'[c].there = branch[c].there
    BY <1>1, <1>a, Fields DEF TypeOK, Landings, Runs, Branches, Trees, Reader, Live, Attached, Up, git, reclaim, boot, StrayCommit
  <2>4. worktree'[c] = worktree[c]
    BY <1>1, <1>a, Fields DEF TypeOK, Landings, Runs, Branches, Trees, Reader, Live, Attached, Up, git, reclaim, boot, StrayCommit
  <2>5. task'[c] = task[c] /\ decision'[c] = decision[c] /\ attempt'[c] = attempt[c] /\ retry'[c] = retry[c]
    BY <1>1, <1>a, Fields DEF TypeOK, Landings, Runs, Branches, Trees, Reader, Live, Attached, Up, git, reclaim, boot, StrayCommit
  <2>6. exact' \subseteq exact
    BY <1>1, <1>a, Fields DEF TypeOK, Landings, Runs, Branches, Trees, Reader, Live, Attached, Up, git, reclaim, boot, StrayCommit, ForgetApprovals
  <2>7. merges' = merges /\ stage' = stage
    BY <1>1, <1>a, Fields DEF TypeOK, Landings, Runs, Branches, Trees, Reader, Live, Attached, Up, git, reclaim, boot, StrayCommit
  <2>8. c \in todo' <=> c \in todo
    BY <1>1, <1>a, Fields DEF TypeOK, Landings, Runs, Branches, Trees, Reader, Live, Attached, Up, git, reclaim, boot, StrayCommit
  <2>9. branch[c].there
    BY <1>1, <1>a, Fields DEF TypeOK, Landings, Runs, Branches, Trees, Reader, Live, Attached, Up, git, reclaim, boot, StrayCommit
  <2> QED BY <2>1, <2>2, <2>3, <2>4, <2>5, <2>6, <2>7, <2>8, <2>9
<1>3. HeadKept(c) /\ \A d \in Contract : NotConcerned(d) /\ (d # c => LeftAlone(d))
  <2>1. \A d \in Contract : HeadKept(d)
    BY <1>1, <1>a DEF HeadKept, chain, StrayCommit, ForgetApprovals
  <2>2. \A d \in Contract : NotConcerned(d)
    BY <1>1, <1>a, MergesKept DEF NotConcerned, git, boot, StrayCommit, ForgetApprovals
  <2>3. \A d \in Contract : d # c => LeftAlone(d)
    BY <1>1, <2>1, <1>a DEF TypeOK, LeftAlone, git, reclaim, StrayCommit, ForgetApprovals
  <2> QED BY <2>1, <2>2, <2>3
<1>4. DownOK'
  BY <1>1, <1>a, <1>2 DEF DownOK, Attached, Up, chain, boot, StrayCommit
<1>5. QueueOK'
  <2>1. Undisturbed /\ UNCHANGED queue
    BY <1>1, <1>2, <1>3, <1>a, Fields DEF Undisturbed, LeftAlone, NotConcerned, ContractOK, TaskOK, LiveOK, Live, Tasks, chain, StrayCommit
  <2> QED BY <1>1, <2>1, QueueStays
<1>6. MergesOK'
  BY <1>1, Fields DEF TypeOK, MergesOK, Branches, git, StrayCommit
<1>7. TaskOK(c)' /\ LiveOK(c)' /\ RowOK(c)'
  BY <1>1, <1>2, <1>3, Fields DEF Merged, ContractOK, TaskOK, LiveOK, RowOK, Tasks, Live, Reopenable
<1>8. HeadOK(c)' /\ ReclaimOK(c)'
  <2>1. \A t : Merged(c, t) => Merged(c, t)' BY <1>2, MergesKept
  <2>2. HeadOK(c)'
    BY <1>1, <1>2, <1>3, <2>1, HeadStays DEF ContractOK, Reader
  <2>3. ReclaimOK(c)'
    BY <1>1, <1>2, <1>3, Fields DEF Merged, ContractOK, TaskOK, LiveOK, RowOK, ReclaimOK, Reclaiming, AtHead, HeadKept, MergesOK, Live, Reopenable
  <2> QED BY <2>2, <2>3
<1>9. LandedOK(c)' /\ TreeOK(c)'
  BY <1>1, <1>2, <1>3, Fields DEF ContractOK, LiveOK, LandedOK, TreeOK, Live, Merged, MergesOK, Reopenable
<1> QED BY <1>1, <1>3, <1>4, <1>5, <1>6, <1>7, <1>8, <1>9, OneContract DEF ContractOK

LEMMA ApproveAbandonmentInv ==
  ASSUME LandingInv, NEW c \in Contract, ApproveAbandonment(c)
  PROVE  LandingInv'
<1>1. TypeOK /\ DownOK /\ QueueOK /\ MergesOK /\ ContractOK(c) /\ TypeOK'
  BY ApproveAbandonmentTypes DEF LandingInv
<1>a. Op("abandon", c, "browser") \in Ops /\ Enqueue(Op("abandon", c, "browser")) /\ queue' # <<>>
  <2>1. Op("abandon", c, "browser") \in Ops /\ Enqueue(Op("abandon", c, "browser")) BY OpShapes DEF Reader, ApproveAbandonment
  <2> QED BY <1>1, <2>1, EnqueueTypes
<1>2. /\ contract'[c] = contract[c]
      /\ run'[c] = run[c]
      /\ branch'[c] = branch[c]
      /\ worktree'[c] = worktree[c]
      /\ task'[c] = task[c] /\ decision'[c] = decision[c] /\ attempt'[c] = attempt[c] /\ retry'[c] = retry[c]
      /\ exact' = exact \cup {<<"browser", c>>}
      /\ merges' = merges /\ stage' = stage
      /\ c \in todo' <=> c \in todo
      /\ stage = "attached"
  <2>1. contract'[c] = contract[c]
    BY <1>1, <1>a, Fields DEF TypeOK, Landings, Runs, Branches, Trees, Reader, Live, Attached, Up, git, reclaim, boot, ApproveAbandonment
  <2>2. run'[c] = run[c]
    BY <1>1, <1>a, Fields DEF TypeOK, Landings, Runs, Branches, Trees, Reader, Live, Attached, Up, git, reclaim, boot, ApproveAbandonment
  <2>3. branch'[c] = branch[c]
    BY <1>1, <1>a, Fields DEF TypeOK, Landings, Runs, Branches, Trees, Reader, Live, Attached, Up, git, reclaim, boot, ApproveAbandonment
  <2>4. worktree'[c] = worktree[c]
    BY <1>1, <1>a, Fields DEF TypeOK, Landings, Runs, Branches, Trees, Reader, Live, Attached, Up, git, reclaim, boot, ApproveAbandonment
  <2>5. task'[c] = task[c] /\ decision'[c] = decision[c] /\ attempt'[c] = attempt[c] /\ retry'[c] = retry[c]
    BY <1>1, <1>a, Fields DEF TypeOK, Landings, Runs, Branches, Trees, Reader, Live, Attached, Up, git, reclaim, boot, ApproveAbandonment
  <2>6. exact' = exact \cup {<<"browser", c>>}
    BY <1>1, <1>a, Fields DEF TypeOK, Landings, Runs, Branches, Trees, Reader, Live, Attached, Up, git, reclaim, boot, ApproveAbandonment
  <2>7. merges' = merges /\ stage' = stage
    BY <1>1, <1>a, Fields DEF TypeOK, Landings, Runs, Branches, Trees, Reader, Live, Attached, Up, git, reclaim, boot, ApproveAbandonment
  <2>8. c \in todo' <=> c \in todo
    BY <1>1, <1>a, Fields DEF TypeOK, Landings, Runs, Branches, Trees, Reader, Live, Attached, Up, git, reclaim, boot, ApproveAbandonment
  <2>9. stage = "attached"
    BY <1>1, <1>a, Fields DEF TypeOK, Landings, Runs, Branches, Trees, Reader, Live, Attached, Up, git, reclaim, boot, ApproveAbandonment
  <2> QED BY <2>1, <2>2, <2>3, <2>4, <2>5, <2>6, <2>7, <2>8, <2>9
<1>3. HeadKept(c) /\ \A d \in Contract : NotConcerned(d) /\ (d # c => LeftAlone(d))
  <2>1. \A d \in Contract : HeadKept(d)
    BY <1>1, EnqueueKeepsHead, <1>a DEF HeadKept, chain, ApproveAbandonment
  <2>2. \A d \in Contract : NotConcerned(d)
    BY <1>1, <1>a, MergesKept DEF NotConcerned, git, boot, ApproveAbandonment
  <2>3. \A d \in Contract : d # c => LeftAlone(d)
    BY <1>1, <2>1, <1>a DEF TypeOK, LeftAlone, git, reclaim, ApproveAbandonment
  <2> QED BY <2>1, <2>2, <2>3
<1>4. DownOK'
  BY <1>1, <1>a, <1>2 DEF DownOK, Attached, Up, chain, boot, ApproveAbandonment
<1>5. QueueOK'
  <2>1. Undisturbed
    BY <1>1, <1>2, <1>3 DEF Undisturbed, LeftAlone, NotConcerned
  <2>2. OpOK(Op("abandon", c, "browser"))' BY <1>2 DEF OpOK, Op
  <2>3. Op("abandon", c, "browser").by \notin {"task", "accept"} BY DEF Op
  <2> QED BY <1>1, <1>a, <2>1, <2>2, <2>3, QueueGrows
<1>6. MergesOK'
  BY <1>1, Fields DEF TypeOK, MergesOK, Branches, git, ApproveAbandonment
<1>7. TaskOK(c)' /\ LiveOK(c)' /\ RowOK(c)'
  BY <1>1, <1>2, <1>3, Fields DEF Merged, ContractOK, TaskOK, LiveOK, RowOK, Tasks, Live, Reopenable
<1>8. HeadOK(c)' /\ ReclaimOK(c)'
  <2>1. \A t : Merged(c, t) => Merged(c, t)' BY <1>2, MergesKept
  <2>2. HeadOK(c)'
    BY <1>1, <1>2, <1>3, <2>1, HeadStays DEF ContractOK, Reader
  <2>3. ReclaimOK(c)'
    BY <1>1, <1>2, <1>3, Fields DEF Merged, ContractOK, TaskOK, LiveOK, RowOK, ReclaimOK, Reclaiming, AtHead, HeadKept, MergesOK, Live, Reopenable
  <2> QED BY <2>2, <2>3
<1>9. LandedOK(c)' /\ TreeOK(c)'
  BY <1>1, <1>2, <1>3, Fields DEF ContractOK, LiveOK, LandedOK, TreeOK, Live, Merged, MergesOK, Reopenable
<1> QED BY <1>1, <1>3, <1>4, <1>5, <1>6, <1>7, <1>8, <1>9, OneContract DEF ContractOK

LEMMA RecoverTeardownInv ==
  ASSUME LandingInv, NEW c \in Contract, RecoverTeardown(c)
  PROVE  LandingInv'
<1>1. TypeOK /\ DownOK /\ QueueOK /\ MergesOK /\ ContractOK(c) /\ TypeOK'
  BY RecoverTeardownTypes DEF LandingInv
<1>2. /\ contract'[c] = contract[c]
      /\ run'[c].status = run[c].status /\ run'[c].life \in {run[c].life, "merged"}
      /\ branch'[c] = branch[c]
      /\ worktree'[c] = worktree[c]
      /\ task'[c] = task[c] /\ decision'[c] = decision[c] /\ attempt'[c] = "remove" /\ retry'[c] = retry[c]
      /\ exact' = exact
      /\ merges' = merges /\ stage' = stage
      /\ c \notin todo' /\ \A d \in Contract : d # c => (d \in todo' <=> d \in todo)
      /\ contract[c].landing = "landed" /\ stage = "teardowns"
  <2>1. contract'[c] = contract[c]
    BY <1>1, Fields DEF TypeOK, Landings, Runs, Branches, Trees, Reader, Live, Attached, Up, git, reclaim, boot, RecoverTeardown, StartAttempt, Stamp, Handle
  <2>2. run'[c].status = run[c].status /\ run'[c].life \in {run[c].life, "merged"}
    BY <1>1, Fields DEF TypeOK, Landings, Runs, Branches, Trees, Reader, Live, Attached, Up, git, reclaim, boot, RecoverTeardown, StartAttempt, Stamp, Handle
  <2>3. branch'[c] = branch[c]
    BY <1>1, Fields DEF TypeOK, Landings, Runs, Branches, Trees, Reader, Live, Attached, Up, git, reclaim, boot, RecoverTeardown, StartAttempt, Stamp, Handle
  <2>4. worktree'[c] = worktree[c]
    BY <1>1, Fields DEF TypeOK, Landings, Runs, Branches, Trees, Reader, Live, Attached, Up, git, reclaim, boot, RecoverTeardown, StartAttempt, Stamp, Handle
  <2>5. task'[c] = task[c] /\ decision'[c] = decision[c] /\ attempt'[c] = "remove" /\ retry'[c] = retry[c]
    BY <1>1, Fields DEF TypeOK, Landings, Runs, Branches, Trees, Reader, Live, Attached, Up, git, reclaim, boot, RecoverTeardown, StartAttempt, Stamp, Handle
  <2>6. exact' = exact
    BY <1>1, Fields DEF TypeOK, Landings, Runs, Branches, Trees, Reader, Live, Attached, Up, git, reclaim, boot, RecoverTeardown, StartAttempt, Stamp, Handle
  <2>7. merges' = merges /\ stage' = stage
    BY <1>1, Fields DEF TypeOK, Landings, Runs, Branches, Trees, Reader, Live, Attached, Up, git, reclaim, boot, RecoverTeardown, StartAttempt, Stamp, Handle
  <2>8. c \notin todo' /\ \A d \in Contract : d # c => (d \in todo' <=> d \in todo)
    BY <1>1, Fields DEF TypeOK, Landings, Runs, Branches, Trees, Reader, Live, Attached, Up, git, reclaim, boot, RecoverTeardown, StartAttempt, Stamp, Handle
  <2>9. contract[c].landing = "landed" /\ stage = "teardowns"
    BY <1>1, Fields DEF TypeOK, Landings, Runs, Branches, Trees, Reader, Live, Attached, Up, git, reclaim, boot, RecoverTeardown, StartAttempt, Stamp, Handle, ContractOK, RowOK
  <2> QED BY <2>1, <2>2, <2>3, <2>4, <2>5, <2>6, <2>7, <2>8, <2>9
<1>3. HeadKept(c) /\ \A d \in Contract : d # c => NotConcerned(d) /\ LeftAlone(d)
  <2>1. \A d \in Contract : HeadKept(d)
    BY <1>1 DEF HeadKept, chain, RecoverTeardown, StartAttempt, Stamp, Handle
  <2>2. \A d \in Contract : d # c => NotConcerned(d)
    BY <1>1, MergesKept DEF NotConcerned, git, boot, RecoverTeardown, StartAttempt, Stamp, Handle
  <2>3. \A d \in Contract : d # c => LeftAlone(d)
    BY <1>1, <2>1 DEF TypeOK, LeftAlone, git, reclaim, RecoverTeardown, StartAttempt, Stamp, Handle
  <2> QED BY <2>1, <2>2, <2>3
<1>4. DownOK'
  BY <1>1, <1>2 DEF DownOK, Attached, Up, chain, boot, RecoverTeardown, StartAttempt, Stamp, Handle
<1>5. QueueOK'
  <2>1. Undisturbed /\ UNCHANGED queue
    BY <1>1, <1>2, <1>3, Fields DEF Undisturbed, LeftAlone, NotConcerned, ContractOK, TaskOK, LiveOK, Live, Tasks, chain, RecoverTeardown, StartAttempt, Stamp, Handle
  <2> QED BY <1>1, <2>1, QueueStays
<1>6. MergesOK'
  BY <1>1, Fields DEF TypeOK, MergesOK, Branches, git, RecoverTeardown, StartAttempt, Stamp, Handle
<1>7. TaskOK(c)' /\ LiveOK(c)' /\ RowOK(c)'
  BY <1>1, <1>2, <1>3, Fields DEF Merged, ContractOK, TaskOK, LiveOK, RowOK, Tasks, Live, Reopenable
<1>8. HeadOK(c)' /\ ReclaimOK(c)'
  BY <1>1, <1>2, <1>3, Fields DEF Merged, ContractOK, TaskOK, LiveOK, RowOK, HeadOK, ReclaimOK, Reclaiming, AtHead, Cleaning, HeadKept, MergesOK, Live, Reopenable
<1>9. LandedOK(c)' /\ TreeOK(c)'
  BY <1>1, <1>2, <1>3, Fields DEF ContractOK, LiveOK, LandedOK, TreeOK, Live, Merged, MergesOK, Reopenable
<1> QED BY <1>1, <1>3, <1>4, <1>5, <1>6, <1>7, <1>8, <1>9, OneContract DEF ContractOK

LEMMA VerifyEndsInv ==
  ASSUME LandingInv, NEW c \in Contract, NEW outcome \in {"passed", "failed", "pending"}, VerifyEnds(c, outcome)
  PROVE  LandingInv'
<1>1. TypeOK /\ DownOK /\ QueueOK /\ MergesOK /\ ContractOK(c) /\ TypeOK'
  BY VerifyEndsTypes DEF LandingInv
<1>a. /\ contract'[c].landing = contract[c].landing /\ contract'[c].seal = contract[c].seal
      /\ contract'[c].landed = contract[c].landed
      /\ \/ contract'[c].verif = contract[c].verif /\ contract'[c].judged = contract[c].judged
         \/ contract'[c].judged = contract[c].seal
      /\ \A d \in Contract : d # c => contract'[d] = contract[d] /\ task'[d] = task[d]
      /\ exact' \subseteq exact
      /\ \A by \in Reader : <<by, c>> \in exact' => by = "task" \/ contract' = contract
      /\ \/ UNCHANGED chain /\ task'[c] = "none"
         \/ /\ Enqueue(Op("land", c, "task")) /\ task'[c] = "land"
            /\ contract'[c].judged = contract[c].seal
  <2>1. CASE ~ \E keep \in {{}, {"task"}} : Write(c, Judged(c, outcome), keep)
    <3>1. /\ UNCHANGED <<contract, run, chain>> /\ exact' \subseteq exact
          /\ task' = [task EXCEPT ![c] = "none"]
      BY <2>1 DEF VerifyEnds
    <3> QED BY <1>1, <3>1 DEF TypeOK
  <2>2. ASSUME NEW keep \in {{}, {"task"}}, Write(c, Judged(c, outcome), keep)
        PROVE  /\ contract'[c] = Judged(c, outcome) /\ exact' \subseteq exact
               /\ \A by \in Reader : <<by, c>> \in exact' => by = "task"
               /\ \A d \in Contract : d # c => contract'[d] = contract[d]
    BY ONLY <1>1, <2>2, WriteKeeps, c \in Contract
  <2>3. CASE \E keep \in {{}, {"task"}} : Write(c, Judged(c, outcome), keep)
    <3>1. /\ contract'[c] = Judged(c, outcome) /\ exact' \subseteq exact
          /\ \A by \in Reader : <<by, c>> \in exact' => by = "task"
          /\ \A d \in Contract : d # c => contract'[d] = contract[d]
      BY <2>2, <2>3
    <3>2. /\ contract'[c].landing = contract[c].landing /\ contract'[c].seal = contract[c].seal
          /\ contract'[c].landed = contract[c].landed /\ contract'[c].judged = contract[c].seal
      BY <1>1, <3>1, Fields DEF Judged, Landings
    <3>3. \/ UNCHANGED chain /\ task' = [task EXCEPT ![c] = "none"]
          \/ Enqueue(Op("land", c, "task")) /\ task' = [task EXCEPT ![c] = "land"]
      BY DEF VerifyEnds
    <3> QED BY <1>1, <3>1, <3>2, <3>3 DEF TypeOK
  <2> QED BY <2>1, <2>3
<1>b. UNCHANGED <<run, worktree, git, held, decision, reclaim, boot, spent>>
  BY DEF VerifyEnds
<1>c. Op("land", c, "task") \in Ops /\ ~(queue' = <<>> /\ Enqueue(Op("land", c, "task")))
  BY <1>1, OpShapes, EnqueueTypes DEF Reader
<1>d. \A d \in Contract : HeadKept(d)
  BY <1>1, <1>a, <1>c, EnqueueKeepsHead DEF HeadKept, chain
<1>2. /\ contract'[c].seal = contract[c].seal /\ (\/ contract'[c].verif = contract[c].verif /\ contract'[c].judged = contract[c].judged
          \/ contract'[c].judged = contract[c].seal) /\ contract'[c].landing = contract[c].landing /\ contract'[c].landed = contract[c].landed
      /\ run'[c] = run[c]
      /\ branch'[c] = branch[c]
      /\ worktree'[c] = worktree[c]
      /\ task'[c] \in {"none", "land"} /\ decision'[c] = decision[c] /\ attempt'[c] = attempt[c] /\ retry'[c] = retry[c]
      /\ exact' \subseteq exact
      /\ merges' = merges /\ stage' = stage
      /\ c \in todo' <=> c \in todo
      /\ task[c] = "verify" /\ stage \in {"sealed", "attached"}
      /\ contract[c].landing \notin {"abandoning", "abandoned"}
  <2>1. contract'[c].seal = contract[c].seal /\ (\/ contract'[c].verif = contract[c].verif /\ contract'[c].judged = contract[c].judged
          \/ contract'[c].judged = contract[c].seal) /\ contract'[c].landing = contract[c].landing /\ contract'[c].landed = contract[c].landed
    BY <1>1, <1>a, <1>b, <1>c, <1>d, Fields DEF TypeOK, Landings, Runs, Branches, Trees, Reader, Live, Attached, Up, git, reclaim, boot, VerifyEnds
  <2>2. run'[c] = run[c]
    BY <1>1, <1>a, <1>b, <1>c, <1>d, Fields DEF TypeOK, Landings, Runs, Branches, Trees, Reader, Live, Attached, Up, git, reclaim, boot, VerifyEnds
  <2>3. branch'[c] = branch[c]
    BY <1>1, <1>a, <1>b, <1>c, <1>d, Fields DEF TypeOK, Landings, Runs, Branches, Trees, Reader, Live, Attached, Up, git, reclaim, boot, VerifyEnds
  <2>4. worktree'[c] = worktree[c]
    BY <1>1, <1>a, <1>b, <1>c, <1>d, Fields DEF TypeOK, Landings, Runs, Branches, Trees, Reader, Live, Attached, Up, git, reclaim, boot, VerifyEnds
  <2>5. task'[c] \in {"none", "land"} /\ decision'[c] = decision[c] /\ attempt'[c] = attempt[c] /\ retry'[c] = retry[c]
    BY <1>1, <1>a, <1>b, <1>c, <1>d, Fields DEF TypeOK, Landings, Runs, Branches, Trees, Reader, Live, Attached, Up, git, reclaim, boot, VerifyEnds
  <2>6. exact' \subseteq exact
    BY <1>1, <1>a, <1>b, <1>c, <1>d, Fields DEF TypeOK, Landings, Runs, Branches, Trees, Reader, Live, Attached, Up, git, reclaim, boot, VerifyEnds
  <2>7. merges' = merges /\ stage' = stage
    BY <1>1, <1>a, <1>b, <1>c, <1>d, Fields DEF TypeOK, Landings, Runs, Branches, Trees, Reader, Live, Attached, Up, git, reclaim, boot, VerifyEnds
  <2>8. c \in todo' <=> c \in todo
    BY <1>1, <1>a, <1>b, <1>c, <1>d, Fields DEF TypeOK, Landings, Runs, Branches, Trees, Reader, Live, Attached, Up, git, reclaim, boot, VerifyEnds
  <2>9. task[c] = "verify" /\ stage \in {"sealed", "attached"}
    BY <1>1, <1>a, <1>b, <1>c, <1>d, Fields DEF TypeOK, Landings, Runs, Branches, Trees, Reader, Live, Attached, Up, git, reclaim, boot, VerifyEnds, ContractOK, TaskOK, VerifyEnds
  <2>10. contract[c].landing \notin {"abandoning", "abandoned"}
    BY <1>1 DEF VerifyEnds, ContractOK, RowOK
  <2> QED BY <2>1, <2>2, <2>3, <2>4, <2>5, <2>6, <2>7, <2>8, <2>9, <2>10
<1>3. HeadKept(c) /\ \A d \in Contract : NotConcerned(d) /\ (d # c => LeftAlone(d))
  <2>1. \A d \in Contract : HeadKept(d)
    BY <1>1, EnqueueKeepsHead, <1>a, <1>b, <1>c, <1>d DEF HeadKept, chain, vars
  <2>2. \A d \in Contract : NotConcerned(d)
    BY <1>1, <1>a, <1>b, <1>c, <1>d, MergesKept DEF NotConcerned, git, boot, vars
  <2>3. \A d \in Contract : d # c => LeftAlone(d)
    BY <1>1, <2>1, <1>a, <1>b, <1>c, <1>d DEF TypeOK, LeftAlone, git, reclaim, vars
  <2> QED BY <2>1, <2>2, <2>3
<1>4. DownOK'
  BY <1>1, <1>a, <1>b, <1>c, <1>d, <1>2 DEF DownOK, Attached, Up, chain, boot, VerifyEnds
<1>5. QueueOK'
  <2>1. Undisturbed
    BY <1>1, <1>2, <1>3, <1>a, <1>b DEF Undisturbed, LeftAlone, NotConcerned
  <2>2. CASE UNCHANGED chain
    BY <1>1, <2>1, <2>2, QueueStays DEF chain
  <2>3. CASE Enqueue(Op("land", c, "task")) /\ task'[c] = "land" /\ contract'[c].judged = contract[c].seal
    <3>1. OpOK(Op("land", c, "task"))'
      BY <1>2, <2>3 DEF OpOK, Op
    <3>2. \A i \in 1..Len(queue) : ~(queue[i].by = "task" /\ queue[i].c = c)
      BY <1>1, <1>2 DEF QueueOK, OpOK
    <3>3. Op("land", c, "task").by = "task" /\ Op("land", c, "task").c = c BY DEF Op
    <3> QED BY <1>1, <1>c, <2>1, <2>3, <3>1, <3>2, <3>3, QueueGrows
  <2> QED BY <1>a, <2>2, <2>3
<1>6. MergesOK'
  BY <1>1, Fields DEF TypeOK, MergesOK, Branches, git, VerifyEnds
<1>7. TaskOK(c)' /\ LiveOK(c)' /\ RowOK(c)'
  BY <1>1, <1>2, <1>3, Fields DEF Merged, ContractOK, TaskOK, LiveOK, RowOK, Tasks, Live, Reopenable
<1>8. HeadOK(c)' /\ ReclaimOK(c)'
  <2>1. \A t : Merged(c, t) => Merged(c, t)' BY <1>2, MergesKept
  <2>2. HeadOK(c)'
    BY <1>1, <1>2, <1>3, <1>a, <2>1, HeadStays DEF ContractOK, Reader
  <2>3. ReclaimOK(c)'
    BY <1>1, <1>2, <1>3, Fields DEF Merged, ContractOK, TaskOK, LiveOK, RowOK, ReclaimOK, Reclaiming, AtHead, HeadKept, MergesOK, Live, Reopenable
  <2> QED BY <2>2, <2>3
<1>9. LandedOK(c)' /\ TreeOK(c)'
  BY <1>1, <1>2, <1>3, Fields DEF ContractOK, LiveOK, LandedOK, TreeOK, Live, Merged, MergesOK, Reopenable
<1> QED BY <1>1, <1>3, <1>4, <1>5, <1>6, <1>7, <1>8, <1>9, OneContract DEF ContractOK

LEMMA AcceptReadsInv ==
  ASSUME LandingInv, NEW c \in Contract, AcceptReads(c)
  PROVE  LandingInv'
<1>1. TypeOK /\ DownOK /\ QueueOK /\ MergesOK /\ ContractOK(c) /\ TypeOK'
  BY AcceptReadsTypes DEF LandingInv
<1>a. /\ contract'[c].landing = contract[c].landing /\ contract'[c].seal = contract[c].seal
      /\ contract'[c].landed = contract[c].landed
      /\ \/ contract' = contract /\ UNCHANGED chain /\ decision'[c] = "none"
         \/ /\ contract'[c].judged = contract[c].seal /\ contract'[c].verif = "passed"
            /\ <<"accept", c>> \in exact
            /\ \/ UNCHANGED chain /\ decision'[c] = "none"
               \/ Enqueue(Op("land", c, "accept")) /\ decision'[c] = "landing"
      /\ \A d \in Contract : d # c => contract'[d] = contract[d] /\ decision'[d] = decision[d]
      /\ exact' \subseteq exact
      /\ \A by \in Reader : <<by, c>> \in exact' => by = "accept" \/ contract' = contract
  <2> DEFINE row == [Judged(c, "passed") EXCEPT !.base = head]
  <2>1. CASE <<"accept", c>> \in exact /\ Write(c, row, {"accept"})
    <3>1. /\ contract'[c] = row /\ exact' \subseteq exact
          /\ \A d \in Contract : d # c => contract'[d] = contract[d]
          /\ \A by \in Reader : <<by, c>> \in exact' => by = "accept"
      <4> HIDE DEF row
      <4> QED BY ONLY <1>1, <2>1, WriteKeeps, c \in Contract
    <3>2. /\ contract'[c].landing = contract[c].landing /\ contract'[c].seal = contract[c].seal
          /\ contract'[c].landed = contract[c].landed /\ contract'[c].judged = contract[c].seal
          /\ contract'[c].verif = "passed"
      BY <1>1, <3>1, Fields DEF Judged, Landings
    <3>3. \/ UNCHANGED chain /\ decision' = [decision EXCEPT ![c] = "none"]
          \/ Enqueue(Op("land", c, "accept")) /\ decision' = [decision EXCEPT ![c] = "landing"]
      BY DEF AcceptReads
    <3> QED BY <1>1, <2>1, <3>1, <3>2, <3>3 DEF TypeOK
  <2>2. CASE /\ decision' = [decision EXCEPT ![c] = "none"]
             /\ exact' = exact \ {<<"accept", c>>}
             /\ UNCHANGED <<contract, chain>>
    BY <1>1, <2>2 DEF TypeOK
  <2> HIDE DEF row
  <2>3. \/ <<"accept", c>> \in exact /\ Write(c, row, {"accept"})
        \/ /\ decision' = [decision EXCEPT ![c] = "none"]
           /\ exact' = exact \ {<<"accept", c>>}
           /\ UNCHANGED <<contract, chain>>
    BY DEF AcceptReads, row
  <2> QED BY <2>1, <2>2, <2>3
<1>b. UNCHANGED <<run, worktree, git, held, task, reclaim, boot>>
  BY DEF AcceptReads
<1>c. Op("land", c, "accept") \in Ops /\ ~(queue' = <<>> /\ Enqueue(Op("land", c, "accept")))
  BY <1>1, OpShapes, EnqueueTypes DEF Reader
<1>d. \A d \in Contract : HeadKept(d)
  BY <1>1, <1>a, <1>c, EnqueueKeepsHead DEF HeadKept, chain
<1>2. /\ contract'[c].seal = contract[c].seal /\ (contract' = contract \/ contract'[c].judged = contract[c].seal) /\ contract'[c].landing = contract[c].landing /\ contract'[c].landed = contract[c].landed
      /\ run'[c] = run[c]
      /\ branch'[c] = branch[c]
      /\ worktree'[c] = worktree[c]
      /\ task'[c] = task[c] /\ decision'[c] \in {"none", "landing"} /\ attempt'[c] = attempt[c] /\ retry'[c] = retry[c]
      /\ exact' \subseteq exact
      /\ merges' = merges /\ stage' = stage
      /\ c \in todo' <=> c \in todo
      /\ decision[c] = "reading" /\ stage # "down"
      /\ contract' = contract \/ contract[c].landing \in Reopenable
  <2>1. contract'[c].seal = contract[c].seal /\ (contract' = contract \/ contract'[c].judged = contract[c].seal) /\ contract'[c].landing = contract[c].landing /\ contract'[c].landed = contract[c].landed
    BY <1>1, <1>a, <1>b, <1>c, <1>d, Fields DEF TypeOK, Landings, Runs, Branches, Trees, Reader, Live, Attached, Up, git, reclaim, boot, AcceptReads
  <2>2. run'[c] = run[c]
    BY <1>1, <1>a, <1>b, <1>c, <1>d, Fields DEF TypeOK, Landings, Runs, Branches, Trees, Reader, Live, Attached, Up, git, reclaim, boot, AcceptReads
  <2>3. branch'[c] = branch[c]
    BY <1>1, <1>a, <1>b, <1>c, <1>d, Fields DEF TypeOK, Landings, Runs, Branches, Trees, Reader, Live, Attached, Up, git, reclaim, boot, AcceptReads
  <2>4. worktree'[c] = worktree[c]
    BY <1>1, <1>a, <1>b, <1>c, <1>d, Fields DEF TypeOK, Landings, Runs, Branches, Trees, Reader, Live, Attached, Up, git, reclaim, boot, AcceptReads
  <2>5. task'[c] = task[c] /\ decision'[c] \in {"none", "landing"} /\ attempt'[c] = attempt[c] /\ retry'[c] = retry[c]
    BY <1>1, <1>a, <1>b, <1>c, <1>d, Fields DEF TypeOK, Landings, Runs, Branches, Trees, Reader, Live, Attached, Up, git, reclaim, boot, AcceptReads
  <2>6. exact' \subseteq exact
    BY <1>1, <1>a, <1>b, <1>c, <1>d, Fields DEF TypeOK, Landings, Runs, Branches, Trees, Reader, Live, Attached, Up, git, reclaim, boot, AcceptReads
  <2>7. merges' = merges /\ stage' = stage
    BY <1>1, <1>a, <1>b, <1>c, <1>d, Fields DEF TypeOK, Landings, Runs, Branches, Trees, Reader, Live, Attached, Up, git, reclaim, boot, AcceptReads
  <2>8. c \in todo' <=> c \in todo
    BY <1>1, <1>a, <1>b, <1>c, <1>d, Fields DEF TypeOK, Landings, Runs, Branches, Trees, Reader, Live, Attached, Up, git, reclaim, boot, AcceptReads
  <2>9. decision[c] = "reading" /\ stage # "down"
    BY <1>1, <1>a, <1>b, <1>c, <1>d, Fields DEF TypeOK, Landings, Runs, Branches, Trees, Reader, Live, Attached, Up, git, reclaim, boot, AcceptReads
  <2>10. contract' = contract \/ contract[c].landing \in Reopenable
    BY <1>1, <1>a, <1>b, <1>c, <1>d, Fields DEF TypeOK, Landings, Runs, Branches, Trees, Reader, Live, Attached, Up, git, reclaim, boot, AcceptReads, ContractOK, RowOK
  <2> QED BY <2>1, <2>2, <2>3, <2>4, <2>5, <2>6, <2>7, <2>8, <2>9, <2>10
<1>3. HeadKept(c) /\ \A d \in Contract : NotConcerned(d) /\ (d # c => LeftAlone(d))
  <2>1. \A d \in Contract : HeadKept(d)
    BY <1>1, EnqueueKeepsHead, <1>a, <1>b, <1>c, <1>d DEF HeadKept, chain, vars
  <2>2. \A d \in Contract : NotConcerned(d)
    BY <1>1, <1>a, <1>b, <1>c, <1>d, MergesKept DEF NotConcerned, git, boot, vars
  <2>3. \A d \in Contract : d # c => LeftAlone(d)
    BY <1>1, <2>1, <1>a, <1>b, <1>c, <1>d DEF TypeOK, LeftAlone, git, reclaim, vars
  <2> QED BY <2>1, <2>2, <2>3
<1>4. DownOK'
  BY <1>1, <1>a, <1>b, <1>c, <1>d, <1>2 DEF DownOK, Attached, Up, chain, boot, AcceptReads
<1>5. QueueOK'
  <2>1. Undisturbed
    BY <1>1, <1>2, <1>3, <1>a, <1>b DEF Undisturbed, LeftAlone, NotConcerned
  <2>2. CASE UNCHANGED chain
    BY <1>1, <2>1, <2>2, QueueStays DEF chain
  <2>3. CASE Enqueue(Op("land", c, "accept")) /\ decision'[c] = "landing" /\ contract'[c].judged = contract[c].seal
    <3>1. OpOK(Op("land", c, "accept"))'
      BY <1>2, <2>3 DEF OpOK, Op
    <3>2. \A i \in 1..Len(queue) : ~(queue[i].by = "accept" /\ queue[i].c = c)
      BY <1>1, <1>2 DEF QueueOK, OpOK
    <3>3. Op("land", c, "accept").by = "accept" /\ Op("land", c, "accept").c = c BY DEF Op
    <3> QED BY <1>1, <1>c, <2>1, <2>3, <3>1, <3>2, <3>3, QueueGrows
  <2> QED BY <1>a, <2>2, <2>3
<1>6. MergesOK'
  BY <1>1, Fields DEF TypeOK, MergesOK, Branches, git, AcceptReads
<1>7. TaskOK(c)' /\ LiveOK(c)' /\ RowOK(c)'
  BY <1>1, <1>2, <1>3, Fields DEF Merged, ContractOK, TaskOK, LiveOK, RowOK, Tasks, Live, Reopenable
<1>8. HeadOK(c)' /\ ReclaimOK(c)'
  <2>1. \A t : Merged(c, t) => Merged(c, t)' BY <1>2, MergesKept
  <2>2. HeadOK(c)'
    BY <1>1, <1>2, <1>3, <1>a, <2>1, HeadStays DEF ContractOK, Reader
  <2>3. ReclaimOK(c)'
    BY <1>1, <1>2, <1>3, Fields DEF Merged, ContractOK, TaskOK, LiveOK, RowOK, ReclaimOK, Reclaiming, AtHead, HeadKept, MergesOK, Live, Reopenable
  <2> QED BY <2>2, <2>3
<1>9. LandedOK(c)' /\ TreeOK(c)'
  BY <1>1, <1>2, <1>3, Fields DEF ContractOK, LiveOK, LandedOK, TreeOK, Live, Merged, MergesOK, Reopenable
<1> QED BY <1>1, <1>3, <1>4, <1>5, <1>6, <1>7, <1>8, <1>9, OneContract DEF ContractOK

LEMMA RecoverLandingInv ==
  ASSUME LandingInv, NEW c \in Contract, RecoverMutation(c, "landings", "land", "pending")
  PROVE  LandingInv'
<1>1. TypeOK /\ DownOK /\ QueueOK /\ MergesOK /\ ContractOK(c) /\ TypeOK'
  BY RecoverMutationTypes DEF LandingInv
<1>a. /\ stage = "landings" /\ stage' = stage /\ c \notin todo'
      /\ \A d \in Contract : d # c => (d \in todo' <=> d \in todo)
      /\ \A i \in 1..Len(queue) : queue[i].by # "boot"
      /\ UNCHANGED <<contract, run, worktree, git, held, task, decision, reclaim>>
      /\ exact' \subseteq exact \cup {<<"boot", c>>}
  BY DEF RecoverMutation, Handle, Settling
<1>b. \/ UNCHANGED chain
      \/ Enqueue(Op("land", c, "boot")) /\ contract[c].landing = "pending"
  BY DEF RecoverMutation
<1>c. Op("land", c, "boot") \in Ops /\ ~(queue' = <<>> /\ Enqueue(Op("land", c, "boot")))
  BY <1>1, OpShapes, EnqueueTypes DEF Reader
<1>d. \A d \in Contract : HeadKept(d)
  BY <1>1, <1>b, <1>c, EnqueueKeepsHead DEF HeadKept, chain
<1>2. /\ contract'[c] = contract[c]
      /\ run'[c] = run[c]
      /\ branch'[c] = branch[c]
      /\ worktree'[c] = worktree[c]
      /\ task'[c] = task[c] /\ decision'[c] = decision[c] /\ attempt'[c] = attempt[c] /\ retry'[c] = retry[c]
      /\ exact' \subseteq exact \cup {<<"boot", c>>}
      /\ merges' = merges /\ stage' = stage
      /\ c \notin todo' /\ \A d \in Contract : d # c => (d \in todo' <=> d \in todo)
      /\ stage = "landings"
  <2>1. contract'[c] = contract[c]
    BY <1>1, <1>a, <1>b, <1>c, <1>d, Fields DEF TypeOK, Landings, Runs, Branches, Trees, Reader, Live, Attached, Up, git, reclaim, boot, RecoverMutation
  <2>2. run'[c] = run[c]
    BY <1>1, <1>a, <1>b, <1>c, <1>d, Fields DEF TypeOK, Landings, Runs, Branches, Trees, Reader, Live, Attached, Up, git, reclaim, boot, RecoverMutation
  <2>3. branch'[c] = branch[c]
    BY <1>1, <1>a, <1>b, <1>c, <1>d, Fields DEF TypeOK, Landings, Runs, Branches, Trees, Reader, Live, Attached, Up, git, reclaim, boot, RecoverMutation
  <2>4. worktree'[c] = worktree[c]
    BY <1>1, <1>a, <1>b, <1>c, <1>d, Fields DEF TypeOK, Landings, Runs, Branches, Trees, Reader, Live, Attached, Up, git, reclaim, boot, RecoverMutation
  <2>5. task'[c] = task[c] /\ decision'[c] = decision[c] /\ attempt'[c] = attempt[c] /\ retry'[c] = retry[c]
    BY <1>1, <1>a, <1>b, <1>c, <1>d, Fields DEF TypeOK, Landings, Runs, Branches, Trees, Reader, Live, Attached, Up, git, reclaim, boot, RecoverMutation
  <2>6. exact' \subseteq exact \cup {<<"boot", c>>}
    BY <1>1, <1>a, <1>b, <1>c, <1>d, Fields DEF TypeOK, Landings, Runs, Branches, Trees, Reader, Live, Attached, Up, git, reclaim, boot, RecoverMutation
  <2>7. merges' = merges /\ stage' = stage
    BY <1>1, <1>a, <1>b, <1>c, <1>d, Fields DEF TypeOK, Landings, Runs, Branches, Trees, Reader, Live, Attached, Up, git, reclaim, boot, RecoverMutation
  <2>8. c \notin todo' /\ \A d \in Contract : d # c => (d \in todo' <=> d \in todo)
    BY <1>1, <1>a, <1>b, <1>c, <1>d, Fields DEF TypeOK, Landings, Runs, Branches, Trees, Reader, Live, Attached, Up, git, reclaim, boot, RecoverMutation
  <2>9. stage = "landings"
    BY <1>1, <1>a, <1>b, <1>c, <1>d, Fields DEF TypeOK, Landings, Runs, Branches, Trees, Reader, Live, Attached, Up, git, reclaim, boot, RecoverMutation
  <2> QED BY <2>1, <2>2, <2>3, <2>4, <2>5, <2>6, <2>7, <2>8, <2>9
<1>3. HeadKept(c) /\ \A d \in Contract : d # c => NotConcerned(d) /\ LeftAlone(d)
  <2>1. \A d \in Contract : HeadKept(d)
    BY <1>1, EnqueueKeepsHead, <1>a, <1>b, <1>c, <1>d DEF HeadKept, chain, vars
  <2>2. \A d \in Contract : d # c => NotConcerned(d)
    BY <1>1, <1>a, <1>b, <1>c, <1>d, MergesKept DEF NotConcerned, git, boot, vars
  <2>3. \A d \in Contract : d # c => LeftAlone(d)
    BY <1>1, <2>1, <1>a, <1>b, <1>c, <1>d DEF TypeOK, LeftAlone, git, reclaim, vars
  <2> QED BY <2>1, <2>2, <2>3
<1>4. DownOK'
  BY <1>1, <1>a, <1>b, <1>c, <1>d, <1>2 DEF DownOK, Attached, Up, chain, boot, RecoverMutation
<1>5. QueueOK'
  <2>1. Undisturbed
    BY <1>1, <1>a DEF Undisturbed
  <2>2. CASE UNCHANGED chain
    BY <1>1, <2>1, <2>2, QueueStays DEF chain
  <2>3. CASE Enqueue(Op("land", c, "boot")) /\ contract[c].landing = "pending"
    <3>1. OpOK(Op("land", c, "boot"))'
      BY <1>1, <1>a, <2>3 DEF OpOK, Op, ContractOK, RowOK
    <3>2. Op("land", c, "boot").by \notin {"task", "accept"} BY DEF Op
    <3> QED BY <1>1, <1>c, <2>1, <2>3, <3>1, <3>2, QueueGrows
  <2> QED BY <1>b, <2>2, <2>3
<1>6. MergesOK'
  BY <1>1, Fields DEF TypeOK, MergesOK, Branches, git, RecoverMutation
<1>7. TaskOK(c)' /\ LiveOK(c)' /\ RowOK(c)'
  BY <1>1, <1>2, <1>3, Fields DEF Merged, ContractOK, TaskOK, LiveOK, RowOK, Tasks, Live, Reopenable
<1>8. HeadOK(c)' /\ ReclaimOK(c)'
  <2>1. \A t : Merged(c, t) => Merged(c, t)' BY <1>2, MergesKept
  <2>2. HeadOK(c)'
    BY <1>1, <1>2, <1>3, <1>a, <2>1, HeadStays DEF ContractOK, Reader
  <2>3. ReclaimOK(c)'
    BY <1>1, <1>2, <1>3, Fields DEF Merged, ContractOK, TaskOK, LiveOK, RowOK, ReclaimOK, Reclaiming, AtHead, HeadKept, MergesOK, Live, Reopenable
  <2> QED BY <2>2, <2>3
<1>9. LandedOK(c)' /\ TreeOK(c)'
  BY <1>1, <1>2, <1>3, Fields DEF ContractOK, LiveOK, LandedOK, TreeOK, Live, Merged, MergesOK, Reopenable
<1> QED BY <1>1, <1>3, <1>4, <1>5, <1>6, <1>7, <1>8, <1>9, OneContract DEF ContractOK

LEMMA RecoverAbandonmentInv ==
  ASSUME LandingInv, NEW c \in Contract, RecoverMutation(c, "abandonments", "abandon", "abandoning")
  PROVE  LandingInv'
<1>1. TypeOK /\ DownOK /\ QueueOK /\ MergesOK /\ ContractOK(c) /\ TypeOK'
  BY RecoverMutationTypes DEF LandingInv
<1>a. /\ stage = "abandonments" /\ stage' = stage /\ c \notin todo'
      /\ \A d \in Contract : d # c => (d \in todo' <=> d \in todo)
      /\ \A i \in 1..Len(queue) : queue[i].by # "boot"
      /\ UNCHANGED <<contract, run, worktree, git, held, task, decision, reclaim>>
      /\ exact' \subseteq exact \cup {<<"boot", c>>}
  BY DEF RecoverMutation, Handle, Settling
<1>b. \/ UNCHANGED chain
      \/ Enqueue(Op("abandon", c, "boot")) /\ contract[c].landing = "abandoning"
  BY DEF RecoverMutation
<1>c. Op("abandon", c, "boot") \in Ops /\ ~(queue' = <<>> /\ Enqueue(Op("abandon", c, "boot")))
  BY <1>1, OpShapes, EnqueueTypes DEF Reader
<1>d. \A d \in Contract : HeadKept(d)
  BY <1>1, <1>b, <1>c, EnqueueKeepsHead DEF HeadKept, chain
<1>2. /\ contract'[c] = contract[c]
      /\ run'[c] = run[c]
      /\ branch'[c] = branch[c]
      /\ worktree'[c] = worktree[c]
      /\ task'[c] = task[c] /\ decision'[c] = decision[c] /\ attempt'[c] = attempt[c] /\ retry'[c] = retry[c]
      /\ exact' \subseteq exact \cup {<<"boot", c>>}
      /\ merges' = merges /\ stage' = stage
      /\ c \notin todo' /\ \A d \in Contract : d # c => (d \in todo' <=> d \in todo)
      /\ stage = "abandonments"
  <2>1. contract'[c] = contract[c]
    BY <1>1, <1>a, <1>b, <1>c, <1>d, Fields DEF TypeOK, Landings, Runs, Branches, Trees, Reader, Live, Attached, Up, git, reclaim, boot, RecoverMutation
  <2>2. run'[c] = run[c]
    BY <1>1, <1>a, <1>b, <1>c, <1>d, Fields DEF TypeOK, Landings, Runs, Branches, Trees, Reader, Live, Attached, Up, git, reclaim, boot, RecoverMutation
  <2>3. branch'[c] = branch[c]
    BY <1>1, <1>a, <1>b, <1>c, <1>d, Fields DEF TypeOK, Landings, Runs, Branches, Trees, Reader, Live, Attached, Up, git, reclaim, boot, RecoverMutation
  <2>4. worktree'[c] = worktree[c]
    BY <1>1, <1>a, <1>b, <1>c, <1>d, Fields DEF TypeOK, Landings, Runs, Branches, Trees, Reader, Live, Attached, Up, git, reclaim, boot, RecoverMutation
  <2>5. task'[c] = task[c] /\ decision'[c] = decision[c] /\ attempt'[c] = attempt[c] /\ retry'[c] = retry[c]
    BY <1>1, <1>a, <1>b, <1>c, <1>d, Fields DEF TypeOK, Landings, Runs, Branches, Trees, Reader, Live, Attached, Up, git, reclaim, boot, RecoverMutation
  <2>6. exact' \subseteq exact \cup {<<"boot", c>>}
    BY <1>1, <1>a, <1>b, <1>c, <1>d, Fields DEF TypeOK, Landings, Runs, Branches, Trees, Reader, Live, Attached, Up, git, reclaim, boot, RecoverMutation
  <2>7. merges' = merges /\ stage' = stage
    BY <1>1, <1>a, <1>b, <1>c, <1>d, Fields DEF TypeOK, Landings, Runs, Branches, Trees, Reader, Live, Attached, Up, git, reclaim, boot, RecoverMutation
  <2>8. c \notin todo' /\ \A d \in Contract : d # c => (d \in todo' <=> d \in todo)
    BY <1>1, <1>a, <1>b, <1>c, <1>d, Fields DEF TypeOK, Landings, Runs, Branches, Trees, Reader, Live, Attached, Up, git, reclaim, boot, RecoverMutation
  <2>9. stage = "abandonments"
    BY <1>1, <1>a, <1>b, <1>c, <1>d, Fields DEF TypeOK, Landings, Runs, Branches, Trees, Reader, Live, Attached, Up, git, reclaim, boot, RecoverMutation
  <2> QED BY <2>1, <2>2, <2>3, <2>4, <2>5, <2>6, <2>7, <2>8, <2>9
<1>3. HeadKept(c) /\ \A d \in Contract : d # c => NotConcerned(d) /\ LeftAlone(d)
  <2>1. \A d \in Contract : HeadKept(d)
    BY <1>1, EnqueueKeepsHead, <1>a, <1>b, <1>c, <1>d DEF HeadKept, chain, vars
  <2>2. \A d \in Contract : d # c => NotConcerned(d)
    BY <1>1, <1>a, <1>b, <1>c, <1>d, MergesKept DEF NotConcerned, git, boot, vars
  <2>3. \A d \in Contract : d # c => LeftAlone(d)
    BY <1>1, <2>1, <1>a, <1>b, <1>c, <1>d DEF TypeOK, LeftAlone, git, reclaim, vars
  <2> QED BY <2>1, <2>2, <2>3
<1>4. DownOK'
  BY <1>1, <1>a, <1>b, <1>c, <1>d, <1>2 DEF DownOK, Attached, Up, chain, boot, RecoverMutation
<1>5. QueueOK'
  <2>1. Undisturbed
    BY <1>1, <1>a DEF Undisturbed
  <2>2. CASE UNCHANGED chain
    BY <1>1, <2>1, <2>2, QueueStays DEF chain
  <2>3. CASE Enqueue(Op("abandon", c, "boot")) /\ contract[c].landing = "abandoning"
    <3>1. OpOK(Op("abandon", c, "boot"))'
      BY <1>1, <1>a, <2>3 DEF OpOK, Op
    <3>2. Op("abandon", c, "boot").by \notin {"task", "accept"} BY DEF Op
    <3> QED BY <1>1, <1>c, <2>1, <2>3, <3>1, <3>2, QueueGrows
  <2> QED BY <1>b, <2>2, <2>3
<1>6. MergesOK'
  BY <1>1, Fields DEF TypeOK, MergesOK, Branches, git, RecoverMutation
<1>7. TaskOK(c)' /\ LiveOK(c)' /\ RowOK(c)'
  BY <1>1, <1>2, <1>3, Fields DEF Merged, ContractOK, TaskOK, LiveOK, RowOK, Tasks, Live, Reopenable
<1>8. HeadOK(c)' /\ ReclaimOK(c)'
  <2>1. \A t : Merged(c, t) => Merged(c, t)' BY <1>2, MergesKept
  <2>2. HeadOK(c)'
    BY <1>1, <1>2, <1>3, <1>a, <2>1, HeadStays DEF ContractOK, Reader
  <2>3. ReclaimOK(c)'
    BY <1>1, <1>2, <1>3, Fields DEF Merged, ContractOK, TaskOK, LiveOK, RowOK, ReclaimOK, Reclaiming, AtHead, HeadKept, MergesOK, Live, Reopenable
  <2> QED BY <2>2, <2>3
<1>9. LandedOK(c)' /\ TreeOK(c)'
  BY <1>1, <1>2, <1>3, Fields DEF ContractOK, LiveOK, LandedOK, TreeOK, Live, Merged, MergesOK, Reopenable
<1> QED BY <1>1, <1>3, <1>4, <1>5, <1>6, <1>7, <1>8, <1>9, OneContract DEF ContractOK

LEMMA RecoverSealedInv ==
  ASSUME LandingInv, NEW c \in Contract, RecoverSealed(c)
  PROVE  LandingInv'
<1>1. TypeOK /\ DownOK /\ QueueOK /\ MergesOK /\ ContractOK(c) /\ TypeOK'
  BY RecoverSealedTypes DEF LandingInv
<1>a. /\ \A d \in Contract : d # c => contract'[d] = contract[d] /\ task'[d] = task[d]
      /\ contract'[c].landing = contract[c].landing /\ contract'[c].seal = contract[c].seal
      /\ contract'[c].landed = contract[c].landed
      /\ \/ contract'[c].verif = contract[c].verif /\ contract'[c].judged = contract[c].judged
         \/ contract'[c].verif = "failed" /\ contract'[c].judged = contract[c].seal
      /\ \A by \in Reader : <<by, c>> \in exact' =>
           by = "task" \/ (<<by, c>> \in exact /\ contract'[c].verif = contract[c].verif)
      /\ task'[c] \in {task[c], "verify", "none"}
      /\ exact' \subseteq exact \cup {<<"task", c>>}
      /\ \A d \in Contract : <<"accept", d>> \in exact' => <<"accept", d>> \in exact
  <2>1. CASE \E status : StartVerification(c, status)
    <3>1. PICK status : StartVerification(c, status) BY <2>1
    <3> QED BY <1>1, <3>1, StartVerificationDoes
  <2>2. CASE ~ \E status : StartVerification(c, status)
    <3>1. UNCHANGED <<contract, task, exact>>
      BY <2>2 DEF RecoverSealed
    <3> QED BY <1>1, <3>1
  <2> QED BY <2>1, <2>2
<1>b. /\ UNCHANGED <<worktree, git, held, decision, chain, reclaim>>
      /\ stage = "sealed" /\ stage' = stage /\ c \in todo /\ c \notin todo'
      /\ \A d \in Contract : d # c => (d \in todo' <=> d \in todo)
      /\ run' = [run EXCEPT ![c].status = IF run[c].status = "live" THEN "completed" ELSE run[c].status]
  BY DEF RecoverSealed, Handle, Live
<1>2. /\ contract'[c].seal = contract[c].seal /\ ((contract'[c].verif = contract[c].verif /\ contract'[c].judged = contract[c].judged)
           \/ (contract'[c].verif = "failed" /\ contract'[c].judged = contract[c].seal)) /\ contract'[c].landing = contract[c].landing /\ contract'[c].landed = contract[c].landed
      /\ run'[c].status # "live" /\ run'[c].life = run[c].life
      /\ branch'[c] = branch[c]
      /\ worktree'[c] = worktree[c]
      /\ task'[c] \in {task[c], "verify", "none"} /\ decision'[c] = decision[c] /\ attempt'[c] = attempt[c] /\ retry'[c] = retry[c]
      /\ exact' \subseteq exact \cup {<<"task", c>>}
      /\ merges' = merges /\ stage' = stage
      /\ c \notin todo' /\ \A d \in Contract : d # c => (d \in todo' <=> d \in todo)
      /\ stage = "sealed"
      /\ contract[c].landing \notin {"abandoning", "abandoned"} /\ task[c] = "none"
  <2>1. contract'[c].seal = contract[c].seal /\ ((contract'[c].verif = contract[c].verif /\ contract'[c].judged = contract[c].judged)
           \/ (contract'[c].verif = "failed" /\ contract'[c].judged = contract[c].seal)) /\ contract'[c].landing = contract[c].landing /\ contract'[c].landed = contract[c].landed
    BY <1>1, <1>a, <1>b, Fields DEF TypeOK, Landings, Runs, Branches, Trees, Reader, Live, Attached, Up, git, reclaim, boot, RecoverSealed
  <2>2. run'[c].status # "live" /\ run'[c].life = run[c].life
    BY <1>1, <1>a, <1>b, Fields DEF TypeOK, Landings, Runs, Branches, Trees, Reader, Live, Attached, Up, git, reclaim, boot, RecoverSealed
  <2>3. branch'[c] = branch[c]
    BY <1>1, <1>a, <1>b, Fields DEF TypeOK, Landings, Runs, Branches, Trees, Reader, Live, Attached, Up, git, reclaim, boot, RecoverSealed
  <2>4. worktree'[c] = worktree[c]
    BY <1>1, <1>a, <1>b, Fields DEF TypeOK, Landings, Runs, Branches, Trees, Reader, Live, Attached, Up, git, reclaim, boot, RecoverSealed
  <2>5. task'[c] \in {task[c], "verify", "none"} /\ decision'[c] = decision[c] /\ attempt'[c] = attempt[c] /\ retry'[c] = retry[c]
    BY <1>1, <1>a, <1>b, Fields DEF TypeOK, Landings, Runs, Branches, Trees, Reader, Live, Attached, Up, git, reclaim, boot, RecoverSealed
  <2>6. exact' \subseteq exact \cup {<<"task", c>>}
    BY <1>1, <1>a, <1>b, Fields DEF TypeOK, Landings, Runs, Branches, Trees, Reader, Live, Attached, Up, git, reclaim, boot, RecoverSealed
  <2>7. merges' = merges /\ stage' = stage
    BY <1>1, <1>a, <1>b, Fields DEF TypeOK, Landings, Runs, Branches, Trees, Reader, Live, Attached, Up, git, reclaim, boot, RecoverSealed
  <2>8. c \notin todo' /\ \A d \in Contract : d # c => (d \in todo' <=> d \in todo)
    BY <1>1, <1>a, <1>b, Fields DEF TypeOK, Landings, Runs, Branches, Trees, Reader, Live, Attached, Up, git, reclaim, boot, RecoverSealed
  <2>9. stage = "sealed"
    BY <1>1, <1>a, <1>b, Fields DEF TypeOK, Landings, Runs, Branches, Trees, Reader, Live, Attached, Up, git, reclaim, boot, RecoverSealed
  <2>10. contract[c].landing \notin {"abandoning", "abandoned"} /\ task[c] = "none"
    BY <1>1, <1>b DEF ContractOK, RowOK
  <2> QED BY <2>1, <2>2, <2>3, <2>4, <2>5, <2>6, <2>7, <2>8, <2>9, <2>10
<1>3. HeadKept(c) /\ \A d \in Contract : d # c => NotConcerned(d) /\ LeftAlone(d)
  <2>1. \A d \in Contract : HeadKept(d)
    BY <1>1, <1>a, <1>b DEF HeadKept, chain, vars
  <2>2. \A d \in Contract : d # c => NotConcerned(d)
    BY <1>1, <1>a, <1>b, MergesKept DEF NotConcerned, git, boot, vars
  <2>3. \A d \in Contract : d # c => LeftAlone(d)
    BY <1>1, <2>1, <1>a, <1>b DEF TypeOK, LeftAlone, git, reclaim, vars
  <2> QED BY <2>1, <2>2, <2>3
<1>4. DownOK'
  BY <1>1, <1>a, <1>b, <1>2 DEF DownOK, Attached, Up, chain, boot, RecoverSealed
<1>5. QueueOK'
  <2>1. Undisturbed /\ UNCHANGED queue
    BY <1>1, <1>2, <1>3, <1>a, <1>b, Fields DEF Undisturbed, LeftAlone, NotConcerned, ContractOK, TaskOK, LiveOK, Live, Tasks, chain, RecoverSealed
  <2> QED BY <1>1, <2>1, QueueStays
<1>6. MergesOK'
  BY <1>1, Fields DEF TypeOK, MergesOK, Branches, git, RecoverSealed
<1>7. TaskOK(c)' /\ LiveOK(c)' /\ RowOK(c)'
  BY <1>1, <1>2, <1>3, Fields DEF Merged, ContractOK, TaskOK, LiveOK, RowOK, Tasks, Live, Reopenable
<1>8. HeadOK(c)' /\ ReclaimOK(c)'
  <2>1. \A t : Merged(c, t) => Merged(c, t)' BY <1>2, MergesKept
  <2>2. HeadOK(c)'
    BY <1>1, <1>2, <1>3, <1>a, <2>1, HeadStays DEF ContractOK, Reader
  <2>3. ReclaimOK(c)'
    BY <1>1, <1>2, <1>3, Fields DEF Merged, ContractOK, TaskOK, LiveOK, RowOK, ReclaimOK, Reclaiming, AtHead, HeadKept, MergesOK, Live, Reopenable
  <2> QED BY <2>2, <2>3
<1>9. LandedOK(c)' /\ TreeOK(c)'
  BY <1>1, <1>2, <1>3, Fields DEF ContractOK, LiveOK, LandedOK, TreeOK, Live, Merged, MergesOK, Reopenable
<1> QED BY <1>1, <1>3, <1>4, <1>5, <1>6, <1>7, <1>8, <1>9, OneContract DEF ContractOK

LEMMA OutsideCommitInv == ASSUME LandingInv, OutsideCommit PROVE LandingInv'
<1>1. TypeOK /\ DownOK /\ QueueOK /\ MergesOK /\ TypeOK' BY OutsideCommitTypes DEF LandingInv
<1>2. /\ UNCHANGED <<contract, run, worktree, branch, merges, held, task, decision, chain, reclaim, boot>>
      /\ exact' \subseteq exact
  BY DEF OutsideCommit, ForgetApprovals
<1>3. DownOK' BY <1>1, <1>2 DEF DownOK, chain, boot
<1>4. QueueOK'
  <2>1. Undisturbed /\ UNCHANGED queue BY <1>2 DEF Undisturbed, chain, boot
  <2> QED BY <1>1, <2>1, QueueStays
<1>5. MergesOK' BY <1>1, <1>2 DEF MergesOK
<1>6. \A c \in Contract : LeftAlone(c) /\ NotConcerned(c)
  BY <1>2, MergesKept DEF LeftAlone, NotConcerned, HeadKept, chain, reclaim, boot
<1> QED BY <1>1, <1>3, <1>4, <1>5, <1>6, NoContract

\* Files held open, and an orphan swept away, are nobody's business.
LEMMA BystanderInv ==
  ASSUME LandingInv, JanitorSweeps \/ \E c \in Contract : Hold(c) \/ LetGo(c)
  PROVE  LandingInv'
<1>1. TypeOK /\ DownOK /\ QueueOK /\ MergesOK BY DEF LandingInv
<1>2. TypeOK' BY <1>1, HoldTypes, LetGoTypes, JanitorSweepsTypes
<1>3. /\ UNCHANGED <<contract, run, git, task, decision, chain, reclaim, exact, boot>>
      /\ worktree' = worktree \/ SweepOrphans
  BY DEF JanitorSweeps, Hold, LetGo
<1>4. DownOK' BY <1>1, <1>3 DEF DownOK, chain, boot
<1>5. QueueOK'
  <2>1. Undisturbed /\ UNCHANGED queue BY <1>3 DEF Undisturbed, chain, boot
  <2> QED BY <1>1, <2>1, QueueStays
<1>6. MergesOK' BY <1>1, <1>3 DEF MergesOK, git
<1>7. ASSUME NEW c \in Contract
      PROVE  \/ worktree'[c] = worktree[c]
             \/ worktree[c].dir # "registered" /\ worktree'[c].dir = "absent" /\ worktree'[c].row = "destroyed"
  BY <1>3 DEF SweepOrphans, Orphans
<1>8. \A c \in Contract : LeftAlone(c) /\ NotConcerned(c)
  BY <1>3, <1>7, MergesKept DEF LeftAlone, NotConcerned, HeadKept, git, chain, reclaim, boot
<1> QED BY <1>1, <1>2, <1>4, <1>5, <1>6, <1>8, NoContract

\* The conjuncts of a contract when the stage changes and little else.
LEMMA ReconciledInv ==
  ASSUME LandingInv, JanitorReconciles \/ BootReconciles
  PROVE  LandingInv'
<1>1. TypeOK /\ DownOK /\ QueueOK /\ MergesOK BY DEF LandingInv
<1>2. TypeOK' BY <1>1, JanitorReconcilesTypes, BootReconcilesTypes
<1>3. /\ UNCHANGED <<contract, git, held, task, decision, chain, reclaim, exact, todo>>
      /\ stage' = stage \/ (stage = "scan" /\ stage' = "sweep")
  BY DEF JanitorReconciles, BootReconciles, boot
<1>4. DownOK' BY <1>1, <1>3 DEF DownOK, chain
<1>5. QueueOK' BY <1>1, <1>3 DEF QueueOK, OpOK, Owns, chain
<1>6. MergesOK' BY <1>1, <1>3 DEF MergesOK, git
<1>7. ASSUME NEW c \in Contract PROVE ContractOK(c)'
  <2>1. ContractOK(c) BY DEF LandingInv
  <2>2. /\ run'[c].status = run[c].status /\ run'[c].life \in {run[c].life, "stranded"}
        /\ worktree'[c].dir = worktree[c].dir
        /\ worktree[c].row = "destroyed" => worktree'[c].row = "destroyed"
    <3>1. run[c] \in Runs /\ worktree[c] \in Trees BY <1>1, Fields
    <3>2. Reconciled BY DEF JanitorReconciles, BootReconciles
    <3> QED BY <3>1, <3>2 DEF Reconciled, Runs, Trees
  <2>3. TaskOK(c)' /\ LiveOK(c)' /\ RowOK(c)'
    BY <1>3, <2>1, <2>2 DEF ContractOK, TaskOK, LiveOK, RowOK, Live, reclaim
  <2>4. HeadOK(c)' BY <1>3, <2>1 DEF ContractOK, HeadOK, AtHead, Owns, Cleaning, Merged, chain, git
  <2>5. ReclaimOK(c)' BY <1>3, <2>1, <2>2 DEF ContractOK, ReclaimOK, Reclaiming, AtHead, chain, git, reclaim
  <2>6. LandedOK(c)' BY <1>3, <2>1 DEF ContractOK, LandedOK, Merged, git
  <2>7. TreeOK(c)' BY <1>3, <2>1, <2>2 DEF ContractOK, TreeOK, Live, git
  <2> QED BY <2>3, <2>4, <2>5, <2>6, <2>7 DEF ContractOK
<1> QED BY <1>2, <1>4, <1>5, <1>6, <1>7 DEF LandingInv

LEMMA AttachInv == ASSUME LandingInv, Attach PROVE LandingInv'
<1>1. TypeOK /\ DownOK /\ QueueOK /\ MergesOK /\ TypeOK' BY AttachTypes DEF LandingInv
<1>2. /\ UNCHANGED <<contract, run, git, held, task, decision, chain, reclaim, exact, todo>>
      /\ stage = "sweep" /\ stage' = "attached" /\ SweepOrphans
  BY DEF Attach
<1>3. DownOK' BY <1>1, <1>2 DEF DownOK, chain
<1>4. QueueOK' BY <1>1, <1>2 DEF QueueOK, OpOK, Owns, chain
<1>5. MergesOK' BY <1>1, <1>2 DEF MergesOK, git
<1>6. ASSUME NEW c \in Contract PROVE ContractOK(c)'
  <2>1. ContractOK(c) BY DEF LandingInv
  <2>2. \/ worktree'[c] = worktree[c]
        \/ worktree[c].dir # "registered" /\ worktree'[c].dir = "absent" /\ worktree'[c].row = "destroyed"
    BY <1>2 DEF SweepOrphans, Orphans
  <2>3. TaskOK(c)' /\ LiveOK(c)' /\ RowOK(c)'
    BY <1>2, <2>1 DEF ContractOK, TaskOK, LiveOK, RowOK, Live, reclaim
  <2>4. HeadOK(c)' BY <1>2, <2>1 DEF ContractOK, HeadOK, AtHead, Owns, Cleaning, Merged, chain, git
  <2>5. ReclaimOK(c)' BY <1>2, <2>1, <2>2 DEF ContractOK, ReclaimOK, Reclaiming, AtHead, chain, git, reclaim
  <2>6. LandedOK(c)' BY <1>2, <2>1 DEF ContractOK, LandedOK, Merged, git
  <2>7. TreeOK(c)' BY <1>2, <2>1, <2>2 DEF ContractOK, TreeOK, Live, git
  <2> QED BY <2>3, <2>4, <2>5, <2>6, <2>7 DEF ContractOK
<1> QED BY <1>1, <1>3, <1>4, <1>5, <1>6 DEF LandingInv

\* The process stops: the callers are gone, and what they owned with them.
LEMMA CrashInv == ASSUME LandingInv, Crash PROVE LandingInv'
<1>1. MergesOK /\ TypeOK /\ TypeOK' BY CrashTypes DEF LandingInv
<1>2. /\ UNCHANGED <<contract, run, worktree, git>> /\ stage' = "down" /\ todo' = {}
      /\ queue' = <<>> /\ step' = "start" /\ exact' = {}
      /\ \A c \in Contract : /\ task'[c] = "none" /\ decision'[c] = "none"
                             /\ attempt'[c] = "none" /\ retry'[c] = "none"
  BY DEF Crash
<1>3. DownOK' BY <1>2 DEF DownOK
<1>4. QueueOK' BY <1>2 DEF QueueOK
<1>5. MergesOK' BY <1>1, <1>2 DEF MergesOK, git
<1>6. ASSUME NEW c \in Contract PROVE ContractOK(c)'
  <2>1. ContractOK(c) BY DEF LandingInv
  <2>2. TaskOK(c)' BY <1>2 DEF TaskOK
  <2>3. LiveOK(c)' BY <1>2, <2>1 DEF ContractOK, LiveOK, Live
  <2>4. RowOK(c)' BY <1>2, <2>1 DEF ContractOK, RowOK
  <2>5. HeadOK(c)' BY <1>2 DEF HeadOK, AtHead
  <2>6. ReclaimOK(c)' BY <1>2 DEF ReclaimOK, Reclaiming, AtHead
  <2>7. LandedOK(c)' BY <1>2, <2>1 DEF ContractOK, LandedOK, Merged, git
  <2>8. TreeOK(c)' BY <1>2, <2>1 DEF ContractOK, TreeOK, Live, git
  <2> QED BY <2>2, <2>3, <2>4, <2>5, <2>6, <2>7, <2>8 DEF ContractOK
<1> QED BY <1>1, <1>3, <1>4, <1>5, <1>6 DEF LandingInv

\* It starts again: the runs that did not deliver have failed, those that did are left
\* to the sealed pass.
LEMMA BootInv == ASSUME LandingInv, Boot PROVE LandingInv'
<1>1. TypeOK /\ DownOK /\ QueueOK /\ MergesOK /\ TypeOK' BY BootTypes DEF LandingInv
<1>2. /\ UNCHANGED <<worktree, git, held, task, decision, chain, reclaim, exact>>
      /\ stage = "down" /\ stage' = "sealed" /\ todo' = {c \in Contract : Sealed(c)}
  BY DEF Boot
<1>3. DownOK' BY <1>1, <1>2 DEF DownOK, chain
<1>4. QueueOK' BY <1>1, <1>2 DEF DownOK, QueueOK, chain
<1>5. MergesOK' BY <1>1, <1>2 DEF MergesOK, git
<1>6. ASSUME NEW c \in Contract PROVE ContractOK(c)'
  <2>1. ContractOK(c) BY DEF LandingInv
  <2>2. contract[c] \in Landings /\ run[c] \in Runs BY <1>1, Fields
  <2>3. /\ contract'[c].landing = contract[c].landing /\ contract'[c].seal = contract[c].seal
        /\ contract'[c].judged = contract[c].judged /\ contract'[c].landed = contract[c].landed
        /\ contract[c].landing = "pending" => contract'[c].verif = contract[c].verif
    BY <2>2 DEF Boot, Landings
  <2>4. /\ run'[c].status = IF Lost(c) THEN "failed" ELSE run[c].status
        /\ run'[c].life \in {run[c].life, "failed"}
    BY <2>2 DEF Boot, Runs
  <2>5. run'[c].status = "live" => run[c].status = "live" /\ c \in todo'
    BY <1>2, <2>4 DEF Lost, Sealed, Live
  <2>6. task'[c] = "none" /\ attempt'[c] = "none" /\ retry'[c] = "none"
    BY <1>2, <2>1 DEF ContractOK, TaskOK, reclaim
  <2>7. queue' = <<>> /\ exact' = {} BY <1>1, <1>2 DEF DownOK, chain
  <2>8. c \in todo' => contract[c].landing \notin {"abandoning", "abandoned"}
    <3>1. contract[c].landing \in Status BY <1>1, Fields
    <3> QED BY <1>2, <2>1, <3>1 DEF Sealed, ContractOK, LiveOK, RowOK, Reopenable, Settled, Status
  <2>9. TaskOK(c)' BY <2>6 DEF TaskOK
  <2>10. LiveOK(c)' BY <1>2, <2>1, <2>3, <2>5, <2>6 DEF ContractOK, LiveOK, Live
  <2>11. RowOK(c)' BY <1>2, <2>1, <2>3, <2>6, <2>7, <2>8 DEF ContractOK, RowOK
  <2>12. HeadOK(c)' BY <2>7 DEF HeadOK, AtHead
  <2>13. ReclaimOK(c)' BY <2>6, <2>7 DEF ReclaimOK, Reclaiming, AtHead
  <2>14. LandedOK(c)' BY <1>2, <2>1, <2>3 DEF ContractOK, LandedOK, Merged, git
  <2>15. TreeOK(c)' BY <1>2, <2>1, <2>3, <2>4 DEF ContractOK, TreeOK, Live, LiveOK, Lost, git
  <2> QED BY <2>9, <2>10, <2>11, <2>12, <2>13, <2>14, <2>15 DEF ContractOK
<1> QED BY <1>1, <1>3, <1>4, <1>5, <1>6 DEF LandingInv

\* A pass ends: what it started has settled, and the next one looks at the rows.
LEMMA PassEndsInv == ASSUME LandingInv, PassEnds PROVE LandingInv'
<1>1. TypeOK /\ DownOK /\ QueueOK /\ MergesOK /\ TypeOK' BY PassEndsTypes DEF LandingInv
<1>2. /\ UNCHANGED <<contract, run, worktree, git, held, task, decision, chain, reclaim, exact>>
      /\ stage \in {"sealed", "landings", "abandonments", "teardowns"} /\ todo = {} /\ ~Settling
      /\ stage' \in {"landings", "abandonments", "teardowns", "scan"}
      /\ stage' = "teardowns" => \A c \in todo' : Unreclaimed(c)
  BY DEF PassEnds, Todo
<1>3. DownOK' BY <1>1, <1>2 DEF DownOK, chain
<1>4. QueueOK'
  <2>1. ASSUME NEW i \in 1..Len(queue) PROVE OpOK(queue[i])'
    <3>1. OpOK(queue[i]) /\ queue[i] \in Ops BY <1>1 DEF QueueOK, TypeOK
    <3>2. queue[i].by \in Reader /\ queue[i].c \in Contract BY <3>1, OpShapes
    <3>3. queue[i].by \notin {"boot", "task", "browser"}
      BY <1>2, <3>1, <3>2 DEF Settling, OpOK
    <3> QED BY <1>2, <3>1, <3>2, <3>3 DEF OpOK, Owns, Reader, chain
  <2> QED BY <1>1, <1>2, <2>1 DEF QueueOK, chain
<1>5. MergesOK' BY <1>1, <1>2 DEF MergesOK, git
<1>6. ASSUME NEW c \in Contract PROVE ContractOK(c)'
  <2>1. ContractOK(c) BY DEF LandingInv
  <2>2. task[c] \notin {"verify", "land"} BY <1>2 DEF Settling
  <2>3. TaskOK(c)' /\ LiveOK(c)' /\ RowOK(c)'
    BY <1>2, <2>1, <2>2 DEF ContractOK, TaskOK, LiveOK, RowOK, Live, Unreclaimed, reclaim
  <2>4. HeadOK(c)' BY <1>2, <2>1 DEF ContractOK, HeadOK, AtHead, Owns, Cleaning, Merged, chain, git
  <2>5. ReclaimOK(c)' BY <1>2, <2>1 DEF ContractOK, ReclaimOK, Reclaiming, AtHead, chain, git, reclaim
  <2>6. LandedOK(c)' BY <1>2, <2>1 DEF ContractOK, LandedOK, Merged, git
  <2>7. TreeOK(c)' BY <1>2, <2>1 DEF ContractOK, TreeOK, Live, git
  <2> QED BY <2>3, <2>4, <2>5, <2>6, <2>7 DEF ContractOK
<1> QED BY <1>1, <1>3, <1>4, <1>5, <1>6 DEF LandingInv

------------------------------------------------------------------------------
(* The mutation at the head of the chain.                                     *)

\* It settles: its caller goes on, its contract is parked, landed or abandoned, or left as it is.
LEMMA MutationSettles ==
  ASSUME LandingInv, queue # <<>>, stage # "down", UNCHANGED <<merges, boot>>, exact' \subseteq exact,
         NEW after \in {"none", "failed"}, Release(after),
         NEW c \in Contract, c = Head(queue).c,
         \A d \in Contract : d # c => contract'[d] = contract[d],
         /\ contract'[c].verif = contract[c].verif /\ contract'[c].judged = contract[c].judged
         /\ contract'[c].seal = contract[c].seal /\ run'[c].status = run[c].status,
         \/ contract'[c].landing = contract[c].landing
         \/ contract[c].landing = "pending" /\ contract'[c].landing \in {"landed", "failed", "stale-base", "conflict"}
         \/ contract[c].landing = "abandoning" /\ contract'[c].landing = "abandoned"
  PROVE  /\ DownOK' /\ QueueOK'
         /\ TaskOK(c)' /\ LiveOK(c)' /\ RowOK(c)' /\ HeadOK(c)'
         /\ \A d \in Contract : HeadKept(d)
         /\ \A d \in Contract : d # c => task'[d] = task[d] /\ decision'[d] = decision[d]
         /\ \A S : "start" \notin S => ~AtHead("land", c, S)'
<1>1. TypeOK /\ DownOK /\ QueueOK /\ ContractOK(c) /\ after \in Tasks BY DEF LandingInv, Tasks
<1>2. step' = "start" BY DEF Release
<1>3. DownOK' BY <1>2 DEF DownOK, boot
<1>4. QueueOK' BY <1>1, QueueReleases DEF boot
<1>5. /\ task'[c] = task[c] \/ (task[c] = "land" /\ task'[c] \in {"none", "failed"})
      /\ decision'[c] = decision[c] \/ (decision[c] = "landing" /\ decision'[c] = "none")
  BY <1>1, ReleaseFrees
<1>6. TaskOK(c)' /\ LiveOK(c)' /\ RowOK(c)'
  <2>1. /\ stage' = stage /\ todo' = todo
        /\ <<"accept", c>> \in exact' => <<"accept", c>> \in exact
    BY DEF boot
  <2>2. TaskOK(c)' BY <1>1, <1>5, <2>1 DEF ContractOK, TaskOK, Live
  <2>3. LiveOK(c)' BY <1>1, <1>5, <2>1 DEF ContractOK, LiveOK, Live, Reopenable
  <2>4. RowOK(c)' BY <1>1, <1>5, <2>1 DEF ContractOK, RowOK, Reopenable
  <2> QED BY <2>2, <2>3, <2>4
<1>7. \A kind, S : "start" \notin S => ~AtHead(kind, c, S)' BY <1>2 DEF AtHead
<1>8. HeadOK(c)' BY <1>7 DEF HeadOK, Cleaning
<1>9. \A d \in Contract : HeadKept(d) BY <1>2 DEF HeadKept
<1>10. \A d \in Contract : d # c => task'[d] = task[d] /\ decision'[d] = decision[d]
  BY <1>1 DEF Release, TypeOK
<1> QED BY <1>3, <1>4, <1>6, <1>7, <1>8, <1>9, <1>10

\* It goes on: nobody else notices.
LEMMA MutationProceeds ==
  ASSUME LandingInv, queue # <<>>, stage # "down", UNCHANGED boot, exact' \subseteq exact,
         NEW s, Proceed(s), NEW c \in Contract, c = Head(queue).c,
         \A d \in Contract : d # c => contract'[d] = contract[d],
         /\ contract'[c].verif = contract[c].verif /\ contract'[c].judged = contract[c].judged
         /\ contract'[c].seal = contract[c].seal /\ run'[c].status = run[c].status
  PROVE  /\ DownOK' /\ QueueOK' /\ TaskOK(c)'
         /\ \A d \in Contract : d # c => HeadKept(d)
<1>1. TypeOK /\ QueueOK /\ ContractOK(c) BY DEF LandingInv
<1>2. UNCHANGED <<queue, task, decision>> BY DEF Proceed
<1>3. DownOK' BY <1>2 DEF DownOK, boot
<1>4. Undisturbed BY <1>2 DEF Undisturbed, boot
<1>5. QueueOK' BY <1>1, <1>2, <1>4, QueueStays
<1>6. TaskOK(c)'
  BY <1>1, <1>2 DEF ContractOK, TaskOK, Live, boot
<1>7. \A d \in Contract : d # c => HeadKept(d) BY <1>2 DEF HeadKept
<1> QED BY <1>3, <1>5, <1>6, <1>7

\* It settles without a write.
LEMMA GiveInv ==
  ASSUME LandingInv, TypeOK', queue # <<>>, stage # "down", UNCHANGED <<run, git, reclaim, boot>>,
         NEW after \in {"none", "failed"}, Give(after), NEW c \in Contract, c = Head(queue).c,
         \A d \in Contract : d # c => worktree'[d] = worktree[d],
         worktree'[c] = worktree[c] \/ contract[c].landing = "abandoning"
  PROVE  LandingInv'
<1>1. TypeOK /\ MergesOK /\ ContractOK(c) BY DEF LandingInv
<1>2. Release(after) /\ contract' = contract /\ exact' \subseteq exact BY DEF Give
<1>3. /\ DownOK' /\ QueueOK'
      /\ TaskOK(c)' /\ LiveOK(c)' /\ RowOK(c)' /\ HeadOK(c)'
      /\ \A d \in Contract : HeadKept(d)
      /\ \A d \in Contract : d # c => task'[d] = task[d] /\ decision'[d] = decision[d]
      /\ \A S : "start" \notin S => ~AtHead("land", c, S)'
  BY <1>2, MutationSettles DEF git
<1>4. MergesOK' BY <1>1 DEF MergesOK, git
<1>5. \A d \in Contract : d # c => LeftAlone(d) /\ NotConcerned(d)
  BY <1>2, <1>3, MergesKept DEF LeftAlone, NotConcerned, git, reclaim, boot
<1>6. ReclaimOK(c)'
  BY <1>1, <1>2, <1>3 DEF ContractOK, ReclaimOK, Reclaiming, reclaim, git
<1>7. LandedOK(c)' BY <1>1, <1>2 DEF ContractOK, LandedOK, Merged, git
<1>8. TreeOK(c)' BY <1>1, <1>2 DEF ContractOK, LiveOK, TreeOK, Live, Reopenable, git
<1> QED BY <1>3, <1>4, <1>5, <1>6, <1>7, <1>8, OneContract DEF ContractOK

LEMMA LandStartsInv == ASSUME LandingInv, LandStarts PROVE LandingInv'
<1> DEFINE op == Head(queue)
<1>1. TypeOK /\ QueueOK /\ MergesOK /\ TypeOK' BY LandStartsTypes DEF LandingInv
<1>c. PICK c \in Contract : c = op.c
  BY <1>1, HeadTypes DEF LandStarts, Running
<1>2. /\ queue # <<>> /\ stage # "down" /\ op.kind = "land" /\ step = "start"
      /\ UNCHANGED <<run, worktree, git, held, reclaim, boot>>
  BY DEF LandStarts, Running, Up
<1>3. c \in Contract /\ c = op.c /\ ContractOK(c) /\ OpOK(op) /\ op.by \in Reader
  BY <1>1, <1>c, <1>2, HeadTypes, OpShapes DEF LandingInv, QueueOK
<1>4. CASE \E after \in {"none", "failed"} : Give(after)
  BY <1>1, <1>2, <1>3, <1>4, GiveInv
<1>5. CASE /\ Owns(op) /\ contract[c].landing \notin Settled /\ contract[c].verif = "passed" /\ ~Live(c)
           /\ IF contract[c].landing = "pending"
              THEN UNCHANGED <<contract, exact>>
              ELSE Write(c, [contract[c] EXCEPT !.landing = "pending"], {op.by})
           /\ Proceed("check")
  <2>1. /\ \A d \in Contract : d # c => contract'[d] = contract[d]
        /\ exact' \subseteq exact
        /\ contract[c].landing = "pending" \/ ~ (<<"accept", c>> \in exact') \/ op.by = "accept"
        /\ contract'[c] = [contract[c] EXCEPT !.landing = "pending"]
    <3>1. CASE contract[c].landing = "pending"
      <4>1. contract'[c] = contract[c] /\ exact' = exact /\ contract' = contract BY <1>5, <3>1
      <4> QED BY <1>1, <1>3, <3>1, <4>1, Fields DEF Landings
    <3>2. CASE contract[c].landing # "pending"
      <4> DEFINE row == [contract[c] EXCEPT !.landing = "pending"]
      <4>1. Write(c, row, {op.by}) BY <1>5, <3>2
      <4>2. /\ contract'[c] = row /\ exact' \subseteq exact
            /\ \A d \in Contract : d # c => contract'[d] = contract[d]
            /\ \A by \in Reader : <<by, c>> \in exact' <=> <<by, c>> \in exact /\ by \in {op.by}
        <5> HIDE DEF row
        <5> QED BY ONLY <1>1, <1>3, <4>1, WriteKeeps
      <4> QED BY <4>2 DEF Reader
    <3> QED BY <3>1, <3>2
  <2>2. /\ contract'[c].landing = "pending" /\ contract'[c].verif = contract[c].verif
        /\ contract'[c].judged = contract[c].judged /\ contract'[c].seal = contract[c].seal
        /\ contract'[c].landed = contract[c].landed
    BY <1>1, <1>3, <2>1, Fields DEF Landings
  <2>3. queue' = queue /\ step' = "check" /\ task' = task /\ decision' = decision BY <1>5 DEF Proceed
  <2>4. DownOK' /\ QueueOK' /\ TaskOK(c)' /\ \A d \in Contract : d # c => HeadKept(d)
    BY <1>2, <1>3, <1>5, <2>1, <2>2, MutationProceeds
  <2>5. MergesOK' BY <1>1, <1>2 DEF MergesOK, git
  <2>6. \A d \in Contract : d # c => LeftAlone(d) /\ NotConcerned(d)
    BY <1>2, <2>1, <2>3, <2>4, MergesKept DEF LeftAlone, NotConcerned, git, reclaim, boot
  <2>7. contract[c].landing \in Reopenable \cup {"pending"}
    BY <1>1, <1>3, <1>5, Fields DEF Reopenable, Settled, Status
  <2>8. contract[c].judged = contract[c].seal BY <1>2, <1>3, <1>5 DEF OpOK
  <2>9. op.by = "accept" => decision[c] = "landing" BY <1>3 DEF OpOK
  <2>10. LiveOK(c)' BY <1>2, <1>5 DEF LiveOK, Live
  <2>11. RowOK(c)'
    BY <1>2, <1>5, <1>3, <2>1, <2>2, <2>3, <2>8, <2>9
    DEF RowOK, ContractOK, boot, Reopenable, Settled
  <2>12. HeadOK(c)' BY <1>2, <1>5, <2>2, <2>3 DEF HeadOK, AtHead, Cleaning
  <2>13. ReclaimOK(c)'
    BY <1>2, <1>3, <2>3, <2>7 DEF ReclaimOK, Reclaiming, AtHead, ContractOK, Reopenable, reclaim, git
  <2>14. LandedOK(c)' BY <1>2, <1>3, <2>2, <2>7 DEF LandedOK, ContractOK, Merged, Reopenable, git
  <2>15. TreeOK(c)' BY <1>2, <1>3, <1>5, <2>2, <2>7 DEF TreeOK, ContractOK, Live, Reopenable, git
  <2> QED BY <1>1, <1>3, <2>4, <2>5, <2>6, <2>10, <2>11, <2>12, <2>13, <2>14, <2>15, OneContract DEF ContractOK
<1> QED BY <1>c, <1>4, <1>5 DEF LandStarts

LEMMA SettleParkedInv ==
  ASSUME LandingInv, TypeOK', NEW s \in {"check", "merge", "record"}, Running("land", s),
         UNCHANGED <<worktree, git, held, reclaim, boot>>,
         NEW status \in {"failed", "stale-base", "conflict"}, NEW life \in {"failed", "parked"},
         NEW c \in Contract, c = Head(queue).c, SettleParked(Head(queue), status, life)
  PROVE  LandingInv'
<1> DEFINE op == Head(queue)
<1>1. /\ TypeOK /\ MergesOK /\ ContractOK(c) /\ queue # <<>> /\ stage # "down"
      /\ op.kind = "land" /\ step = s
  BY DEF LandingInv, Running, Up
<1>2. contract[c].landing = "pending"
  BY <1>1 DEF ContractOK, HeadOK, AtHead
<1>3. /\ run'[c].status = run[c].status /\ run'[c].life \in {run[c].life, life}
      /\ \A d \in Contract : d # c => run'[d] = run[d]
  BY <1>1, Fields DEF SettleParked, Stamp, TypeOK, Runs
<1>4. /\ Release("none") /\ exact' \subseteq exact
      /\ \A d \in Contract : d # c => contract'[d] = contract[d]
      /\ contract'[c] = contract[c] \/ contract'[c] = [contract[c] EXCEPT !.landing = status]
  <2>1. CASE CanSettle(op)
    <3> DEFINE row == [contract[c] EXCEPT !.landing = status]
    <3>1. Write(c, row, {}) /\ Release("none") BY <2>1 DEF SettleParked
    <3>2. /\ contract'[c] = row /\ exact' \subseteq exact
          /\ \A d \in Contract : d # c => contract'[d] = contract[d]
      <4> HIDE DEF row
      <4> QED BY ONLY <1>1, <3>1, WriteKeeps, c \in Contract
    <3> QED BY <3>1, <3>2
  <2>2. CASE ~CanSettle(op)
    BY <2>2 DEF SettleParked, Give
  <2> QED BY <2>1, <2>2
<1>5. /\ contract'[c].verif = contract[c].verif
      /\ contract'[c].judged = contract[c].judged /\ contract'[c].seal = contract[c].seal
      /\ contract'[c].landed = contract[c].landed /\ contract'[c].landing \in {"pending", status}
  BY <1>1, <1>2, <1>4, Fields DEF Landings
<1>6. /\ DownOK' /\ QueueOK'
      /\ TaskOK(c)' /\ LiveOK(c)' /\ RowOK(c)' /\ HeadOK(c)'
      /\ \A d \in Contract : HeadKept(d)
      /\ \A d \in Contract : d # c => task'[d] = task[d] /\ decision'[d] = decision[d]
      /\ \A S : "start" \notin S => ~AtHead("land", c, S)'
  BY <1>1, <1>2, <1>3, <1>4, <1>5, MutationSettles DEF git
<1>7. MergesOK' BY <1>1 DEF MergesOK, git
<1>8. \A d \in Contract : d # c => LeftAlone(d) /\ NotConcerned(d)
  BY <1>3, <1>4, <1>6, MergesKept DEF LeftAlone, NotConcerned, git, reclaim, boot
<1>9. ReclaimOK(c)'
  BY <1>1, <1>2, <1>6 DEF ContractOK, ReclaimOK, Reclaiming, reclaim, git
<1>10. LandedOK(c)' BY <1>1, <1>2, <1>5 DEF ContractOK, LandedOK, Merged, git
<1>11. TreeOK(c)' BY <1>1, <1>2, <1>3 DEF ContractOK, TreeOK, git
<1> QED BY <1>6, <1>7, <1>8, <1>9, <1>10, <1>11, OneContract DEF ContractOK

LEMMA SettleLandedInv ==
  ASSUME LandingInv, TypeOK', NEW s \in {"check", "record"}, Running("land", s),
         UNCHANGED <<worktree, git, held, reclaim, boot>>,
         NEW c \in Contract, c = Head(queue).c, NEW tip \in Commit, SettleLanded(Head(queue), tip),
         tip = 0 \/ Merged(c, tip)
  PROVE  LandingInv'
<1> DEFINE op == Head(queue)
<1>1. /\ TypeOK /\ MergesOK /\ ContractOK(c) /\ queue # <<>> /\ stage # "down"
      /\ op.kind = "land" /\ step = s
  BY DEF LandingInv, Running, Up
<1>2. contract[c].landing = "pending"
  BY <1>1 DEF ContractOK, HeadOK, AtHead
<1>3. CASE ~CanSettle(op)
  <2>1. Give("none") /\ run' = run BY <1>3 DEF SettleLanded
  <2> QED BY <1>1, <2>1, GiveInv
<1>4. CASE CanSettle(op)
  <2> DEFINE row == [contract[c] EXCEPT !.landing = "landed", !.landed = tip]
  <2>1. Write(c, row, {}) /\ Stamp(c, "merged") /\ Proceed("remove") /\ ~Live(c)
    BY <1>4 DEF SettleLanded, CanSettle
  <2>2. /\ contract'[c] = row /\ exact' \subseteq exact
        /\ \A d \in Contract : d # c => contract'[d] = contract[d]
        /\ \A by \in Reader : <<by, c>> \in exact' <=> <<by, c>> \in exact /\ by \in {}
    <3> HIDE DEF row
    <3> QED BY ONLY <1>1, <2>1, WriteKeeps, c \in Contract
  <2>3. /\ contract'[c].verif = contract[c].verif /\ contract'[c].judged = contract[c].judged
        /\ contract'[c].seal = contract[c].seal
        /\ contract'[c].landed = tip /\ contract'[c].landing = "landed"
    BY <1>1, <2>2, Fields DEF Landings
  <2>4. /\ run'[c].status = run[c].status /\ run'[c].life \in {run[c].life, "merged"}
        /\ \A d \in Contract : d # c => run'[d] = run[d]
    BY <1>1, <2>1, Fields DEF Stamp, TypeOK, Runs
  <2>5. queue' = queue /\ step' = "remove" /\ task' = task /\ decision' = decision
    BY <2>1 DEF Proceed
  <2>6. DownOK' /\ QueueOK' /\ TaskOK(c)' /\ \A d \in Contract : d # c => HeadKept(d)
    BY <1>1, <2>1, <2>2, <2>3, <2>4, MutationProceeds
  <2>7. MergesOK' BY <1>1 DEF MergesOK, git
  <2>8. \A d \in Contract : d # c => LeftAlone(d) /\ NotConcerned(d)
    BY <2>2, <2>4, <2>5, <2>6, MergesKept DEF LeftAlone, NotConcerned, git, reclaim, boot
  <2>9. LiveOK(c)' BY <2>1, <2>4 DEF LiveOK, Live
  <2>10. RowOK(c)'
    BY <1>1, <1>2, <2>2, <2>3, <2>5 DEF RowOK, ContractOK, boot, Reopenable, Reader
  <2>11. HeadOK(c)' BY <1>1, <2>3, <2>5 DEF HeadOK, AtHead, Cleaning
  <2>12. ReclaimOK(c)'
    BY <1>1, <1>2, <2>3, <2>5 DEF ReclaimOK, Reclaiming, AtHead, ContractOK, reclaim, git
  <2>13. LandedOK(c)' BY <1>1, <1>2, <2>3 DEF LandedOK, ContractOK, Merged, git
  <2>14. TreeOK(c)' BY <1>1, <1>2, <2>3, <2>4 DEF TreeOK, ContractOK, Live, git
  <2> QED BY <2>6, <2>7, <2>8, <2>9, <2>10, <2>11, <2>12, <2>13, <2>14, OneContract DEF ContractOK
<1> QED BY <1>3, <1>4

LEMMA LandChecksInv == ASSUME LandingInv, LandChecks PROVE LandingInv'
<1> DEFINE op == Head(queue)
<1>1. TypeOK /\ QueueOK /\ MergesOK /\ TypeOK' BY LandChecksTypes DEF LandingInv
<1>2. /\ Running("land", "check") /\ queue # <<>> /\ stage # "down" /\ op.kind = "land" /\ step = "check"
      /\ UNCHANGED <<worktree, git, held, reclaim, boot>>
  BY DEF LandChecks, Running, Up
<1>3. PICK c \in Contract : c = op.c /\ ContractOK(c)
  BY <1>1, <1>2, HeadTypes DEF LandingInv
<1>4. contract[c].landing = "pending" /\ (Owns(op) => contract[c].verif = "passed")
  BY <1>2, <1>3 DEF ContractOK, HeadOK, AtHead
<1>5. branch[c].tip \in Commit /\ branch[c].tip \in Nat BY <1>1, <1>3, Fields
<1>6. CASE SettleParked(op, "failed", "failed") \/ SettleParked(op, "stale-base", "parked")
  BY <1>1, <1>2, <1>3, <1>6, SettleParkedInv
<1>7. CASE SettleLanded(op, branch[c].tip) /\ AlreadyLanded(c)
  <2>1. Merged(c, branch[c].tip) BY <1>7 DEF AlreadyLanded
  <2> QED BY <1>1, <1>2, <1>3, <1>5, <1>7, <2>1, SettleLandedInv
<1>8. CASE Stamp(c, "merging") /\ Proceed("merge") /\ UNCHANGED <<contract, exact>>
  <2>1. queue' = queue /\ step' = "merge" /\ task' = task /\ decision' = decision BY <1>8 DEF Proceed
  <2>2. /\ run'[c].status = run[c].status /\ run'[c].life \in {run[c].life, "merging"}
        /\ \A d \in Contract : d # c => run'[d] = run[d]
    BY <1>1, <1>3, <1>8, Fields DEF Stamp, TypeOK, Runs
  <2>3. DownOK' /\ QueueOK' /\ TaskOK(c)' /\ \A d \in Contract : d # c => HeadKept(d)
    BY <1>2, <1>3, <1>8, <2>2, MutationProceeds
  <2>4. MergesOK' BY <1>1, <1>2 DEF MergesOK, git
  <2>5. \A d \in Contract : d # c => LeftAlone(d) /\ NotConcerned(d)
    BY <1>2, <1>8, <2>1, <2>2, <2>3, MergesKept DEF LeftAlone, NotConcerned, git, reclaim, boot
  <2>6. LiveOK(c)' /\ RowOK(c)'
    BY <1>2, <1>3, <1>8, <2>1, <2>2 DEF ContractOK, LiveOK, RowOK, Live, boot
  <2>7. HeadOK(c)'
    BY <1>2, <1>3, <1>4, <1>8, <2>1 DEF HeadOK, AtHead, Owns, Cleaning
  <2>8. ReclaimOK(c)'
    BY <1>2, <1>3, <1>4, <1>8, <2>1 DEF ReclaimOK, Reclaiming, AtHead, ContractOK, reclaim, git
  <2>9. LandedOK(c)' BY <1>2, <1>3, <1>8 DEF LandedOK, ContractOK, Merged, git
  <2>10. TreeOK(c)' BY <1>2, <1>3, <1>8, <2>2 DEF TreeOK, ContractOK, Live, git
  <2> QED BY <1>1, <2>3, <2>4, <2>5, <2>6, <2>7, <2>8, <2>9, <2>10, OneContract DEF ContractOK
<1>9. \/ SettleParked(op, "failed", "failed") \/ SettleParked(op, "stale-base", "parked")
      \/ SettleLanded(op, branch[c].tip) /\ AlreadyLanded(c)
      \/ Stamp(c, "merging") /\ Proceed("merge") /\ UNCHANGED <<contract, exact>>
  BY <1>3 DEF LandChecks
<1> QED BY <1>6, <1>7, <1>8, <1>9

LEMMA LandMergesInv == ASSUME LandingInv, LandMerges PROVE LandingInv'
<1> DEFINE op == Head(queue)
<1>1. TypeOK /\ QueueOK /\ MergesOK /\ DownOK /\ TypeOK' BY LandMergesTypes DEF LandingInv
<1>2. /\ Running("land", "merge") /\ queue # <<>> /\ stage # "down" /\ op.kind = "land" /\ step = "merge"
      /\ UNCHANGED <<worktree, held, reclaim, boot>>
  BY DEF LandMerges, Running, Up
<1>3. PICK c \in Contract : c = op.c /\ ContractOK(c)
  BY <1>1, <1>2, HeadTypes DEF LandingInv
<1>4. contract[c].landing = "pending" /\ (Owns(op) => contract[c].verif = "passed")
  BY <1>2, <1>3 DEF ContractOK, HeadOK, AtHead
<1>5. branch[c].tip \in Commit /\ branch[c].tip \in Nat BY <1>1, <1>3, Fields
<1>6. CASE /\ \/ SettleParked(op, "stale-base", "parked")
              \/ SettleParked(op, "conflict", "parked")
              \/ SettleParked(op, "failed", "failed")
           /\ UNCHANGED git
  BY <1>1, <1>2, <1>3, <1>4, <1>6, SettleParkedInv
<1>7. CASE /\ IF ~Ahead(c, head)
              THEN UNCHANGED git
              ELSE /\ merges' = merges \cup {[contract |-> c, tip |-> branch[c].tip, onto |-> head]}
                   /\ head' = head + 1
                   /\ UNCHANGED branch
           /\ queue' = [queue EXCEPT ![1].tip = branch[c].tip]
           /\ step' = "record"
           /\ ForgetApprovals(Contract)
           /\ UNCHANGED <<contract, run, task, decision>>
  <2>1. /\ branch' = branch /\ exact' \subseteq exact
        /\ merges \subseteq merges'
        /\ \A m \in merges' : m \in merges \/ (m.contract = c /\ m.tip = branch[c].tip)
        /\ branch[c].tip = 0 \/ \E m \in merges' : m.contract = c /\ m.tip >= branch[c].tip
    <3>1. branch' = branch /\ exact' \subseteq exact BY <1>7 DEF git, ForgetApprovals
    <3>2. CASE ~Ahead(c, head)
      <4>0. branch[c].tip = 0 \/ \E m \in merges : m.contract = c /\ m.tip >= branch[c].tip
        BY <1>5, <3>2 DEF Ahead
      <4>1. UNCHANGED git BY <1>7, <3>2
      <4>2. merges' = merges BY <4>1 DEF git
      <4> QED BY <3>1, <4>0, <4>2
    <3>3. CASE Ahead(c, head)
      <4> DEFINE new == [contract |-> c, tip |-> branch[c].tip, onto |-> head]
      <4>1. merges' = merges \cup {new} BY <1>7, <3>3
      <4>2. new.contract = c /\ new.tip = branch[c].tip OBVIOUS
      <4> HIDE DEF new
      <4> QED BY <1>5, <3>1, <4>1, <4>2
    <3> QED BY <3>2, <3>3
  <2>2. /\ queue' \in Seq(Ops) /\ Len(queue') = Len(queue)
        /\ \A i \in 1..Len(queue) : /\ queue'[i].kind = queue[i].kind /\ queue'[i].c = queue[i].c
                                    /\ queue'[i].by = queue[i].by
        /\ queue' # <<>> /\ Head(queue').kind = "land" /\ Head(queue').c = c
        /\ Head(queue').tip = branch[c].tip /\ Head(queue').by = op.by
    <3>1. queue \in Seq(Ops) /\ Len(queue) \in Nat /\ Len(queue) > 0 /\ Head(queue) = queue[1]
      BY <1>1, <1>2, HeadTypes DEF TypeOK
    <3>2. queue[1] \in Ops /\ [queue[1] EXCEPT !.tip = branch[c].tip] \in Ops
      BY <1>5, <3>1, OpShapes
    <3>3. /\ queue' \in Seq(Ops) /\ Len(queue') = Len(queue)
          /\ queue'[1] = [queue[1] EXCEPT !.tip = branch[c].tip]
          /\ \A i \in 2..Len(queue) : queue'[i] = queue[i]
      BY <1>7, <3>1, <3>2
    <3>4. /\ queue'[1].kind = queue[1].kind /\ queue'[1].c = queue[1].c
          /\ queue'[1].by = queue[1].by /\ queue'[1].tip = branch[c].tip
      BY <3>2, <3>3 DEF Ops
    <3>5. queue' # <<>> /\ Head(queue') = queue'[1] BY <3>1, <3>3
    <3>6. ASSUME NEW i \in 1..Len(queue)
          PROVE  /\ queue'[i].kind = queue[i].kind /\ queue'[i].c = queue[i].c
                 /\ queue'[i].by = queue[i].by
      <4>1. CASE i = 1 BY <3>4, <4>1
      <4>2. CASE i # 1 BY <3>1, <3>3, <4>2
      <4> QED BY <4>1, <4>2
    <3>7. Head(queue').kind = "land" /\ Head(queue').c = c /\ Head(queue').tip = branch[c].tip
          /\ Head(queue').by = op.by
      BY <1>2, <1>3, <3>1, <3>4, <3>5
    <3> QED BY <3>3, <3>5, <3>6, <3>7
  <2>3. DownOK' BY <1>2, <2>2 DEF DownOK, boot
  <2>4. QueueOK'
    <3>1. Undisturbed BY <1>2, <1>7, <2>1 DEF Undisturbed, boot
    <3>2. ASSUME NEW i \in 1..Len(queue') PROVE OpOK(queue[i])'
      <4>1. i \in 1..Len(queue) /\ queue'[i] \in Ops BY <2>2
      <4>2. \A o \in Ops : o.kind = queue[i].kind /\ o.c = queue[i].c /\ o.by = queue[i].by => OpOK(o)'
        BY <1>1, <3>1, <4>1, OpUndisturbed DEF QueueOK
      <4> QED BY <2>2, <4>1, <4>2 DEF OpOK, Owns
    <3> QED BY <1>1, <2>2, <3>2 DEF QueueOK
  <2>5. MergesOK' BY <1>1, <1>5, <2>1 DEF MergesOK
  <2>6. \A d \in Contract : d # c => LeftAlone(d) /\ NotConcerned(d)
    <3>1. \A d \in Contract : d # c => HeadKept(d) BY <2>2 DEF HeadKept
    <3>2. \A d \in Contract : d # c => NotConcerned(d)
      BY <1>2, <2>1 DEF NotConcerned, Merged, boot
    <3> QED BY <1>2, <1>7, <2>1, <3>1, <3>2 DEF LeftAlone, reclaim
  <2>7. TaskOK(c)' /\ LiveOK(c)' /\ RowOK(c)'
    BY <1>2, <1>3, <1>7, <2>1 DEF ContractOK, TaskOK, LiveOK, RowOK, Live, boot, reclaim
  <2>8. HeadOK(c)'
    <3>1. contract'[c].landing = "pending" /\ contract'[c].verif = contract[c].verif BY <1>4, <1>7
    <3>2. Owns(Head(queue))' => contract'[c].verif = "passed"
      BY <1>3, <1>4, <2>1, <2>2, <3>1 DEF Owns
    <3>3. Head(queue').tip = 0 \/ Merged(c, Head(queue).tip)'
      BY <2>1, <2>2 DEF Merged
    <3> QED BY <1>7, <2>2, <3>1, <3>2, <3>3 DEF HeadOK, AtHead, Cleaning
  <2>9. ReclaimOK(c)'
    BY <1>2, <1>3, <1>4, <1>7, <2>1 DEF ReclaimOK, Reclaiming, AtHead, ContractOK, reclaim
  <2>10. LandedOK(c)' BY <1>3, <1>4, <1>7, <2>1 DEF LandedOK, ContractOK, Merged
  <2>11. TreeOK(c)' BY <1>2, <1>3, <1>7, <2>1 DEF TreeOK, ContractOK, Live
  <2> QED BY <1>1, <2>3, <2>4, <2>5, <2>6, <2>7, <2>8, <2>9, <2>10, <2>11, OneContract DEF ContractOK
<1> QED BY <1>3, <1>6, <1>7 DEF LandMerges

LEMMA LandRecordsInv == ASSUME LandingInv, LandRecords PROVE LandingInv'
<1> DEFINE op == Head(queue)
<1>1. TypeOK /\ TypeOK' BY LandRecordsTypes DEF LandingInv
<1>2. /\ Running("land", "record") /\ queue # <<>> /\ op.kind = "land" /\ step = "record"
      /\ UNCHANGED <<worktree, git, held, reclaim, boot>>
  BY DEF LandRecords, Running
<1>3. PICK c \in Contract : c = op.c /\ ContractOK(c) /\ op.tip \in Commit
  BY <1>1, <1>2, HeadTypes DEF LandingInv
<1>4. op.tip = 0 \/ Merged(c, op.tip)
  BY <1>2, <1>3 DEF ContractOK, HeadOK, AtHead
<1>5. CASE SettleLanded(op, op.tip)
  BY <1>1, <1>2, <1>3, <1>4, <1>5, SettleLandedInv
<1>6. CASE SettleParked(op, "failed", "failed")
  BY <1>1, <1>2, <1>3, <1>6, SettleParkedInv
<1> QED BY <1>5, <1>6 DEF LandRecords

------------------------------------------------------------------------------
(* The cleanup of a landed worktree, by its landing or by an attempt.         *)

LEMMA ActorHolds ==
  ASSUME LandingInv, NEW actor \in {"op", "attempt"}, NEW c \in Contract, NEW s \in Cleaning, At(actor, c, s)
  PROVE  /\ contract[c].landing = "landed" /\ ~Live(c) /\ stage # "down" /\ Reclaiming(c, {s})
         /\ actor = "op" => queue # <<>> /\ Head(queue).c = c /\ Head(queue).kind = "land" /\ step = s
<1>1. ContractOK(c) BY DEF LandingInv
<1>2. /\ stage # "down" /\ Reclaiming(c, {s})
      /\ actor = "op" => queue # <<>> /\ Head(queue).c = c /\ Head(queue).kind = "land" /\ step = s
  BY DEF At, Running, Up, Reclaiming, AtHead
<1>3. contract[c].landing = "landed"
  BY <1>1, <1>2 DEF At, ContractOK, HeadOK, ReclaimOK, AtHead, Cleaning
<1> QED BY <1>1, <1>2, <1>3 DEF ContractOK, LiveOK, Reopenable

\* The other worktrees stay, but for orphans that are swept away.
OthersStay(c) ==
  \A d \in Contract : d # c =>
    \/ worktree'[d] = worktree[d]
    \/ worktree[d].dir # "registered" /\ worktree'[d].dir = "absent" /\ worktree'[d].row = "destroyed"

\* The cleanup ends, well or not.
LEMMA CleanedInv ==
  ASSUME LandingInv, TypeOK', NEW actor \in {"op", "attempt"}, NEW c \in Contract, NEW s \in Cleaning,
         At(actor, c, s), NEW ok \in BOOLEAN, Cleaned(actor, c, ok),
         UNCHANGED <<contract, git, exact, boot>>, OthersStay(c),
         worktree'[c] = worktree[c] \/ (worktree[c].dir = "registered" /\ ~ok),
         ok => worktree[c].dir = "absent" /\ worktree[c].row = "destroyed" /\ ~branch[c].there
  PROVE  LandingInv'
<1>1. TypeOK /\ QueueOK /\ DownOK /\ MergesOK /\ ContractOK(c) BY DEF LandingInv
<1>2. /\ contract[c].landing = "landed" /\ ~Live(c) /\ stage # "down"
      /\ actor = "op" => queue # <<>> /\ Head(queue).c = c /\ Head(queue).kind = "land" /\ step = s
  BY ActorHolds
<1>3. /\ run'[c].status = run[c].status
      /\ run'[c].life = run[c].life \/ (run'[c].life = "completed" /\ ok) \/ run'[c].life = "stranded"
      /\ \A d \in Contract : d # c => run'[d] = run[d] /\ retry'[d] = retry[d] /\ attempt'[d] = attempt[d]
      /\ attempt'[c] \in {attempt[c], "none"}
  <2>1. run[c] \in Runs BY <1>1, Fields
  <2>2. Stamp(c, IF ok THEN "completed" ELSE "stranded") BY DEF Cleaned
  <2>3. /\ run'[c].status = run[c].status
        /\ run'[c].life = run[c].life \/ (run'[c].life = "completed" /\ ok) \/ run'[c].life = "stranded"
        /\ \A d \in Contract : d # c => run'[d] = run[d]
    BY <1>1, <2>1, <2>2 DEF Stamp, TypeOK, Runs
  <2>4. /\ \A d \in Contract : d # c => retry'[d] = retry[d] /\ attempt'[d] = attempt[d]
        /\ attempt'[c] \in {attempt[c], "none"}
    BY <1>1 DEF Cleaned, TypeOK
  <2> QED BY <2>3, <2>4
<1>4. /\ DownOK' /\ QueueOK' /\ TaskOK(c)' /\ LiveOK(c)' /\ RowOK(c)' /\ HeadOK(c)'
      /\ \A d \in Contract : HeadKept(d)
      /\ \A d \in Contract : d # c => task'[d] = task[d] /\ decision'[d] = decision[d]
      /\ \A S \in {{"branch", "row", "sweep"}, {"row", "sweep"}, {"sweep"}} : Reclaiming(c, S)' => Reclaiming(c, S)
  <2>1. CASE actor = "op"
    <3>1. Release("none") BY <2>1 DEF Cleaned
    <3>2. /\ DownOK' /\ QueueOK' /\ TaskOK(c)' /\ LiveOK(c)' /\ RowOK(c)' /\ HeadOK(c)'
          /\ \A d \in Contract : HeadKept(d)
          /\ \A d \in Contract : d # c => task'[d] = task[d] /\ decision'[d] = decision[d]
      BY <1>2, <1>3, <2>1, <3>1, MutationSettles DEF git
    <3>3. \A S \in {{"branch", "row", "sweep"}, {"row", "sweep"}, {"sweep"}} : Reclaiming(c, S)' => Reclaiming(c, S)
      BY <1>3, <3>1 DEF Release, Reclaiming, AtHead
    <3> QED BY <3>2, <3>3
  <2>2. CASE actor = "attempt"
    <3>1. UNCHANGED <<chain, task, decision>> /\ attempt'[c] = "none"
      BY <1>1, <2>2 DEF Cleaned, TypeOK
    <3>2. DownOK' BY <1>1, <3>1 DEF DownOK, chain, boot
    <3>3. QueueOK'
      <4>1. Undisturbed /\ UNCHANGED queue BY <3>1 DEF Undisturbed, chain, boot
      <4> QED BY <1>1, <4>1, QueueStays
    <3>4. TaskOK(c)' BY <1>1, <1>2, <1>3, <3>1 DEF ContractOK, TaskOK, Live, boot
    <3>5. LiveOK(c)' /\ RowOK(c)' BY <1>1, <1>3, <3>1 DEF ContractOK, LiveOK, RowOK, Live, boot
    <3>6. HeadOK(c)' BY <1>1, <3>1 DEF ContractOK, HeadOK, AtHead, Owns, Cleaning, Merged, chain, git
    <3>7. \A d \in Contract : HeadKept(d) BY <3>1 DEF HeadKept, chain
    <3>8. \A S \in {{"branch", "row", "sweep"}, {"row", "sweep"}, {"sweep"}} : Reclaiming(c, S)' => Reclaiming(c, S)
      BY <3>1 DEF Reclaiming, AtHead, chain
    <3> QED BY <3>1, <3>2, <3>3, <3>4, <3>5, <3>6, <3>7, <3>8
  <2> QED BY <2>1, <2>2
<1>5. MergesOK' BY <1>1 DEF MergesOK, git
<1>6. \A d \in Contract : d # c => LeftAlone(d) /\ NotConcerned(d)
  BY <1>3, <1>4, MergesKept DEF LeftAlone, NotConcerned, OthersStay, git, boot
<1>7. ReclaimOK(c)'
  <2>1. Reclaiming(c, {"sweep"}) => Reclaiming(c, {"branch", "row", "sweep"}) BY DEF Reclaiming, AtHead
  <2> QED BY <1>1, <1>2, <1>4, <2>1 DEF ContractOK, ReclaimOK, git
<1>8. LandedOK(c)' BY <1>1 DEF ContractOK, LandedOK, Merged, git
<1>9. TreeOK(c)' BY <1>1, <1>2, <1>3 DEF ContractOK, TreeOK, Live, git
<1> QED BY <1>4, <1>5, <1>6, <1>7, <1>8, <1>9, OneContract DEF ContractOK

\* The cleanup goes on.
LEMMA GotoInv ==
  ASSUME LandingInv, TypeOK', NEW actor \in {"op", "attempt"}, NEW c \in Contract, NEW s \in Cleaning,
         At(actor, c, s), NEW next \in {"branch", "row", "sweep"}, Goto(actor, c, next),
         UNCHANGED <<contract, run, merges, exact, boot>>,
         \A d \in Contract : d # c => worktree'[d] = worktree[d] /\ branch'[d] = branch[d],
         branch'[c].tip = branch[c].tip, branch'[c].there => branch[c].there,
         ReclaimOK(c)', TreeOK(c)', LandedOK(c)'
  PROVE  LandingInv'
<1>1. TypeOK /\ QueueOK /\ DownOK /\ MergesOK /\ ContractOK(c) BY DEF LandingInv
<1>2. /\ contract[c].landing = "landed" /\ ~Live(c) /\ stage # "down"
      /\ actor = "op" => queue # <<>> /\ Head(queue).c = c /\ Head(queue).kind = "land" /\ step = s
  BY ActorHolds
<1>3. /\ UNCHANGED <<queue, task, decision, retry>>
      /\ \A d \in Contract : d # c => attempt'[d] = attempt[d]
      /\ actor = "attempt" => step' = step
      /\ actor = "op" => step' = next /\ attempt' = attempt
  BY <1>1 DEF Goto, Proceed, chain, reclaim, TypeOK
<1>4. DownOK' BY <1>1, <1>2, <1>3 DEF DownOK, boot
<1>5. QueueOK'
  <2>1. Undisturbed BY <1>3 DEF Undisturbed, boot
  <2> QED BY <1>1, <1>3, <2>1, QueueStays
<1>6. MergesOK'
  <2>1. \A d \in Contract : branch'[d].tip = branch[d].tip OBVIOUS
  <2>2. \A m \in merges : m.contract \in Contract BY <1>1 DEF TypeOK, Merges
  <2> QED BY <1>1, <2>1, <2>2 DEF MergesOK
<1>7. TaskOK(c)' /\ LiveOK(c)' /\ RowOK(c)'
  BY <1>1, <1>2, <1>3 DEF ContractOK, TaskOK, LiveOK, RowOK, Live, boot
<1>8. HeadOK(c)'
  <2>1. CASE actor = "op"
    BY <1>2, <1>3, <2>1 DEF HeadOK, AtHead, Cleaning
  <2>2. CASE actor = "attempt"
    BY <1>1, <1>2, <1>3, <2>2 DEF ContractOK, HeadOK, AtHead, Cleaning, Merged
  <2> QED BY <2>1, <2>2
<1>9. \A d \in Contract : d # c => LeftAlone(d) /\ NotConcerned(d)
  <2>1. \A d \in Contract : d # c => HeadKept(d) BY <1>2, <1>3 DEF HeadKept
  <2> QED BY <1>3, <2>1, MergesKept DEF LeftAlone, NotConcerned, boot
<1> QED BY <1>4, <1>5, <1>6, <1>7, <1>8, <1>9, OneContract DEF ContractOK

------------------------------------------------------------------------------
(* Abandonment.                                                               *)

LEMMA AbandonStartsInv == ASSUME LandingInv, AbandonStarts PROVE LandingInv'
<1> DEFINE op == Head(queue)
<1>1. TypeOK /\ QueueOK /\ MergesOK /\ TypeOK' BY AbandonStartsTypes DEF LandingInv
<1>2. /\ queue # <<>> /\ stage # "down" /\ op.kind = "abandon" /\ step = "start"
      /\ UNCHANGED <<run, worktree, git, held, reclaim, boot>>
  BY DEF AbandonStarts, Running, Up
<1>3. PICK c \in Contract : c = op.c /\ ContractOK(c) /\ OpOK(op)
  BY <1>1, <1>2, HeadTypes DEF LandingInv, QueueOK
<1>4. CASE Give("none")
  BY <1>1, <1>2, <1>3, <1>4, GiveInv
<1>5. CASE /\ Quiescent(c) /\ decision[c] = "none" /\ Proceed("remove")
           /\ \/ contract[c].landing = "abandoning" /\ UNCHANGED <<contract, exact>>
              \/ /\ op.by = "browser" /\ Abandonable(c)
                 /\ Write(c, [contract[c] EXCEPT !.landing = "abandoning", !.approved = branch[c].tip], {})
  <2>1. /\ \A d \in Contract : d # c => contract'[d] = contract[d]
        /\ exact' \subseteq exact
        /\ contract'[c].landing = "abandoning" /\ contract'[c].verif = contract[c].verif
        /\ contract'[c].judged = contract[c].judged /\ contract'[c].seal = contract[c].seal
        /\ contract'[c].landed = contract[c].landed
    <3>1. CASE contract[c].landing = "abandoning" /\ UNCHANGED <<contract, exact>>
      BY <3>1
    <3>2. CASE Write(c, [contract[c] EXCEPT !.landing = "abandoning", !.approved = branch[c].tip], {})
      <4> DEFINE row == [contract[c] EXCEPT !.landing = "abandoning", !.approved = branch[c].tip]
      <4>1. /\ contract'[c] = row /\ exact' \subseteq exact
            /\ \A d \in Contract : d # c => contract'[d] = contract[d]
        <5>1. Write(c, row, {}) BY <3>2
        <5> HIDE DEF row
        <5> QED BY ONLY <1>1, <5>1, WriteKeeps, c \in Contract
      <4> QED BY <1>1, <4>1, Fields DEF Landings
    <3> QED BY <1>5, <3>1, <3>2
  <2>2. queue' = queue /\ step' = "remove" /\ task' = task /\ decision' = decision BY <1>5 DEF Proceed
  <2>3. DownOK' /\ QueueOK' /\ TaskOK(c)' /\ \A d \in Contract : d # c => HeadKept(d)
    BY <1>2, <1>3, <1>5, <2>1, MutationProceeds
  <2>4. MergesOK' BY <1>1, <1>2 DEF MergesOK, git
  <2>5. \A d \in Contract : d # c => LeftAlone(d) /\ NotConcerned(d)
    BY <1>2, <2>1, <2>2, <2>3, MergesKept DEF LeftAlone, NotConcerned, git, reclaim, boot
  <2>6. /\ contract[c].landing \in Reopenable \cup {"abandoning"}
        /\ contract[c].landing = "abandoning" \/ (stage = "attached" /\ ~(branch[c].tip > 0 /\ Merged(c, branch[c].tip)))
        /\ ~Live(c) /\ task[c] = "none"
    <3>1. ASSUME Abandonable(c) PROVE ~(branch[c].tip > 0 /\ Merged(c, branch[c].tip))
      <4>1. contract[c].base = 0 /\ ~AlreadyLanded(c) /\ contract[c].landing \in Reopenable
        BY <3>1 DEF Abandonable
      <4>2. branch[c].there BY <1>3, <4>1 DEF ContractOK, LandedOK, Reopenable
      <4>3. \A m \in merges : ~(m.onto < 0) BY <1>1 DEF TypeOK, Merges
      <4> QED BY <4>1, <4>2, <4>3 DEF AlreadyLanded, Ahead
    <3> QED BY <1>2, <1>3, <1>5, <3>1 DEF Abandonable, OpOK, Quiescent
  <2>7. LiveOK(c)' BY <1>2, <2>6 DEF LiveOK, Live
  <2>8. RowOK(c)' BY <1>2, <1>3, <1>5, <2>1, <2>2, <2>6 DEF RowOK, ContractOK, Reopenable, boot
  <2>9. HeadOK(c)' BY <1>2, <2>1, <2>2 DEF HeadOK, AtHead, Cleaning
  <2>10. ReclaimOK(c)'
    BY <1>2, <1>3, <2>2, <2>6 DEF ReclaimOK, Reclaiming, AtHead, ContractOK, Reopenable, reclaim, git
  <2>11. LandedOK(c)'
    BY <1>2, <1>3, <2>1, <2>6 DEF LandedOK, ContractOK, Merged, Reopenable, git
  <2>12. TreeOK(c)' BY <1>2, <1>3, <2>1, <2>6 DEF TreeOK, ContractOK, Live, Reopenable, git
  <2> QED BY <1>1, <2>3, <2>4, <2>5, <2>7, <2>8, <2>9, <2>10, <2>11, <2>12, OneContract DEF ContractOK
<1> QED BY <1>3, <1>4, <1>5 DEF AbandonStarts, Abandonable

\* The two steps in which the worktree goes.
LEMMA AbandonReclaimsInv ==
  ASSUME LandingInv, AbandonRemoves \/ AbandonDestroysRow
  PROVE  LandingInv'
<1> DEFINE op == Head(queue)
<1>1. TypeOK /\ QueueOK /\ MergesOK /\ TypeOK'
  BY AbandonRemovesTypes, AbandonDestroysRowTypes DEF LandingInv
<1>2. /\ queue # <<>> /\ stage # "down" /\ op.kind = "abandon" /\ step \in {"remove", "row"}
      /\ UNCHANGED <<run, git, held, reclaim, boot>>
  BY DEF AbandonRemoves, AbandonDestroysRow, Running, Up
<1>3. PICK c \in Contract : c = op.c /\ ContractOK(c)
  BY <1>1, <1>2, HeadTypes DEF LandingInv
<1>4. contract[c].landing = "abandoning" /\ ~Live(c)
  BY <1>2, <1>3 DEF ContractOK, HeadOK, AtHead, LiveOK, Reopenable
<1>5. /\ \A d \in Contract : d # c => worktree'[d] = worktree[d]
      /\ Give("none") \/ \E s \in {"row", "settle"} : Proceed(s) /\ UNCHANGED <<contract, exact>>
  <2>1. CASE AbandonRemoves
    BY <1>1, <1>3, <2>1 DEF AbandonRemoves, SetDir, TypeOK
  <2>2. CASE AbandonDestroysRow
    BY <1>1, <1>3, <2>2 DEF AbandonDestroysRow, TypeOK
  <2> QED BY <2>1, <2>2
<1>6. CASE Give("none")
  BY <1>1, <1>2, <1>3, <1>4, <1>5, <1>6, GiveInv
<1>7. ASSUME NEW s \in {"row", "settle"}, Proceed(s), UNCHANGED <<contract, exact>>
      PROVE  LandingInv'
  <2>1. queue' = queue /\ step' = s /\ task' = task /\ decision' = decision BY <1>7 DEF Proceed
  <2>2. DownOK' /\ QueueOK' /\ TaskOK(c)' /\ \A d \in Contract : d # c => HeadKept(d)
    BY <1>2, <1>3, <1>7, MutationProceeds
  <2>3. MergesOK' BY <1>1, <1>2 DEF MergesOK, git
  <2>4. \A d \in Contract : d # c => LeftAlone(d) /\ NotConcerned(d)
    BY <1>2, <1>5, <1>7, <2>1, <2>2, MergesKept DEF LeftAlone, NotConcerned, git, reclaim, boot
  <2>5. LiveOK(c)' /\ RowOK(c)'
    BY <1>2, <1>3, <1>7, <2>1 DEF ContractOK, LiveOK, RowOK, Live, boot
  <2>6. HeadOK(c)' BY <1>2, <1>4, <1>7, <2>1 DEF HeadOK, AtHead, Cleaning
  <2>7. ReclaimOK(c)'
    BY <1>2, <1>3, <1>4, <1>7, <2>1 DEF ReclaimOK, Reclaiming, AtHead, ContractOK, reclaim, git
  <2>8. LandedOK(c)' BY <1>2, <1>3, <1>7 DEF LandedOK, ContractOK, Merged, git
  <2>9. TreeOK(c)' BY <1>2, <1>3, <1>4, <1>7 DEF TreeOK, ContractOK, Live, git
  <2> QED BY <1>1, <2>2, <2>3, <2>4, <2>5, <2>6, <2>7, <2>8, <2>9, OneContract DEF ContractOK
<1> QED BY <1>5, <1>6, <1>7

LEMMA AbandonSettlesInv == ASSUME LandingInv, AbandonSettles PROVE LandingInv'
<1> DEFINE op == Head(queue)
<1>1. TypeOK /\ QueueOK /\ MergesOK /\ TypeOK' BY AbandonSettlesTypes DEF LandingInv
<1>2. /\ queue # <<>> /\ stage # "down" /\ op.kind = "abandon" /\ step = "settle"
      /\ UNCHANGED <<run, worktree, git, held, reclaim, boot>> /\ Release("none")
  BY DEF AbandonSettles, Running, Up
<1>3. PICK c \in Contract : c = op.c /\ ContractOK(c)
  BY <1>1, <1>2, HeadTypes DEF LandingInv
<1>4. contract[c].landing = "abandoning" /\ ~Live(c)
  BY <1>2, <1>3 DEF ContractOK, HeadOK, AtHead, LiveOK, Reopenable
<1>5. /\ contract'[c].landing = "abandoned" /\ contract'[c].verif = contract[c].verif
      /\ contract'[c].judged = contract[c].judged /\ contract'[c].seal = contract[c].seal
      /\ contract'[c].landed = contract[c].landed /\ exact' \subseteq exact
      /\ \A d \in Contract : d # c => contract'[d] = contract[d]
  <2> DEFINE row == [contract[c] EXCEPT !.landing = "abandoned"]
  <2>1. Write(c, row, {}) BY <1>3 DEF AbandonSettles
  <2>2. /\ contract'[c] = row /\ exact' \subseteq exact
        /\ \A d \in Contract : d # c => contract'[d] = contract[d]
    <3> HIDE DEF row
    <3> QED BY ONLY <1>1, <2>1, WriteKeeps, c \in Contract
  <2> QED BY <1>1, <2>2, Fields DEF Landings
<1>6. /\ DownOK' /\ QueueOK'
      /\ TaskOK(c)' /\ LiveOK(c)' /\ RowOK(c)' /\ HeadOK(c)'
      /\ \A d \in Contract : HeadKept(d)
      /\ \A d \in Contract : d # c => task'[d] = task[d] /\ decision'[d] = decision[d]
      /\ \A S : "start" \notin S => ~AtHead("land", c, S)'
  BY <1>2, <1>3, <1>4, <1>5, MutationSettles DEF git
<1>7. MergesOK' BY <1>1, <1>2 DEF MergesOK, git
<1>8. \A d \in Contract : d # c => LeftAlone(d) /\ NotConcerned(d)
  BY <1>2, <1>5, <1>6, MergesKept DEF LeftAlone, NotConcerned, git, reclaim, boot
<1>9. ReclaimOK(c)'
  BY <1>2, <1>3, <1>4, <1>6 DEF ContractOK, ReclaimOK, Reclaiming, reclaim, git
<1>10. LandedOK(c)' BY <1>2, <1>3, <1>4, <1>5 DEF ContractOK, LandedOK, Merged, git
<1>11. TreeOK(c)' BY <1>2, <1>3, <1>4, <1>5 DEF ContractOK, TreeOK, Live, git
<1> QED BY <1>1, <1>6, <1>7, <1>8, <1>9, <1>10, <1>11, OneContract DEF ContractOK

LEMMA CleanupRemovesInv ==
  ASSUME LandingInv, NEW actor \in {"op", "attempt"}, NEW c \in Contract, CleanupRemoves(actor, c)
  PROVE  LandingInv'
<1>1. TypeOK /\ TypeOK' /\ ContractOK(c) BY CleanupRemovesTypes DEF LandingInv
<1>2. At(actor, c, "remove") /\ "remove" \in Cleaning /\ UNCHANGED <<contract, git, held, exact, boot>>
  BY DEF CleanupRemoves, Cleaning
<1>3. contract[c].landing = "landed" /\ ~Live(c) BY <1>2, ActorHolds
<1>4. \A d \in Contract : \A dir : SetDir(c, dir) => /\ d # c => worktree'[d] = worktree[d]
                                                 /\ worktree'[c] = [worktree[c] EXCEPT !.dir = dir]
  BY <1>1 DEF SetDir, TypeOK
<1>5. CASE Cleaned(actor, c, FALSE) /\ UNCHANGED worktree
  BY <1>1, <1>2, <1>5, CleanedInv DEF OthersStay
<1>6. CASE worktree[c].dir = "registered" /\ SetDir(c, "loose") /\ Cleaned(actor, c, FALSE)
  <2>1. OthersStay(c) BY <1>4, <1>6 DEF OthersStay
  <2> QED BY <1>1, <1>2, <1>6, <2>1, CleanedInv
<1>7. CASE SetDir(c, "absent") /\ Goto(actor, c, "branch") /\ UNCHANGED run /\ worktree[c].dir \in {"absent", "registered"}
  <2>1. /\ worktree'[c].dir = "absent" /\ worktree'[c].row = worktree[c].row
        /\ \A d \in Contract : d # c => worktree'[d] = worktree[d]
    <3>1. /\ worktree'[c] = [worktree[c] EXCEPT !.dir = "absent"]
          /\ \A d \in Contract : d # c => worktree'[d] = worktree[d]
      BY <1>4, <1>7
    <3>2. worktree[c] \in Trees BY <1>1 DEF TypeOK
    <3> QED BY <3>1, <3>2 DEF Trees
  <2>2. ReclaimOK(c)'
    <3>1. \A S \in {{"row", "sweep"}, {"sweep"}} : Reclaiming(c, S)' => Reclaiming(c, S)
      BY <1>1, <1>7 DEF Goto, Proceed, Reclaiming, AtHead, TypeOK, chain, reclaim
    <3> QED BY <1>1, <1>2, <1>3, <2>1, <3>1 DEF ContractOK, ReclaimOK, git
  <2>3. TreeOK(c)' BY <1>1, <1>2, <1>3, <1>7, <2>1 DEF ContractOK, TreeOK, Live, git
  <2>4. LandedOK(c)' BY <1>1, <1>2 DEF ContractOK, LandedOK, Merged, git
  <2>5. /\ UNCHANGED <<merges, branch>> BY <1>2 DEF git
  <2> QED BY <1>1, <1>2, <1>7, <2>1, <2>2, <2>3, <2>4, <2>5, GotoInv
<1> QED BY <1>5, <1>6, <1>7 DEF CleanupRemoves

LEMMA CleanupDeletesInv ==
  ASSUME LandingInv, NEW actor \in {"op", "attempt"}, NEW c \in Contract, CleanupDeletes(actor, c)
  PROVE  LandingInv'
<1>1. TypeOK /\ TypeOK' /\ ContractOK(c) BY CleanupDeletesTypes DEF LandingInv
<1>2. At(actor, c, "branch") /\ "branch" \in Cleaning /\ UNCHANGED <<contract, worktree, head, merges, held, exact, boot>>
  BY DEF CleanupDeletes, Cleaning
<1>3. contract[c].landing = "landed" /\ ~Live(c) /\ Reclaiming(c, {"branch"}) BY <1>2, ActorHolds
<1>4. CASE Cleaned(actor, c, FALSE) /\ UNCHANGED branch
  BY <1>1, <1>2, <1>4, CleanedInv DEF OthersStay, git
<1>5. CASE /\ ~(branch[c].there /\ branch[c].tip # contract[c].landed)
           /\ branch' = [branch EXCEPT ![c].there = FALSE] /\ Goto(actor, c, "row") /\ UNCHANGED run
  <2>1. /\ branch'[c].tip = branch[c].tip /\ ~branch'[c].there
        /\ \A d \in Contract : d # c => branch'[d] = branch[d]
    <3>1. branch'[c] = [branch[c] EXCEPT !.there = FALSE] BY <1>1, <1>5 DEF TypeOK
    <3>2. \A d \in Contract : d # c => branch'[d] = branch[d] BY <1>1, <1>5 DEF TypeOK
    <3> QED BY <1>1, <3>1, <3>2, Fields DEF Branches
  <2>2. worktree[c].dir = "absent"
    <3>1. Reclaiming(c, {"branch"}) => Reclaiming(c, {"branch", "row", "sweep"}) BY DEF Reclaiming, AtHead
    <3> QED BY <1>1, <1>3, <3>1 DEF ContractOK, ReclaimOK
  <2>3. ReclaimOK(c)'
    <3>1. Reclaiming(c, {"sweep"})' => Reclaiming(c, {"sweep"})
      BY <1>1, <1>5 DEF Goto, Proceed, Reclaiming, AtHead, TypeOK, chain, reclaim
    <3> QED BY <1>1, <1>2, <1>3, <2>1, <2>2, <3>1 DEF ContractOK, ReclaimOK
  <2>4. LandedOK(c)'
    <3>1. branch[c].tip = 0 \/ Merged(c, branch[c].tip)
      BY <1>1, <1>3, <1>5 DEF ContractOK, LandedOK
    <3> QED BY <1>1, <1>2, <1>3, <2>1, <3>1 DEF ContractOK, LandedOK, Merged
  <2>5. TreeOK(c)' BY <1>1, <1>2, <1>3, <1>5, <2>1 DEF ContractOK, TreeOK, Live
  <2> QED BY <1>1, <1>2, <1>5, <2>1, <2>3, <2>4, <2>5, GotoInv
<1> QED BY <1>4, <1>5 DEF CleanupDeletes

LEMMA CleanupDestroysRowInv ==
  ASSUME LandingInv, NEW actor \in {"op", "attempt"}, NEW c \in Contract, CleanupDestroysRow(actor, c)
  PROVE  LandingInv'
<1>1. TypeOK /\ TypeOK' /\ ContractOK(c) BY CleanupDestroysRowTypes DEF LandingInv
<1>2. /\ At(actor, c, "row") /\ "row" \in Cleaning /\ UNCHANGED <<contract, run, git, held, exact, boot>>
      /\ worktree' = [worktree EXCEPT ![c].row = "destroyed"] /\ Goto(actor, c, "sweep")
  BY DEF CleanupDestroysRow, Cleaning
<1>3. contract[c].landing = "landed" /\ ~Live(c) /\ Reclaiming(c, {"row"}) BY <1>2, ActorHolds
<1>4. /\ worktree'[c].dir = worktree[c].dir /\ worktree'[c].row = "destroyed"
      /\ \A d \in Contract : d # c => worktree'[d] = worktree[d]
  BY <1>1, <1>2, Fields DEF TypeOK, Trees
<1>5. worktree[c].dir = "absent" /\ ~branch[c].there
  <2>1. /\ Reclaiming(c, {"row"}) => Reclaiming(c, {"branch", "row", "sweep"})
        /\ Reclaiming(c, {"row"}) => Reclaiming(c, {"row", "sweep"})
    BY DEF Reclaiming, AtHead
  <2> QED BY <1>1, <1>3, <2>1 DEF ContractOK, ReclaimOK
<1>6. ReclaimOK(c)' BY <1>2, <1>3, <1>4, <1>5 DEF ReclaimOK, git
<1>7. TreeOK(c)' BY <1>1, <1>2, <1>3, <1>4, <1>5 DEF ContractOK, TreeOK, Live, git
<1>8. LandedOK(c)' BY <1>1, <1>2 DEF ContractOK, LandedOK, Merged, git
<1>9. UNCHANGED <<merges, branch>> BY <1>2 DEF git
<1> QED BY <1>1, <1>2, <1>4, <1>6, <1>7, <1>8, <1>9, GotoInv

LEMMA CleanupSweepsInv ==
  ASSUME LandingInv, NEW actor \in {"op", "attempt"}, NEW c \in Contract, CleanupSweeps(actor, c)
  PROVE  LandingInv'
<1>1. TypeOK /\ TypeOK' /\ ContractOK(c) BY CleanupSweepsTypes DEF LandingInv
<1>2. /\ At(actor, c, "sweep") /\ "sweep" \in Cleaning /\ UNCHANGED <<contract, git, held, exact, boot>>
      /\ SweepOrphans /\ Cleaned(actor, c, TRUE)
  BY DEF CleanupSweeps, Cleaning
<1>3. Reclaiming(c, {"sweep"}) BY <1>2, ActorHolds
<1>4. worktree[c].dir = "absent" /\ worktree[c].row = "destroyed" /\ ~branch[c].there
  <2>1. /\ Reclaiming(c, {"sweep"}) => Reclaiming(c, {"branch", "row", "sweep"})
        /\ Reclaiming(c, {"sweep"}) => Reclaiming(c, {"row", "sweep"})
    BY DEF Reclaiming, AtHead
  <2> QED BY <1>1, <1>3, <2>1 DEF ContractOK, ReclaimOK
<1>5. worktree'[c] = worktree[c] /\ OthersStay(c)
  BY <1>2, <1>4 DEF SweepOrphans, Orphans, OthersStay
<1> QED BY <1>1, <1>2, <1>4, <1>5, CleanedInv

------------------------------------------------------------------------------
(* The invariant of the specification.                                        *)

LEMMA InitInv == ASSUME Init PROVE LandingInv
<1>1. TypeOK BY InitTypes
<1>2. /\ queue = <<>> /\ step = "start" /\ stage = "attached" /\ todo = {} /\ merges = {} /\ exact = {}
      /\ \A c \in Contract :
           /\ task[c] = "none" /\ decision[c] = "none" /\ attempt[c] = "none" /\ retry[c] = "none"
           /\ contract[c].landing = "none" /\ contract[c].landed = 0
           /\ contract[c].seal = 0 /\ contract[c].judged = 0
           /\ branch[c].tip = 0 /\ branch[c].there
           /\ worktree[c].dir = "registered" /\ run[c].life = "parked"
  BY DEF Init
<1>3. DownOK /\ QueueOK /\ MergesOK BY <1>2 DEF DownOK, QueueOK, MergesOK
<1>4. ASSUME NEW c \in Contract PROVE ContractOK(c)
  <2>1. TaskOK(c) /\ LiveOK(c) /\ RowOK(c) BY <1>2 DEF TaskOK, LiveOK, RowOK, Reopenable
  <2>2. HeadOK(c) /\ ReclaimOK(c) BY <1>2 DEF HeadOK, ReclaimOK, Reclaiming, AtHead
  <2>3. LandedOK(c) /\ TreeOK(c) BY <1>2 DEF LandedOK, TreeOK
  <2> QED BY <2>1, <2>2, <2>3 DEF ContractOK
<1> QED BY <1>1, <1>3, <1>4 DEF LandingInv

LEMMA StutterInv == ASSUME LandingInv, UNCHANGED vars PROVE LandingInv'
<1>1. TypeOK /\ DownOK /\ QueueOK /\ MergesOK /\ TypeOK' BY StutterTypes DEF LandingInv
<1>2. /\ UNCHANGED <<contract, run, branch, merges, worktree, task, decision>>
      /\ UNCHANGED <<queue, step, attempt, retry, exact, stage, todo>>
  BY DEF vars, git, chain, reclaim, boot
<1>3. DownOK' /\ MergesOK' BY <1>1, <1>2 DEF DownOK, MergesOK
<1>4. Undisturbed BY <1>2 DEF Undisturbed
<1>5. QueueOK' BY <1>1, <1>2, <1>4, QueueStays
<1>6. \A c \in Contract : LeftAlone(c) /\ NotConcerned(c)
  BY <1>2, MergesKept DEF LeftAlone, NotConcerned, HeadKept
<1> QED BY <1>1, <1>3, <1>5, <1>6, NoContract

LEMMA NextInv == ASSUME LandingInv, [Next]_vars PROVE LandingInv'
<1>1. CASE UNCHANGED vars BY <1>1, StutterInv
<1>2. CASE Chain
  BY <1>2, LandStartsInv, LandChecksInv, LandMergesInv, LandRecordsInv, AbandonStartsInv,
     AbandonReclaimsInv, AbandonSettlesInv DEF Chain
<1>3. CASE Recovery
  <2>1. CASE Boot \/ PassEnds \/ BootReconciles \/ Attach
    BY <2>1, BootInv, PassEndsInv, ReconciledInv, AttachInv
  <2>2. ASSUME NEW c \in Contract,
               \/ RecoverSealed(c) \/ RecoverTeardown(c)
               \/ RecoverMutation(c, "landings", "land", "pending")
               \/ RecoverMutation(c, "abandonments", "abandon", "abandoning")
        PROVE  LandingInv'
    BY <2>2, RecoverSealedInv, RecoverTeardownInv, RecoverLandingInv, RecoverAbandonmentInv
  <2> QED BY <1>3, <2>1, <2>2 DEF Recovery
<1>4. CASE JanitorReconciles \/ JanitorSweeps \/ Crash
  BY <1>4, ReconciledInv, BystanderInv, CrashInv
<1>5. CASE Others BY <1>5, OutsideCommitInv, StrayCommitInv, BystanderInv DEF Others
<1>6. ASSUME NEW c \in Contract, Producer(c) PROVE LandingInv'
  BY <1>6, AgentCommitsInv, SubmitDeliverableInv, RunEndsInv, KillRunInv, ContinueInv DEF Producer
<1>7. ASSUME NEW c \in Contract, Orchestrator(c) PROVE LandingInv'
  BY <1>7, AcceptInv, RejectInv, ApproveAbandonmentInv DEF Orchestrator
<1>8. ASSUME NEW c \in Contract, Process(c) PROVE LandingInv'
  BY <1>8, DisposedInv, RetireInv, VerifyEndsInv, AcceptReadsInv, TeardownInv, RetryInv
  DEF Process, PostTerminal
<1>9. ASSUME NEW c \in Contract, NEW actor \in {"op", "attempt"}, Cleanup(actor, c) PROVE LandingInv'
  BY <1>9, CleanupRemovesInv, CleanupDeletesInv, CleanupDestroysRowInv, CleanupSweepsInv DEF Cleanup
<1> QED BY <1>1, <1>2, <1>3, <1>4, <1>5, <1>6, <1>7, <1>8, <1>9 DEF Next

\* Every caller keeps what it owns, in any order of deliveries, verdicts, landings,
\* abandonments, retries, commits of others and stops.
THEOREM LandingInvariant == Spec => []LandingInv
<1>1. Init => LandingInv BY InitInv
<1>2. LandingInv /\ [Next]_vars => LandingInv' BY NextInv
<1> QED BY <1>1, <1>2, PTL DEF Spec

\* A branch the target holds whole is never abandoned, nor taken for one that was never
\* landed: its contract is landed, on the way to it, or parked (landContract, settleLanding).
THEOREM MergedWorkIsAlwaysRecorded == Spec => []MergedWorkIsRecorded
<1>1. LandingInv => MergedWorkIsRecorded
  BY DEF LandingInv, ContractOK, LandedOK, MergedWorkIsRecorded
<1>2. Spec => []LandingInv BY LandingInvariant
<1> QED BY <1>1, <1>2, PTL

\* A deleted branch is in the target whole and its contract is landed: no commit and no
\* abandoned work is deleted by a landing, a retry or a recovery (cleanupLandedWorktree).
THEOREM WorkSurvivesCleanup == Spec => []WorkIsNeverLost
<1>1. LandingInv => WorkIsNeverLost
  BY DEF LandingInv, ContractOK, LandedOK, WorkIsNeverLost
<1>2. Spec => []LandingInv BY LandingInvariant
<1> QED BY <1>1, <1>2, PTL

\* The directory of a live run, and of work that waits for a verdict or a landing, stays
\* registered whatever the janitor, the retries and the boot remove.
THEOREM WorktreeStays == Spec => []WorktreeIsHeld
<1>1. LandingInv => WorktreeIsHeld
  BY DEF LandingInv, ContractOK, TreeOK, WorktreeIsHeld
<1>2. Spec => []LandingInv BY LandingInvariant
<1> QED BY <1>1, <1>2, PTL

\* A completed producer left nothing behind: directory, branch and row are gone.
THEOREM CompletionIsReclaimed == Spec => []CompletedMeansReclaimed
<1>1. ASSUME LandingInv, NEW c \in Contract, run[c].life = "completed"
      PROVE  /\ contract[c].landing = "landed"
             /\ worktree[c] = [dir |-> "absent", row |-> "destroyed"] /\ ~branch[c].there
  <2>1. /\ contract[c].landing = "landed" /\ worktree[c].dir = "absent"
        /\ worktree[c].row = "destroyed" /\ ~branch[c].there
    BY <1>1 DEF LandingInv, ContractOK, TreeOK
  <2>2. worktree[c] \in Trees BY <1>1 DEF LandingInv, TypeOK
  <2> QED BY <2>1, <2>2 DEF Trees
<1>2. LandingInv => CompletedMeansReclaimed BY <1>1 DEF CompletedMeansReclaimed
<1>3. Spec => []LandingInv BY LandingInvariant
<1> QED BY <1>2, <1>3, PTL

------------------------------------------------------------------------------
(* What a step may never do.                                                  *)

\* Only LandMerges writes the merges of the target.
LEMMA OtherStepsDoNotMerge ==
  ASSUME [Next]_vars, ~LandMerges PROVE merges' = merges
<1>1. CASE UNCHANGED vars BY <1>1 DEF vars, git
<1>2. CASE Chain
  BY <1>2 DEF Chain, LandStarts, LandChecks, LandRecords, AbandonStarts, AbandonRemoves,
     AbandonDestroysRow, AbandonSettles, git
<1>3. CASE Recovery
  BY <1>3 DEF Recovery, Boot, PassEnds, BootReconciles, Attach, RecoverSealed, RecoverTeardown,
     RecoverMutation, git
<1>4. CASE JanitorReconciles \/ JanitorSweeps \/ Crash
  BY <1>4 DEF JanitorReconciles, JanitorSweeps, Crash, git
<1>5. CASE Others BY <1>5 DEF Others, OutsideCommit, StrayCommit, Hold, LetGo, git
<1>6. ASSUME NEW c \in Contract, Producer(c) PROVE merges' = merges
  BY <1>6 DEF Producer, AgentCommits, SubmitDeliverable, RunEnds, KillRun, Continue, git
<1>7. ASSUME NEW c \in Contract, Orchestrator(c) PROVE merges' = merges
  BY <1>7 DEF Orchestrator, Accept, Reject, ApproveAbandonment, git
<1>8. ASSUME NEW c \in Contract, Process(c) PROVE merges' = merges
  BY <1>8 DEF Process, PostTerminal, Disposed, Retire, VerifyEnds, AcceptReads, Teardown, Retry, git
<1>9. ASSUME NEW c \in Contract, NEW actor \in {"op", "attempt"}, Cleanup(actor, c)
      PROVE  merges' = merges
  BY <1>9 DEF Cleanup, CleanupRemoves, CleanupDeletes, CleanupDestroysRow, CleanupSweeps, git
<1> QED BY <1>1, <1>2, <1>3, <1>4, <1>5, <1>6, <1>7, <1>8, <1>9 DEF Next

\* Whatever a step merges was reserved, judged at its seal on the base it lands on, and
\* nothing of its producer runs; it was passed as well, as long as the landing still owns
\* its row (landAcceptedContractLocked, landBranch).
THEOREM OnlyVerifiedWorkMerges == Spec => MergesVerifiedWork
<1> DEFINE Verified(m) == LET row == contract[m.contract] IN
                          /\ row.landing = "pending" /\ ~Live(m.contract)
                          /\ row.judged = row.seal /\ (Owns(Head(queue)) => row.verif = "passed")
                          /\ m.onto = row.base /\ m.tip >= row.seal
<1>1. ASSUME LandingInv, [Next]_vars PROVE \A m \in merges' \ merges : Verified(m)
  <2>1. CASE ~LandMerges BY <1>1, <2>1, OtherStepsDoNotMerge
  <2>2. CASE LandMerges
    <3>1. TypeOK BY <1>1 DEF LandingInv
    <3>2. Running("land", "merge") /\ queue # <<>> BY <2>2 DEF LandMerges, Running
    <3>3. PICK c \in Contract : c = Head(queue).c /\ ContractOK(c)
      BY <1>1, <3>1, <3>2, HeadTypes DEF LandingInv
    <3>4. AtHead("land", c, {"merge"}) BY <3>2, <3>3 DEF AtHead, Running
    <3>5. /\ contract[c].landing = "pending" /\ contract[c].seal <= branch[c].tip
          /\ Owns(Head(queue)) => contract[c].verif = "passed"
          /\ contract[c].judged = contract[c].seal
      BY <3>3, <3>4 DEF ContractOK, HeadOK, RowOK, LandedOK, AtHead
    <3>6. ~Live(c) BY <3>3, <3>5 DEF ContractOK, LiveOK, Reopenable
    <3> DEFINE new == [contract |-> c, tip |-> branch[c].tip, onto |-> head]
    <3>7. \/ merges' = merges
          \/ head = contract[c].base /\ merges' = merges \cup {new}
      BY <2>2, <3>3 DEF LandMerges, git
    <3>8. branch[c].tip \in Nat /\ contract[c].seal \in Nat BY <3>1, Fields
    <3>9. head = contract[c].base => Verified(new) BY <3>5, <3>6, <3>8
    <3> HIDE DEF new, Verified
    <3> QED BY <3>7, <3>9
  <2> QED BY <2>1, <2>2
<1>2. LandingInv /\ [Next]_vars => [\A m \in merges' \ merges : Verified(m)]_vars BY <1>1
<1>3. Spec => []LandingInv BY LandingInvariant
<1> QED BY <1>2, <1>3, PTL DEF Spec, MergesVerifiedWork

Receipted(c) == contract[c].landing \in {"landed", "abandoned"}

\* A write of the row of a contract without a receipt writes no other contract.
LEMMA WritesOpenRow ==
  ASSUME TypeOK, NEW c \in Contract, NEW row, NEW keep, Write(c, row, keep), ~Receipted(c)
  PROVE  \A d \in Contract : Receipted(d) => contract'[d] = contract[d]
<1>1. \A d \in Contract : d # c => contract'[d] = contract[d] BY WriteKeeps
<1> QED BY <1>1

LEMMA ParkedWritesOpenRow ==
  ASSUME TypeOK, queue # <<>>, NEW status, NEW life, SettleParked(Head(queue), status, life)
  PROVE  \A d \in Contract : Receipted(d) => contract'[d] = contract[d]
<1>1. PICK c \in Contract : c = Head(queue).c BY HeadTypes
<1>2. CASE contract' = contract BY <1>2
<1>3. CASE CanSettle(Head(queue)) /\ Write(c, [contract[c] EXCEPT !.landing = status], {})
  <2>1. ~Receipted(c) BY <1>1, <1>3 DEF CanSettle, Receipted
  <2> QED BY <1>3, <2>1, WritesOpenRow
<1> QED BY <1>1, <1>2, <1>3 DEF SettleParked, Give

LEMMA LandedWritesOpenRow ==
  ASSUME TypeOK, queue # <<>>, NEW tip, SettleLanded(Head(queue), tip)
  PROVE  \A d \in Contract : Receipted(d) => contract'[d] = contract[d]
<1>1. PICK c \in Contract : c = Head(queue).c BY HeadTypes
<1>2. CASE contract' = contract BY <1>2
<1>3. CASE /\ CanSettle(Head(queue))
           /\ Write(c, [contract[c] EXCEPT !.landing = "landed", !.landed = tip], {})
  <2>1. ~Receipted(c) BY <1>1, <1>3 DEF CanSettle, Receipted
  <2> QED BY <1>3, <2>1, WritesOpenRow
<1> QED BY <1>1, <1>2, <1>3 DEF SettleLanded, Give

LEMMA ChainKeepsReceipts ==
  ASSUME LandingInv, Chain
  PROVE  \A d \in Contract : Receipted(d) => contract'[d] = contract[d]
<1>1. TypeOK BY DEF LandingInv
<1>2. queue # <<>>
  BY DEF Chain, LandStarts, LandChecks, LandMerges, LandRecords, AbandonStarts, AbandonRemoves,
     AbandonDestroysRow, AbandonSettles, Running
<1>3. PICK c \in Contract : c = Head(queue).c /\ ContractOK(c)
  BY <1>1, <1>2, HeadTypes DEF LandingInv
<1>4. CASE UNCHANGED contract BY <1>4
<1>5. CASE \/ LandChecks \/ LandMerges \/ LandRecords
  BY <1>1, <1>2, <1>5, ParkedWritesOpenRow, LandedWritesOpenRow DEF LandChecks, LandMerges, LandRecords
<1>6. CASE LandStarts
  <2>1. \/ UNCHANGED contract
        \/ /\ contract[c].landing \notin Settled
           /\ \E row, keep : Write(c, row, keep)
    BY <1>3, <1>6 DEF LandStarts, Give
  <2>2. contract[c].landing \notin Settled => ~Receipted(c) BY DEF Settled, Receipted
  <2> QED BY <1>1, <2>1, <2>2, WritesOpenRow
<1>7. CASE AbandonStarts
  <2>1. \/ UNCHANGED contract
        \/ Abandonable(c) /\ \E row, keep : Write(c, row, keep)
    BY <1>3, <1>7 DEF AbandonStarts, Give
  <2>2. Abandonable(c) => ~Receipted(c) BY DEF Abandonable, Reopenable, Receipted
  <2> QED BY <1>1, <2>1, <2>2, WritesOpenRow
<1>8. CASE AbandonSettles
  <2>1. ~Receipted(c)
    BY <1>3, <1>8 DEF AbandonSettles, Running, ContractOK, HeadOK, AtHead, Receipted
  <2>2. \E row, keep : Write(c, row, keep) BY <1>3, <1>8 DEF AbandonSettles
  <2> QED BY <1>1, <2>1, <2>2, WritesOpenRow
<1>9. CASE AbandonRemoves \/ AbandonDestroysRow
  BY <1>9 DEF AbandonRemoves, AbandonDestroysRow, Give
<1> QED BY <1>5, <1>6, <1>7, <1>8, <1>9 DEF Chain

LEMMA VerificationKeepsReceipts ==
  ASSUME TypeOK, NEW c \in Contract, NEW status, StartVerification(c, status)
  PROVE  \A d \in Contract : Receipted(d) => contract'[d] = contract[d]
<1>1. \/ UNCHANGED contract
      \/ contract[c].landing \notin Settled /\ \E row, keep : Write(c, row, keep)
  BY DEF StartVerification
<1>2. contract[c].landing \notin Settled => ~Receipted(c) BY DEF Settled, Receipted
<1> QED BY <1>1, <1>2, WritesOpenRow

LEMMA StepsKeepReceipts ==
  ASSUME LandingInv, [Next]_vars
  PROVE  \A d \in Contract : Receipted(d) => contract'[d] = contract[d]
<1> DEFINE Kept == \A d \in Contract : Receipted(d) => contract'[d] = contract[d]
<1>0. TypeOK BY DEF LandingInv
<1>1. CASE UNCHANGED vars BY <1>1 DEF vars
<1>2. CASE Chain BY <1>2, ChainKeepsReceipts
<1>3. CASE Recovery
  <2>1. CASE Boot BY <1>0, <2>1 DEF Boot, TypeOK, Receipted
  <2>2. CASE PassEnds \/ BootReconciles \/ Attach BY <2>2 DEF PassEnds, BootReconciles, Attach
  <2>3. ASSUME NEW c \in Contract, RecoverSealed(c) PROVE Kept
    BY <1>0, <2>3, VerificationKeepsReceipts DEF RecoverSealed
  <2>4. ASSUME NEW c \in Contract,
               \/ RecoverTeardown(c)
               \/ RecoverMutation(c, "landings", "land", "pending")
               \/ RecoverMutation(c, "abandonments", "abandon", "abandoning")
        PROVE  Kept
    BY <2>4 DEF RecoverTeardown, RecoverMutation
  <2> QED BY <1>3, <2>1, <2>2, <2>3, <2>4 DEF Recovery
<1>4. CASE JanitorReconciles \/ JanitorSweeps \/ Crash
  BY <1>4 DEF JanitorReconciles, JanitorSweeps, Crash
<1>5. CASE Others BY <1>5 DEF Others, OutsideCommit, StrayCommit, Hold, LetGo
<1>6. ASSUME NEW c \in Contract, Producer(c) PROVE Kept
  <2>1. CASE SubmitDeliverable(c)
    <3>1. ~Receipted(c)
      BY <2>1 DEF SubmitDeliverable, LandingInv, ContractOK, LiveOK, Reopenable, Receipted
    <3>2. \E row, keep : Write(c, row, keep) BY <2>1 DEF SubmitDeliverable
    <3> QED BY <1>0, <3>1, <3>2, WritesOpenRow
  <2>2. CASE Continue(c)
    <3>1. ~Receipted(c) BY <2>2 DEF Continue, Reopenable, Receipted
    <3>2. \E row, keep : Write(c, row, keep) BY <2>2 DEF Continue
    <3> QED BY <1>0, <3>1, <3>2, WritesOpenRow
  <2>3. CASE AgentCommits(c) \/ KillRun(c) \/ \E status \in {"completed", "failed"} : RunEnds(c, status)
    BY <2>3 DEF AgentCommits, KillRun, RunEnds
  <2> QED BY <1>6, <2>1, <2>2, <2>3 DEF Producer
<1>7. ASSUME NEW c \in Contract, Orchestrator(c) PROVE Kept
  <2>1. CASE Reject(c)
    <3>1. ~Receipted(c) BY <2>1 DEF Reject, Reviewable, Reopenable, Receipted
    <3>2. \E row, keep : Write(c, row, keep) BY <2>1 DEF Reject
    <3> QED BY <1>0, <3>1, <3>2, WritesOpenRow
  <2>2. CASE Accept(c) \/ ApproveAbandonment(c) BY <2>2 DEF Accept, ApproveAbandonment
  <2> QED BY <1>7, <2>1, <2>2 DEF Orchestrator
<1>8. ASSUME NEW c \in Contract, Process(c) PROVE Kept
  <2>1. CASE Disposed(c) \/ Teardown(c) \/ Retry(c) BY <2>1 DEF Disposed, Teardown, Retry
  <2>2. CASE Retire(c) BY <1>0, <2>2, VerificationKeepsReceipts DEF Retire
  <2>3. ASSUME NEW outcome \in {"passed", "failed", "pending"}, VerifyEnds(c, outcome) PROVE Kept
    <3>1. task[c] = "verify" BY <2>3 DEF VerifyEnds
    <3>2. contract[c].landing # "abandoned" BY <3>1 DEF LandingInv, ContractOK, RowOK
    <3>3. \/ UNCHANGED contract
          \/ contract[c].landing # "landed" /\ \E row, keep : Write(c, row, keep)
      BY <2>3 DEF VerifyEnds
    <3> QED BY <1>0, <3>2, <3>3, WritesOpenRow DEF Receipted
  <2>4. CASE AcceptReads(c)
    <3>1. \/ UNCHANGED contract
          \/ <<"accept", c>> \in exact /\ \E row, keep : Write(c, row, keep)
      BY <2>4 DEF AcceptReads
    <3>2. <<"accept", c>> \in exact => ~Receipted(c)
      BY <2>4 DEF AcceptReads, LandingInv, ContractOK, RowOK, Reopenable, Receipted
    <3> QED BY <1>0, <3>1, <3>2, WritesOpenRow
  <2> QED BY <1>8, <2>1, <2>2, <2>3, <2>4 DEF Process, PostTerminal
<1>9. ASSUME NEW c \in Contract, NEW actor \in {"op", "attempt"}, Cleanup(actor, c) PROVE Kept
  BY <1>9 DEF Cleanup, CleanupRemoves, CleanupDeletes, CleanupDestroysRow, CleanupSweeps
<1> QED BY <1>1, <1>2, <1>3, <1>4, <1>5, <1>6, <1>7, <1>8, <1>9 DEF Next

\* A landed or abandoned contract is never written again, by no late verification,
\* verdict, second landing or recovery pass (settleLanding, reviewContract).
THEOREM ReceiptsAreFinal == Spec => ReceiptIsFinal
<1>1. LandingInv /\ [Next]_vars =>
        [\A c \in Contract : contract[c].landing \in {"landed", "abandoned"} => contract'[c] = contract[c]]_vars
  BY StepsKeepReceipts DEF Receipted
<1>2. Spec => []LandingInv BY LandingInvariant
<1> QED BY <1>1, <1>2, PTL DEF Spec, ReceiptIsFinal

==============================================================================
