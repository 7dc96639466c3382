---------------------- MODULE OperationalConsoleProofs ----------------------
(***************************************************************************)
(* The safety properties of the operational page for any number of         *)
(* organizations, operations, slots and visits.                            *)
(*                                                                         *)
(* ShownIsOfThisVisit needs to know whose a response is (CallsAreTrue);    *)
(* OverviewAgrees, which step a row to be retried has, and for that what   *)
(* the slots have done with it (RowFacts); the rest of it is a fact about  *)
(* any set of rows.                                                        *)
(***************************************************************************)
EXTENDS OperationalConsole, TLAPS

CallsAreTrue ==
  \A c \in calls :
    /\ c.visit <= visit
    /\ c.visit = visit => c.org = org
    /\ c.stage = "answered" => c.response \in States /\ c.response.org = c.org

(* A retry has a step; while only one slot at a time has its row in hand,  *)
(* the failed one or that of a stored result.                              *)
RetryFacts ==
  \A i \in DOMAIN ops : ops[i].status = "retry_scheduled" =>
    /\ ops[i].step # "none"
    /\ i \notin shared => ops[i].step \in {"failed", "idempotency.hit"}

(* How far a slot has come shows in its row, if no other slot has it.      *)
SlotFacts(s) ==
  LET i == slots[s].row
  IN /\ slots[s].at \in {"running", "returned", "failing"} => ops[i].step # "none"
     /\ i \notin shared =>
          /\ slots[s].at \in {"claimed", "running", "returned"} => ops[i].status # "retry_scheduled"
          /\ slots[s].at = "failing" => ops[i].step = "failed"

Alone ==
  \A r, s \in Slots :
    r # s /\ slots[r] # Free /\ slots[r].row = slots[s].row => slots[r].row \in shared

RowFacts == RetryFacts /\ Alone /\ \A s \in Slots : SlotFacts(s)

PageInv == CallsAreTrue /\ ShownIsOfThisVisit
ConsoleInv == ConsoleTypeOK /\ PageInv /\ RowFacts

-----------------------------------------------------------------------------
(* The three answers about any rows.                                       *)

(* While an operation is under way, worker_runtime dominates.              *)
LEMMA ActiveDominates ==
  ASSUME NEW rows, NEW linked, NEW state, Active(rows) # {}
  PROVE  Summary(Blocks(rows, linked, state)).dominant = "worker_runtime"
<1> DEFINE b == Blocks(rows, linked, state)
           First(i) == \A j \in DOMAIN b : /\ DominanceRank(b[j]) <= DominanceRank(b[i])
                                           /\ DominanceRank(b[j]) = DominanceRank(b[i]) => i <= j
<1>1. DOMAIN b = 1..6
  BY DEF Blocks
<1>2. \A i \in 1..6 : DominanceRank(b[i]) \in {400, 300, 200, 100, 0}
  BY DEF DominanceRank
<1>3. DominanceRank(b[4]) = 400
  BY DEF Blocks, Worker, Block, DominanceRank
<1>4. \A i \in 1..6 : DominanceRank(b[i]) = 400 => b[i].source = "worker_runtime"
  BY DEF DominanceRank
<1>5. DominanceRank(b[1]) = 300 /\ DominanceRank(b[3]) # 400
  BY DEF Blocks, Canonical, Wordpress, Block, DominanceRank
<1> HIDE DEF b
<1>6. \E i \in DOMAIN b : First(i)
  <2>1. CASE DominanceRank(b[2]) = 400
    <3>1. First(2)
      BY <1>1, <1>2, <1>5, <2>1
    <3> QED BY <1>1, <3>1
  <2>2. CASE DominanceRank(b[2]) # 400
    <3>1. First(4)
      BY <1>1, <1>2, <1>3, <1>5, <2>2
    <3> QED BY <1>1, <3>1
  <2> QED BY <2>1, <2>2
<1> DEFINE k == CHOOSE i \in DOMAIN b : First(i)
<1>7. k \in DOMAIN b /\ First(k)
  BY <1>6
<1>8. Summary(b).dominant = b[k].source
  BY DEF Summary, Best
<1> HIDE DEF k
<1>9. DominanceRank(b[k]) = 400
  BY <1>1, <1>2, <1>3, <1>7
<1> QED BY <1>1, <1>4, <1>7, <1>8, <1>9 DEF b

(* Otherwise the live check of the organization, which comes first.        *)
LEMMA LiveCheckDominates ==
  ASSUME NEW rows, NEW linked, NEW state, Active(rows) = {}
  PROVE  Summary(Blocks(rows, linked, state)).dominant = "live_provider_check"
<1> DEFINE b == Blocks(rows, linked, state)
           First(i) == \A j \in DOMAIN b : /\ DominanceRank(b[j]) <= DominanceRank(b[i])
                                           /\ DominanceRank(b[j]) = DominanceRank(b[i]) => i <= j
<1>1. DOMAIN b = 1..6
  BY DEF Blocks
<1>2. \A i \in 1..6 : ~b[i].running
  <2>1. ~b[1].running /\ ~b[3].running /\ ~b[5].running /\ ~b[6].running
    BY DEF Blocks, Canonical, Wordpress, LiveVerification, ContactProgress, Block
  <2>2. ~b[4].running
    BY DEF Blocks, Worker, Block
  <2>3. ~b[2].running
    BY DEF Blocks, FluentCrm, Block
  <2>4. \A i \in 1..6 : i \in {1, 2, 3, 4, 5, 6}
    OBVIOUS
  <2> HIDE DEF b
  <2> QED BY <2>1, <2>2, <2>3, <2>4
<1>3. \A i \in 1..6 : DominanceRank(b[i]) \in {300, 200, 100, 0}
  <2> HIDE DEF b
  <2> QED BY <1>2 DEF DominanceRank
<1>4. DominanceRank(b[1]) = 300
  BY DEF Blocks, Canonical, Block, DominanceRank
<1>5. \A i \in 1..6 : DominanceRank(b[i]) = 300 => b[i].source = "live_provider_check"
  <2> HIDE DEF b
  <2> QED BY <1>2 DEF DominanceRank
<1> HIDE DEF b
<1>6. First(1)
  BY <1>1, <1>3, <1>4
<1> DEFINE k == CHOOSE i \in DOMAIN b : First(i)
<1>7. k \in DOMAIN b /\ First(k)
  <2>1. \E i \in DOMAIN b : First(i)
    BY <1>1, <1>6
  <2> HIDE DEF First
  <2> QED BY <2>1
<1>8. Summary(b).dominant = b[k].source
  BY DEF Summary, Best
<1> HIDE DEF k
<1>9. DominanceRank(b[k]) = 300
  BY <1>1, <1>3, <1>4, <1>7
<1> QED BY <1>1, <1>5, <1>7, <1>8, <1>9 DEF b

LEMMA Agreement ==
  ASSUME RetryFacts
  PROVE  OverviewAgrees
<1>1. ASSUME NEW o \in Organizations, NEW worker \in WorkerStates
      PROVE  LET active == Active(RowsOf(o))
                 polling == Polling(RowsOf(o), o \in Linked, worker)
                 dominant == Summary(Blocks(RowsOf(o), o \in Linked, worker)).dominant
             IN IF active # {}
                THEN /\ polling = 3 /\ dominant = "worker_runtime"
                     /\ active \subseteq Listed(ops)
                     /\ worker # "alive" => Blocker(ops, o, o \in Linked, worker) = worker
                ELSE polling # 3 /\ dominant = "live_provider_check"
  <2> DEFINE rows == RowsOf(o)
  <2>1. /\ DOMAIN rows = {i \in DOMAIN ops : ops[i].org = o}
        /\ \A i \in DOMAIN rows : rows[i] = ops[i]
    BY DEF RowsOf
  <2> HIDE DEF rows
  <2>2. \A i \in Active(rows) :
          i \in DOMAIN ops /\ ops[i].org = o /\ ops[i].status \in ActiveOperationStatuses
    BY <2>1 DEF Active
  <2>3. Active(rows) \subseteq Listed(ops)
    BY <2>2 DEF Listed
  <2>4. IF Active(rows) # {} THEN Polling(rows, o \in Linked, worker) = 3
                             ELSE Polling(rows, o \in Linked, worker) # 3
    BY DEF Polling
  <2>5. Active(rows) # {} /\ worker # "alive" => Blocker(ops, o, o \in Linked, worker) = worker
    BY <2>2, <2>3 DEF Blocker
  <2>6. Active(rows) # {} => Summary(Blocks(rows, o \in Linked, worker)).dominant = "worker_runtime"
    BY ActiveDominates
  <2>7. Active(rows) = {} =>
          Summary(Blocks(rows, o \in Linked, worker)).dominant = "live_provider_check"
    BY LiveCheckDominates
  <2> QED BY <2>3, <2>4, <2>5, <2>6, <2>7 DEF rows
<1>2. \A i \in DOMAIN ops \ Listed(ops) : ops[i].status = "retry_scheduled" =>
        /\ ops[i].step # "none"
        /\ i \notin shared => ops[i].step = "idempotency.hit"
  BY DEF RetryFacts, Listed, Problem
<1> QED BY <1>1, <1>2 DEF OverviewAgrees

-----------------------------------------------------------------------------
(* The page.                                                               *)

LEMMA NewCall ==
  ASSUME NEW n \in 1..MaxVisits, NEW o \in Organizations
  PROVE  /\ Call(n, o) \in Calls /\ Call(n, o).visit = n /\ Call(n, o).org = o
         /\ Call(n, o).stage = "sent"
  BY DEF Call, Calls

(* The rows leave the page alone.                                          *)
LEMMA RowsKeepPage ==
  ASSUME ConsoleInv, UNCHANGED <<calls, pageVars>>,
         ops' \in Seq(Row), Len(ops') <= MaxOps, DOMAIN ops \subseteq DOMAIN ops',
         slots' \in [Slots -> {Free} \cup [row : 1..MaxOps, at : Positions]],
         \A s \in Slots : slots'[s] # Free => slots'[s].row \in DOMAIN ops,
         shared' \subseteq DOMAIN ops, RowFacts'
  PROVE  ConsoleInv'
<1>1. PageInv'
  BY DEF ConsoleInv, PageInv, CallsAreTrue, ShownIsOfThisVisit, pageVars
<1>2. ConsoleTypeOK'
  BY DEF ConsoleInv, ConsoleTypeOK, pageVars
<1> QED BY <1>1, <1>2 DEF ConsoleInv

(* A slot goes on with row i and leaves it as r.                           *)
LEMMA SlotStep ==
  ASSUME ConsoleInv, NEW s \in Slots, NEW i \in DOMAIN ops, NEW from, NEW to,
         from \in Positions \cup {"free"}, to \in Positions \cup {"free"}, Advance(s, i, from, to),
         NEW r \in Row, ops' = [ops EXCEPT ![i] = r],
         ops[i].step # "none" => r.step # "none",
         to \in {"running", "returned", "failing"} \/ r.status = "retry_scheduled" => r.step # "none",
         i \notin shared' =>
           /\ r.status = "retry_scheduled" => r.step \in {"failed", "idempotency.hit"}
           /\ to \in {"claimed", "running", "returned"} => r.status # "retry_scheduled"
           /\ to = "failing" => r.step = "failed"
  PROVE  ConsoleInv'
<1> DEFINE next == IF to = "free" THEN Free ELSE [row |-> i, at |-> to]
<1>1. /\ ops \in Seq(Row) /\ Len(ops) <= MaxOps /\ MaxOps \in Nat
      /\ slots \in [Slots -> {Free} \cup [row : 1..MaxOps, at : Positions]]
      /\ shared \subseteq DOMAIN ops /\ RowFacts
  BY ConsoleAssumption DEF ConsoleInv, ConsoleTypeOK
<1>2. DOMAIN ops = 1..Len(ops) /\ i \in 1..MaxOps /\ i # 0
  BY <1>1
<1>3. /\ slots' = [slots EXCEPT ![s] = next] /\ UNCHANGED <<calls, pageVars>>
      /\ slots[s] = IF from = "free" THEN Free ELSE [row |-> i, at |-> from]
      /\ shared' = IF from = "free" /\ Holders(i) # {} THEN shared \cup {i} ELSE shared
  BY DEF Advance
<1>4. /\ next \in {Free} \cup [row : 1..MaxOps, at : Positions]
      /\ next # Free => next.row = i /\ next.at = to
      /\ next = Free => next.at = "free" /\ next.row = 0
  BY <1>2 DEF Free
<1> HIDE DEF next
<1>5. /\ ops' \in Seq(Row) /\ Len(ops') <= MaxOps /\ DOMAIN ops' = DOMAIN ops
      /\ \A j \in DOMAIN ops : ops'[j] = IF j = i THEN r ELSE ops[j]
  BY <1>1, <1>2
<1>6. /\ slots' \in [Slots -> {Free} \cup [row : 1..MaxOps, at : Positions]]
      /\ slots'[s] = next /\ \A t \in Slots \ {s} : slots'[t] = slots[t]
  BY <1>1, <1>3, <1>4
<1>7. \A t \in Slots : slots[t] # Free => slots[t].row \in DOMAIN ops /\ slots[t].row # 0
  BY <1>1, <1>2 DEF ConsoleInv, ConsoleTypeOK
<1>8. \A t \in Slots : slots'[t] # Free => slots'[t].row \in DOMAIN ops
  BY <1>4, <1>6, <1>7
<1>9. shared \subseteq shared' /\ shared' \subseteq DOMAIN ops
  BY <1>1, <1>3
<1>10. \A t \in Slots \ {s} : slots[t].row = i => i \in shared'
  <2> SUFFICES ASSUME NEW t \in Slots \ {s}, slots[t].row = i PROVE i \in shared'
    OBVIOUS
  <2>1. CASE from = "free"
    BY <1>3, <2>1 DEF Holders
  <2>2. CASE from # "free"
    <3>1. slots[s].row = i /\ slots[s] # Free
      BY <1>2, <1>3, <2>2 DEF Free
    <3> QED BY <1>1, <1>9, <3>1 DEF RowFacts, Alone
  <2> QED BY <2>1, <2>2
<1>11. Alone'
  <2> SUFFICES ASSUME NEW t \in Slots, NEW u \in Slots, t # u, slots'[t] # Free,
                      slots'[t].row = slots'[u].row
               PROVE  slots'[t].row \in shared'
    BY DEF Alone
  <2>1. CASE t # s /\ u # s
    BY <1>1, <1>6, <1>9, <2>1 DEF RowFacts, Alone
  <2>2. CASE t = s
    BY <1>4, <1>6, <1>10, <2>2
  <2>3. CASE u = s
    <3>1. slots[t] # Free /\ slots[t].row # 0 /\ slots[t].row = next.row
      BY <1>6, <1>7, <2>3
    <3> QED BY <1>4, <1>6, <1>10, <2>3, <3>1
  <2> QED BY <2>1, <2>2, <2>3
<1>12. RetryFacts'
  <2> SUFFICES ASSUME NEW j \in DOMAIN ops, ops'[j].status = "retry_scheduled"
               PROVE  /\ ops'[j].step # "none"
                      /\ j \notin shared' => ops'[j].step \in {"failed", "idempotency.hit"}
    BY <1>5 DEF RetryFacts
  <2>1. CASE j = i
    BY <1>5, <2>1
  <2>2. CASE j # i
    BY <1>1, <1>5, <1>9, <2>2 DEF RowFacts, RetryFacts
  <2> QED BY <2>1, <2>2
<1>13. ASSUME NEW t \in Slots PROVE SlotFacts(t)'
  <2>1. CASE slots'[t] = Free
    BY <2>1 DEF SlotFacts, Free
  <2>2. CASE t = s /\ slots'[t] # Free
    <3>1. slots'[t].row = i /\ slots'[t].at = to /\ ops'[i] = r
      BY <1>4, <1>5, <1>6, <2>2
    <3> QED BY <3>1 DEF SlotFacts
  <2>3. CASE t # s /\ slots[t] # Free
    <3>1. slots'[t] = slots[t] /\ SlotFacts(t) /\ slots[t].row \in DOMAIN ops
      BY <1>1, <1>6, <1>7, <2>3 DEF RowFacts
    <3>2. CASE slots[t].row # i
      <4>1. ops'[slots[t].row] = ops[slots[t].row]
        BY <1>5, <3>1, <3>2
      <4> QED BY <1>9, <3>1, <4>1 DEF SlotFacts
    <3>3. CASE slots[t].row = i
      <4>1. ops'[i] = r /\ i \in shared'
        BY <1>5, <1>10, <2>3, <3>3
      <4> QED BY <3>1, <3>3, <4>1 DEF SlotFacts
    <3> QED BY <3>2, <3>3
  <2> QED BY <1>6, <2>1, <2>2, <2>3
<1>14. RowFacts'
  BY <1>11, <1>12, <1>13 DEF RowFacts
<1> QED BY <1>3, <1>5, <1>6, <1>8, <1>9, <1>14, RowsKeepPage

LEMMA StepInserted ==
  ASSUME ConsoleInv, NEW s \in Slots, NEW i \in DOMAIN ops,
         NEW from \in Positions \cup {"free"}, NEW to \in Positions \cup {"free"},
         NEW step \in StepStatuses \ {"none"}, InsertStep(s, i, from, step, to),
         i \notin shared =>
           /\ ops[i].status = "retry_scheduled" => step \in {"failed", "idempotency.hit"}
           /\ to \in {"claimed", "running", "returned"} => ops[i].status # "retry_scheduled"
           /\ to = "failing" => step = "failed"
  PROVE  ConsoleInv'
<1> DEFINE r == [ops[i] EXCEPT !.step = step]
<1>1. ops[i] \in Row /\ ops' = [ops EXCEPT ![i] = r] /\ Advance(s, i, from, to)
  BY DEF InsertStep, ConsoleInv, ConsoleTypeOK
<1>2. r \in Row /\ r.status = ops[i].status /\ r.step = step
  BY <1>1 DEF Row
<1>3. shared \subseteq shared'
  BY <1>1 DEF Advance
<1> HIDE DEF r
<1> QED BY <1>1, <1>2, <1>3, SlotStep

LEMMA StatusUpdated ==
  ASSUME ConsoleInv, NEW s \in Slots, NEW i \in DOMAIN ops,
         NEW from \in Positions \cup {"free"}, NEW to \in Positions \cup {"free"},
         NEW status \in Statuses, UpdateStatus(s, i, from, status, to),
         to \in {"free", "claimed"}, to = "claimed" => status # "retry_scheduled",
         status = "retry_scheduled" => from = "failing"
  PROVE  ConsoleInv'
<1> DEFINE r == [ops[i] EXCEPT !.status = status, !.old = FALSE]
<1>1. ops[i] \in Row /\ ops' = [ops EXCEPT ![i] = r] /\ Advance(s, i, from, to)
  <2>1. ops \in Seq(Row) /\ ops[i] \in Row
    BY DEF ConsoleInv, ConsoleTypeOK
  <2>2. ops' = [ops EXCEPT ![i].status = status, ![i].old = FALSE] /\ Advance(s, i, from, to)
    BY DEF UpdateStatus
  <2> QED BY <2>1, <2>2
<1>2. r \in Row /\ r.status = status /\ r.step = ops[i].step
  BY <1>1 DEF Row
<1>3. shared \subseteq shared'
  BY <1>1 DEF Advance
<1>4. from = "failing" => ops[i].step # "none" /\ (i \notin shared => ops[i].step = "failed")
  <2>1. from = "failing" => slots[s] = [row |-> i, at |-> "failing"]
    BY <1>1 DEF Advance
  <2> QED BY <2>1 DEF ConsoleInv, RowFacts, SlotFacts
<1> HIDE DEF r
<1> QED BY <1>1, <1>2, <1>3, <1>4, SlotStep

(* executeActionJob, statement by statement.                               *)
LEMMA WorkerKeepsInv ==
  ASSUME ConsoleInv, NEW s \in Slots, NEW i \in DOMAIN ops, Hit(s, i) \/ Run(s, i) \/ Fail(s, i)
  PROVE  ConsoleInv'
<1>1. ASSUME NEW from \in {"claimed", "running", "returned"}, slots[s] = [row |-> i, at |-> from],
             i \notin shared
      PROVE  ops[i].status # "retry_scheduled"
  BY <1>1 DEF ConsoleInv, RowFacts, SlotFacts
<1>2. CASE InsertStep(s, i, "free", "idempotency.hit", "hit")
  BY <1>2, StepInserted DEF Positions, StepStatuses
<1>3. CASE UpdateStatus(s, i, "hit", "completed", "free")
  BY <1>3, StatusUpdated DEF Positions, Statuses
<1>4. CASE UpdateStatus(s, i, "free", "processing", "claimed")
  BY <1>4, StatusUpdated DEF Positions, Statuses
<1>5. CASE InsertStep(s, i, "claimed", "taken_by_worker", "running")
  <2>1. slots[s] = [row |-> i, at |-> "claimed"]
    BY <1>5 DEF InsertStep, Advance
  <2> QED BY <1>1, <1>5, <2>1, StepInserted DEF Positions, StepStatuses
<1>6. CASE InsertStep(s, i, "running", "completed", "returned")
  <2>1. slots[s] = [row |-> i, at |-> "running"]
    BY <1>6 DEF InsertStep, Advance
  <2> QED BY <1>1, <1>6, <2>1, StepInserted DEF Positions, StepStatuses
<1>7. CASE UpdateStatus(s, i, "returned", "completed", "free")
  BY <1>7, StatusUpdated DEF Positions, Statuses
<1>8. ASSUME NEW from \in {"running", "returned"}, InsertStep(s, i, from, "failed", "failing")
      PROVE  ConsoleInv'
  BY <1>8, StepInserted DEF Positions, StepStatuses
<1>9. ASSUME NEW status \in {"retry_scheduled", "failed"},
             UpdateStatus(s, i, "failing", status, "free")
      PROVE  ConsoleInv'
  BY <1>9, StatusUpdated DEF Positions, Statuses
<1> QED BY <1>2, <1>3, <1>4, <1>5, <1>6, <1>7, <1>8, <1>9 DEF Hit, Run, Fail

LEMMA RowFactsKept ==
  ASSUME RowFacts, UNCHANGED <<ops, slots, shared>>
  PROVE  RowFacts'
<1>1. RetryFacts' /\ Alone'
  BY DEF RowFacts, RetryFacts, Alone
<1>2. \A s \in Slots : SlotFacts(s)'
  BY DEF RowFacts, SlotFacts
<1> QED BY <1>1, <1>2 DEF RowFacts

LEMMA RowsStep ==
  ASSUME ConsoleInv, Rows
  PROVE  ConsoleInv'
<1>1. /\ ops \in Seq(Row) /\ Len(ops) <= MaxOps /\ MaxOps \in Nat
      /\ slots \in [Slots -> {Free} \cup [row : 1..MaxOps, at : Positions]]
      /\ \A s \in Slots : slots[s] # Free => slots[s].row \in DOMAIN ops
      /\ shared \subseteq DOMAIN ops /\ RowFacts
  BY ConsoleAssumption DEF ConsoleInv, ConsoleTypeOK
<1>2. DOMAIN ops = 1..Len(ops)
  BY <1>1
<1>3. ASSUME NEW o \in Organizations, NEW kind \in KindsUsed, Create(o, kind) PROVE ConsoleInv'
  <2> DEFINE r == [org |-> o, kind |-> kind, status |-> "pending", step |-> "none", old |-> FALSE]
  <2>1. r \in Row /\ r.status = "pending"
    BY ConsoleAssumption DEF Row, Statuses, StepStatuses
  <2>2. ops' = Append(ops, r) /\ Len(ops) < MaxOps /\ UNCHANGED <<slots, shared, calls, pageVars>>
    BY <1>3 DEF Create
  <2> HIDE DEF r
  <2>3. /\ ops' \in Seq(Row) /\ Len(ops') <= MaxOps /\ DOMAIN ops \subseteq DOMAIN ops'
        /\ \A i \in DOMAIN ops : ops'[i] = ops[i]
        /\ \A i \in DOMAIN ops' : ops'[i] = r \/ i \in DOMAIN ops
    BY <1>1, <1>2, <2>1, <2>2
  <2>4. RetryFacts'
    BY <1>1, <2>1, <2>2, <2>3 DEF RowFacts, RetryFacts
  <2>5. ASSUME NEW s \in Slots PROVE SlotFacts(s)'
    <3>1. CASE slots[s] = Free
      BY <2>2, <3>1 DEF SlotFacts, Free
    <3>2. CASE slots[s] # Free
      BY <1>1, <2>2, <2>3, <3>2 DEF RowFacts, SlotFacts
    <3> QED BY <3>1, <3>2
  <2>6. Alone'
    BY <1>1, <2>2 DEF RowFacts, Alone
  <2> QED BY <1>1, <2>2, <2>3, <2>4, <2>5, <2>6, RowsKeepPage DEF RowFacts
<1>4. ASSUME NEW i \in DOMAIN ops, GrowsOld(i) \/ MarkQueued(i) PROVE ConsoleInv'
  <2>1. PICK r \in Row : /\ ops' = [ops EXCEPT ![i] = r] /\ r.step = ops[i].step
                         /\ r.status \in {ops[i].status, "queued"}
    <3>1. ops[i] \in Row
      BY <1>1
    <3>2. CASE GrowsOld(i)
      <4> DEFINE r == [ops[i] EXCEPT !.old = TRUE]
      <4>1. r \in Row /\ r.step = ops[i].step /\ r.status = ops[i].status
        BY <3>1 DEF Row
      <4>2. ops' = [ops EXCEPT ![i] = r]
        BY <3>2 DEF GrowsOld
      <4> HIDE DEF r
      <4> QED BY <4>1, <4>2
    <3>3. CASE MarkQueued(i)
      <4> DEFINE r == [ops[i] EXCEPT !.status = "queued", !.old = FALSE]
      <4>1. r \in Row /\ r.step = ops[i].step /\ r.status = "queued"
        BY <3>1 DEF Row, Statuses
      <4>2. ops' = [ops EXCEPT ![i] = r]
        BY <3>3 DEF MarkQueued
      <4> HIDE DEF r
      <4> QED BY <4>1, <4>2
    <3> QED BY <1>4, <3>2, <3>3
  <2>2. UNCHANGED <<slots, shared, calls, pageVars>>
    BY <1>4 DEF GrowsOld, MarkQueued
  <2>3. /\ ops' \in Seq(Row) /\ Len(ops') <= MaxOps /\ DOMAIN ops' = DOMAIN ops
        /\ \A j \in DOMAIN ops : /\ ops'[j].step = ops[j].step
                                 /\ ops'[j].status \in {ops[j].status, "queued"}
    BY <1>1, <1>2, <2>1
  <2>4. RetryFacts'
    BY <1>1, <2>2, <2>3 DEF RowFacts, RetryFacts
  <2>5. ASSUME NEW s \in Slots PROVE SlotFacts(s)'
    <3>1. CASE slots[s] = Free
      BY <2>2, <3>1 DEF SlotFacts, Free
    <3>2. CASE slots[s] # Free
      <4>1. slots[s].row \in DOMAIN ops /\ SlotFacts(s)
        BY <1>1, <3>2 DEF RowFacts
      <4>2. /\ ops'[slots[s].row].step = ops[slots[s].row].step
            /\ ops'[slots[s].row].status \in {ops[slots[s].row].status, "queued"}
        BY <2>3, <4>1
      <4> QED BY <2>2, <4>1, <4>2 DEF SlotFacts
    <3> QED BY <3>1, <3>2
  <2>6. Alone'
    BY <1>1, <2>2 DEF RowFacts, Alone
  <2> QED BY <1>1, <2>2, <2>3, <2>4, <2>5, <2>6, RowsKeepPage DEF RowFacts
<1>5. ASSUME NEW s \in Slots, Abandon(s) PROVE ConsoleInv'
  <2>1. slots' = [slots EXCEPT ![s] = Free] /\ UNCHANGED <<ops, shared, calls, pageVars>>
    BY <1>5 DEF Abandon
  <2>2. /\ slots' \in [Slots -> {Free} \cup [row : 1..MaxOps, at : Positions]]
        /\ slots'[s] = Free /\ \A t \in Slots \ {s} : slots'[t] = slots[t]
    BY <1>1, <2>1
  <2>3. RetryFacts'
    BY <1>1, <2>1 DEF RowFacts, RetryFacts
  <2>4. ASSUME NEW t \in Slots PROVE SlotFacts(t)'
    <3>1. CASE slots'[t] = Free
      BY <3>1 DEF SlotFacts, Free
    <3>2. CASE slots'[t] # Free
      BY <1>1, <2>1, <2>2, <3>2 DEF RowFacts, SlotFacts
    <3> QED BY <3>1, <3>2
  <2>5. Alone'
    <3> SUFFICES ASSUME NEW t \in Slots, NEW u \in Slots, t # u, slots'[t] # Free,
                        slots'[t].row = slots'[u].row
                 PROVE  slots'[t].row \in shared
      BY <2>1 DEF Alone
    <3>1. slots'[t] = slots[t] /\ slots[t].row \in 1..Len(ops)
      BY <1>1, <1>2, <2>2
    <3>2. u # s
      <4>1. slots'[t].row # 0
        BY <3>1, <1>1
      <4> QED BY <2>2, <4>1 DEF Free
    <3> QED BY <1>1, <2>2, <3>1, <3>2 DEF RowFacts, Alone
  <2> QED BY <1>1, <2>1, <2>2, <2>3, <2>4, <2>5, RowsKeepPage DEF RowFacts
<1> QED BY <1>3, <1>4, <1>5, WorkerKeepsInv DEF Rows

(* What the route answers about an organization.                           *)
LEMMA AnswerIsAState ==
  ASSUME ConsoleInv, NEW o \in Organizations, NEW worker \in WorkerStates
  PROVE  [org |-> o, active |-> Active(RowsOf(o)),
          polling |-> Polling(RowsOf(o), o \in Linked, worker)] \in States
<1>1. Active(RowsOf(o)) \subseteq 1..MaxOps
  <2>1. ops \in Seq(Row) /\ Len(ops) <= MaxOps
    BY DEF ConsoleInv, ConsoleTypeOK
  <2>2. DOMAIN RowsOf(o) \subseteq DOMAIN ops
    BY DEF RowsOf
  <2> QED BY <2>1, <2>2, ConsoleAssumption DEF Active
<1>2. Polling(RowsOf(o), o \in Linked, worker) \in {0, 3, 30}
  BY DEF Polling
<1> QED BY <1>1, <1>2 DEF States

(* The route leaves the page alone, too: a call takes the place of another. *)
LEMMA RouteStep ==
  ASSUME ConsoleInv, NEW c \in calls, Answer(c) \/ CallFails(c)
  PROVE  ConsoleInv'
<1> USE DEF ConsoleInv
<1>1. c \in Calls /\ c.org \in Organizations
  BY DEF ConsoleTypeOK, Calls
<1>2. PICK stage \in {"answered", "failed"}, response \in States \cup {NoState} :
        /\ Proceed(c, stage, response)
        /\ stage = "answered" => response \in States /\ response.org = c.org
  <2>1. CASE Answer(c)
    BY <1>1, <2>1, AnswerIsAState DEF Answer
  <2>2. CASE CallFails(c)
    BY <2>2 DEF CallFails
  <2> QED BY <2>1, <2>2
<1> DEFINE d == [c EXCEPT !.stage = stage, !.response = response]
<1>3. /\ d \in Calls /\ d.visit = c.visit /\ d.org = c.org
      /\ d.stage = stage /\ d.response = response
  BY <1>1 DEF Calls
<1>4. calls' = (calls \ {c}) \cup {d} /\ UNCHANGED <<rowVars, pageVars>>
  BY <1>2 DEF Proceed
<1> HIDE DEF d
<1>5. RowFacts'
  BY <1>4, RowFactsKept DEF rowVars
<1>6. ConsoleTypeOK'
  BY <1>3, <1>4 DEF ConsoleTypeOK, rowVars, pageVars
<1>7. PageInv'
  BY <1>2, <1>3, <1>4 DEF PageInv, CallsAreTrue, ShownIsOfThisVisit, pageVars
<1> QED BY <1>5, <1>6, <1>7

LEMMA PageStep ==
  ASSUME ConsoleInv,
         (\E c \in calls : Receiving(c)) \/ (\E o \in Organizations : Visit(o)) \/ Poll
  PROVE  ConsoleInv'
<1> USE ConsoleAssumption DEF ConsoleInv
<1>1. UNCHANGED <<ops, slots, shared>>
  BY DEF Receiving, Receive, ReceiveFailure, Visit, Poll, rowVars
<1>2. RowFacts'
  BY <1>1, RowFactsKept
<1>3. /\ visit \in 1..MaxVisits /\ org \in Organizations /\ calls \subseteq Calls
      /\ \A c \in calls : c.visit \in 1..MaxVisits /\ c.visit <= visit
  BY DEF ConsoleTypeOK, Calls, PageInv, CallsAreTrue
<1>4. ASSUME NEW c \in calls, Receiving(c) PROVE ConsoleTypeOK' /\ PageInv'
  <2>1. calls' = calls \ {c} /\ UNCHANGED <<visit, org>>
    BY <1>4 DEF Receiving, Receive, ReceiveFailure, pageVars
  <2>2. CASE Cancelled(c)
    <3>1. UNCHANGED pageVars /\ c.visit # visit
      BY <1>4, <2>2 DEF Receiving, Receive, ReceiveFailure, Cancelled
    <3> QED
      BY <1>1, <1>2, <2>1, <3>1
      DEF ConsoleTypeOK, pageVars, PageInv, CallsAreTrue, ShownIsOfThisVisit
  <2>3. CASE ~Cancelled(c)
    <3>1. c.visit = visit /\ c.org = org
      BY <2>3 DEF Cancelled, PageInv, CallsAreTrue
    <3>2. \A d \in calls' : d.visit # visit
      BY <2>1, <3>1 DEF ConsoleTypeOK
    <3>3. CASE Receive(c)
      <4>1. /\ shown' = c.response /\ timer' = Asks(c.response)
            /\ UNCHANGED <<captured, error>>
        BY <2>3, <3>3 DEF Receive
      <4>2. c.response \in States /\ c.response.org = org
        BY <3>1, <3>3 DEF Receive, PageInv, CallsAreTrue
      <4>3. shown' # NoState /\ shown'.org = org
        BY <4>1, <4>2 DEF States
      <4>4. PageInv'
        BY <2>1, <4>3 DEF PageInv, CallsAreTrue, ShownIsOfThisVisit
      <4> QED
        BY <1>1, <1>2, <2>1, <3>2, <4>1, <4>2, <4>4 DEF ConsoleTypeOK, Asks
    <3>4. CASE ReceiveFailure(c)
      <4>1. error' = TRUE /\ timer' = captured /\ UNCHANGED <<shown, captured>>
        BY <2>3, <3>4 DEF ReceiveFailure
      <4>2. PageInv'
        BY <2>1, <4>1 DEF PageInv, CallsAreTrue, ShownIsOfThisVisit
      <4> QED
        BY <1>1, <1>2, <2>1, <3>2, <4>1, <4>2 DEF ConsoleTypeOK
    <3> QED BY <1>4, <3>3, <3>4 DEF Receiving
  <2> QED BY <2>2, <2>3
<1>5. ASSUME visit' \in {visit, visit + 1}, visit' <= MaxVisits, org' \in Organizations,
             calls' = calls \cup {Call(visit', org')},
             \A c \in calls : c.visit # visit',
             shown' = shown, captured' \in BOOLEAN, error' = FALSE, timer' = FALSE
      PROVE  ConsoleTypeOK' /\ PageInv'
  <2>1. visit' \in 1..MaxVisits
    BY <1>3, <1>5
  <2>2. /\ Call(visit', org') \in Calls /\ Call(visit', org').visit = visit'
        /\ Call(visit', org').org = org' /\ Call(visit', org').stage = "sent"
    BY <1>5, <2>1, NewCall
  <2>3. ConsoleTypeOK'
    BY <1>1, <1>2, <1>5, <2>1, <2>2 DEF ConsoleTypeOK
  <2>4. \A c \in calls : c.visit <= visit'
    BY <1>3, <1>5
  <2>5. CallsAreTrue'
    <3>1. ASSUME NEW c \in calls
          PROVE  /\ c.visit <= visit' /\ c.visit # visit'
                 /\ c.stage = "answered" => c.response \in States /\ c.response.org = c.org
      BY <1>5, <2>4 DEF PageInv, CallsAreTrue
    <3>2. visit' <= visit'
      BY <2>1, ConsoleAssumption
    <3> QED BY <1>5, <2>2, <3>1, <3>2 DEF CallsAreTrue
  <2>6. ShownIsOfThisVisit'
    BY <1>5, <2>2 DEF ShownIsOfThisVisit
  <2> QED BY <2>3, <2>5, <2>6 DEF PageInv
<1>6. ASSUME NEW o \in Organizations, Visit(o) PROVE ConsoleTypeOK' /\ PageInv'
  <2>1. \A c \in calls : c.visit # visit + 1
    BY <1>3
  <2>2. /\ visit' = visit + 1 /\ visit' <= MaxVisits /\ org' = o
        /\ calls' = calls \cup {Call(visit', org')}
        /\ shown' = shown /\ captured' \in BOOLEAN /\ error' = FALSE /\ timer' = FALSE
    BY <1>3, <1>6 DEF Visit, Asks
  <2> QED BY <1>5, <2>1, <2>2
<1>7. ASSUME Poll PROVE ConsoleTypeOK' /\ PageInv'
  <2>1. \A c \in calls : c.visit # visit
    BY <1>7 DEF Poll, ConsoleTypeOK
  <2>2. /\ visit' = visit /\ visit' <= MaxVisits /\ org' \in Organizations
        /\ calls' = calls \cup {Call(visit', org')}
        /\ shown' = shown /\ captured' \in BOOLEAN /\ error' = FALSE /\ timer' = FALSE
    BY <1>3, <1>7 DEF Poll, ConsoleTypeOK
  <2> QED BY <1>5, <2>1, <2>2
<1> QED BY <1>2, <1>4, <1>6, <1>7

LEMMA ConsoleInit == Init => ConsoleInv
<1> SUFFICES ASSUME Init PROVE ConsoleInv
  OBVIOUS
<1> USE ConsoleAssumption DEF Init
<1>2. calls = {Call(1, org)} /\ visit = 1 /\ 1 \in 1..MaxVisits /\ org \in Organizations
  OBVIOUS
<1>3. Call(1, org) \in Calls /\ Call(1, org).visit = 1 /\ Call(1, org).org = org
      /\ Call(1, org).stage = "sent"
  BY <1>2, NewCall
<1>4. ConsoleTypeOK
  <2>1. ops = <<>> /\ slots = AllFree /\ shared = {} /\ shown = NoState /\ captured = FALSE
        /\ error = FALSE /\ timer = FALSE
    OBVIOUS
  <2>2. ops \in Seq(Row) /\ Len(ops) <= MaxOps
    BY <2>1
  <2>3. /\ slots \in [Slots -> {Free} \cup [row : 1..MaxOps, at : Positions]]
        /\ \A s \in Slots : slots[s] = Free
    BY <2>1 DEF AllFree
  <2> QED BY <1>2, <1>3, <2>1, <2>2, <2>3 DEF ConsoleTypeOK
<1>5. PageInv
  BY <1>2, <1>3 DEF PageInv, CallsAreTrue, ShownIsOfThisVisit
<1>6. RowFacts
  <2>1. ops = <<>> /\ \A s \in Slots : slots[s] = Free
    BY DEF AllFree
  <2> QED BY <2>1 DEF RowFacts, RetryFacts, Alone, SlotFacts, Free
<1> QED BY <1>4, <1>5, <1>6 DEF ConsoleInv

LEMMA ConsoleInvariant == Spec => []ConsoleInv
<1>1. ConsoleInv /\ [Next]_vars => ConsoleInv'
  <2> SUFFICES ASSUME ConsoleInv, [Next]_vars PROVE ConsoleInv'
    OBVIOUS
  <2>1. CASE UNCHANGED vars
    BY <2>1, RowFactsKept
    DEF vars, rowVars, pageVars, ConsoleInv, ConsoleTypeOK, PageInv, CallsAreTrue, ShownIsOfThisVisit
  <2>2. CASE Rows
    BY <2>2, RowsStep
  <2>3. CASE \E c \in calls : Answer(c) \/ CallFails(c)
    BY <2>3, RouteStep
  <2>4. CASE (\E c \in calls : Receiving(c)) \/ (\E o \in Organizations : Visit(o)) \/ Poll
    BY <2>4, PageStep
  <2> QED BY <2>1, <2>2, <2>3, <2>4 DEF Next
<1> QED BY <1>1, ConsoleInit, PTL DEF Spec

(* The variables keep their types, and a visit has one call or one timer.  *)
THEOREM ConsoleTypeCorrect == Spec => []ConsoleTypeOK
<1>1. ConsoleInv => ConsoleTypeOK
  BY DEF ConsoleInv
<1> QED BY <1>1, ConsoleInvariant, PTL

(* Once it has an answer the page shows the organization in the URL or an   *)
(* error, whatever answers come late.                                      *)
THEOREM ShownOfThisVisit == Spec => []ShownIsOfThisVisit
<1>1. ConsoleInv => ShownIsOfThisVisit
  BY DEF ConsoleInv, PageInv
<1> QED BY <1>1, ConsoleInvariant, PTL

(* Polling, dominance, overview and blockers agree on what is under way,    *)
(* and the overview loses sight of a retry only when its key has a stored   *)
(* result or two slots have had it at once.                                *)
THEOREM OverviewsAgree == Spec => []OverviewAgrees
<1>1. ConsoleInv => OverviewAgrees
  BY Agreement DEF ConsoleInv, RowFacts
<1> QED BY <1>1, ConsoleInvariant, PTL

-----------------------------------------------------------------------------
(* KeepsPolling, which the page does not keep, is true but for errors: what *)
(* is shown as under way is asked for again, by a timer or a request of    *)
(* this visit, unless the page says that it has failed.  So EndIsNoticed,  *)
(* as far as safety goes: the page never goes quiet on its own.            *)
ShownIsWatched ==
  shown # NoState /\ shown.active # {} =>
    error \/ timer \/ \E c \in calls : c.visit = visit

(* A response with something under way asks for polling.                   *)
AsksIfActive(state) == state # NoState /\ state.active # {} => Asks(state)

WatchInv ==
  /\ AsksIfActive(shown) /\ \A c \in calls : AsksIfActive(c.response)
  /\ Asks(shown) => error \/ timer \/ \E c \in calls : c.visit = visit

LEMMA WatchNext == ConsoleInv /\ WatchInv /\ [Next]_vars => WatchInv'
<1> SUFFICES ASSUME ConsoleInv, WatchInv, [Next]_vars PROVE WatchInv'
  OBVIOUS
<1>1. CASE UNCHANGED <<calls, pageVars>>
  BY <1>1 DEF WatchInv, AsksIfActive, Asks, pageVars
<1>2. ASSUME NEW c \in calls, Answer(c) \/ CallFails(c) PROVE WatchInv'
  <2>1. PICK stage, response :
          Proceed(c, stage, response) /\ AsksIfActive(response)
    <3>1. CASE Answer(c)
      <4>0. PICK worker \in WorkerStates :
              Proceed(c, "answered",
                      [org |-> c.org, active |-> Active(RowsOf(c.org)),
                       polling |-> Polling(RowsOf(c.org), c.org \in Linked, worker)])
        BY <3>1 DEF Answer
      <4> DEFINE s == [org |-> c.org, active |-> Active(RowsOf(c.org)),
                       polling |-> Polling(RowsOf(c.org), c.org \in Linked, worker)]
      <4>1. s.active # {} => s.polling = 3
        BY DEF Polling
      <4>2. AsksIfActive(s)
        BY <4>1 DEF AsksIfActive, Asks
      <4>3. Proceed(c, "answered", s)
        BY <4>0
      <4> HIDE DEF s
      <4> QED BY <4>2, <4>3
    <3>2. CASE CallFails(c)
      BY <3>2 DEF CallFails, AsksIfActive
    <3> QED BY <1>2, <3>1, <3>2
  <2> DEFINE d == [c EXCEPT !.stage = stage, !.response = response]
  <2>2. d.visit = c.visit /\ d.response = response
    <3>1. c \in Calls
      BY DEF ConsoleInv, ConsoleTypeOK
    <3> QED BY <3>1 DEF Calls
  <2>3. calls' = (calls \ {c}) \cup {d} /\ UNCHANGED pageVars
    BY <2>1 DEF Proceed
  <2> HIDE DEF d
  <2> QED BY <2>1, <2>2, <2>3 DEF WatchInv, AsksIfActive, Asks, pageVars
<1>3. ASSUME NEW c \in calls, Receiving(c) PROVE WatchInv'
  <2>1. calls' = calls \ {c} /\ UNCHANGED visit /\ AsksIfActive(c.response)
    BY <1>3 DEF Receiving, Receive, ReceiveFailure, pageVars, WatchInv
  <2>2. CASE Cancelled(c)
    <3>1. UNCHANGED pageVars /\ c.visit # visit
      BY <1>3, <2>2 DEF Receiving, Receive, ReceiveFailure, Cancelled
    <3> QED BY <2>1, <3>1 DEF WatchInv, AsksIfActive, Asks, pageVars
  <2>3. CASE ~Cancelled(c) /\ Receive(c)
    <3>1. shown' = c.response /\ timer' = Asks(c.response)
      BY <2>3 DEF Receive
    <3> QED BY <2>1, <3>1 DEF WatchInv, AsksIfActive, Asks
  <2>4. CASE ~Cancelled(c) /\ ReceiveFailure(c)
    <3>1. error' = TRUE /\ UNCHANGED shown
      BY <2>4 DEF ReceiveFailure
    <3> QED BY <2>1, <3>1 DEF WatchInv, AsksIfActive, Asks
  <2> QED BY <1>3, <2>2, <2>3, <2>4 DEF Receiving
<1>4. ASSUME (\E o \in Organizations : Visit(o)) \/ Poll PROVE WatchInv'
  <2>1. calls' = calls \cup {Call(visit', org')} /\ UNCHANGED shown
    BY <1>4 DEF Visit, Poll
  <2>2. Call(visit', org').visit = visit' /\ Call(visit', org').response = NoState
    BY DEF Call
  <2> QED BY <2>1, <2>2 DEF WatchInv, AsksIfActive, Asks
<1>5. ASSUME Rows \/ UNCHANGED vars PROVE UNCHANGED <<calls, pageVars>>
  <2>1. ASSUME NEW s \in Slots, NEW i \in DOMAIN ops, Hit(s, i) \/ Run(s, i) \/ Fail(s, i)
        PROVE  UNCHANGED <<calls, pageVars>>
    BY <2>1 DEF Hit, Run, Fail, InsertStep, UpdateStatus, Advance
  <2>2. ASSUME (\E o \in Organizations, kind \in KindsUsed : Create(o, kind))
               \/ (\E i \in DOMAIN ops : GrowsOld(i) \/ MarkQueued(i)) \/ \E s \in Slots : Abandon(s)
        PROVE  UNCHANGED <<calls, pageVars>>
    BY <2>2 DEF Create, GrowsOld, MarkQueued, Abandon
  <2> QED BY <1>5, <2>1, <2>2 DEF Rows, vars
<1> QED BY <1>1, <1>2, <1>3, <1>4, <1>5 DEF Next

(* Whatever fails, ends or is left: only an error ends the polling.        *)
THEOREM PageWatchesWhatItShows == Spec => []ShownIsWatched
<1>1. Init => WatchInv
  <2> SUFFICES ASSUME Init PROVE WatchInv
    OBVIOUS
  <2>1. shown = NoState /\ calls = {Call(1, org)} /\ Call(1, org).response = NoState
    BY DEF Init, Call
  <2> QED BY <2>1 DEF WatchInv, AsksIfActive, Asks
<1>2. WatchInv => ShownIsWatched
  BY DEF WatchInv, ShownIsWatched, AsksIfActive
<1> QED BY <1>1, <1>2, WatchNext, ConsoleInvariant, PTL DEF Spec
=============================================================================
