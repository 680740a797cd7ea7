------------------------------ MODULE LateProofs ------------------------------
(***************************************************************************)
(* Proofs about LateStatements: mutual exclusion and the retry budget of   *)
(* the pool survive statements that are run at any later time, because the *)
(* row of a job whose attempt has ended in an unanswered call stays as it  *)
(* is until that call takes effect.                                        *)
(***************************************************************************)
EXTENDS LateStatements, WorkerPoolProofs, FiniteSetTheorems

LateInv ==
    /\ TypeInv
    /\ CoreInv
    /\ flight \subseteq Statement
    /\ DecisionStands

LEMMA LateInitial == LateInit => LateInv
  BY TypeInit, CoreInit DEF LateInit, LateInv, DecisionStands

-------------------------------------------------------------------------------
(* Steps of the pool itself.                                               *)

(* A decision on its way stays right whatever the pool does: its job is in *)
(* nobody's hands, and an active row is not picked up.                     *)
LEMMA StandsStep ==
    ASSUME TypeInv, CoreInv, [Next]_vars,
           NEW s \in Statement, s.kind \in Decisive, Stands(s)
    PROVE  Stands(s)'
<1> DEFINE j == s.job
<1>a. j \in Jobs
  BY DEF Statement
<1>b. /\ status \in [Jobs -> Statuses] /\ retry \in [Jobs -> Nat]
      /\ pc \in [Workers -> PCs] /\ held \in [Workers -> Jobs \cup {NoJob}]
  BY DEF TypeInv, TypeOK, StoreTypeOK, WorkerTypeOK
<1>c. /\ status[j] \in Active
      /\ retry[j] = s.attempt
      /\ \A w \in Workers : held[w] = j => s.kind = "complete" /\ pc[w] = "report"
      /\ s.kind = "retry" => s.attempt < MaxRetry
      /\ s.kind = "fail" => s.attempt >= MaxRetry
  BY DEF Stands
<1>d. NoJob # j
  BY <1>a DEF NoJob, Jobs
<1> HIDE DEF j
<1>1. SUFFICES /\ status'[j] = status[j]
               /\ retry'[j] = retry[j]
               /\ \A w \in Workers : held'[w] = j => held[w] = j /\ pc'[w] = pc[w]
  BY <1>c DEF Stands, j
<1>2. CASE UNCHANGED vars
  BY <1>2 DEF vars, workerVars, claimVars, storeVars, jobVars
<1>3. ASSUME NEW i \in Jobs, Submit(i)
      PROVE  /\ status'[j] = status[j]
             /\ retry'[j] = retry[j]
             /\ UNCHANGED <<held, pc>>
  BY <1>a, <1>b, <1>c, <1>3 DEF Submit, Create, workerVars, claimVars, Active
<1>4. ASSUME NEW v \in Workers, Select(v)
      PROVE  /\ UNCHANGED <<status, retry>>
             /\ \A w \in Workers : held'[w] = j => held[w] = j /\ pc'[w] = pc[w]
  BY <1>b, <1>c, <1>4 DEF Select, Selectable, Goto, Active, storeVars, jobVars
<1>5. ASSUME NEW v \in Workers, pc[v] # "idle", pc[v] # "report",
             \/ Claim(v) \/ SetProgress(v) \/ ReadInput(v) \/ StartTool(v) \/ ToolKilled(v)
             \/ Persist(v) \/ Upload(v) \/ CopyLocal(v) \/ Record(v) \/ Complete(v)
             \/ LogError(v) \/ Settle(v) \/ ToolEnds(v)
      PROVE  /\ status'[j] = status[j]
             /\ retry'[j] = retry[j]
             /\ \A w \in Workers : held'[w] = j => held[w] = j /\ pc'[w] = pc[w]
  <2>1. held[v] \in Jobs /\ held[v] # j
    BY <1>c, <1>5, HolderHasJob DEF TypeInv
  <2>2. status'[j] = status[j] /\ retry'[j] = retry[j]
    BY <1>a, <1>b, <1>5, <2>1
       DEF Claim, SetProgress, ReadInput, StartTool, ToolKilled, Persist, Upload, CopyLocal,
           Record, Complete, LogError, Settle, ToolEnds, ToolSucceeds, ToolFails, MarkClaimed,
           UpdateStatus, UpdateError, IncrementRetry, Write, storeVars, jobVars
  <2>3. (UNCHANGED claimVars \/ Release(v)) /\ \A w \in Workers : w # v => pc'[w] = pc[w]
    BY <1>b, <1>5
       DEF Claim, SetProgress, ReadInput, StartTool, ToolKilled, Persist, Upload, CopyLocal,
           Record, Complete, LogError, Settle, ToolEnds, ToolSucceeds, ToolFails, Release, Goto
  <2>4. QED
    BY <1>b, <1>d, <2>1, <2>2, <2>3 DEF Release, claimVars
<1>6. ASSUME NEW v \in Workers, Report(v)
      PROVE  /\ UNCHANGED <<status, retry>>
             /\ \A w \in Workers : held'[w] = j => held[w] = j /\ pc'[w] = pc[w]
  BY <1>b, <1>d, <1>6 DEF Report, Release, Goto, jobVars
<1>7. ASSUME NEW v \in Workers, Expire(v) \/ PollEmpty(v)
      PROVE  UNCHANGED <<status, retry, held, pc>>
  BY <1>7 DEF Expire, PollEmpty, vars, workerVars, claimVars, storeVars, jobVars
<1>8. ASSUME Stop \/ Start \/ Exit
      PROVE  /\ UNCHANGED <<status, retry>>
             /\ \A w \in Workers : held'[w] = j => held[w] = j /\ pc'[w] = pc[w]
  BY <1>d, <1>8 DEF Stop, Start, Exit, workerVars, claimVars, storeVars, jobVars
<1>9. ASSUME NEW v \in Workers, OwnStep(v) \/ ToolEnds(v)
      PROVE  \/ Select(v) \/ Report(v)
             \/ /\ pc[v] # "idle" /\ pc[v] # "report"
                /\ \/ Claim(v) \/ SetProgress(v) \/ ReadInput(v) \/ StartTool(v)
                   \/ ToolKilled(v) \/ Persist(v) \/ Upload(v) \/ CopyLocal(v) \/ Record(v)
                   \/ Complete(v) \/ LogError(v) \/ Settle(v) \/ ToolEnds(v)
  BY <1>9 DEF OwnStep, ToolEnds, Claim, SetProgress, ReadInput, StartTool, ToolKilled, Persist,
              Upload, CopyLocal, Record, Complete, LogError, Settle, ToolSucceeds, ToolFails
<1>10. QED
  BY <1>2, <1>3, <1>4, <1>5, <1>6, <1>7, <1>8, <1>9 DEF Next

(* A step of the pool.                                                     *)
LEMMA PoolKeeps ==
    ASSUME LateInv, [Next]_vars, UNCHANGED flight
    PROVE  LateInv'
<1>1. TypeInv' /\ CoreInv'
  BY TypeStep, CoreStep DEF LateInv
<1>2. \A s \in flight : s.kind \in Decisive => Stands(s)'
  BY StandsStep DEF LateInv, DecisionStands
<1>3. QED
  BY <1>1, <1>2 DEF LateInv, DecisionStands, Stands

(* A statement is taken from the flight and leaves the pool alone.         *)
LEMMA LoseKeeps ==
    ASSUME LateInv, NEW s \in flight, Lose(s)
    PROVE  LateInv'
<1>1. TypeInv' /\ CoreInv'
  BY TypeStep, CoreStep DEF LateInv, Lose
<1>2. UNCHANGED <<status, retry, held, pc>> /\ flight' = flight \ {s}
  BY DEF Lose, vars, workerVars, claimVars, storeVars, jobVars
<1>3. QED
  BY <1>1, <1>2 DEF LateInv, DecisionStands, Stands

-------------------------------------------------------------------------------
(* A worker gives up waiting.                                              *)

LEMMA StatementType ==
    ASSUME TypeInv, CoreInv, NEW w \in Workers, pc[w] \in Writing
    PROVE  StatementOf(w) \in Statement
<1>1. held[w] \in Jobs
  BY HolderHasJob DEF TypeInv, Writing
<1>2. seenRetry[w] \in Nat
  BY DEF TypeInv, TypeOK, WorkerTypeOK
<1>3. KindAt(w) \in Kinds
  BY DEF KindAt, Kinds
<1>4. (IF KindAt(w) = "progress" THEN Milestone(TypeAt(w), pc[w]) ELSE 0) \in 0 .. 100
  BY MilestoneType
<1>5. QED
  BY <1>1, <1>2, <1>3, <1>4 DEF StatementOf, Statement

LEMMA GiveUpKeeps ==
    ASSUME LateInv, NEW w \in Workers, GiveUp(w)
    PROVE  LateInv'
<1>n. PICK n : n = StatementOf(w)
  OBVIOUS
<1>a. /\ pc[w] \in Writing /\ UNCHANGED storeVars /\ OwnStep(w)
      /\ flight' = flight \cup {n}
  BY <1>n DEF GiveUp
<1>b. /\ pc \in [Workers -> PCs] /\ held \in [Workers -> Jobs \cup {NoJob}]
      /\ seenRetry \in [Workers -> Nat]
      /\ TypeInv /\ CoreInv /\ DecisionStands
  BY DEF LateInv, TypeInv, TypeOK, WorkerTypeOK
<1>c. /\ held[w] \in Jobs /\ held[w] # NoJob /\ status[held[w]] \in Active
      /\ seenRetry[w] = retry[held[w]]
  BY <1>a, <1>b, HolderHasJob
     DEF TypeInv, CoreInv, RowFollowsHolder, SnapshotIsCurrent, Writing, ProcessPCs,
         HandlerPCs, NoJob, Jobs
<1>d. n \in Statement /\ n.job = held[w] /\ n.attempt = seenRetry[w] /\ n.kind = KindAt(w)
  BY <1>n, <1>a, <1>b, StatementType DEF StatementOf
<1>1. [Next]_vars
  BY <1>a DEF Next
<1>2. TypeInv' /\ CoreInv'
  BY <1>1, TypeStep, CoreStep DEF LateInv
<1>3. \A s \in flight : s.kind \in Decisive => Stands(s)' /\ s.job # held[w]
  <2> SUFFICES ASSUME NEW s \in flight, s.kind \in Decisive
               PROVE  Stands(s)' /\ s.job # held[w]
    OBVIOUS
  <2>1. s \in Statement /\ Stands(s)
    BY <1>b DEF LateInv, DecisionStands
  <2>2. s.job # held[w]
    BY <1>a, <2>1 DEF Stands, Writing
  <2>3. QED
    BY <1>1, <1>b, <2>1, <2>2, StandsStep
<1>4. \A v \in Workers : v # w => held[v] # held[w]
  BY <1>b, <1>c DEF CoreInv, ExclusiveClaim
<1>5. n.kind \in Decisive => Stands(n)'
  <2>1. UNCHANGED <<status, retry>>
    BY <1>a DEF storeVars, jobVars
  <2>2. CASE pc[w] = "complete"
    <3>1. Complete(w) /\ n.kind = "complete"
      BY <1>a, <1>d, <2>2
         DEF OwnStep, Select, Claim, SetProgress, ReadInput, StartTool, ToolKilled, Persist,
             Upload, CopyLocal, Record, Report, LogError, Settle, KindAt
    <3>2. held' = held /\ pc'[w] = "report"
      BY <1>b, <3>1 DEF Complete, Goto, AfterComplete, claimVars
    <3>3. QED
      BY <1>c, <1>d, <1>4, <2>1, <3>1, <3>2 DEF Stands
  <2>3. CASE pc[w] = "settle"
    <3>1. Settle(w) /\ n.kind = IF MayRetry(w) THEN "retry" ELSE "fail"
      BY <1>a, <1>d, <2>3
         DEF OwnStep, Select, Claim, SetProgress, ReadInput, StartTool, ToolKilled, Persist,
             Upload, CopyLocal, Record, Report, LogError, Complete, KindAt
    <3>2. held' = [held EXCEPT ![w] = NoJob]
      BY <3>1 DEF Settle, Release
    <3>3. \A v \in Workers : held'[v] # held[w]
      BY <1>b, <1>c, <1>4, <3>2
    <3>4. /\ n.kind = "retry" => seenRetry[w] < MaxRetry
          /\ n.kind = "fail" => seenRetry[w] >= MaxRetry
      BY <1>b, <3>1, MaxRetryAssumption DEF MayRetry
    <3>5. QED
      BY <1>c, <1>d, <2>1, <3>3, <3>4 DEF Stands
  <2>4. CASE pc[w] \notin {"complete", "settle"}
    <3>1. KindAt(w) \in {"output", "progress"}
      BY <2>4 DEF KindAt
    <3>2. QED
      BY <1>d, <3>1 DEF Decisive
  <2>5. QED
    BY <2>2, <2>3, <2>4
<1>6. DecisionStands'
  <2> SUFFICES ASSUME NEW s \in flight', s.kind \in Decisive
               PROVE  Stands(s)' /\ \A r \in flight' : r.job = s.job /\ r.kind \in Decisive => r = s
    BY DEF DecisionStands
  <2>1. CASE s = n
    BY <1>a, <1>d, <1>3, <1>5, <2>1
  <2>2. CASE s # n
    <3>1. s \in flight /\ Stands(s)' /\ s.job # n.job
      BY <1>a, <1>d, <1>3, <2>2
    <3>2. \A r \in flight : r.job = s.job /\ r.kind \in Decisive => r = s
      BY <1>b, <3>1 DEF DecisionStands
    <3>3. QED
      BY <1>a, <3>1, <3>2
  <2>3. QED
    BY <2>1, <2>2
<1>7. (flight \subseteq Statement)'
  BY <1>a, <1>d DEF LateInv
<1>8. QED
  BY <1>2, <1>6, <1>7 DEF LateInv

-------------------------------------------------------------------------------
(* A statement takes effect.                                               *)

LEMMA LandKeepsTypes ==
    ASSUME LateInv, NEW s \in flight, Land(s)
    PROVE  TypeInv'
<1>1. /\ s \in Statement /\ s.job \in Jobs /\ s.pct \in 0 .. 100
      /\ UNCHANGED <<proc, workerVars, eventVars, fileVars>>
      /\ Effect(s)
  BY DEF LateInv, Land, Statement
<1>2. StoreTypeOK
  BY DEF LateInv, TypeInv, TypeOK
<1>3. StoreTypeOK'
  <2>1. CASE s.kind = "progress" \/ s.kind = "complete"
    BY <1>1, <1>2, <2>1, ActiveStatusType
       DEF Effect, UpdateStatus, UpdateError, IncrementRetry, Write, Applied, StoreTypeOK,
           Statuses, Terminal, jobVars, eventVars
  <2>2. CASE s.kind \in {"output", "retry", "fail"}
    BY <1>1, <1>2, <2>2
       DEF Effect, UpdateError, IncrementRetry, Write, Applied, StoreTypeOK,
           Statuses, Terminal, jobVars, eventVars
  <2>3. QED
    BY <1>1, <2>1, <2>2 DEF Statement, Kinds
<1>4. QED
  BY <1>1, <1>3 DEF LateInv, TypeInv, TypeOK, WorkerTypeOK, FileTypeOK, HoldsJobUnlessIdle,
                    workerVars, claimVars, fileVars

(* What it does to the rows of its job and of the others.                  *)
LEMMA LandEffect ==
    ASSUME LateInv, NEW s \in flight, Land(s)
    PROVE  /\ \A i \in Jobs : i # s.job =>
                /\ status'[i] = status[i] /\ retry'[i] = retry[i] /\ outputs'[i] = outputs[i]
           /\ s.kind = "progress" => status'[s.job] \in Active
           /\ s.kind = "output" => status'[s.job] = status[s.job]
           /\ s.kind = "complete" => status'[s.job] = "completed"
           /\ s.kind = "retry" => status'[s.job] = "queued"
           /\ s.kind = "fail" => status'[s.job] = "failed"
           /\ retry'[s.job] = IF s.kind = "retry" THEN retry[s.job] + 1 ELSE retry[s.job]
           /\ outputs'[s.job] = IF s.kind = "output" THEN outputs[s.job] + 1 ELSE outputs[s.job]
<1> DEFINE j == s.job
<1>1. /\ j \in Jobs /\ s.kind \in Kinds
      /\ status \in [Jobs -> Statuses] /\ retry \in [Jobs -> Nat] /\ outputs \in [Jobs -> Nat]
  BY DEF LateInv, TypeInv, TypeOK, StoreTypeOK, Statement
<1>2. /\ s.kind = "progress" =>
            UpdateStatus("ok", j, ActiveStatus(JobType[j]), s.pct) /\ UNCHANGED outputs
      /\ s.kind = "output" => UNCHANGED jobVars /\ outputs' = [outputs EXCEPT ![j] = @ + 1]
      /\ s.kind = "complete" => UpdateStatus("ok", j, "completed", 100) /\ UNCHANGED outputs
      /\ s.kind = "retry" => IncrementRetry("ok", j) /\ UNCHANGED outputs
      /\ s.kind = "fail" => UpdateError("ok", j) /\ UNCHANGED outputs
  BY DEF Land, Effect
<1> HIDE DEF j
<1>3. /\ \A i \in Jobs : i # j =>
            /\ status'[i] = status[i] /\ retry'[i] = retry[i] /\ outputs'[i] = outputs[i]
      /\ s.kind = "progress" => status'[j] \in Active
      /\ s.kind = "output" => status'[j] = status[j]
      /\ s.kind = "complete" => status'[j] = "completed"
      /\ s.kind = "retry" => status'[j] = "queued"
      /\ s.kind = "fail" => status'[j] = "failed"
  BY <1>1, <1>2, ActiveStatusType
     DEF UpdateStatus, IncrementRetry, UpdateError, Write, Applied, jobVars, Kinds
<1>4. /\ retry'[j] = IF s.kind = "retry" THEN retry[j] + 1 ELSE retry[j]
      /\ outputs'[j] = IF s.kind = "output" THEN outputs[j] + 1 ELSE outputs[j]
  BY <1>1, <1>2 DEF UpdateStatus, IncrementRetry, UpdateError, Write, Applied, jobVars, Kinds
<1>5. QED
  BY <1>3, <1>4 DEF j

LEMMA LandKeeps ==
    ASSUME LateInv, NEW s \in flight, Land(s)
    PROVE  LateInv'
<1> DEFINE j == s.job
<1>a. /\ s \in Statement /\ j \in Jobs
      /\ UNCHANGED <<pc, held, seenRetry>> /\ flight' = flight \ {s}
      /\ ~Locked(j) /\ Effect(s)
  BY DEF LateInv, Land, Statement, Blocked, workerVars, claimVars
<1>b. /\ status \in [Jobs -> Statuses] /\ retry \in [Jobs -> Nat]
      /\ pc \in [Workers -> PCs] /\ held \in [Workers -> Jobs \cup {NoJob}]
      /\ ExclusiveClaim /\ RowFollowsHolder /\ SnapshotIsCurrent /\ RetryBudget
      /\ \A w \in Workers : held[w] = NoJob <=> pc[w] = "idle"
  BY DEF LateInv, TypeInv, TypeOK, StoreTypeOK, WorkerTypeOK, CoreInv, HoldsJobUnlessIdle
<1>c. s.kind \in Decisive =>
        /\ status[j] \in Active /\ retry[j] = s.attempt
        /\ \A w \in Workers : held[w] = j => s.kind = "complete" /\ pc[w] = "report"
        /\ s.kind = "retry" => s.attempt < MaxRetry
        /\ s.kind = "fail" => s.attempt >= MaxRetry
        /\ \A r \in flight : r.job = j /\ r.kind \in Decisive => r = s
  BY DEF LateInv, DecisionStands, Stands
<1> HIDE DEF j
<1>1. /\ \A i \in Jobs : i # j => status'[i] = status[i] /\ retry'[i] = retry[i]
      /\ s.kind = "progress" => status'[j] \in Active /\ retry'[j] = retry[j]
      /\ s.kind = "output" => status'[j] = status[j] /\ retry'[j] = retry[j]
      /\ s.kind = "complete" => status'[j] = "completed" /\ retry'[j] = retry[j]
      /\ s.kind = "retry" => status'[j] = "queued" /\ retry'[j] = retry[j] + 1
      /\ s.kind = "fail" => status'[j] = "failed" /\ retry'[j] = retry[j]
  BY LandEffect DEF j
<1>2. s.kind \in {"progress", "output", "complete", "retry", "fail"}
  BY <1>a DEF Statement, Kinds
<1>3. ExclusiveClaim'
  BY <1>a, <1>b DEF ExclusiveClaim
<1>4. RowFollowsHolder'
  <2> SUFFICES ASSUME NEW w \in Workers, held[w] = j
               PROVE  /\ pc[w] = "claim" => status'[j] = "queued"
                      /\ pc[w] \in ProcessPCs => \/ status'[j] \in Active
                                                 \/ pc[w] = "report" /\ status'[j] = "completed"
    <3>1. \A w \in Workers : pc[w] # "idle" => held[w] \in Jobs
      BY <1>b
    <3>2. QED
      BY <1>a, <1>b, <1>1, <3>1 DEF RowFollowsHolder, ProcessPCs, HandlerPCs
  <2>1. pc[w] # "claim"
    BY <1>a DEF Locked
  <2>2. pc[w] \in ProcessPCs => \/ status[j] \in Active
                                \/ pc[w] = "report" /\ status[j] = "completed"
    BY <1>b DEF RowFollowsHolder
  <2>3. QED
    BY <1>c, <1>1, <1>2, <2>1, <2>2 DEF Decisive
<1>5. SnapshotIsCurrent'
  <2>1. \A w \in Workers : held[w] = j => retry'[j] = retry[j]
    BY <1>c, <1>1, <1>2 DEF Decisive
  <2>2. \A w \in Workers : pc[w] # "idle" => held[w] \in Jobs
    BY <1>b
  <2>3. QED
    BY <1>a, <1>b, <1>1, <2>1, <2>2 DEF SnapshotIsCurrent
<1>6. RetryBudget'
  <2>1. /\ retry'[j] = 0 \/ retry'[j] <= MaxRetry
        /\ status'[j] = "failed" => retry'[j] >= MaxRetry
    <3>1. /\ retry[j] = 0 \/ retry[j] <= MaxRetry
          /\ status[j] = "failed" => retry[j] >= MaxRetry
      BY <1>a, <1>b DEF RetryBudget
    <3>2. s.kind = "retry" => retry[j] + 1 <= MaxRetry
      BY <1>a, <1>b, <1>c, MaxRetryAssumption DEF Decisive
    <3>3. QED
      BY <1>c, <1>1, <1>2, <3>1, <3>2 DEF Decisive, Active
  <2>2. QED
    BY <1>b, <1>1, <2>1 DEF RetryBudget
<1>7. ASSUME NEW r \in flight, r # s, r.kind \in Decisive
      PROVE  Stands(r)'
  <2>1. Stands(r) /\ r.job \in Jobs
    BY <1>7 DEF LateInv, DecisionStands, Statement
  <2>2. r.job = j => s.kind \in {"progress", "output"}
    BY <1>c, <1>2, <1>7 DEF Decisive
  <2>3. status'[r.job] \in Active /\ retry'[r.job] = retry[r.job]
    BY <1>1, <2>1, <2>2 DEF Stands
  <2>4. QED
    BY <1>a, <2>1, <2>3 DEF Stands
<1>8. DecisionStands'
  BY <1>a, <1>7 DEF LateInv, DecisionStands
<1>9. QED
  BY <1>a, <1>3, <1>4, <1>5, <1>6, <1>8, LandKeepsTypes DEF LateInv, CoreInv

LEMMA LateStep == LateInv /\ [LateNext]_lateVars => LateInv'
<1>1. ASSUME LateInv, UNCHANGED lateVars
      PROVE  LateInv'
  BY <1>1, PoolKeeps DEF lateVars
<1>2. QED
  BY <1>1, PoolKeeps, GiveUpKeeps, LandKeeps, LoseKeeps DEF LateNext

(* With late statements too, no job is ever in the hands of two workers.   *)
THEOREM LateClaimsAreExclusive == LateSpec => []ExclusiveClaim
<1>1. LateInv => ExclusiveClaim
  BY DEF LateInv, CoreInv
<1>2. QED
  BY <1>1, LateInitial, LateStep, PTL DEF LateSpec

(* A late retry or a late failure does not make a job exceed MAX_RETRIES,  *)
(* nor fail before its retries are used up.                                *)
THEOREM LateRetriesAreBounded == LateSpec => []RetryBudget
<1>1. LateInv => RetryBudget
  BY DEF LateInv, CoreInv
<1>2. QED
  BY <1>1, LateInitial, LateStep, PTL DEF LateSpec

(* Whatever happens while it is under way, the statement that ends an      *)
(* attempt finds the row as the attempt left it.                           *)
THEOREM LateDecisionsStand == LateSpec => []DecisionStands
<1>1. LateInv => DecisionStands
  BY DEF LateInv
<1>2. QED
  BY <1>1, LateInitial, LateStep, PTL DEF LateSpec

-------------------------------------------------------------------------------
(* The number of statements under way is bounded.                          *)

FewInFlight ==
    IsFiniteSet(flight) /\ Cardinality(flight) \in Nat /\ Cardinality(flight) <= MaxFlight

LEMMA FewInitially == LateInit => FewInFlight
  BY FS_EmptySet, MaxFlightAssumption DEF LateInit, FewInFlight

LEMMA FewStep == FewInFlight /\ [LateNext]_lateVars => FewInFlight'
<1> SUFFICES ASSUME FewInFlight, [LateNext]_lateVars
             PROVE  FewInFlight'
  OBVIOUS
<1>1. ASSUME NEW s \in flight, flight' = flight \ {s}
      PROVE  FewInFlight'
  <2>1. /\ IsFiniteSet(flight \ {s})
        /\ Cardinality(flight \ {s}) = Cardinality(flight) - 1
    BY FS_RemoveElement DEF FewInFlight
  <2>2. Cardinality(flight \ {s}) \in Nat
    BY <2>1, FS_CardinalityType
  <2>3. QED
    BY <1>1, <2>1, <2>2, MaxFlightAssumption DEF FewInFlight
<1>2. ASSUME NEW w \in Workers, GiveUp(w)
      PROVE  FewInFlight'
  <2> DEFINE n == StatementOf(w)
  <2>1. Cardinality(flight) < MaxFlight /\ flight' = flight \cup {n}
    BY <1>2 DEF GiveUp
  <2> HIDE DEF n
  <2>2. /\ IsFiniteSet(flight \cup {n})
        /\ Cardinality(flight \cup {n}) \in {Cardinality(flight), Cardinality(flight) + 1}
    BY FS_AddElement DEF FewInFlight
  <2>3. QED
    BY <2>1, <2>2, MaxFlightAssumption DEF FewInFlight
<1>3. ASSUME UNCHANGED flight
      PROVE  FewInFlight'
  BY <1>3 DEF FewInFlight
<1>4. QED
  BY <1>1, <1>2, <1>3 DEF LateNext, Land, Lose, lateVars

(* Statements under way are of the kinds the store has, for known jobs,    *)
(* with percentages that fit the column, and at most MaxFlight of them.    *)
THEOREM LateTypes == LateSpec => []FlightTypeOK
<1>1. LateInv /\ FewInFlight => FlightTypeOK
  BY DEF LateInv, FewInFlight, FlightTypeOK
<1>2. QED
  BY <1>1, LateInitial, LateStep, FewInitially, FewStep, PTL DEF LateSpec

-------------------------------------------------------------------------------
(* Queued again is what an active job becomes, and no other.               *)

LEMMA PoolNeverRequeues ==
    ASSUME TypeInv, CoreInv, [Next]_vars, NEW j \in Jobs, status[j] \in Terminal
    PROVE  status'[j] # "queued"
<1>a. status \in [Jobs -> Statuses] /\ status[j] \notin Active /\ status[j] # "queued"
  BY DEF TypeInv, TypeOK, StoreTypeOK, Terminal, Active
<1>1. ASSUME NEW w \in Workers, Claim(w) \/ SetProgress(w) \/ Complete(w)
      PROVE  status'[j] # "queued"
  BY <1>a, <1>1, ActiveStatusType
     DEF Claim, SetProgress, Complete, MarkClaimed, UpdateStatus, Write, Active
<1>2. ASSUME NEW w \in Workers, Settle(w)
      PROVE  status'[j] # "queued"
  <2>1. held[w] # j
    BY <1>a, <1>2 DEF Settle, CoreInv, RowFollowsHolder, ProcessPCs
  <2>2. QED
    BY <1>a, <1>2, <2>1 DEF Settle, IncrementRetry, UpdateError, Write
<1>3. ASSUME NEW i \in Jobs, Submit(i)
      PROVE  status'[j] # "queued"
  BY <1>a, <1>3 DEF Submit, Create, Terminal
<1>4. ASSUME UNCHANGED status
      PROVE  status'[j] # "queued"
  BY <1>a, <1>4
<1>5. ASSUME NEW w \in Workers, OwnStep(w) \/ ToolEnds(w) \/ PollEmpty(w) \/ Expire(w)
      PROVE  Claim(w) \/ SetProgress(w) \/ Complete(w) \/ Settle(w) \/ UNCHANGED status
  BY <1>5 DEF OwnStep, ToolEnds, PollEmpty, Expire, Select, ReadInput, StartTool, ToolSucceeds,
              ToolFails, ToolKilled, Persist, Upload, CopyLocal, Record, Report, LogError,
              vars, storeVars, jobVars
<1>6. ASSUME Stop \/ Start \/ Exit \/ UNCHANGED vars
      PROVE  UNCHANGED status
  BY <1>6 DEF Stop, Start, Exit, vars, storeVars, jobVars
<1>7. QED
  BY <1>1, <1>2, <1>3, <1>4, <1>5, <1>6 DEF Next

LEMMA NoStepRequeues ==
    ASSUME LateInv, [LateNext]_lateVars
    PROVE  \A j \in Jobs : status[j] \in Terminal => status'[j] # "queued"
<1> SUFFICES ASSUME NEW j \in Jobs, status[j] \in Terminal
             PROVE  status'[j] # "queued"
  OBVIOUS
<1>1. ASSUME NEW s \in flight, Land(s)
      PROVE  status'[j] # "queued"
  <2>1. status \in [Jobs -> Statuses] /\ status[j] # "queued" /\ status[j] \notin Active
    BY DEF LateInv, TypeInv, TypeOK, StoreTypeOK, Terminal, Active
  <2>2. s.kind = "retry" => s.job # j
    BY <2>1 DEF LateInv, DecisionStands, Stands, Decisive
  <2>3. QED
    BY <1>1, <2>1, <2>2, ActiveStatusType
       DEF Land, Effect, UpdateStatus, UpdateError, IncrementRetry, Write, Active, jobVars
<1>2. ASSUME [Next]_vars
      PROVE  status'[j] # "queued"
  BY <1>2, PoolNeverRequeues DEF LateInv
<1>3. QED
  BY <1>1, <1>2 DEF LateNext, lateVars, GiveUp, Lose, Next

(* No statement, in time or late, puts a completed or failed job back into *)
(* the queue.                                                              *)
THEOREM LateNeverRequeued == LateSpec => NeverRequeued
<1>1. LateInv /\ [LateNext]_lateVars
        => [\A j \in Jobs : status[j] \in Terminal => status'[j] # "queued"]_lateVars
  BY NoStepRequeues
<1>2. QED
  BY <1>1, LateInitial, LateStep, PTL DEF LateSpec, NeverRequeued

-------------------------------------------------------------------------------
(* How many outputs there can be.  A statement of an attempt is counted    *)
(* from the moment it is sent, wherever it is.                             *)

Allowed(j) == retry[j] + IF Unsent(j) THEN 0 ELSE 1

(* A worker that sends its output, with whatever answer.                   *)
LEMMA SendsOutput ==
    ASSUME TypeInv, CoreInv, NEW w \in Workers, pc[w] \in {"persist", "record"},
           OwnStep(w) \/ ToolEnds(w), NEW j \in Jobs, held[w] = j
    PROVE  /\ outputs'[j] \in {outputs[j], outputs[j] + 1} /\ retry'[j] = retry[j]
           /\ Unsent(j) /\ ~Unsent(j)'
<1>1. /\ outputs \in [Jobs -> Nat] /\ pc \in [Workers -> PCs] /\ j # NoJob
  BY DEF TypeInv, TypeOK, StoreTypeOK, WorkerTypeOK, NoJob, Jobs
<1>2. Persist(w) \/ Record(w)
  BY DEF OwnStep, ToolEnds, Select, Claim, SetProgress, ReadInput, StartTool, ToolKilled,
         Upload, CopyLocal, Complete, Report, LogError, Settle, ToolSucceeds, ToolFails
<1>3. UNCHANGED <<status, retry>> /\ outputs'[j] \in {outputs[j], outputs[j] + 1}
  BY <1>1, <1>2 DEF Persist, Record, BulkCreate, CreateAsset, Write, jobVars
<1>4. pc'[w] \in {"complete", "error"}
  BY <1>1, <1>2 DEF Persist, Record, Goto, AfterPersist
<1>5. /\ \A v \in Workers : v # w => held'[v] # j
      /\ status[j] \in Active
  BY <1>1, WorkerStepIsLocal DEF CoreInv, ExclusiveClaim, RowFollowsHolder, ProcessPCs, HandlerPCs
<1>6. Unsent(j)
  BY DEF Unsent, HandlerPCs
<1>7. ~Unsent(j)'
  BY <1>3, <1>4, <1>5 DEF Unsent, Active, HandlerPCs
<1>8. QED
  BY <1>3, <1>6, <1>7

(* What one step of the pool does to the account of job j: nothing that    *)
(* makes it tighter; or its attempt sends its output; or it is retried.    *)
LEMMA PoolAccount ==
    ASSUME TypeInv, CoreInv, [Next]_vars, NEW j \in Jobs
    PROVE  \/ outputs'[j] = outputs[j] /\ retry'[j] = retry[j] /\ (Unsent(j)' => Unsent(j))
           \/ /\ outputs'[j] \in {outputs[j], outputs[j] + 1} /\ retry'[j] = retry[j]
              /\ Unsent(j) /\ ~Unsent(j)'
           \/ outputs'[j] = outputs[j] /\ retry'[j] = retry[j] + 1 /\ ~Unsent(j)
<1> DEFINE Before == HandlerPCs \ {"complete", "report"}
<1>a. /\ status \in [Jobs -> Statuses] /\ retry \in [Jobs -> Nat] /\ outputs \in [Jobs -> Nat]
      /\ pc \in [Workers -> PCs] /\ held \in [Workers -> Jobs \cup {NoJob}]
      /\ j # NoJob
  BY DEF TypeInv, TypeOK, StoreTypeOK, WorkerTypeOK, NoJob, Jobs
<1>b. Unsent(j) <=> \/ status[j] \in {"absent", "queued"}
                    \/ \E w \in Workers : held[w] = j /\ pc[w] \in Before
  BY DEF Unsent
<1>c. Unsent(j)' <=> \/ status'[j] \in {"absent", "queued"}
                     \/ \E w \in Workers : held'[w] = j /\ pc'[w] \in Before
  BY DEF Unsent
<1> DEFINE Looser == outputs'[j] = outputs[j] /\ retry'[j] = retry[j] /\ (Unsent(j)' => Unsent(j))
<1>1. ASSUME NEW i \in Jobs, Submit(i)
      PROVE  Looser
  BY <1>a, <1>b, <1>c, <1>1 DEF Submit, Create, workerVars, claimVars
<1>2. ASSUME NEW v \in Workers, Select(v)
      PROVE  Looser
  BY <1>a, <1>b, <1>c, <1>2
     DEF Select, Selectable, Goto, HandlerPCs, storeVars, jobVars
<1>3. ASSUME UNCHANGED <<pc, held, seenRetry, storeVars, fileVars>>
      PROVE  Looser
  BY <1>b, <1>c, <1>3 DEF storeVars, jobVars
<1>4. ASSUME Exit
      PROVE  Looser
  BY <1>a, <1>b, <1>c, <1>4 DEF Exit, storeVars, jobVars
<1>5. ASSUME NEW v \in Workers, pc[v] # "idle", OwnStep(v) \/ ToolEnds(v), held[v] # j
      PROVE  Looser
  <2>1. /\ status'[j] = status[j] /\ retry'[j] = retry[j] /\ outputs'[j] = outputs[j]
        /\ \A w \in Workers : w # v => pc'[w] = pc[w] /\ held'[w] = held[w]
        /\ UNCHANGED held \/ Release(v)
    BY <1>5, WorkerStepIsLocal
  <2>2. held'[v] # j
    BY <1>a, <1>5, <2>1 DEF Release
  <2>3. QED
    BY <1>b, <1>c, <2>1, <2>2
<1>6. ASSUME NEW v \in Workers, pc[v] # "idle", OwnStep(v) \/ ToolEnds(v), held[v] = j
      PROVE  \/ Looser
             \/ /\ outputs'[j] \in {outputs[j], outputs[j] + 1} /\ retry'[j] = retry[j]
                /\ Unsent(j) /\ ~Unsent(j)'
             \/ outputs'[j] = outputs[j] /\ retry'[j] = retry[j] + 1 /\ ~Unsent(j)
  <2>1. /\ \A w \in Workers : w # v => held[w] # j /\ held'[w] # j
        /\ pc[v] = "claim" => status[j] = "queued"
        /\ pc[v] \in ProcessPCs => \/ status[j] \in Active
                                   \/ pc[v] = "report" /\ status[j] = "completed"
    BY <1>a, <1>6, WorkerStepIsLocal DEF CoreInv, ExclusiveClaim, RowFollowsHolder
  <2>2. CASE pc[v] = "claim"
    <3>1. Claim(v)
      BY <1>6, <2>2
         DEF OwnStep, ToolEnds, Select, SetProgress, ReadInput, StartTool, ToolKilled, Persist,
             Upload, CopyLocal, Record, Complete, Report, LogError, Settle, ToolSucceeds, ToolFails
    <3>2. UNCHANGED <<outputs, retry>>
      BY <3>1 DEF Claim, MarkClaimed
    <3>3. QED
      BY <1>b, <2>1, <2>2, <3>2
  <2>3. CASE pc[v] \in Before \ {"persist", "record"}
    <3>1. SetProgress(v) \/ ReadInput(v) \/ StartTool(v) \/ ToolKilled(v) \/ Upload(v)
            \/ CopyLocal(v) \/ ToolEnds(v)
      BY <1>6, <2>3
         DEF OwnStep, Select, Claim, Persist, Record, Complete, Report, LogError, Settle,
             HandlerPCs
    <3>2. UNCHANGED <<outputs, retry>>
      BY <3>1 DEF SetProgress, ReadInput, StartTool, ToolKilled, Upload, CopyLocal, ToolEnds,
                  ToolSucceeds, ToolFails, UpdateStatus, storeVars, jobVars
    <3>3. QED
      BY <1>6, <1>b, <2>3, <3>2
  <2>4. CASE pc[v] \in {"persist", "record"}
    BY <1>6, <2>4, SendsOutput
  <2>5. CASE pc[v] \in {"complete", "report", "error"}
    <3>1. Complete(v) \/ Report(v) \/ LogError(v)
      BY <1>6, <2>5
         DEF OwnStep, ToolEnds, Select, Claim, SetProgress, ReadInput, StartTool, ToolKilled,
             Persist, Upload, CopyLocal, Record, Settle, ToolSucceeds, ToolFails
    <3>2. UNCHANGED <<outputs, retry>>
      BY <3>1 DEF Complete, Report, LogError, UpdateStatus, jobVars
    <3>3. status'[j] \in {status[j], "completed"}
      BY <1>a, <1>6, <3>1 DEF Complete, Report, LogError, UpdateStatus, Write, jobVars
    <3>4. pc'[v] \in {"report", "idle", "settle"}
      BY <1>a, <3>1 DEF Complete, Report, LogError, Release, Goto, AfterComplete
    <3>5. ~Unsent(j)'
      BY <1>c, <2>1, <2>5, <3>3, <3>4 DEF Active, ProcessPCs, HandlerPCs
    <3>6. QED
      BY <3>2, <3>5
  <2>6. CASE pc[v] = "settle"
    <3>1. Settle(v)
      BY <1>6, <2>6
         DEF OwnStep, ToolEnds, Select, Claim, SetProgress, ReadInput, StartTool, ToolKilled,
             Persist, Upload, CopyLocal, Record, Complete, Report, LogError, ToolSucceeds, ToolFails
    <3>2. outputs'[j] = outputs[j]
      BY <3>1 DEF Settle
    <3>3. \/ retry'[j] = retry[j] + 1
          \/ retry'[j] = retry[j] /\ status'[j] \in {status[j], "failed"}
      BY <1>a, <1>6, <3>1 DEF Settle, IncrementRetry, UpdateError, Write
    <3>4. ~Unsent(j)
      BY <1>b, <1>6, <2>1, <2>6 DEF Active, ProcessPCs, HandlerPCs
    <3>5. pc'[v] = "idle"
      BY <1>a, <3>1 DEF Settle, Release, Goto
    <3>6. status'[j] \in {status[j], "failed"} => ~Unsent(j)'
      BY <1>c, <2>1, <2>6, <3>5 DEF Active, ProcessPCs, HandlerPCs
    <3>7. QED
      BY <3>2, <3>3, <3>4, <3>6
  <2>7. pc[v] \in PCs \ {"idle"}
    BY <1>a, <1>6
  <2>8. QED
    BY <2>2, <2>3, <2>4, <2>5, <2>6, <2>7 DEF PCs, ProcessPCs, HandlerPCs
<1>7. QED
  BY <1>1, <1>2, <1>3, <1>4, <1>5, <1>6, StepKinds

LEMMA InFlightType ==
    ASSUME FewInFlight, NEW j
    PROVE  IsFiniteSet(OutputsInFlight(j)) /\ Cardinality(OutputsInFlight(j)) \in Nat
  BY FS_Subset, FS_CardinalityType DEF FewInFlight, OutputsInFlight

(* The account of job j as a fact about integers, n being the number of    *)
(* its outputs in flight.                                                  *)
LEMMA StillCounted ==
    ASSUME LateInv, LateInv', NEW j \in Jobs, NEW n \in Nat, NEW m \in Nat,
           outputs[j] + n <= Allowed(j),
           outputs'[j] + m - (outputs[j] + n) <= Allowed(j)' - Allowed(j)
    PROVE  outputs'[j] + m <= Allowed(j)'
<1>1. outputs[j] \in Nat /\ outputs'[j] \in Nat /\ retry[j] \in Nat /\ retry'[j] \in Nat
  BY DEF LateInv, TypeInv, TypeOK, StoreTypeOK
<1>2. Allowed(j) \in Nat /\ Allowed(j)' \in Nat
  BY <1>1 DEF Allowed
<1>3. QED
  BY <1>1, <1>2

LEMMA CountedPool ==
    ASSUME LateInv, LateInv', FewInFlight, OutputsAreCounted, [Next]_vars, UNCHANGED flight
    PROVE  OutputsAreCounted'
<1> SUFFICES ASSUME NEW j \in Jobs
             PROVE  outputs'[j] + Cardinality(OutputsInFlight(j))' <= Allowed(j)'
  BY DEF OutputsAreCounted, Allowed
<1>1. PICK n \in Nat : n = Cardinality(OutputsInFlight(j))
  BY InFlightType
<1>2. Cardinality(OutputsInFlight(j))' = n
  BY <1>1 DEF OutputsInFlight
<1>3. outputs[j] + n <= Allowed(j)
  BY <1>1 DEF OutputsAreCounted, Allowed
<1>4. outputs[j] \in Nat /\ outputs'[j] \in Nat /\ retry[j] \in Nat /\ retry'[j] \in Nat
  BY DEF LateInv, TypeInv, TypeOK, StoreTypeOK
<1>5. outputs'[j] + n - (outputs[j] + n) <= Allowed(j)' - Allowed(j)
  BY <1>4, PoolAccount DEF Allowed, LateInv
<1>6. QED
  BY <1>2, <1>3, <1>5, StillCounted

LEMMA CountedGiveUp ==
    ASSUME LateInv, LateInv', FewInFlight, OutputsAreCounted, NEW w \in Workers, GiveUp(w)
    PROVE  OutputsAreCounted'
<1> SUFFICES ASSUME NEW j \in Jobs
             PROVE  outputs'[j] + Cardinality(OutputsInFlight(j))' <= Allowed(j)'
  BY DEF OutputsAreCounted, Allowed
<1>1. PICK n \in Nat : n = Cardinality(OutputsInFlight(j))
  BY InFlightType
<1>2. outputs[j] + n <= Allowed(j)
  BY <1>1 DEF OutputsAreCounted, Allowed
<1>3. /\ outputs[j] \in Nat /\ retry[j] \in Nat
      /\ UNCHANGED <<outputs, retry>>
  BY DEF LateInv, TypeInv, TypeOK, StoreTypeOK, GiveUp, storeVars, jobVars
<1>4. [Next]_vars /\ TypeInv /\ CoreInv /\ OwnStep(w) /\ flight' = flight \cup {StatementOf(w)}
  BY DEF GiveUp, Next, LateInv
<1>5. CASE pc[w] \in {"persist", "record"} /\ held[w] = j
  <2>1. Unsent(j) /\ ~Unsent(j)'
    BY <1>4, <1>5, SendsOutput
  <2>2. PICK x : x = StatementOf(w)
    OBVIOUS
  <2>3. OutputsInFlight(j)' \subseteq OutputsInFlight(j) \cup {x}
    BY <1>4, <2>2 DEF OutputsInFlight
  <2>4. /\ IsFiniteSet(OutputsInFlight(j) \cup {x})
        /\ Cardinality(OutputsInFlight(j) \cup {x}) \in {n, n + 1}
    BY <1>1, InFlightType, FS_AddElement
  <2>5. PICK m \in Nat : m = Cardinality(OutputsInFlight(j))' /\ m <= n + 1
    <3>1. PICK k \in Nat : k = Cardinality(OutputsInFlight(j) \cup {x}) /\ k <= n + 1
      BY <1>1, <2>4
    <3>2. /\ IsFiniteSet(OutputsInFlight(j)')
          /\ Cardinality(OutputsInFlight(j)') <= Cardinality(OutputsInFlight(j) \cup {x})
      BY <2>3, <2>4, FS_Subset
    <3>3. PICK m \in Nat : m = Cardinality(OutputsInFlight(j)')
      BY <3>2, FS_CardinalityType
    <3>4. m <= n + 1
      BY <1>1, <3>1, <3>2, <3>3
    <3>5. QED
      BY <3>3, <3>4
  <2>6. outputs'[j] + m - (outputs[j] + n) <= Allowed(j)' - Allowed(j)
    BY <1>1, <1>3, <2>1, <2>5 DEF Allowed
  <2>7. QED
    BY <1>2, <2>5, <2>6, StillCounted
<1>6. CASE ~(pc[w] \in {"persist", "record"} /\ held[w] = j)
  <2>1. StatementOf(w).job = held[w] /\ StatementOf(w).kind = KindAt(w)
    BY DEF StatementOf
  <2>2. ~(StatementOf(w).kind = "output" /\ StatementOf(w).job = j)
    BY <1>6, <2>1 DEF KindAt
  <2>3. OutputsInFlight(j)' = OutputsInFlight(j)
    BY <1>4, <2>2 DEF OutputsInFlight
  <2>4. outputs'[j] + n - (outputs[j] + n) <= Allowed(j)' - Allowed(j)
    BY <1>1, <1>3, <1>4, PoolAccount DEF Allowed
  <2>5. Cardinality(OutputsInFlight(j))' = n
    BY <1>1, <2>3
  <2>6. QED
    BY <1>2, <2>4, <2>5, StillCounted
<1>7. QED
  BY <1>5, <1>6

LEMMA CountedLand ==
    ASSUME LateInv, LateInv', FewInFlight, OutputsAreCounted, NEW s \in flight, Land(s)
    PROVE  OutputsAreCounted'
<1> SUFFICES ASSUME NEW j \in Jobs
             PROVE  outputs'[j] + Cardinality(OutputsInFlight(j))' <= Allowed(j)'
  BY DEF OutputsAreCounted, Allowed
<1>1. PICK n \in Nat : n = Cardinality(OutputsInFlight(j))
  BY InFlightType
<1>2. outputs[j] + n <= Allowed(j)
  BY <1>1 DEF OutputsAreCounted, Allowed
<1>3. outputs[j] \in Nat /\ retry[j] \in Nat
  BY DEF LateInv, TypeInv, TypeOK, StoreTypeOK
<1>4. UNCHANGED <<pc, held>> /\ flight' = flight \ {s} /\ s.kind \in Kinds
  BY DEF Land, workerVars, claimVars, LateInv, Statement
<1>5. Unsent(j)' => Unsent(j) \/ (s.kind = "retry" /\ s.job = j)
  <2>1. status'[j] \in {"absent", "queued"} =>
            status'[j] = status[j] \/ (s.kind = "retry" /\ s.job = j)
    BY <1>4, LandEffect DEF Kinds, Active
  <2>2. QED
    BY <1>4, <2>1 DEF Unsent
<1>6. CASE s.kind = "output" /\ s.job = j
  <2>1. s \in OutputsInFlight(j) /\ OutputsInFlight(j)' = OutputsInFlight(j) \ {s}
    BY <1>4, <1>6 DEF OutputsInFlight
  <2>2. Cardinality(OutputsInFlight(j))' = n - 1
    BY <1>1, <2>1, InFlightType, FS_RemoveElement
  <2>3. PICK m \in Nat : m = Cardinality(OutputsInFlight(j))' /\ m = n - 1
    <3>1. IsFiniteSet(OutputsInFlight(j) \ {s})
      BY InFlightType, FS_RemoveElement
    <3>2. QED
      BY <2>1, <2>2, <3>1, FS_CardinalityType
  <2>4. outputs'[j] = outputs[j] + 1 /\ retry'[j] = retry[j]
    BY <1>6, LandEffect
  <2>5. outputs'[j] + m - (outputs[j] + n) <= Allowed(j)' - Allowed(j)
    BY <1>1, <1>3, <1>5, <1>6, <2>3, <2>4 DEF Allowed
  <2>6. QED
    BY <1>2, <2>3, <2>5, StillCounted
<1>7. CASE ~(s.kind = "output" /\ s.job = j)
  <2>1. OutputsInFlight(j)' = OutputsInFlight(j)
    BY <1>4, <1>7 DEF OutputsInFlight
  <2>2. outputs'[j] = outputs[j]
    BY <1>7, LandEffect
  <2>3. retry'[j] = IF s.kind = "retry" /\ s.job = j THEN retry[j] + 1 ELSE retry[j]
    BY LandEffect
  <2>4. outputs'[j] + n - (outputs[j] + n) <= Allowed(j)' - Allowed(j)
    BY <1>1, <1>3, <1>5, <2>2, <2>3 DEF Allowed
  <2>5. Cardinality(OutputsInFlight(j))' = n
    BY <1>1, <2>1
  <2>6. QED
    BY <1>2, <2>4, <2>5, StillCounted
<1>8. QED
  BY <1>6, <1>7

LEMMA CountedLose ==
    ASSUME LateInv, LateInv', FewInFlight, OutputsAreCounted, NEW s \in flight, Lose(s)
    PROVE  OutputsAreCounted'
<1> SUFFICES ASSUME NEW j \in Jobs
             PROVE  outputs'[j] + Cardinality(OutputsInFlight(j))' <= Allowed(j)'
  BY DEF OutputsAreCounted, Allowed
<1>1. PICK n \in Nat : n = Cardinality(OutputsInFlight(j))
  BY InFlightType
<1>2. outputs[j] + n <= Allowed(j)
  BY <1>1 DEF OutputsAreCounted, Allowed
<1>3. /\ outputs[j] \in Nat /\ retry[j] \in Nat
      /\ UNCHANGED <<status, outputs, retry, pc, held>> /\ flight' \subseteq flight
  BY DEF LateInv, TypeInv, TypeOK, StoreTypeOK, Lose, vars, storeVars, jobVars, workerVars,
         claimVars
<1>4. OutputsInFlight(j)' \subseteq OutputsInFlight(j)
  BY <1>3 DEF OutputsInFlight
<1>5. PICK m \in Nat : m = Cardinality(OutputsInFlight(j))' /\ m <= n
  BY <1>1, <1>4, InFlightType, FS_Subset, FS_CardinalityType
<1>6. Unsent(j)' <=> Unsent(j)
  BY <1>3 DEF Unsent
<1>7. outputs'[j] + m - (outputs[j] + n) <= Allowed(j)' - Allowed(j)
  BY <1>1, <1>3, <1>5, <1>6 DEF Allowed
<1>8. QED
  BY <1>2, <1>5, <1>7, StillCounted

LEMMA CountedInit == LateInit => OutputsAreCounted
<1> SUFFICES ASSUME LateInit, NEW j \in Jobs
             PROVE  outputs[j] + Cardinality(OutputsInFlight(j)) <= Allowed(j)
  BY DEF OutputsAreCounted, Allowed
<1>1. OutputsInFlight(j) = {}
  BY DEF LateInit, OutputsInFlight
<1>2. outputs[j] = 0 /\ Allowed(j) \in Nat
  BY DEF LateInit, Init, StoreInit, Allowed
<1>3. QED
  BY <1>1, <1>2, FS_EmptySet

LEMMA CountedStep ==
    LateInv /\ FewInFlight /\ OutputsAreCounted /\ [LateNext]_lateVars => OutputsAreCounted'
<1> SUFFICES ASSUME LateInv, FewInFlight, OutputsAreCounted, [LateNext]_lateVars
             PROVE  OutputsAreCounted'
  OBVIOUS
<1>1. LateInv'
  BY LateStep
<1>2. CASE [Next]_vars /\ UNCHANGED flight
  BY <1>1, <1>2, CountedPool
<1>3. QED
  BY <1>1, <1>2, CountedGiveUp, CountedLand, CountedLose DEF LateNext, lateVars

(* However late an INSERT is, a job has at most one output for each of its *)
(* attempts.                                                               *)
THEOREM LateDeliveriesAreCounted == LateSpec => []SingleDelivery
<1>1. LateInv /\ FewInFlight /\ OutputsAreCounted => SingleDelivery
  <2> SUFFICES ASSUME LateInv, FewInFlight, OutputsAreCounted, NEW j \in Jobs
               PROVE  outputs[j] <= retry[j] + 1
    BY LateFaultsAssumption DEF SingleDelivery
  <2>1. outputs[j] \in Nat /\ retry[j] \in Nat
    BY DEF LateInv, TypeInv, TypeOK, StoreTypeOK
  <2>2. PICK n \in Nat : n = Cardinality(OutputsInFlight(j))
    BY InFlightType
  <2>3. outputs[j] + n <= retry[j] + IF Unsent(j) THEN 0 ELSE 1
    BY <2>2 DEF OutputsAreCounted
  <2>4. QED
    BY <2>1, <2>2, <2>3
<1>2. QED
  BY <1>1, LateInitial, LateStep, FewInitially, FewStep, CountedInit, CountedStep, PTL
     DEF LateSpec

-------------------------------------------------------------------------------
(* Completed means delivered, even so.                                     *)

EarnedAt(w) ==
    /\ pc[w] = "persist" => Analyzing(w)
    /\ pc[w] \in {"upload", "copying", "record"} => ~Analyzing(w)
    /\ pc[w] = "record" => blob[held[w]] = "whole"
    /\ pc[w] \in {"complete", "report"} => HasOutput(held[w])

(* Only a worker that is about to upload can take a job's output away.     *)
LEMMA OutputKept ==
    ASSUME TypeInv, [Next]_vars, NEW j \in Jobs, HasOutput(j),
           \A w \in Workers : held[w] = j => pc[w] # "upload"
    PROVE  HasOutput(j)'
<1>a. outputs \in [Jobs -> Nat] /\ blob \in [Jobs -> Contents]
  BY DEF TypeInv, TypeOK, StoreTypeOK, FileTypeOK
<1>1. ASSUME NEW v \in Workers, pc[v] # "idle", OwnStep(v) \/ ToolEnds(v)
      PROVE  outputs'[j] >= outputs[j] /\ blob'[j] \in {blob[j], "whole"}
  <2>1. CASE held[v] # j
    BY <1>a, <1>1, <2>1, WorkerStepIsLocal
  <2>2. CASE held[v] = j
    <3>1. CASE Persist(v)
      BY <1>a, <2>2, <3>1 DEF Persist, BulkCreate, Write, fileVars
    <3>2. CASE Record(v)
      BY <1>a, <2>2, <3>2 DEF Record, CreateAsset, Write
    <3>3. CASE CopyLocal(v)
      BY <1>a, <2>2, <3>3 DEF CopyLocal, LocalCopy, storeVars
    <3>4. CASE Upload(v)
      BY <2>2, <3>4 DEF Upload
    <3>5. CASE ~(Persist(v) \/ Record(v) \/ CopyLocal(v) \/ Upload(v))
      <4>1. UNCHANGED <<outputs, blob>>
        BY <1>1, <3>5
           DEF OwnStep, ToolEnds, Select, Claim, SetProgress, ReadInput, StartTool, ToolKilled,
               Complete, Report, LogError, Settle, ToolSucceeds, ToolFails, BeginOutput,
               EndOutput, storeVars, fileVars
      <4>2. QED
        BY <1>a, <4>1
    <3>6. QED
      BY <3>1, <3>2, <3>3, <3>4, <3>5
  <2>3. QED
    BY <2>1, <2>2
<1>2. ASSUME \/ \E i \in Jobs : Submit(i)
             \/ \E w \in Workers : Select(w)
             \/ Exit
             \/ UNCHANGED <<pc, held, seenRetry, storeVars, fileVars>>
      PROVE  UNCHANGED <<outputs, blob>>
  BY <1>2 DEF Submit, Select, Exit, storeVars, fileVars
<1>3. outputs'[j] >= outputs[j] /\ blob'[j] \in {blob[j], "whole"}
  BY <1>a, <1>1, <1>2, StepKinds
<1>4. outputs[j] \in Nat /\ outputs'[j] \in Int
  BY <1>a, TypeStep DEF TypeInv, TypeOK, StoreTypeOK
<1>5. QED
  BY <1>3, <1>4 DEF HasOutput

(* A worker earns what the place it goes to stands for.                    *)
LEMMA EarnsItsPlace ==
    ASSUME TypeInv, CoreInv, NEW w \in Workers, pc[w] # "idle", OwnStep(w) \/ ToolEnds(w),
           EarnedAt(w)
    PROVE  EarnedAt(w)'
<1>a. /\ outputs \in [Jobs -> Nat] /\ blob \in [Jobs -> Contents]
      /\ pc \in [Workers -> PCs] /\ held[w] \in Jobs
  BY HolderHasJob DEF TypeInv, TypeOK, StoreTypeOK, FileTypeOK, WorkerTypeOK
<1>b. EarnedAt(w)' <=>
        /\ pc'[w] = "persist" => JobType[held'[w]] = "analyze"
        /\ pc'[w] \in {"upload", "copying", "record"} => JobType[held'[w]] # "analyze"
        /\ pc'[w] = "record" => blob'[held'[w]] = "whole"
        /\ pc'[w] \in {"complete", "report"} =>
               outputs'[held'[w]] > 0
                 /\ (JobType[held'[w]] # "analyze" => blob'[held'[w]] = "whole")
  BY DEF EarnedAt, Analyzing, TypeAt, HasOutput
<1>1. CASE SetProgress(w)
  BY <1>a, <1>b, <1>1 DEF SetProgress, Goto, AfterMilestone, claimVars, TypeAt
<1>2. CASE Persist(w)
  BY <1>a, <1>b, <1>2
     DEF Persist, BulkCreate, Goto, AfterPersist, Acked, Applied, Write, claimVars, EarnedAt,
         Analyzing, TypeAt
<1>3. CASE Upload(w)
  BY <1>a, <1>b, <1>3
     DEF Upload, PutObject, LocalCreate, Goto, Acked, Applied, Write, claimVars, EarnedAt,
         Analyzing, TypeAt
<1>4. CASE CopyLocal(w)
  BY <1>a, <1>b, <1>4
     DEF CopyLocal, LocalCopy, Goto, claimVars, EarnedAt, Analyzing, TypeAt
<1>5. CASE Record(w)
  BY <1>a, <1>b, <1>5
     DEF Record, CreateAsset, Goto, Acked, Applied, Write, claimVars, EarnedAt, Analyzing, TypeAt
<1>6. CASE Complete(w)
  BY <1>a, <1>b, <1>6
     DEF Complete, UpdateStatus, Goto, AfterComplete, claimVars, EarnedAt, HasOutput, fileVars
<1>7. CASE Claim(w) \/ ReadInput(w) \/ StartTool(w) \/ ToolKilled(w) \/ Report(w) \/ LogError(w)
             \/ Settle(w) \/ ToolEnds(w)
  <2>1. pc'[w] \in {"begin", "idle", "announce", "error", "running", "settle", "encoded", "deliver"}
    BY <1>a, <1>7 DEF Claim, ReadInput, StartTool, ToolKilled, Report, LogError, Settle, ToolEnds,
                      ToolSucceeds, ToolFails, Release, Goto
  <2>2. QED
    BY <1>b, <2>1
<1>8. QED
  BY <1>1, <1>2, <1>3, <1>4, <1>5, <1>6, <1>7 DEF OwnStep, Select

LEMMA EarnedPool ==
    ASSUME LateInv, CompletionsAreEarned, [Next]_vars
    PROVE  /\ \A w \in Workers : EarnedAt(w)'
           /\ \A s \in flight : s.kind = "complete" => HasOutput(s.job)'
           /\ \A j \in Jobs : status'[j] = "completed" => HasOutput(j)'
<1>a. /\ TypeInv /\ CoreInv
      /\ status \in [Jobs -> Statuses]
      /\ pc \in [Workers -> PCs] /\ held \in [Workers -> Jobs \cup {NoJob}]
      /\ \A w \in Workers : pc[w] # "idle" => held[w] \in Jobs
  BY HolderHasJob DEF LateInv, TypeInv, TypeOK, StoreTypeOK, WorkerTypeOK
<1>b. \A w \in Workers : EarnedAt(w)
  BY DEF CompletionsAreEarned, EarnedAt
<1>c. \A v, w \in Workers : v # w /\ pc[v] # "idle" => held[w] # held[v]
  BY <1>a DEF CoreInv, ExclusiveClaim, NoJob, Jobs
<1>1. ASSUME NEW w \in Workers, pc'[w] = pc[w], held'[w] = held[w], pc[w] # "idle",
             blob'[held[w]] = blob[held[w]]
      PROVE  EarnedAt(w)'
  <2>1. PICK j \in Jobs : j = held[w]
    BY <1>a, <1>1
  <2>2. pc[w] \in {"complete", "report"} => HasOutput(j)'
    <3>1. pc[w] \in {"complete", "report"} =>
              HasOutput(j) /\ \A v \in Workers : held[v] = j => pc[v] # "upload"
      BY <1>b, <1>c, <1>1, <2>1 DEF EarnedAt
    <3>2. QED
      BY <1>a, <3>1, OutputKept
  <2>3. QED
    BY <1>1, <1>b, <2>1, <2>2 DEF EarnedAt, Analyzing, TypeAt, HasOutput
<1>2. ASSUME NEW w \in Workers, pc'[w] \in {"idle", "claim"}
      PROVE  EarnedAt(w)'
  BY <1>2 DEF EarnedAt
<1>3. \A w \in Workers : EarnedAt(w)'
  <2>1. ASSUME NEW v \in Workers, pc[v] # "idle", OwnStep(v) \/ ToolEnds(v), NEW w \in Workers
        PROVE  EarnedAt(w)'
    <3>1. CASE w = v
      BY <1>a, <1>b, <2>1, <3>1, EarnsItsPlace
    <3>2. CASE w # v /\ pc[w] # "idle"
      <4>1. pc'[w] = pc[w] /\ held'[w] = held[w] /\ held[w] \in Jobs /\ held[w] # held[v]
        BY <1>a, <1>c, <2>1, <3>2, WorkerStepIsLocal
      <4>2. QED
        BY <1>1, <1>a, <2>1, <3>2, <4>1, WorkerStepIsLocal
    <3>3. CASE w # v /\ pc[w] = "idle"
      BY <1>2, <1>a, <2>1, <3>3, WorkerStepIsLocal
    <3>4. QED
      BY <3>1, <3>2, <3>3
  <2>2. ASSUME NEW v \in Workers, Select(v), NEW w \in Workers
        PROVE  EarnedAt(w)'
    BY <1>1, <1>2, <1>a, <2>2 DEF Select, Goto, fileVars
  <2>3. ASSUME (\E i \in Jobs : Submit(i)) \/ UNCHANGED <<pc, held, seenRetry, storeVars, fileVars>>,
               NEW w \in Workers
        PROVE  EarnedAt(w)'
    <3>1. UNCHANGED <<pc, held, blob>>
      BY <2>3 DEF Submit, workerVars, claimVars, fileVars
    <3>2. QED
      BY <1>1, <1>2, <3>1
  <2>4. ASSUME Exit, NEW w \in Workers
        PROVE  EarnedAt(w)'
    BY <1>2, <2>4 DEF Exit
  <2>5. QED
    BY <2>1, <2>2, <2>3, <2>4, StepKinds
<1>4. ASSUME NEW s \in flight, s.kind = "complete"
      PROVE  HasOutput(s.job)'
  <2>1. /\ s.job \in Jobs /\ HasOutput(s.job)
        /\ \A w \in Workers : held[w] = s.job => pc[w] = "report"
    BY <1>4 DEF LateInv, Statement, CompletionsAreEarned, DecisionStands, Decisive, Stands
  <2>2. QED
    BY <1>a, <2>1, OutputKept
<1>5. ASSUME NEW j \in Jobs, status'[j] = "completed"
      PROVE  HasOutput(j)'
  <2>1. CASE status[j] = "completed"
    <3>1. HasOutput(j)
      BY <2>1 DEF CompletionsAreEarned
    <3>2. \A w \in Workers : held[w] = j => pc[w] # "upload"
      BY <1>a, <2>1 DEF CoreInv, RowFollowsHolder, ProcessPCs, HandlerPCs, Active
    <3>3. QED
      BY <1>a, <3>1, <3>2, OutputKept
  <2>2. CASE status[j] # "completed"
    <3>1. PICK w \in Workers : Complete(w) /\ held[w] = j
      <4>1. ASSUME NEW w \in Workers, pc[w] # "idle", OwnStep(w) \/ ToolEnds(w)
            PROVE  Complete(w) /\ held[w] = j
        <5>1. held[w] = j
          BY <1>5, <1>a, <2>2, <4>1, WorkerStepIsLocal
        <5>2. Complete(w)
          BY <1>5, <1>a, <2>2, <4>1, <5>1, ActiveStatusType
             DEF OwnStep, ToolEnds, Select, Claim, SetProgress, ReadInput, StartTool, ToolKilled,
                 Persist, Upload, CopyLocal, Record, Report, LogError, Settle, ToolSucceeds,
                 ToolFails, MarkClaimed, UpdateStatus, UpdateError, IncrementRetry, Write,
                 storeVars, jobVars, Active
        <5>3. QED
          BY <5>1, <5>2
      <4>2. ASSUME \/ \E w \in Workers : Select(w)
                   \/ Exit
                   \/ UNCHANGED <<pc, held, seenRetry, storeVars, fileVars>>
            PROVE  FALSE
        BY <1>5, <2>2, <4>2 DEF Select, Exit, storeVars, jobVars
      <4>3. ASSUME NEW i \in Jobs, Submit(i)
            PROVE  FALSE
        BY <1>5, <1>a, <2>2, <4>3 DEF Submit, Create
      <4>4. QED
        BY <4>1, <4>2, <4>3, StepKinds
    <3>2. HasOutput(j) /\ \A v \in Workers : held[v] = j => pc[v] # "upload"
      BY <1>b, <1>c, <3>1 DEF EarnedAt, Complete
    <3>3. QED
      BY <1>a, <3>2, OutputKept
  <2>3. QED
    BY <2>1, <2>2
<1>6. QED
  BY <1>3, <1>4, <1>5

LEMMA EarnedInit == LateInit => CompletionsAreEarned
  BY DEF LateInit, Init, StoreInit, CompletionsAreEarned

LEMMA EarnedStep == LateInv /\ CompletionsAreEarned /\ [LateNext]_lateVars => CompletionsAreEarned'
<1> SUFFICES ASSUME LateInv, CompletionsAreEarned, [LateNext]_lateVars
             PROVE  CompletionsAreEarned'
  OBVIOUS
<1>a. CompletionsAreEarned' <=>
        /\ \A w \in Workers : EarnedAt(w)'
        /\ \A s \in flight' : s.kind = "complete" => HasOutput(s.job)'
        /\ \A j \in Jobs : status'[j] = "completed" => HasOutput(j)'
  BY DEF CompletionsAreEarned, EarnedAt
<1>1. ASSUME [Next]_vars, flight' \subseteq flight
      PROVE  CompletionsAreEarned'
  BY <1>a, <1>1, EarnedPool
<1>2. ASSUME NEW w \in Workers, GiveUp(w)
      PROVE  CompletionsAreEarned'
  <2> PICK n : n = StatementOf(w)
    OBVIOUS
  <2>1. [Next]_vars /\ OwnStep(w) /\ flight' = flight \cup {n} /\ pc[w] \in Writing
    BY <1>2 DEF GiveUp, Next
  <2>2. n.kind = "complete" => HasOutput(n.job)'
    <3>1. n.kind = KindAt(w) /\ n.job = held[w]
      BY DEF StatementOf
    <3>2. KindAt(w) = "complete" => pc[w] = "complete"
      BY DEF KindAt
    <3>3. PICK j : j = held[w]
      OBVIOUS
    <3>4. pc[w] = "complete" => HasOutput(j)'
      <4>1. SUFFICES ASSUME pc[w] = "complete"
                     PROVE  HasOutput(j)'
        OBVIOUS
      <4>2. j \in Jobs /\ HasOutput(j)
        BY <3>3, <4>1, HolderHasJob DEF LateInv, TypeInv, CompletionsAreEarned
      <4>3. \A v \in Workers : held[v] = j => pc[v] # "upload"
        BY <3>3, <4>1, <4>2 DEF LateInv, CoreInv, ExclusiveClaim, NoJob, Jobs
      <4>4. QED
        BY <2>1, <4>2, <4>3, OutputKept DEF LateInv
    <3>5. QED
      BY <3>1, <3>2, <3>3, <3>4
  <2>3. QED
    BY <1>a, <2>1, <2>2, EarnedPool
<1>3. ASSUME NEW s \in flight, Land(s)
      PROVE  CompletionsAreEarned'
  <2>1. /\ UNCHANGED <<pc, held, blob>> /\ flight' \subseteq flight
        /\ s.job \in Jobs /\ s.kind \in Kinds
    BY <1>3 DEF Land, workerVars, claimVars, fileVars, LateInv, Statement
  <2>2. /\ outputs \in [Jobs -> Nat] /\ outputs' \in [Jobs -> Nat]
        /\ \A w \in Workers : pc[w] # "idle" => held[w] \in Jobs
    <3>1. LateInv'
      BY LateStep
    <3>2. QED
      BY <3>1, HolderHasJob DEF LateInv, TypeInv, TypeOK, StoreTypeOK
  <2>3. \A j \in Jobs : HasOutput(j) => HasOutput(j)'
    <3>1. \A j \in Jobs : outputs'[j] \in {outputs[j], outputs[j] + 1}
      BY <1>3, LandEffect
    <3>2. QED
      BY <2>1, <2>2, <3>1 DEF HasOutput
  <2>4. \A w \in Workers : EarnedAt(w)'
    <3> SUFFICES ASSUME NEW w \in Workers
                 PROVE  EarnedAt(w)'
      OBVIOUS
    <3>1. PICK j : j = held[w]
      OBVIOUS
    <3>2. pc[w] \in {"complete", "report"} => HasOutput(j)'
      BY <2>2, <2>3, <3>1 DEF CompletionsAreEarned
    <3>3. QED
      BY <2>1, <3>1, <3>2 DEF EarnedAt, CompletionsAreEarned, Analyzing, TypeAt, HasOutput
  <2>5. \A r \in flight' : r.kind = "complete" => HasOutput(r.job)'
    BY <2>1, <2>3 DEF CompletionsAreEarned, LateInv, Statement
  <2>6. \A j \in Jobs : status'[j] = "completed" => HasOutput(j)'
    <3> SUFFICES ASSUME NEW j \in Jobs, status'[j] = "completed"
                 PROVE  HasOutput(j)'
      OBVIOUS
    <3>1. status[j] = "completed" \/ (s.kind = "complete" /\ s.job = j)
      BY <1>3, <2>1, LandEffect DEF Kinds, Active
    <3>2. QED
      BY <2>3, <3>1 DEF CompletionsAreEarned
  <2>7. QED
    BY <1>a, <2>4, <2>5, <2>6
<1>4. QED
  BY <1>1, <1>2, <1>3 DEF LateNext, Lose, lateVars

(* Even when every statement may take effect later than its attempt lived, *)
(* a client that sees "completed" can have the result.                     *)
THEOREM LateCompletionsAreDelivered == LateSpec => []CompletedHasOutput
<1>1. CompletionsAreEarned => CompletedHasOutput
  BY DEF CompletionsAreEarned, HasOutput, CompletedHasOutput
<1>2. QED
  BY <1>1, LateInitial, LateStep, EarnedInit, EarnedStep, PTL DEF LateSpec

(* The account of outputs and the grounds of completions, as invariants of *)
(* their own.                                                              *)
THEOREM LateDeliveryHolds == LateSpec => []LateDelivery
  BY LateInitial, LateStep, FewInitially, FewStep, CountedInit, CountedStep, EarnedInit,
     EarnedStep, PTL DEF LateSpec, LateDelivery
===============================================================================
