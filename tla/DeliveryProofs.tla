---------------------------- MODULE DeliveryProofs ----------------------------
(***************************************************************************)
(* Proofs about what WorkerPool delivers: outputs, objects and the final   *)
(* states of jobs.  They rest on WorkerPoolProofs, which shows that a      *)
(* job's row, outputs and files are touched by one worker at a time.       *)
(***************************************************************************)
EXTENDS WorkerPoolProofs

LEMMA DeliveryInit == Init => DeliveryInv
  BY BackendAssumption
     DEF Init, StoreInit, FileInit, DeliveryInv, JobDelivery, NoJob, Jobs

(* The job of a worker that moves is the only one whose delivery can       *)
(* change, and it is judged by where the worker is afterwards.             *)
LEMMA DeliveryMoves ==
    ASSUME TypeInv, ExclusiveClaim, DeliveryInv,
           NEW w \in Workers, NEW j \in Jobs, NEW p,
           pc[w] # "idle", held[w] = j,
           \/ Goto(w, p) /\ UNCHANGED held
           \/ p = "idle" /\ Release(w),
           \A i \in Jobs : i # j => /\ status'[i] = status[i] /\ retry'[i] = retry[i]
                                    /\ outputs'[i] = outputs[i] /\ blob'[i] = blob[i],
           JobDelivery(j, p)'
    PROVE  DeliveryInv'
<1> USE DEF TypeInv, TypeOK, WorkerTypeOK
<1>1. /\ pc' = [pc EXCEPT ![w] = p]
      /\ held'[w] = j \/ (p = "idle" /\ held'[w] = NoJob)
      /\ \A v \in Workers : v # w => held'[v] = held[v] /\ held[v] # j
  BY DEF Release, Goto, ExclusiveClaim, NoJob, Jobs
<1>2. ASSUME NEW i \in Jobs, i # j
      PROVE  /\ (\A v \in Workers : held[v] # i)' => JobDelivery(i, "idle")'
             /\ \A v \in Workers : (held[v] = i)' => JobDelivery(i, pc[v])'
  <2>1. \A q : JobDelivery(i, q) => JobDelivery(i, q)'
    BY <1>2 DEF JobDelivery
  <2>2. \A v \in Workers : held'[v] = i <=> held[v] = i
    BY <1>1, <1>2 DEF NoJob, Jobs
  <2>3. \A v \in Workers : held[v] = i => pc'[v] = pc[v]
    BY <1>1, <1>2
  <2>4. ASSUME NEW v \in Workers, held'[v] = i
        PROVE  JobDelivery(i, pc[v])'
    <3>1. JobDelivery(i, pc[v]) /\ pc'[v] = pc[v]
      BY <2>2, <2>3, <2>4 DEF DeliveryInv
    <3>2. QED
      BY <1>2, <3>1 DEF JobDelivery
  <2>5. QED
    BY <2>1, <2>2, <2>4 DEF DeliveryInv
<1>3. /\ (\A v \in Workers : held[v] # j)' => JobDelivery(j, "idle")'
      /\ \A v \in Workers : (held[v] = j)' => JobDelivery(j, pc[v])'
  <2>1. ASSUME NEW v \in Workers, held'[v] = j
        PROVE  JobDelivery(j, pc[v])'
    <3>1. pc'[v] = p
      BY <1>1, <2>1
    <3>2. QED
      BY <3>1 DEF JobDelivery
  <2>2. QED
    BY <1>1, <2>1
<1>4. QED
  BY <1>2, <1>3 DEF DeliveryInv

LEMMA DeliveryStep == TypeInv /\ CoreInv /\ DeliveryInv /\ [Next]_vars => DeliveryInv'
<1> SUFFICES ASSUME TypeInv, CoreInv, DeliveryInv, [Next]_vars
             PROVE  DeliveryInv'
  OBVIOUS
<1>a. ASSUME NEW w \in Workers, pc[w] # "idle"
      PROVE  held[w] \in Jobs /\ JobDelivery(held[w], pc[w])
  BY <1>a, HolderHasJob DEF TypeInv, DeliveryInv
<1>b. ASSUME NEW w \in Workers, pc[w] \in (HandlerPCs \ {"report"}) \cup {"error", "settle"}
      PROVE  pc[w] # "idle" /\ status[held[w]] \in Active
  <2>1. pc[w] \in ProcessPCs /\ pc[w] # "report" /\ pc[w] # "idle"
    BY <1>b DEF ProcessPCs, HandlerPCs
  <2>2. QED
    BY <2>1 DEF CoreInv, RowFollowsHolder
<1>c. /\ status \in [Jobs -> Statuses] /\ retry \in [Jobs -> Nat]
      /\ outputs \in [Jobs -> Nat] /\ blob \in [Jobs -> Contents]
  BY DEF TypeInv, TypeOK, StoreTypeOK, FileTypeOK
<1>d. ExclusiveClaim
  BY DEF CoreInv
<1>1. ASSUME NEW j \in Jobs, Submit(j)
      PROVE  DeliveryInv'
  <2>1. /\ UNCHANGED <<pc, held, retry, outputs, blob>>
        /\ status[j] = "absent" /\ status' = [status EXCEPT ![j] = "queued"]
    BY <1>1 DEF Submit, Create, workerVars, claimVars, fileVars
  <2>2. \A i \in Jobs : \A q : JobDelivery(i, q) => JobDelivery(i, q)'
    BY <1>c, <2>1 DEF JobDelivery
  <2>3. QED
    BY <2>1, <2>2 DEF DeliveryInv, JobDelivery
<1>2. ASSUME NEW w \in Workers, Select(w)
      PROVE  DeliveryInv'
  <2>1. PICK j \in Jobs : Selectable(j) /\ held' = [held EXCEPT ![w] = j]
    BY <1>2 DEF Select
  <2>2. /\ pc[w] = "idle" /\ held[w] = NoJob
        /\ pc' = [pc EXCEPT ![w] = "claim"]
        /\ UNCHANGED <<status, retry, outputs, blob>>
    BY <1>2 DEF Select, Goto, storeVars, jobVars, fileVars, TypeInv, HoldsJobUnlessIdle
  <2>3. \A v \in Workers : held[v] # j
    BY <2>1 DEF Selectable, Locked, CoreInv, RowFollowsHolder, TypeInv, TypeOK, WorkerTypeOK,
                HoldsJobUnlessIdle, PCs, Active, NoJob, Jobs
  <2>4. JobDelivery(j, "claim")
    BY <2>1, <2>3 DEF DeliveryInv, JobDelivery, Selectable
  <2>5. \A i \in Jobs : \A q : JobDelivery(i, q) => JobDelivery(i, q)'
    BY <2>2 DEF JobDelivery
  <2>6. QED
    BY <2>1, <2>2, <2>3, <2>4, <2>5 DEF DeliveryInv, JobDelivery, TypeInv, TypeOK,
         WorkerTypeOK, NoJob, Jobs
<1>3. ASSUME NEW w \in Workers, Claim(w)
      PROVE  DeliveryInv'
  <2>1. PICK o : /\ MarkClaimed(o, held[w])
                 /\ IF Acked(o) THEN Goto(w, "begin") /\ UNCHANGED claimVars
                                ELSE Release(w)
    BY <1>3 DEF Claim
  <2>2. /\ pc[w] = "claim" /\ held[w] \in Jobs /\ JobDelivery(held[w], "claim")
        /\ status[held[w]] = "queued" /\ UNCHANGED <<outputs, blob>>
    BY <1>3, <1>a DEF Claim, fileVars, CoreInv, RowFollowsHolder
  <2>3. /\ UNCHANGED retry
        /\ \A i \in Jobs : i # held[w] => status'[i] = status[i]
        /\ status'[held[w]] \in {"queued", "analyzing"}
    BY <1>c, <2>1, <2>2 DEF MarkClaimed, Write
  <2>4. ASSUME NEW p \in {"begin", "idle"}, NEW j \in Jobs, j = held[w]
        PROVE  JobDelivery(j, p)'
    BY <1>c, <2>2, <2>3, <2>4 DEF JobDelivery
  <2>5. QED
    BY <1>d, <2>1, <2>2, <2>3, <2>4, DeliveryMoves DEF claimVars
<1>4. ASSUME NEW w \in Workers, SetProgress(w)
      PROVE  DeliveryInv'
  <2>1. PICK o : UpdateStatus(o, held[w], ActiveStatus(TypeAt(w)),
                              Milestone(TypeAt(w), pc[w]))
    BY <1>4 DEF SetProgress
  <2>2. /\ pc[w] \in {"begin", "announce", "encoded", "deliver"}
        /\ held[w] \in Jobs /\ JobDelivery(held[w], pc[w])
        /\ UNCHANGED <<held, outputs, blob>>
        /\ Goto(w, AfterMilestone(TypeAt(w), pc[w]))
    BY <1>4, <1>a DEF SetProgress, claimVars, fileVars
  <2>3. /\ UNCHANGED retry
        /\ \A i \in Jobs : i # held[w] => status'[i] = status[i]
        /\ status'[held[w]] \in Active
    BY <1>b, <1>c, <2>1, <2>2, ActiveStatusType DEF UpdateStatus, Write, HandlerPCs
  <2>4. PICK p : p = AfterMilestone(TypeAt(w), pc[w])
    OBVIOUS
  <2>5. PICK j \in Jobs : j = held[w]
    BY <2>2
  <2>6. JobDelivery(j, p)'
    BY <1>c, <2>2, <2>3, <2>4, <2>5 DEF JobDelivery, AfterMilestone, TypeAt, Active
  <2>7. QED
    BY <1>d, <2>2, <2>3, <2>4, <2>5, <2>6, DeliveryMoves
<1>5. ASSUME NEW w \in Workers,
             \/ ReadInput(w) \/ StartTool(w) \/ ToolEnds(w) \/ ToolKilled(w) \/ LogError(w)
      PROVE  DeliveryInv'
  <2>1. /\ pc[w] \in {"input", "work", "running", "error"}
        /\ held[w] \in Jobs /\ JobDelivery(held[w], pc[w])
        /\ UNCHANGED <<held, status, retry, outputs, blob>>
    BY <1>5, <1>a DEF ReadInput, StartTool, ToolEnds, ToolSucceeds, ToolFails, ToolKilled,
       LogError, BeginOutput, EndOutput, claimVars, storeVars, jobVars, fileVars
  <2>2. PICK p \in {"announce", "running", "encoded", "deliver", "error", "settle"} :
            Goto(w, p) /\ (pc[w] = "error" => p = "settle")
    BY <1>5 DEF ReadInput, StartTool, ToolEnds, ToolSucceeds, ToolFails, ToolKilled, LogError
  <2>3. PICK j \in Jobs : j = held[w]
    BY <2>1
  <2>4. JobDelivery(j, p)'
    BY <1>c, <2>1, <2>2, <2>3 DEF JobDelivery
  <2>5. QED
    BY <1>d, <2>1, <2>2, <2>3, <2>4, DeliveryMoves
<1>6. ASSUME NEW w \in Workers, Persist(w) \/ Record(w)
      PROVE  DeliveryInv'
  <2>1. PICK o, p : /\ outputs' = Write(o, outputs, held[w], outputs[held[w]] + 1)
                    /\ Goto(w, p)
                    /\ p = IF Acked(o) THEN "complete" ELSE "error"
                    /\ o = "unacked" => "ack" \in Faults
                    /\ o \in {"ok", "refused", "unacked"}
    BY <1>6 DEF Persist, Record, BulkCreate, CreateAsset, AfterPersist, Outcomes
  <2>2. /\ pc[w] \in {"persist", "record"}
        /\ held[w] \in Jobs /\ JobDelivery(held[w], pc[w])
        /\ UNCHANGED <<held, status, retry, blob>>
    BY <1>6, <1>a DEF Persist, Record, claimVars, jobVars, fileVars
  <2>3. PICK j \in Jobs : j = held[w]
    BY <2>2
  <2>4. status[j] \in Active
    BY <1>b, <2>2, <2>3 DEF HandlerPCs
  <2>5. /\ outputs'[j] = outputs[j] + (IF Applied(o) THEN 1 ELSE 0)
        /\ \A i \in Jobs : i # j => outputs'[i] = outputs[i]
    BY <1>c, <2>1, <2>3 DEF Write
  <2>6. JobDelivery(j, p)'
    BY <1>c, <2>1, <2>2, <2>3, <2>4, <2>5 DEF JobDelivery, Acked, Applied, Active
  <2>7. QED
    BY <1>d, <2>1, <2>2, <2>3, <2>5, <2>6, DeliveryMoves
<1>7. ASSUME NEW w \in Workers, Upload(w) \/ CopyLocal(w)
      PROVE  DeliveryInv'
  <2>1. /\ pc[w] \in {"upload", "copying"}
        /\ held[w] \in Jobs /\ JobDelivery(held[w], pc[w])
        /\ UNCHANGED <<held, status, retry, outputs>>
        /\ \A i \in Jobs : i # held[w] => blob'[i] = blob[i]
    BY <1>7, <1>a, <1>c DEF Upload, CopyLocal, PutObject, LocalCreate, LocalCopy, Write,
       claimVars, storeVars, jobVars
  <2>2. PICK j \in Jobs : j = held[w]
    BY <2>1
  <2>3. status[j] \in Active
    BY <1>b, <2>1, <2>2 DEF HandlerPCs
  <2>4. PICK p \in {"record", "copying", "error"} :
            /\ Goto(w, p)
            /\ p = "record" => blob'[j] = "whole"
            /\ blob'[j] = "partial" => blob[j] = "partial" \/ Backend = "local"
            /\ blob'[j] \in {blob[j], "whole"} \/ Backend = "local"
    BY <1>7, <1>c, <2>2
       DEF Upload, CopyLocal, PutObject, LocalCreate, LocalCopy, Write, Acked, Applied
  <2>5. JobDelivery(j, p)'
    BY <1>c, <2>1, <2>2, <2>3, <2>4, BackendAssumption DEF JobDelivery, Active
  <2>6. QED
    BY <1>d, <2>1, <2>2, <2>4, <2>5, DeliveryMoves
<1>8. ASSUME NEW w \in Workers, Complete(w)
      PROVE  DeliveryInv'
  <2>1. PICK o : UpdateStatus(o, held[w], "completed", 100) /\ Goto(w, "report")
    BY <1>8 DEF Complete, AfterComplete
  <2>2. /\ pc[w] = "complete" /\ held[w] \in Jobs /\ JobDelivery(held[w], "complete")
        /\ UNCHANGED <<held, outputs, blob>>
    BY <1>8, <1>a DEF Complete, claimVars, fileVars
  <2>3. PICK j \in Jobs : j = held[w]
    BY <2>2
  <2>4. /\ UNCHANGED retry
        /\ \A i \in Jobs : i # j => status'[i] = status[i]
        /\ status'[j] \in Active \cup {"completed"}
    BY <1>b, <1>c, <2>1, <2>2, <2>3 DEF UpdateStatus, Write, HandlerPCs
  <2>5. JobDelivery(j, "report")'
    BY <1>c, <2>2, <2>3, <2>4 DEF JobDelivery, Active
  <2>6. QED
    BY <1>d, <2>1, <2>2, <2>3, <2>4, <2>5, DeliveryMoves
<1>9. ASSUME NEW w \in Workers, Report(w)
      PROVE  DeliveryInv'
  <2>1. /\ pc[w] = "report" /\ held[w] \in Jobs /\ JobDelivery(held[w], "report")
        /\ Release(w) /\ UNCHANGED <<status, retry, outputs, blob>>
    BY <1>9, <1>a DEF Report, jobVars
  <2>2. PICK j \in Jobs : j = held[w]
    BY <2>1
  <2>3. status[j] \in Active \cup {"completed"}
    BY <2>1, <2>2 DEF CoreInv, RowFollowsHolder, ProcessPCs, HandlerPCs
  <2>4. JobDelivery(j, "idle")'
    BY <1>c, <2>1, <2>2, <2>3 DEF JobDelivery, Active
  <2>5. QED
    BY <1>d, <2>1, <2>2, <2>4, DeliveryMoves
<1>10. ASSUME NEW w \in Workers, Settle(w)
       PROVE  DeliveryInv'
  <2>1. PICK o : IncrementRetry(o, held[w]) \/ UpdateError(o, held[w])
    BY <1>10 DEF Settle
  <2>2. /\ pc[w] = "settle" /\ held[w] \in Jobs /\ JobDelivery(held[w], "settle")
        /\ Release(w) /\ UNCHANGED <<outputs, blob>>
    BY <1>10, <1>a DEF Settle, fileVars
  <2>3. PICK j \in Jobs : j = held[w]
    BY <2>2
  <2>4. status[j] \in Active
    BY <1>b, <2>2, <2>3
  <2>5. /\ \A i \in Jobs : i # j => status'[i] = status[i] /\ retry'[i] = retry[i]
        /\ \/ status'[j] \in Active \cup {"failed"} /\ retry'[j] = retry[j]
           \/ status'[j] = "queued" /\ retry'[j] = retry[j] + 1
    BY <1>c, <2>1, <2>3, <2>4 DEF IncrementRetry, UpdateError, Write
  <2>6. JobDelivery(j, "idle")'
    BY <1>c, <2>2, <2>3, <2>4, <2>5 DEF JobDelivery, Active
  <2>7. QED
    BY <1>d, <2>2, <2>3, <2>5, <2>6, DeliveryMoves
<1>11. ASSUME Exit
       PROVE  DeliveryInv'
  <2>1. /\ pc' = [v \in Workers |-> "idle"] /\ held' = [v \in Workers |-> NoJob]
        /\ UNCHANGED <<status, retry, outputs, blob>>
    BY <1>11 DEF Exit, storeVars, jobVars, fileVars
  <2>2. \A j \in Jobs : JobDelivery(j, "idle")
    <3> SUFFICES ASSUME NEW j \in Jobs
                 PROVE  JobDelivery(j, "idle")
      OBVIOUS
    <3>1. CASE \A w \in Workers : held[w] # j
      BY <3>1 DEF DeliveryInv
    <3>2. ASSUME NEW w \in Workers, held[w] = j
          PROVE  JobDelivery(j, "idle")
      BY <1>c, <3>2 DEF DeliveryInv, JobDelivery
    <3>3. QED
      BY <3>1, <3>2
  <2>3. \A j \in Jobs : JobDelivery(j, "idle")'
    BY <2>1, <2>2 DEF JobDelivery
  <2>4. QED
    BY <2>1, <2>3 DEF DeliveryInv, NoJob, Jobs
<1>12. ASSUME UNCHANGED <<pc, held, status, retry, outputs, blob>>
       PROVE  DeliveryInv'
  BY <1>12 DEF DeliveryInv, JobDelivery
<1>13. ASSUME \/ Stop \/ Start \/ UNCHANGED vars
              \/ \E w \in Workers : Expire(w) \/ PollEmpty(w)
       PROVE  UNCHANGED <<pc, held, status, retry, outputs, blob>>
  BY <1>13 DEF Stop, Start, vars, Expire, PollEmpty, workerVars, claimVars, storeVars,
               jobVars, fileVars
<1>14. QED
  BY <1>1, <1>2, <1>3, <1>4, <1>5, <1>6, <1>7, <1>8, <1>9, <1>10, <1>11, <1>12, <1>13
     DEF Next, OwnStep

(* The whole inductive invariant.                                          *)
THEOREM Inductive == Spec => []IInv
<1>1. TypeInv /\ CoreInv /\ DeliveryInv => IInv
  BY DEF TypeInv, CoreInv, IInv
<1>2. QED
  BY <1>1, TypeInit, TypeStep, CoreInit, CoreStep, DeliveryInit, DeliveryStep, PTL DEF Spec

(* What the invariant says of a job's output wherever its worker is.       *)
LEMMA EveryJobDelivers == IInv => \A j \in Jobs : \E p : JobDelivery(j, p)
  BY DEF IInv, DeliveryInv

(* A completed job has its variants, or an asset row and the whole object: *)
(* for every set of faults.                                                *)
THEOREM CompletedJobsHaveOutput == Spec => []CompletedHasOutput
<1>1. IInv => CompletedHasOutput
  BY EveryJobDelivers DEF CompletedHasOutput, JobDelivery
<1>2. QED
  BY <1>1, Inductive, PTL

(* A job delivers once, or once per attempt where replies can be lost.     *)
THEOREM DeliveriesAreCounted == Spec => []SingleDelivery
<1>1. IInv => SingleDelivery
  BY EveryJobDelivers DEF SingleDelivery, JobDelivery
<1>2. QED
  BY <1>1, Inductive, PTL

(* An asset row never points to an object that is missing or unfinished,   *)
(* with an atomic backend or without lost replies.                         *)
THEOREM AssetRowsHaveObjects == Spec => []AssetRowHasObject
<1>1. IInv => AssetRowHasObject
  BY EveryJobDelivers DEF AssetRowHasObject, JobDelivery
<1>2. QED
  BY <1>1, Inductive, PTL
-------------------------------------------------------------------------------
(* Once settled, always settled.                                           *)

(* What TerminalFrozen asks of one job in one step.                        *)
Frozen(j) ==
    /\ status'[j] = status[j]
    /\ progress'[j] = progress[j]
    /\ retry'[j] = retry[j]
    /\ outputs'[j] = outputs[j]
    /\ blob'[j] = blob[j]

(* A worker whose job is settled has nothing left to do but to report.     *)
LEMMA OnlyReportHoldsSettled ==
    ASSUME IInv, NEW w \in Workers, pc[w] \in PCs \ {"idle", "report"}
    PROVE  held[w] \in Jobs /\ status[held[w]] \notin Terminal
  BY DEF IInv, TypeOK, WorkerTypeOK, HoldsJobUnlessIdle, RowFollowsHolder, PCs, ProcessPCs,
         HandlerPCs, Active, Terminal

LEMMA FrozenStep ==
    ASSUME IInv, [Next]_vars, NEW j \in Jobs, status[j] \in Terminal
    PROVE  Frozen(j)
<1>a. StoreTypeOK /\ FileTypeOK
  BY DEF IInv, TypeOK
<1>b. ASSUME UNCHANGED <<status, progress, retry, outputs, blob>>
      PROVE  Frozen(j)
  BY <1>b DEF Frozen
<1>c. ASSUME NEW w \in Workers, pc[w] \in PCs \ {"idle", "report"}
      PROVE  held[w] \in Jobs /\ held[w] # j
  BY <1>c, OnlyReportHoldsSettled
<1>1. ASSUME NEW i \in Jobs, Submit(i)
      PROVE  Frozen(j)
  <2>1. i # j
    BY <1>1 DEF Submit, Terminal
  <2>2. QED
    BY <1>1, <1>a, <2>1 DEF Submit, Create, Frozen, StoreTypeOK, fileVars
<1>2. ASSUME NEW w \in Workers, Claim(w) \/ SetProgress(w) \/ Complete(w) \/ Settle(w)
      PROVE  Frozen(j)
  <2>1. /\ pc[w] \in PCs \ {"idle", "report"}
        /\ UNCHANGED <<outputs, blob>>
    BY <1>2 DEF Claim, SetProgress, Complete, Settle, PCs, ProcessPCs, HandlerPCs, fileVars
  <2>2. held[w] \in Jobs /\ held[w] # j
    BY <1>c, <2>1
  <2>3. PICK o, s, n : \/ MarkClaimed(o, held[w])
                       \/ UpdateStatus(o, held[w], s, n)
                       \/ IncrementRetry(o, held[w])
                       \/ UpdateError(o, held[w])
    BY <1>2 DEF Claim, SetProgress, Complete, Settle
  <2>4. QED
    BY <1>a, <2>1, <2>2, <2>3
       DEF MarkClaimed, UpdateStatus, IncrementRetry, UpdateError, Write, Frozen, StoreTypeOK
<1>3. ASSUME NEW w \in Workers, Persist(w) \/ Record(w)
      PROVE  Frozen(j)
  <2>1. /\ pc[w] \in PCs \ {"idle", "report"}
        /\ UNCHANGED <<status, progress, retry, blob>>
    BY <1>3 DEF Persist, Record, PCs, ProcessPCs, HandlerPCs, jobVars, fileVars
  <2>2. held[w] \in Jobs /\ held[w] # j
    BY <1>c, <2>1
  <2>3. PICK o : BulkCreate(o, held[w]) \/ CreateAsset(o, held[w])
    BY <1>3 DEF Persist, Record
  <2>4. QED
    BY <1>a, <2>1, <2>2, <2>3 DEF BulkCreate, CreateAsset, Write, Frozen, StoreTypeOK
<1>4. ASSUME NEW w \in Workers, Upload(w) \/ CopyLocal(w)
      PROVE  Frozen(j)
  <2>1. /\ pc[w] \in PCs \ {"idle", "report"}
        /\ UNCHANGED <<status, progress, retry, outputs>>
    BY <1>4 DEF Upload, CopyLocal, PCs, ProcessPCs, HandlerPCs, storeVars, jobVars
  <2>2. held[w] \in Jobs /\ held[w] # j
    BY <1>c, <2>1
  <2>3. blob'[j] = blob[j]
    BY <1>4, <1>a, <2>2
       DEF Upload, CopyLocal, PutObject, LocalCreate, LocalCopy, Write, FileTypeOK
  <2>4. QED
    BY <2>1, <2>3 DEF Frozen
<1>5. ASSUME \/ Stop \/ Exit \/ Start \/ UNCHANGED vars
             \/ \E w \in Workers :
                  \/ Select(w) \/ ReadInput(w) \/ StartTool(w) \/ ToolEnds(w)
                  \/ ToolKilled(w) \/ LogError(w) \/ Report(w) \/ Expire(w) \/ PollEmpty(w)
      PROVE  Frozen(j)
  <2>1. UNCHANGED <<status, progress, retry, outputs, blob>>
    BY <1>5 DEF Stop, Exit, Start, vars, Select, ReadInput, StartTool, ToolEnds, ToolSucceeds,
                ToolFails, ToolKilled, LogError, Report, Expire, PollEmpty, BeginOutput,
                EndOutput, storeVars, jobVars, fileVars
  <2>2. QED
    BY <1>b, <2>1
<1>6. QED
  BY <1>1, <1>2, <1>3, <1>4, <1>5 DEF Next, OwnStep

(* A completed or failed job is never touched again, whichever worker,     *)
(* late call or restart comes after it.                                    *)
THEOREM SettledJobsAreFrozen == Spec => TerminalFrozen
<1>1. IInv /\ [Next]_vars => [\A j \in Jobs : status[j] \in Terminal => Frozen(j)]_vars
  BY FrozenStep
<1>2. [\A j \in Jobs : status[j] \in Terminal => Frozen(j)]_vars
          => [\A j \in Jobs : status[j] \in Terminal =>
                /\ status'[j] = status[j]
                /\ progress'[j] = progress[j]
                /\ retry'[j] = retry[j]
                /\ outputs'[j] = outputs[j]
                /\ blob'[j] = blob[j]]_vars
  BY DEF Frozen
<1>3. QED
  BY <1>1, <1>2, Inductive, PTL DEF Spec, TerminalFrozen

-------------------------------------------------------------------------------
(* The file in TEMP_DIR.  Only the holder's attempt writes it, and the     *)
(* holder of a completed job lets go of it with Cleanup.                   *)

Settled(j) == status[j] = "completed" /\ \A w \in Workers : held[w] # j

TidyInv ==
    Faults \cap {"stop", "crash"} = {} =>
        /\ proc = "up"
        /\ \A j \in Jobs : Settled(j) => temp[j] = "none"

LEMMA TidyInit == Init => TidyInv
  BY DEF Init, StoreInit, TidyInv, Settled

LEMMA TidyStep == IInv /\ TidyInv /\ [Next]_vars => TidyInv'
<1> SUFFICES ASSUME IInv, TidyInv, [Next]_vars, Faults \cap {"stop", "crash"} = {}
             PROVE  proc' = "up" /\ \A j \in Jobs : Settled(j)' => (temp[j] = "none")'
  BY DEF TidyInv
<1>a. /\ status \in [Jobs -> Statuses] /\ temp \in [Jobs -> Contents]
      /\ held \in [Workers -> Jobs \cup {NoJob}] /\ pc \in [Workers -> PCs]
      /\ proc = "up" /\ \A j \in Jobs : Settled(j) => temp[j] = "none"
  BY DEF IInv, TypeOK, StoreTypeOK, FileTypeOK, WorkerTypeOK, TidyInv
<1>b. ASSUME NEW w \in Workers, pc[w] # "idle"
      PROVE  held[w] \in Jobs /\ held[w] # NoJob
  BY <1>a, <1>b DEF IInv, HoldsJobUnlessIdle
<1>1. proc' = "up"
  <2>1. ~Stop /\ ~Exit /\ ~Start
    BY <1>a DEF Stop, Exit, Start
  <2>2. QED
    BY <1>a, <2>1 DEF Next, OwnStep, ToolEnds, Submit, Select, PollEmpty, Claim, SetProgress,
       ReadInput, StartTool, ToolSucceeds, ToolFails, ToolKilled, Persist, Upload, CopyLocal,
       Record, Complete, Report, LogError, Settle, Expire, vars
<1>2. ASSUME NEW w \in Workers, pc[w] # "idle", held'[w] = held[w],
             UNCHANGED held, \A i \in Jobs : i # held[w] =>
                status'[i] = status[i] /\ temp'[i] = temp[i]
      PROVE  \A j \in Jobs : Settled(j)' => (temp[j] = "none")'
  BY <1>a, <1>2 DEF Settled
<1>3. ASSUME NEW w \in Workers, pc[w] # "idle", Release(w),
             status'[held[w]] # "completed" \/ temp'[held[w]] = "none",
             \A i \in Jobs : i # held[w] => status'[i] = status[i] /\ temp'[i] = temp[i]
      PROVE  \A j \in Jobs : Settled(j)' => (temp[j] = "none")'
  <2>1. held' = [held EXCEPT ![w] = NoJob]
    BY <1>3 DEF Release
  <2>2. QED
    BY <1>a, <1>b, <1>3, <2>1 DEF Settled
<1>4. ASSUME NEW w \in Workers,
             \/ SetProgress(w) \/ ReadInput(w) \/ StartTool(w) \/ ToolEnds(w) \/ ToolKilled(w)
             \/ Persist(w) \/ Upload(w) \/ CopyLocal(w) \/ Record(w) \/ Complete(w) \/ LogError(w)
      PROVE  \A j \in Jobs : Settled(j)' => (temp[j] = "none")'
  <2>1. pc[w] # "idle" /\ UNCHANGED held
    BY <1>4 DEF SetProgress, ReadInput, StartTool, ToolEnds, ToolSucceeds, ToolFails, ToolKilled,
       Persist, Upload, CopyLocal, Record, Complete, LogError, claimVars
  <2>2. \A i \in Jobs : i # held[w] => status'[i] = status[i]
    BY <1>a, <1>4 DEF SetProgress, ReadInput, StartTool, ToolEnds, ToolSucceeds, ToolFails,
       ToolKilled, Persist, Upload, CopyLocal, Record, Complete, LogError, UpdateStatus, Write,
       storeVars, jobVars
  <2>3. \A i \in Jobs : i # held[w] => temp'[i] = temp[i]
    BY <1>a, <1>4 DEF SetProgress, ReadInput, StartTool, ToolEnds, ToolSucceeds, ToolFails,
       ToolKilled, Persist, Upload, CopyLocal, Record, Complete, LogError, BeginOutput,
       EndOutput, Cleanup, fileVars
  <2>4. QED
    BY <1>2, <2>1, <2>2, <2>3
<1>5. ASSUME NEW w \in Workers, Claim(w)
      PROVE  \A j \in Jobs : Settled(j)' => (temp[j] = "none")'
  <2>1. PICK o : /\ MarkClaimed(o, held[w])
                 /\ IF Acked(o) THEN Goto(w, "begin") /\ UNCHANGED claimVars ELSE Release(w)
    BY <1>5 DEF Claim
  <2>2. pc[w] # "idle" /\ UNCHANGED temp /\ status[held[w]] = "queued"
    BY <1>5 DEF Claim, fileVars, IInv, RowFollowsHolder
  <2>3. /\ \A i \in Jobs : i # held[w] => status'[i] = status[i]
        /\ status'[held[w]] # "completed"
    BY <1>a, <1>b, <2>1, <2>2 DEF MarkClaimed, Write
  <2>4. QED
    BY <1>2, <1>3, <2>1, <2>2, <2>3 DEF claimVars
<1>6. ASSUME NEW w \in Workers, Report(w)
      PROVE  \A j \in Jobs : Settled(j)' => (temp[j] = "none")'
  <2>1. pc[w] # "idle" /\ Release(w) /\ Cleanup(held[w]) /\ UNCHANGED status
    BY <1>6 DEF Report, jobVars
  <2>2. QED
    BY <1>a, <1>b, <1>3, <2>1 DEF Cleanup
<1>7. ASSUME NEW w \in Workers, Settle(w)
      PROVE  \A j \in Jobs : Settled(j)' => (temp[j] = "none")'
  <2>1. PICK o : IncrementRetry(o, held[w]) \/ UpdateError(o, held[w])
    BY <1>7 DEF Settle
  <2>2. pc[w] # "idle" /\ Release(w) /\ UNCHANGED temp /\ status[held[w]] \in Active
    BY <1>7 DEF Settle, fileVars, IInv, RowFollowsHolder, ProcessPCs
  <2>3. /\ \A i \in Jobs : i # held[w] => status'[i] = status[i]
        /\ status'[held[w]] # "completed"
    BY <1>a, <1>b, <2>1, <2>2 DEF IncrementRetry, UpdateError, Write, Active
  <2>4. QED
    BY <1>3, <2>2, <2>3
<1>8. ASSUME NEW w \in Workers, Select(w)
      PROVE  \A j \in Jobs : Settled(j)' => (temp[j] = "none")'
  <2>1. PICK i \in Jobs : held' = [held EXCEPT ![w] = i]
    BY <1>8 DEF Select
  <2>2. UNCHANGED <<status, temp>> /\ held[w] = NoJob
    BY <1>8 DEF Select, storeVars, jobVars, fileVars, IInv, HoldsJobUnlessIdle
  <2>3. QED
    BY <1>a, <2>1, <2>2 DEF Settled, NoJob, Jobs
<1>9. ASSUME NEW i \in Jobs, Submit(i)
      PROVE  \A j \in Jobs : Settled(j)' => (temp[j] = "none")'
  BY <1>a, <1>9 DEF Submit, Create, Settled, workerVars, claimVars, fileVars
<1>10. ASSUME \/ Stop \/ Exit \/ Start \/ UNCHANGED vars
              \/ \E w \in Workers : Expire(w) \/ PollEmpty(w)
       PROVE  \A j \in Jobs : Settled(j)' => (temp[j] = "none")'
  BY <1>a, <1>10 DEF Stop, Exit, Start, Expire, PollEmpty, vars, workerVars, claimVars, storeVars,
     jobVars, fileVars, Settled
<1>11. QED
  BY <1>1, <1>4, <1>5, <1>6, <1>7, <1>8, <1>9, <1>10 DEF Next, OwnStep

(* While the process lives, a delivered job leaves nothing in TEMP_DIR.    *)
THEOREM DeliveredJobsLeaveNoFile == Spec => []TempReclaimed
<1>1. TidyInv => TempReclaimed
  BY DEF TidyInv, Settled, TempReclaimed
<1>2. QED
  BY <1>1, TidyInit, TidyStep, Inductive, PTL DEF Spec

-------------------------------------------------------------------------------
(* The events.  A worker about to settle has appended its error event,     *)
(* unless the shutdown has made both calls futile.                         *)

Explained(j) == errorEvents[j] >= retry[j] + (IF status[j] = "failed" THEN 1 ELSE 0)

TrailInv ==
    /\ proc = "down" => \A w \in Workers : pc[w] = "idle"
    /\ \A j \in Jobs : infoEvents[j] > 0 => outputs[j] > 0
    /\ "db" \notin Faults =>
          /\ \A j \in Jobs : Explained(j)
          /\ \A w \in Workers : proc = "up" /\ pc[w] = "settle" =>
                                   errorEvents[held[w]] >= retry[held[w]] + 1

LEMMA TrailInit == Init => TrailInv
  BY DEF Init, StoreInit, TrailInv, Explained

(* A step that neither retries nor fails a job, nor brings a worker to     *)
(* settle, nor starts a process.                                           *)
LEMMA TrailKept ==
    ASSUME IInv, TrailInv, UNCHANGED <<retry, errorEvents, proc>>,
           \A j \in Jobs : status'[j] = "failed" => status[j] = "failed",
           \A j \in Jobs : infoEvents'[j] > 0 => outputs'[j] > 0,
           \A w \in Workers : pc'[w] # "idle" => pc[w] # "idle" \/ proc # "down",
           \A w \in Workers : pc'[w] = "settle" => pc[w] = "settle" /\ held'[w] = held[w]
    PROVE  TrailInv'
<1>1. errorEvents \in [Jobs -> Nat] /\ retry \in [Jobs -> Nat]
  BY DEF IInv, TypeOK, StoreTypeOK
<1>2. ASSUME NEW j \in Jobs, Explained(j)
      PROVE  Explained(j)'
  BY <1>1, <1>2 DEF Explained
<1>3. QED
  BY <1>2 DEF TrailInv

LEMMA TrailStep == IInv /\ TrailInv /\ [Next]_vars => TrailInv'
<1> SUFFICES ASSUME IInv, TrailInv, [Next]_vars
             PROVE  TrailInv'
  OBVIOUS
<1>a. /\ status \in [Jobs -> Statuses] /\ retry \in [Jobs -> Nat] /\ outputs \in [Jobs -> Nat]
      /\ infoEvents \in [Jobs -> Nat] /\ errorEvents \in [Jobs -> Nat]
      /\ pc \in [Workers -> PCs] /\ held \in [Workers -> Jobs \cup {NoJob}]
      /\ proc \in {"up", "stopping", "down"}
  BY DEF IInv, TypeOK, StoreTypeOK, WorkerTypeOK
<1>b. ASSUME NEW w \in Workers, pc[w] # "idle"
      PROVE  held[w] \in Jobs /\ proc # "down"
  BY <1>a, <1>b DEF IInv, HoldsJobUnlessIdle, TrailInv
<1>c. \A j \in Jobs : infoEvents[j] > 0 => outputs[j] > 0
  BY DEF TrailInv
<1>1. ASSUME NEW w \in Workers,
             \/ Claim(w) \/ SetProgress(w) \/ ReadInput(w) \/ StartTool(w) \/ ToolEnds(w)
             \/ ToolKilled(w) \/ Persist(w) \/ Upload(w) \/ CopyLocal(w) \/ Record(w) \/ Complete(w)
      PROVE  TrailInv'
  <2>1. /\ UNCHANGED <<retry, errorEvents, infoEvents, proc>>
        /\ pc[w] # "idle" /\ pc'[w] # "settle"
        /\ \A v \in Workers : v # w => pc'[v] = pc[v] /\ held'[v] = held[v]
    BY <1>a, <1>1 DEF Claim, SetProgress, ReadInput, StartTool, ToolEnds, ToolSucceeds, ToolFails,
       ToolKilled, Persist, Upload, CopyLocal, Record, Complete, Release, Goto, MarkClaimed,
       UpdateStatus, AfterMilestone, AfterPersist, AfterComplete, claimVars, storeVars, jobVars,
       eventVars
  <2>2. \A j \in Jobs : status'[j] = "failed" => status[j] = "failed"
    BY <1>a, <1>1, ActiveStatusType DEF Claim, SetProgress, ReadInput, StartTool, ToolEnds,
       ToolSucceeds, ToolFails, ToolKilled, Persist, Upload, CopyLocal, Record, Complete,
       MarkClaimed, UpdateStatus, Write, Active, storeVars, jobVars
  <2>3. \A j \in Jobs : outputs'[j] >= outputs[j]
    BY <1>a, <1>1 DEF Claim, SetProgress, ReadInput, StartTool, ToolEnds, ToolSucceeds, ToolFails,
       ToolKilled, Persist, Upload, CopyLocal, Record, Complete, BulkCreate, CreateAsset, Write,
       storeVars
  <2>4. \A j \in Jobs : infoEvents'[j] > 0 => outputs'[j] > 0
    <3>1. outputs' \in [Jobs -> Nat]
      BY TypeStep DEF IInv, TypeInv, TypeOK, StoreTypeOK
    <3>2. QED
      BY <1>a, <1>c, <2>1, <2>3, <3>1
  <2>5. QED
    BY <1>b, <2>1, <2>2, <2>4, TrailKept
<1>2. ASSUME NEW w \in Workers, Report(w)
      PROVE  TrailInv'
  <2>1. PICK o : AppendInfo(o, held[w])
    BY <1>2 DEF Report
  <2>2. /\ UNCHANGED <<retry, status, outputs, errorEvents, proc>> /\ Release(w)
        /\ pc[w] # "idle" /\ outputs[held[w]] > 0 /\ held[w] \in Jobs
    BY <1>b, <1>2, <2>1 DEF Report, AppendInfo, jobVars, IInv, DeliveryInv, JobDelivery
  <2>3. \A j \in Jobs : infoEvents'[j] > 0 => outputs'[j] > 0
    BY <1>a, <1>c, <2>1, <2>2 DEF AppendInfo, Write
  <2>4. QED
    BY <1>a, <1>b, <2>2, <2>3, TrailKept DEF Release, Goto
<1>3. ASSUME NEW w \in Workers, LogError(w)
      PROVE  TrailInv'
  <2>1. PICK o \in Outcomes(EventCtxLive(w), "db") : AppendError(o, held[w])
    BY <1>3 DEF LogError
  <2>2. /\ UNCHANGED <<held, retry, status, outputs, infoEvents, proc>> /\ pc[w] = "error"
        /\ pc' = [pc EXCEPT ![w] = "settle"] /\ held[w] \in Jobs /\ proc # "down"
    BY <1>b, <1>3, <2>1 DEF LogError, AppendError, Goto, claimVars, jobVars
  <2>3. \A j \in Jobs : errorEvents'[j] \in Nat /\ errorEvents'[j] >= errorEvents[j]
    BY <1>a, <2>1, <2>2 DEF AppendError, Write
  <2>4. ASSUME "db" \notin Faults
        PROVE  /\ \A j \in Jobs : Explained(j)'
               /\ \A v \in Workers : v # w /\ proc' = "up" /\ pc'[v] = "settle" =>
                                        errorEvents'[held'[v]] >= retry'[held'[v]] + 1
    <3>1. ASSUME NEW j \in Jobs
          PROVE  Explained(j)'
      BY <1>a, <2>2, <2>3, <2>4, <3>1 DEF TrailInv, Explained
    <3>2. ASSUME NEW v \in Workers, v # w, proc' = "up", pc'[v] = "settle"
          PROVE  errorEvents'[held'[v]] >= retry'[held'[v]] + 1
      <4>1. held[v] \in Jobs /\ errorEvents[held[v]] >= retry[held[v]] + 1
        BY <1>a, <1>b, <2>2, <2>4, <3>2 DEF TrailInv
      <4>2. QED
        BY <1>a, <2>2, <2>3, <4>1
    <3>3. QED
      BY <3>1, <3>2
  <2>5. ASSUME "db" \notin Faults, proc = "up"
        PROVE  errorEvents'[held'[w]] >= retry'[held'[w]] + 1
    <3>1. errorEvents'[held[w]] = errorEvents[held[w]] + 1
      BY <1>a, <2>1, <2>2, <2>5 DEF Outcomes, EventCtxLive, WorkerCtxLive, AppendError, Write, Applied
    <3>2. errorEvents[held[w]] >= retry[held[w]]
      BY <1>a, <2>2, <2>5 DEF TrailInv, Explained
    <3>3. QED
      BY <1>a, <2>2, <3>1, <3>2
  <2>6. QED
    BY <1>a, <1>c, <2>2, <2>4, <2>5 DEF TrailInv
<1>4. ASSUME NEW w \in Workers, Settle(w)
      PROVE  TrailInv'
  <2>1. PICK o \in Outcomes(WorkerCtxLive, "db") :
            IF MayRetry(w) THEN IncrementRetry(o, held[w]) ELSE UpdateError(o, held[w])
    BY <1>4 DEF Settle
  <2>2. /\ UNCHANGED <<outputs, infoEvents, errorEvents, proc>> /\ pc[w] = "settle"
        /\ Release(w) /\ held[w] \in Jobs /\ proc # "down"
        /\ status[held[w]] \in Active
    BY <1>b, <1>4 DEF Settle, eventVars, IInv, RowFollowsHolder, ProcessPCs
  <2>3. /\ pc' = [pc EXCEPT ![w] = "idle"] /\ held' = [held EXCEPT ![w] = NoJob]
        /\ \A v \in Workers : v # w /\ pc[v] # "idle" => held[v] # held[w]
    BY <1>a, <1>b, <2>2 DEF Release, Goto, IInv, ExclusiveClaim, NoJob, Jobs
  <2>4. PICK j \in Jobs : j = held[w]
    BY <2>2
  <2>5. \A i \in Jobs : i # j => retry'[i] = retry[i] /\ status'[i] = status[i]
    BY <1>a, <2>1, <2>4 DEF IncrementRetry, UpdateError, Write
  <2>6. ASSUME "db" \notin Faults
        PROVE  Explained(j)'
    <3>1. Explained(j) /\ (proc = "up" => errorEvents[j] >= retry[j] + 1)
      BY <2>2, <2>4, <2>6 DEF TrailInv
    <3>2. CASE o = "refused"
      <4>1. UNCHANGED <<retry, status, errorEvents>>
        BY <2>1, <2>2, <3>2 DEF IncrementRetry, UpdateError, Write, Applied
      <4>2. QED
        BY <3>1, <4>1 DEF Explained
    <3>3. CASE o # "refused"
      <4>1. proc = "up"
        BY <2>1, <3>3 DEF Outcomes, WorkerCtxLive
      <4>2. \/ retry'[j] = retry[j] + 1 /\ status'[j] = "queued"
            \/ retry'[j] = retry[j]
        BY <1>a, <2>1, <2>4, <3>3 DEF IncrementRetry, UpdateError, Write, Applied
      <4>3. UNCHANGED errorEvents
        BY <2>2
      <4>4. QED
        BY <1>a, <3>1, <4>1, <4>2, <4>3 DEF Explained
    <3>4. QED
      BY <3>2, <3>3
  <2>7. ASSUME "db" \notin Faults, NEW i \in Jobs
        PROVE  Explained(i)'
    <3>1. CASE i = j
      BY <2>6, <2>7, <3>1
    <3>2. CASE i # j
      <4>1. Explained(i)
        BY <2>7 DEF TrailInv
      <4>2. retry'[i] = retry[i] /\ status'[i] = status[i] /\ errorEvents'[i] = errorEvents[i]
        BY <2>2, <2>5, <3>2
      <4>3. QED
        BY <4>1, <4>2 DEF Explained
    <3>3. QED
      BY <3>1, <3>2
  <2>8. ASSUME "db" \notin Faults, NEW v \in Workers, proc' = "up", pc'[v] = "settle"
        PROVE  errorEvents'[held'[v]] >= retry'[held'[v]] + 1
    <3>1. v # w /\ pc[v] = "settle" /\ held'[v] = held[v]
      BY <1>a, <2>3, <2>8
    <3>2. PICK i \in Jobs : i = held[v]
      BY <1>b, <3>1
    <3>3. i # j
      BY <2>3, <2>4, <3>1, <3>2
    <3>4. errorEvents[i] >= retry[i] + 1
      BY <2>2, <2>8, <3>1, <3>2 DEF TrailInv
    <3>5. QED
      BY <2>2, <2>5, <3>1, <3>2, <3>3, <3>4
  <2>9. /\ proc' = "down" => \A v \in Workers : pc'[v] = "idle"
        /\ \A i \in Jobs : infoEvents'[i] > 0 => outputs'[i] > 0
    BY <1>c, <2>2
  <2>10. QED
    BY <2>7, <2>8, <2>9 DEF TrailInv
<1>5. ASSUME NEW w \in Workers, Select(w)
      PROVE  TrailInv'
  <2>1. /\ UNCHANGED <<status, retry, outputs, infoEvents, errorEvents, proc>> /\ proc = "up"
        /\ pc' = [pc EXCEPT ![w] = "claim"] /\ \A v \in Workers : v # w => held'[v] = held[v]
    BY <1>a, <1>5 DEF Select, Goto, WorkerCtxLive, storeVars, jobVars, eventVars
  <2>2. QED
    BY <1>a, <1>c, <2>1, TrailKept
<1>6. ASSUME NEW i \in Jobs, Submit(i)
      PROVE  TrailInv'
  <2>1. /\ UNCHANGED <<retry, outputs, infoEvents, errorEvents, proc, pc, held>>
        /\ \A j \in Jobs : status'[j] = "failed" => status[j] = "failed"
    BY <1>a, <1>6 DEF Submit, Create, eventVars, workerVars, claimVars
  <2>2. QED
    BY <1>c, <2>1, TrailKept
<1>7. ASSUME UNCHANGED vars \/ \E w \in Workers : Expire(w) \/ PollEmpty(w)
      PROVE  TrailInv'
  <2>1. UNCHANGED <<status, retry, outputs, infoEvents, errorEvents, proc, pc, held>>
    BY <1>7 DEF Expire, PollEmpty, vars, workerVars, claimVars, storeVars, jobVars, eventVars
  <2>2. QED
    BY <1>c, <2>1, TrailKept
<1>8. ASSUME Stop \/ Exit \/ Start
      PROVE  TrailInv'
  <2>1. /\ UNCHANGED <<status, retry, outputs, infoEvents, errorEvents>>
        /\ proc' = "up" => \A w \in Workers : pc'[w] = "idle"
        /\ proc' = "down" => \A w \in Workers : pc'[w] = "idle"
    BY <1>8 DEF Stop, Exit, Start, TrailInv, storeVars, jobVars, eventVars, workerVars
  <2>2. QED
    BY <1>a, <1>c, <2>1 DEF TrailInv, Explained
<1>9. QED
  BY <1>1, <1>2, <1>3, <1>4, <1>5, <1>6, <1>7, <1>8 DEF Next, OwnStep

(* job_events tells what happened to a job: an error for every retry and   *)
(* for the failure, as long as the database takes them, and an info event  *)
(* only where there is an output.                                          *)
THEOREM EventsExplainTheRow == Spec => []EventTrail
<1>1. TrailInv => EventTrail
  BY DEF TrailInv, Explained, EventTrail
<1>2. QED
  BY <1>1, TrailInit, TrailStep, Inductive, PTL DEF Spec
-------------------------------------------------------------------------------
(* The progress bar.  What the first attempt at a job may have reported by *)
(* the time its worker is at p.                                            *)

Ceiling(t, p) ==
    CASE p \in {"claim", "begin"}             -> 0
      [] p \in {"input", "announce"}          -> Milestone(t, "begin")
      [] p \in {"work", "running", "encoded"} -> Milestone(t, "announce")
      [] p = "deliver"                        -> Milestone(t, "encoded")
      [] OTHER                                -> 100

BarInv ==
    /\ \A j \in Jobs : status[j] \in {"absent", "queued"} /\ retry[j] = 0 => progress[j] = 0
    /\ \A w \in Workers : pc[w] # "idle" /\ retry[held[w]] = 0 =>
                             progress[held[w]] <= Ceiling(JobType[held[w]], pc[w])

LEMMA CeilingType == \A t, p : Ceiling(t, p) \in 0 .. 100
  BY DEF Ceiling, Milestone

LEMMA BarInit == Init => BarInv
  BY DEF Init, StoreInit, BarInv

(* A step that reports nothing and retries nothing.                        *)
LEMMA BarKept ==
    ASSUME IInv, BarInv, UNCHANGED <<progress, retry>>,
           \A j \in Jobs : status'[j] = status[j] \/ status[j] = "absent"
                              \/ status'[j] \notin {"absent", "queued"},
           \A w \in Workers : pc'[w] # "idle" =>
               /\ pc[w] # "idle" /\ held'[w] = held[w]
               /\ Ceiling(JobType[held[w]], pc[w]) <= Ceiling(JobType[held[w]], pc'[w])
    PROVE  BarInv'
<1>1. progress \in [Jobs -> 0 .. 100]
  BY DEF IInv, TypeOK, StoreTypeOK
<1>2. ASSUME NEW w \in Workers, pc'[w] # "idle", retry'[held'[w]] = 0
      PROVE  progress'[held'[w]] <= Ceiling(JobType[held'[w]], pc'[w])
  <2>1. PICK j \in Jobs : j = held[w]
    BY <1>2 DEF IInv, HoldsJobUnlessIdle, TypeOK, WorkerTypeOK
  <2>2. progress[j] <= Ceiling(JobType[j], pc[w])
    BY <1>2, <2>1 DEF BarInv
  <2>3. Ceiling(JobType[j], pc[w]) <= Ceiling(JobType[j], pc'[w])
    BY <1>2, <2>1
  <2>4. /\ progress[j] \in 0 .. 100 /\ Ceiling(JobType[j], pc[w]) \in 0 .. 100
        /\ Ceiling(JobType[j], pc'[w]) \in 0 .. 100
    BY <1>1, CeilingType
  <2>5. progress[j] <= Ceiling(JobType[j], pc'[w])
    BY <2>2, <2>3, <2>4
  <2>6. held'[w] = j /\ progress'[j] = progress[j]
    BY <1>2, <2>1
  <2>7. QED
    BY <2>5, <2>6
<1>3. QED
  BY <1>2 DEF BarInv, Ceiling, Milestone

LEMMA BarStep == IInv /\ BarInv /\ [Next]_vars => BarInv'
<1> SUFFICES ASSUME IInv, BarInv, [Next]_vars
             PROVE  BarInv'
  OBVIOUS
<1>a. /\ status \in [Jobs -> Statuses] /\ retry \in [Jobs -> Nat]
      /\ progress \in [Jobs -> 0 .. 100]
      /\ pc \in [Workers -> PCs] /\ held \in [Workers -> Jobs \cup {NoJob}]
  BY DEF IInv, TypeOK, StoreTypeOK, WorkerTypeOK
<1>b. ASSUME NEW w \in Workers, pc[w] # "idle"
      PROVE  /\ held[w] \in Jobs
             /\ \A v \in Workers : v # w /\ pc[v] # "idle" => held[v] # held[w]
  BY <1>a, <1>b DEF IInv, HoldsJobUnlessIdle, ExclusiveClaim, NoJob, Jobs
<1>1. ASSUME NEW w \in Workers,
             \/ Claim(w) \/ ReadInput(w) \/ StartTool(w) \/ ToolEnds(w) \/ ToolKilled(w)
             \/ Persist(w) \/ Upload(w) \/ CopyLocal(w) \/ Record(w) \/ Report(w) \/ LogError(w)
      PROVE  BarInv'
  <2>1. /\ UNCHANGED <<progress, retry>>
        /\ \A v \in Workers : v # w => pc'[v] = pc[v] /\ held'[v] = held[v]
    BY <1>a, <1>1 DEF Claim, ReadInput, StartTool, ToolEnds, ToolSucceeds, ToolFails, ToolKilled,
       Persist, Upload, CopyLocal, Record, Report, LogError, Release, Goto, MarkClaimed,
       claimVars, storeVars, jobVars
  <2>2. \A j \in Jobs : status'[j] = status[j] \/ status'[j] = "analyzing"
    BY <1>a, <1>1 DEF Claim, ReadInput, StartTool, ToolEnds, ToolSucceeds, ToolFails, ToolKilled,
       Persist, Upload, CopyLocal, Record, Report, LogError, MarkClaimed, Write, storeVars, jobVars
  <2>3. /\ pc'[w] # "idle" => pc[w] # "idle" /\ held'[w] = held[w]
        /\ pc'[w] # "idle" =>
              \/ pc[w] = "claim" /\ pc'[w] = "begin"
              \/ pc[w] = "input" /\ pc'[w] = "announce"
              \/ pc[w] = "work" /\ pc'[w] = "running"
              \/ pc[w] = "running" /\ pc'[w] \in {"encoded", "deliver"}
              \/ pc'[w] \in {"copying", "record", "complete", "error", "settle"}
    BY <1>a, <1>1 DEF Claim, ReadInput, StartTool, ToolEnds, ToolSucceeds, ToolFails, ToolKilled,
       Persist, Upload, CopyLocal, Record, Report, LogError, Release, Goto, AfterPersist,
       claimVars
  <2>4. \A t : pc'[w] # "idle" => Ceiling(t, pc[w]) <= Ceiling(t, pc'[w])
    BY <2>3 DEF Ceiling, Milestone
  <2>5. \A t, p : Ceiling(t, p) <= Ceiling(t, p)
    BY CeilingType
  <2>6. QED
    BY <2>1, <2>2, <2>3, <2>4, <2>5, BarKept
<1>2. ASSUME NEW w \in Workers, SetProgress(w)
      PROVE  BarInv'
  <2>1. PICK o : UpdateStatus(o, held[w], ActiveStatus(TypeAt(w)), Milestone(TypeAt(w), pc[w]))
    BY <1>2 DEF SetProgress
  <2>2. PICK j \in Jobs : j = held[w]
    BY <1>2, <1>b DEF SetProgress
  <2>3. /\ pc[w] \in {"begin", "announce", "encoded", "deliver"}
        /\ pc' = [pc EXCEPT ![w] = AfterMilestone(JobType[j], pc[w])]
        /\ UNCHANGED <<held, retry>>
    BY <1>2, <2>1, <2>2 DEF SetProgress, Goto, claimVars, UpdateStatus, TypeAt
  <2>4. /\ \A i \in Jobs : i # j => progress'[i] = progress[i] /\ status'[i] = status[i]
        /\ progress'[j] = progress[j] \/ progress'[j] = Milestone(JobType[j], pc[w])
        /\ status'[j] = status[j] \/ status'[j] \in Active
    BY <1>a, <2>1, <2>2 DEF UpdateStatus, Write, TypeAt, ActiveStatus, Active
  <2>5. retry[j] = 0 => progress'[j] <= Ceiling(JobType[j], pc'[w])
    <3>1. retry[j] = 0 => progress[j] <= Ceiling(JobType[j], pc[w])
      BY <2>2, <2>3 DEF BarInv
    <3>2. progress[j] \in 0 .. 100 /\ pc'[w] = AfterMilestone(JobType[j], pc[w])
      BY <1>a, <2>3
    <3>3. CASE progress'[j] = progress[j]
      BY <2>3, <3>1, <3>2, <3>3 DEF Ceiling, Milestone, AfterMilestone
    <3>4. CASE progress'[j] = Milestone(JobType[j], pc[w])
      BY <2>3, <3>2, <3>4 DEF Ceiling, Milestone, AfterMilestone
    <3>5. QED
      BY <2>4, <3>3, <3>4
  <2>6. status[j] \in Active
    BY <2>2, <2>3 DEF IInv, RowFollowsHolder, ProcessPCs, HandlerPCs
  <2>7. ASSUME NEW v \in Workers, pc'[v] # "idle", retry'[held'[v]] = 0
        PROVE  progress'[held'[v]] <= Ceiling(JobType[held'[v]], pc'[v])
    <3>1. CASE v = w
      BY <2>2, <2>3, <2>5, <2>7, <3>1
    <3>2. CASE v # w
      <4>1. pc'[v] = pc[v] /\ held'[v] = held[v]
        BY <1>a, <2>3, <3>2
      <4>2. PICK i \in Jobs : i = held[v]
        BY <1>b, <2>7, <4>1
      <4>3. i # j /\ progress[i] <= Ceiling(JobType[i], pc[v])
        BY <1>b, <2>2, <2>3, <2>7, <3>2, <4>1, <4>2 DEF BarInv
      <4>4. QED
        BY <2>4, <4>1, <4>2, <4>3
    <3>3. QED
      BY <3>1, <3>2
  <2>8. \A i \in Jobs : status'[i] \in {"absent", "queued"} /\ retry'[i] = 0 => progress'[i] = 0
    BY <2>3, <2>4, <2>6 DEF BarInv, Active
  <2>9. QED
    BY <2>7, <2>8 DEF BarInv, Ceiling, Milestone
<1>3. ASSUME NEW w \in Workers, Complete(w) \/ Settle(w)
      PROVE  BarInv'
  <2>1. PICK j \in Jobs : j = held[w]
    BY <1>3, <1>b DEF Complete, Settle
  <2>2. /\ \A i \in Jobs : i # j => /\ progress'[i] = progress[i] /\ status'[i] = status[i]
                                    /\ retry'[i] = retry[i]
        /\ \A v \in Workers : v # w => pc'[v] = pc[v] /\ held'[v] = held[v]
        /\ pc'[w] = "idle" \/ (pc'[w] = "report" /\ held'[w] = j)
        /\ progress'[j] \in 0 .. 100
    BY <1>a, <1>3, <2>1 DEF Complete, Settle, UpdateStatus, IncrementRetry, UpdateError, Write,
       Release, Goto, AfterComplete, claimVars
  <2>3. retry'[j] = 0 => status'[j] \notin {"absent", "queued"}
    <3>1. status[j] \in Active /\ retry[j] \in Nat
      BY <1>a, <1>3, <2>1 DEF Complete, Settle, IInv, RowFollowsHolder, ProcessPCs, HandlerPCs
    <3>2. QED
      BY <1>a, <1>3, <2>1, <3>1 DEF Complete, Settle, UpdateStatus, IncrementRetry, UpdateError,
         Write, Active
  <2>4. ASSUME NEW v \in Workers, pc'[v] # "idle", retry'[held'[v]] = 0
        PROVE  progress'[held'[v]] <= Ceiling(JobType[held'[v]], pc'[v])
    <3>1. CASE v = w
      BY <2>2, <2>4, <3>1 DEF Ceiling
    <3>2. CASE v # w
      <4>1. PICK i \in Jobs : i = held[v]
        BY <1>b, <2>2, <2>4, <3>2
      <4>2. pc[w] # "idle" /\ pc[v] # "idle"
        BY <1>3, <2>2, <2>4, <3>2 DEF Complete, Settle
      <4>3. i # j
        BY <1>b, <2>1, <3>2, <4>1, <4>2
      <4>4. QED
        BY <2>2, <2>4, <3>2, <4>1, <4>2, <4>3 DEF BarInv
    <3>3. QED
      BY <3>1, <3>2
  <2>5. \A i \in Jobs : status'[i] \in {"absent", "queued"} /\ retry'[i] = 0 => progress'[i] = 0
    BY <2>2, <2>3 DEF BarInv
  <2>6. QED
    BY <2>4, <2>5 DEF BarInv, Ceiling, Milestone
<1>4. ASSUME NEW w \in Workers, Select(w)
      PROVE  BarInv'
  <2>1. PICK j \in Jobs : status[j] = "queued" /\ held' = [held EXCEPT ![w] = j]
    BY <1>4 DEF Select, Selectable
  <2>2. UNCHANGED <<status, progress, retry>> /\ pc' = [pc EXCEPT ![w] = "claim"]
    BY <1>4 DEF Select, Goto, storeVars, jobVars
  <2>3. QED
    BY <1>a, <2>1, <2>2 DEF BarInv, Ceiling, Milestone
<1>5. ASSUME NEW i \in Jobs, Submit(i)
      PROVE  BarInv'
  <2>1. /\ UNCHANGED <<progress, retry, pc, held>>
        /\ \A j \in Jobs : status'[j] = status[j] \/ status[j] = "absent"
    BY <1>a, <1>5 DEF Submit, Create, workerVars, claimVars
  <2>2. QED
    BY <2>1, CeilingType, BarKept
<1>6. ASSUME \/ Stop \/ Exit \/ Start \/ UNCHANGED vars
             \/ \E w \in Workers : Expire(w) \/ PollEmpty(w)
      PROVE  BarInv'
  <2>1. /\ UNCHANGED <<progress, retry, status>>
        /\ \A w \in Workers : pc'[w] # "idle" => pc'[w] = pc[w] /\ held'[w] = held[w]
    BY <1>6 DEF Stop, Exit, Start, Expire, PollEmpty, vars, workerVars, claimVars, storeVars,
       jobVars
  <2>2. QED
    BY <2>1, CeilingType, BarKept
<1>7. QED
  BY <1>1, <1>2, <1>3, <1>4, <1>5, <1>6 DEF Next, OwnStep

(* Only a report moves the bar, and only an attempt after the first finds  *)
(* it beyond what it is about to report.                                   *)
LEMMA BarGoesForward ==
    ASSUME IInv, BarInv, [Next]_vars, NEW j \in Jobs, progress'[j] < progress[j]
    PROVE  retry[j] > 0
<1>a. progress \in [Jobs -> 0 .. 100] /\ retry \in [Jobs -> Nat]
  BY DEF IInv, TypeOK, StoreTypeOK
<1>1. ASSUME NEW w \in Workers, SetProgress(w)
      PROVE  retry[j] > 0
  <2>1. PICK o : UpdateStatus(o, held[w], ActiveStatus(TypeAt(w)), Milestone(TypeAt(w), pc[w]))
    BY <1>1 DEF SetProgress
  <2>2. j = held[w] /\ progress'[j] = Milestone(JobType[j], pc[w])
    <3>1. progress' # progress /\ progress'[j] # progress[j]
      BY <1>a
    <3>2. QED
      BY <1>a, <2>1, <3>1 DEF UpdateStatus, Write, TypeAt
  <2>3. retry[j] = 0 => progress[j] <= Ceiling(JobType[j], pc[w])
    BY <1>1, <2>2 DEF BarInv, SetProgress
  <2>4. progress[j] \in 0 .. 100 /\ retry[j] \in Nat
    BY <1>a
  <2>5. Ceiling(JobType[j], pc[w]) <= Milestone(JobType[j], pc[w])
    BY <1>1 DEF SetProgress, Ceiling, Milestone
  <2>6. Ceiling(JobType[j], pc[w]) \in 0 .. 100 /\ Milestone(JobType[j], pc[w]) \in 0 .. 100
    BY CeilingType DEF Milestone
  <2>7. PICK c \in 0 .. 100 : c = Ceiling(JobType[j], pc[w])
    BY <2>6
  <2>8. PICK r \in 0 .. 100 : r = Milestone(JobType[j], pc[w])
    BY <2>6
  <2>9. c <= r /\ r < progress[j] /\ (retry[j] = 0 => progress[j] <= c)
    BY <2>2, <2>3, <2>5, <2>7, <2>8
  <2>10. QED
    BY <2>4, <2>7, <2>8, <2>9
<1>2. ASSUME ~ \E w \in Workers : SetProgress(w) \/ Complete(w)
      PROVE  UNCHANGED progress
  BY <1>2 DEF Next, OwnStep, Submit, Create, Select, PollEmpty, Claim, MarkClaimed, ReadInput,
     StartTool, ToolEnds, ToolSucceeds, ToolFails, ToolKilled, Persist, Upload, CopyLocal, Record,
     Report, LogError, Settle, IncrementRetry, UpdateError, Expire, Stop, Exit, Start, vars,
     storeVars, jobVars
<1>3. QED
  <2>1. progress[j] \in 0 .. 100 /\ progress'[j] # progress[j]
    BY <1>a
  <2>2. CASE UNCHANGED progress
    BY <2>1, <2>2
  <2>3. ASSUME NEW w \in Workers, Complete(w)
        PROVE  FALSE
    <3>1. progress'[j] = progress[j] \/ progress'[j] = 100
      BY <1>a, <2>3 DEF Complete, UpdateStatus, Write
    <3>2. QED
      BY <2>1, <3>1
  <2>4. QED
    BY <1>1, <1>2, <2>2, <2>3

(* A job's progress goes back only when it is tried again.                 *)
THEOREM FirstAttemptsOnlyAdvance == Spec => ProgressRestartsOnlyOnRetry
<1>1. IInv /\ BarInv /\ [Next]_vars =>
          [\A j \in Jobs : progress'[j] < progress[j] => retry[j] > 0]_vars
  BY BarGoesForward
<1>2. QED
  BY <1>1, BarInit, BarStep, Inductive, PTL DEF Spec, ProgressRestartsOnlyOnRetry
===============================================================================
