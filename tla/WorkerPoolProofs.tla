--------------------------- MODULE WorkerPoolProofs ---------------------------
(***************************************************************************)
(* Proofs about WorkerPool, for every number of workers and jobs, every    *)
(* retry limit, either backend and every set of faults.                    *)
(***************************************************************************)
EXTENDS WorkerPool, TLAPS

(* The milestones are percentages.                                         *)
LEMMA MilestoneType ==
    ASSUME NEW t, NEW p
    PROVE  Milestone(t, p) \in 0 .. 100
  BY DEF Milestone

(* A status a handler reports is an active one.                            *)
LEMMA ActiveStatusType ==
    ASSUME NEW t
    PROVE  ActiveStatus(t) \in Active
  BY DEF ActiveStatus, Active

(* Whoever is not idle holds a job.                                        *)
LEMMA HolderHasJob ==
    ASSUME TypeOK, HoldsJobUnlessIdle, NEW w \in Workers, pc[w] # "idle"
    PROVE  held[w] \in Jobs
  BY DEF TypeOK, WorkerTypeOK, HoldsJobUnlessIdle

-------------------------------------------------------------------------------
(* Types, and that a worker holds a job exactly when it is not idle: the   *)
(* two go together, since the statements address the row of held[w].       *)

WorkerInv == WorkerTypeOK /\ HoldsJobUnlessIdle
TypeInv   == TypeOK /\ HoldsJobUnlessIdle

(* A worker that goes on with its job.                                     *)
LEMMA GotoKeeps ==
    ASSUME WorkerInv, NEW w \in Workers, pc[w] # "idle",
           NEW p \in PCs \ {"idle"}, Goto(w, p), UNCHANGED claimVars
    PROVE  WorkerInv'
  BY DEF WorkerInv, WorkerTypeOK, HoldsJobUnlessIdle, Goto, claimVars

(* A worker that is done with its job.                                     *)
LEMMA ReleaseKeeps ==
    ASSUME WorkerInv, NEW w \in Workers, Release(w)
    PROVE  WorkerInv'
<1>1. WorkerTypeOK'
  BY DEF WorkerInv, WorkerTypeOK, Release, Goto, PCs
<1>2. HoldsJobUnlessIdle'
  BY DEF WorkerInv, WorkerTypeOK, HoldsJobUnlessIdle, Release, Goto
<1>3. QED
  BY <1>1, <1>2 DEF WorkerInv

LEMMA TypeInit == Init => TypeInv
  BY DEF Init, TypeInv, TypeOK, WorkerTypeOK, HoldsJobUnlessIdle, StoreInit, StoreTypeOK,
         FileInit, FileTypeOK, PCs, Statuses, Contents, NoJob, Jobs

LEMMA TypeStep == TypeInv /\ [Next]_vars => TypeInv'
<1> SUFFICES ASSUME TypeInv, [Next]_vars
             PROVE  StoreTypeOK' /\ FileTypeOK' /\ WorkerInv' /\ (proc \in {"up", "stopping", "down"})'
  BY DEF TypeInv, TypeOK, WorkerInv
<1>a. StoreTypeOK /\ FileTypeOK /\ WorkerInv /\ proc \in {"up", "stopping", "down"}
  BY DEF TypeInv, TypeOK, WorkerInv
<1> DEFINE SameStore == UNCHANGED storeVars
<1>b. SameStore => StoreTypeOK'
  BY <1>a DEF StoreTypeOK, storeVars, jobVars, eventVars
<1>c. UNCHANGED fileVars => FileTypeOK'
  BY <1>a DEF FileTypeOK, fileVars
<1>d. UNCHANGED workerVars => WorkerInv'
  BY <1>a DEF WorkerInv, WorkerTypeOK, HoldsJobUnlessIdle, workerVars, claimVars
<1>e. UNCHANGED proc => (proc \in {"up", "stopping", "down"})'
  BY <1>a
<1>f. ASSUME NEW w \in Workers, pc[w] # "idle"
      PROVE  held[w] \in Jobs
  BY <1>f, HolderHasJob DEF TypeInv
<1> HIDE DEF SameStore
<1>1. ASSUME NEW j \in Jobs, Submit(j)
      PROVE  StoreTypeOK' /\ UNCHANGED <<proc, workerVars, fileVars>>
  BY <1>a, <1>1 DEF Submit, Create, StoreTypeOK, Statuses, eventVars
<1>2. ASSUME NEW w \in Workers, Select(w)
      PROVE  WorkerInv' /\ UNCHANGED <<proc, storeVars, fileVars>>
  BY <1>a, <1>2 DEF Select, Goto, WorkerInv, WorkerTypeOK, HoldsJobUnlessIdle, StoreTypeOK,
                    PCs, NoJob, Jobs
<1>3. ASSUME NEW w \in Workers, Claim(w)
      PROVE  StoreTypeOK' /\ WorkerInv' /\ UNCHANGED <<proc, fileVars>>
  <2>1. PICK o : /\ MarkClaimed(o, held[w])
                 /\ IF Acked(o) THEN Goto(w, "begin") /\ UNCHANGED claimVars
                                ELSE Release(w)
    BY <1>3 DEF Claim
  <2>2. pc[w] # "idle" /\ held[w] \in Jobs /\ "begin" \in PCs \ {"idle"}
    BY <1>3, <1>f DEF Claim, PCs, ProcessPCs, HandlerPCs
  <2>3. WorkerInv'
    BY <1>a, <2>1, <2>2, GotoKeeps, ReleaseKeeps
  <2>4. StoreTypeOK'
    BY <1>a, <1>3, <2>1, <2>2
       DEF Claim, MarkClaimed, Write, StoreTypeOK, Statuses, Active, eventVars
  <2>5. QED
    BY <1>3, <2>3, <2>4 DEF Claim
<1>4. ASSUME NEW w \in Workers, SetProgress(w)
      PROVE  StoreTypeOK' /\ WorkerInv' /\ UNCHANGED <<proc, fileVars>>
  <2>1. PICK o : UpdateStatus(o, held[w], ActiveStatus(TypeAt(w)),
                              Milestone(TypeAt(w), pc[w]))
    BY <1>4 DEF SetProgress
  <2>2. pc[w] # "idle" /\ held[w] \in Jobs
    BY <1>4, <1>f DEF SetProgress
  <2>3. AfterMilestone(TypeAt(w), pc[w]) \in PCs \ {"idle"}
    BY DEF AfterMilestone, PCs, ProcessPCs, HandlerPCs
  <2>4. WorkerInv'
    BY <1>a, <1>4, <2>2, <2>3, GotoKeeps DEF SetProgress
  <2>5. StoreTypeOK'
    BY <1>a, <1>4, <2>1, <2>2, MilestoneType, ActiveStatusType
       DEF SetProgress, UpdateStatus, Write, StoreTypeOK, Statuses, eventVars
  <2>6. QED
    BY <1>4, <2>4, <2>5 DEF SetProgress
<1>5. ASSUME NEW w \in Workers, ReadInput(w) \/ ToolFails(w) \/ ToolKilled(w)
      PROVE  WorkerInv' /\ UNCHANGED <<proc, storeVars, fileVars>>
  <2>1. /\ pc[w] # "idle" /\ UNCHANGED <<proc, claimVars, storeVars, fileVars>>
        /\ Goto(w, "announce") \/ Goto(w, "error")
    BY <1>5 DEF ReadInput, ToolFails, ToolKilled
  <2>2. {"announce", "error"} \subseteq PCs \ {"idle"}
    BY DEF PCs, ProcessPCs, HandlerPCs
  <2>3. QED
    BY <1>a, <2>1, <2>2, GotoKeeps
<1>6. ASSUME NEW w \in Workers, StartTool(w) \/ ToolSucceeds(w)
      PROVE  FileTypeOK' /\ WorkerInv' /\ UNCHANGED <<proc, storeVars>>
  <2>1. /\ pc[w] # "idle" /\ UNCHANGED <<proc, claimVars, storeVars>>
        /\ \/ Goto(w, "running") \/ Goto(w, "error") \/ Goto(w, "encoded")
           \/ Goto(w, "deliver")
    BY <1>6 DEF StartTool, ToolSucceeds
  <2>2. {"running", "error", "encoded", "deliver"} \subseteq PCs \ {"idle"}
    BY DEF PCs, ProcessPCs, HandlerPCs
  <2>3. held[w] \in Jobs
    BY <1>f, <2>1
  <2>4. FileTypeOK'
    BY <1>a, <1>6, <2>3 DEF StartTool, ToolSucceeds, BeginOutput, EndOutput, FileTypeOK,
                            Contents, fileVars
  <2>5. QED
    BY <1>a, <2>1, <2>2, <2>4, GotoKeeps
<1>7. ASSUME NEW w \in Workers, Persist(w)
      PROVE  StoreTypeOK' /\ WorkerInv' /\ UNCHANGED <<proc, fileVars>>
  <2>1. PICK o : BulkCreate(o, held[w]) /\ Goto(w, AfterPersist(o))
    BY <1>7 DEF Persist
  <2>2. /\ pc[w] # "idle" /\ held[w] \in Jobs
        /\ UNCHANGED <<proc, claimVars, jobVars, eventVars, fileVars>>
    BY <1>7, <1>f DEF Persist
  <2>3. AfterPersist(o) \in PCs \ {"idle"}
    BY DEF AfterPersist, PCs, ProcessPCs, HandlerPCs
  <2>4. StoreTypeOK'
    BY <1>a, <2>1, <2>2 DEF BulkCreate, Write, StoreTypeOK, jobVars, eventVars
  <2>5. QED
    BY <1>a, <2>1, <2>2, <2>3, <2>4, GotoKeeps
<1>8. ASSUME NEW w \in Workers, Upload(w) \/ CopyLocal(w)
      PROVE  FileTypeOK' /\ WorkerInv' /\ UNCHANGED <<proc, storeVars>>
  <2>1. /\ pc[w] # "idle" /\ UNCHANGED <<proc, claimVars, storeVars>>
        /\ Goto(w, "record") \/ Goto(w, "error") \/ Goto(w, "copying")
    BY <1>8 DEF Upload, CopyLocal
  <2>2. {"record", "error", "copying"} \subseteq PCs \ {"idle"}
    BY DEF PCs, ProcessPCs, HandlerPCs
  <2>3. held[w] \in Jobs
    BY <1>f, <2>1
  <2>4. FileTypeOK'
    BY <1>a, <1>8, <2>3 DEF Upload, CopyLocal, PutObject, LocalCreate, LocalCopy, Cleanup,
                            Write, FileTypeOK, Contents
  <2>5. QED
    BY <1>a, <2>1, <2>2, <2>4, GotoKeeps
<1>9. ASSUME NEW w \in Workers, Record(w)
      PROVE  StoreTypeOK' /\ FileTypeOK' /\ WorkerInv' /\ UNCHANGED proc
  <2>1. PICK o : /\ CreateAsset(o, held[w])
                 /\ IF Acked(o) THEN Goto(w, "complete") /\ UNCHANGED temp
                                ELSE Goto(w, "error") /\ Cleanup(held[w])
    BY <1>9 DEF Record
  <2>2. /\ pc[w] # "idle" /\ held[w] \in Jobs
        /\ UNCHANGED <<proc, claimVars, jobVars, eventVars, blob>>
    BY <1>9, <1>f DEF Record
  <2>3. {"complete", "error"} \subseteq PCs \ {"idle"}
    BY DEF PCs, ProcessPCs, HandlerPCs
  <2>4. StoreTypeOK'
    BY <1>a, <2>1, <2>2 DEF CreateAsset, Write, StoreTypeOK, jobVars, eventVars
  <2>5. FileTypeOK'
    BY <1>a, <2>1, <2>2 DEF Cleanup, FileTypeOK, Contents
  <2>6. QED
    BY <1>a, <2>1, <2>2, <2>3, <2>4, <2>5, GotoKeeps
<1>10. ASSUME NEW w \in Workers, Complete(w)
       PROVE  StoreTypeOK' /\ WorkerInv' /\ UNCHANGED <<proc, fileVars>>
  <2>1. PICK o : UpdateStatus(o, held[w], "completed", 100) /\ Goto(w, AfterComplete(o))
    BY <1>10 DEF Complete
  <2>2. /\ pc[w] # "idle" /\ held[w] \in Jobs
        /\ UNCHANGED <<proc, claimVars, outputs, eventVars, fileVars>>
    BY <1>10, <1>f DEF Complete
  <2>3. AfterComplete(o) \in PCs \ {"idle"}
    BY DEF AfterComplete, PCs, ProcessPCs, HandlerPCs
  <2>4. StoreTypeOK'
    BY <1>a, <2>1, <2>2 DEF UpdateStatus, Write, StoreTypeOK, Statuses, Terminal, eventVars
  <2>5. QED
    BY <1>a, <2>1, <2>2, <2>3, <2>4, GotoKeeps
<1>11. ASSUME NEW w \in Workers, Report(w)
       PROVE  StoreTypeOK' /\ FileTypeOK' /\ WorkerInv' /\ UNCHANGED proc
  <2>1. PICK o : AppendInfo(o, held[w])
    BY <1>11 DEF Report
  <2>2. /\ held[w] \in Jobs /\ UNCHANGED <<proc, jobVars, outputs, blob>>
        /\ Release(w) /\ Cleanup(held[w])
    BY <1>11, <1>f DEF Report
  <2>3. StoreTypeOK'
    BY <1>a, <2>1, <2>2 DEF AppendInfo, Write, StoreTypeOK, jobVars
  <2>4. FileTypeOK'
    BY <1>a, <2>2 DEF Cleanup, FileTypeOK, Contents
  <2>5. QED
    BY <1>a, <2>2, <2>3, <2>4, ReleaseKeeps
<1>12. ASSUME NEW w \in Workers, LogError(w)
       PROVE  StoreTypeOK' /\ WorkerInv' /\ UNCHANGED <<proc, fileVars>>
  <2>1. PICK o : AppendError(o, held[w])
    BY <1>12 DEF LogError
  <2>2. /\ pc[w] # "idle" /\ held[w] \in Jobs /\ Goto(w, "settle")
        /\ UNCHANGED <<proc, claimVars, jobVars, outputs, fileVars>>
    BY <1>12, <1>f DEF LogError
  <2>3. StoreTypeOK'
    BY <1>a, <2>1, <2>2 DEF AppendError, Write, StoreTypeOK, jobVars
  <2>4. "settle" \in PCs \ {"idle"}
    BY DEF PCs, ProcessPCs
  <2>5. QED
    BY <1>a, <2>2, <2>3, <2>4, GotoKeeps
<1>13. ASSUME NEW w \in Workers, Settle(w)
       PROVE  StoreTypeOK' /\ WorkerInv' /\ UNCHANGED <<proc, fileVars>>
  <2>1. PICK o : IncrementRetry(o, held[w]) \/ UpdateError(o, held[w])
    BY <1>13 DEF Settle
  <2>2. /\ held[w] \in Jobs /\ Release(w)
        /\ UNCHANGED <<proc, outputs, eventVars, fileVars>>
    BY <1>13, <1>f DEF Settle
  <2>3. StoreTypeOK'
    BY <1>a, <2>1, <2>2 DEF IncrementRetry, UpdateError, Write, StoreTypeOK, Statuses,
                            Terminal, eventVars
  <2>4. QED
    BY <1>a, <2>2, <2>3, ReleaseKeeps
<1>14. ASSUME NEW w \in Workers, Expire(w)
       PROVE  WorkerInv' /\ UNCHANGED <<proc, storeVars, fileVars>>
  BY <1>a, <1>14 DEF Expire, WorkerInv, WorkerTypeOK, HoldsJobUnlessIdle
<1>15. ASSUME Stop \/ Start
       PROVE  proc' \in {"up", "stopping", "down"} /\ UNCHANGED <<workerVars, storeVars, fileVars>>
  BY <1>15 DEF Stop, Start
<1>16. ASSUME Exit
       PROVE  WorkerInv' /\ proc' \in {"up", "stopping", "down"} /\ UNCHANGED <<storeVars, fileVars>>
  BY <1>16 DEF Exit, WorkerInv, WorkerTypeOK, HoldsJobUnlessIdle, PCs
<1>17. CASE UNCHANGED vars
  BY <1>a, <1>b, <1>c, <1>d, <1>e, <1>17 DEF vars, SameStore
<1>18. QED
  BY <1>b, <1>c, <1>d, <1>e, <1>1, <1>2, <1>3, <1>4, <1>5, <1>6, <1>7, <1>8, <1>9, <1>10,
     <1>11, <1>12, <1>13, <1>14, <1>15, <1>16, <1>17
     DEF Next, OwnStep, ToolEnds, PollEmpty, SameStore

(* Every variable keeps its type, and a worker holds a job exactly from    *)
(* the SELECT of Dequeue to the end of process().                          *)
THEOREM TypeCorrect == Spec => [](TypeOK /\ HoldsJobUnlessIdle)
<1>1. TypeInv => TypeOK /\ HoldsJobUnlessIdle
  BY DEF TypeInv
<1>2. QED
  BY <1>1, TypeInit, TypeStep, PTL DEF Spec

-------------------------------------------------------------------------------
(* Who holds what.  The row of a held job is changed by its holder only,   *)
(* so the holder's copy of the count stays true, and the decision between  *)
(* retrying and giving up is made on the true count.                       *)

CoreInv ==
    /\ ExclusiveClaim
    /\ RowFollowsHolder
    /\ SnapshotIsCurrent
    /\ RetryBudget

LEMMA CoreInit == Init => CoreInv
  BY MaxRetryAssumption
     DEF Init, StoreInit, CoreInv, ExclusiveClaim, RowFollowsHolder, SnapshotIsCurrent,
         RetryBudget, NoJob, ProcessPCs, HandlerPCs

(* A worker goes on with its job, whose row may get another status.        *)
LEMMA CoreGoesOn ==
    ASSUME TypeInv, CoreInv, NEW w \in Workers, NEW p \in ProcessPCs,
           pc[w] # "idle", Goto(w, p), UNCHANGED <<held, seenRetry, retry>>,
           \A i \in Jobs : i # held[w] => status'[i] = status[i],
           \/ status'[held[w]] \in Active
           \/ p = "report" /\ status'[held[w]] = "completed"
    PROVE  CoreInv'
<1> USE DEF CoreInv, TypeInv, TypeOK, WorkerTypeOK
<1>1. held[w] \in Jobs
  BY HolderHasJob
<1>2. pc' = [pc EXCEPT ![w] = p]
  BY DEF Goto
<1>3. \A v \in Workers : v # w /\ pc[v] # "idle" => held[v] \in Jobs /\ held[v] # held[w]
  BY <1>1, HolderHasJob DEF ExclusiveClaim, NoJob, Jobs
<1>4. ExclusiveClaim'
  BY DEF ExclusiveClaim
<1>5. RowFollowsHolder'
  BY <1>1, <1>2, <1>3 DEF RowFollowsHolder, ProcessPCs, HandlerPCs
<1>6. SnapshotIsCurrent'
  BY <1>2 DEF SnapshotIsCurrent
<1>7. RetryBudget'
  BY <1>1 DEF RetryBudget, Active
<1>8. QED
  BY <1>4, <1>5, <1>6, <1>7

(* A worker lets go of its job, having settled it or not.                  *)
LEMMA CoreReleases ==
    ASSUME TypeInv, CoreInv, NEW w \in Workers, pc[w] # "idle", Release(w),
           \A i \in Jobs : i # held[w] => status'[i] = status[i] /\ retry'[i] = retry[i],
           retry'[held[w]] = 0 \/ retry'[held[w]] <= MaxRetry,
           status'[held[w]] = "failed" => retry'[held[w]] >= MaxRetry
    PROVE  CoreInv'
<1> USE DEF CoreInv, TypeInv, TypeOK, WorkerTypeOK
<1>1. held[w] \in Jobs
  BY HolderHasJob
<1>2. /\ pc' = [pc EXCEPT ![w] = "idle"]
      /\ held' = [held EXCEPT ![w] = NoJob]
      /\ seenRetry' = [seenRetry EXCEPT ![w] = 0]
  BY DEF Release, Goto
<1>3. \A v \in Workers : v # w /\ pc[v] # "idle" => held[v] \in Jobs /\ held[v] # held[w]
  BY <1>1, HolderHasJob DEF ExclusiveClaim, NoJob, Jobs
<1>4. ExclusiveClaim'
  BY <1>2 DEF ExclusiveClaim
<1>5. RowFollowsHolder'
  BY <1>2, <1>3 DEF RowFollowsHolder, ProcessPCs, HandlerPCs
<1>6. SnapshotIsCurrent'
  BY <1>2, <1>3 DEF SnapshotIsCurrent
<1>7. RetryBudget'
  BY <1>1 DEF RetryBudget
<1>8. QED
  BY <1>4, <1>5, <1>6, <1>7

LEMMA CoreStep == TypeInv /\ CoreInv /\ [Next]_vars => CoreInv'
<1> SUFFICES ASSUME TypeInv, CoreInv, [Next]_vars
             PROVE  CoreInv'
  OBVIOUS
<1> USE DEF CoreInv
<1>a. ASSUME NEW w \in Workers, pc[w] # "idle"
      PROVE  held[w] \in Jobs
  BY <1>a, HolderHasJob DEF TypeInv
<1>b. ASSUME NEW w \in Workers, pc[w] \in (HandlerPCs \ {"report"}) \cup {"error", "settle"}
      PROVE  held[w] \in Jobs /\ status[held[w]] \in Active
  <2>1. pc[w] \in ProcessPCs /\ pc[w] # "report" /\ pc[w] # "idle"
    BY <1>b DEF ProcessPCs, HandlerPCs
  <2>2. QED
    BY <2>1, <1>a DEF RowFollowsHolder
<1>c. status \in [Jobs -> Statuses] /\ retry \in [Jobs -> Nat]
  BY DEF TypeInv, TypeOK, StoreTypeOK
<1>d. \A j \in Jobs : /\ retry[j] = 0 \/ retry[j] <= MaxRetry
                      /\ status[j] = "failed" => retry[j] >= MaxRetry
  BY DEF RetryBudget
<1>1. ASSUME NEW j \in Jobs, Submit(j)
      PROVE  CoreInv'
  <2>1. \A w \in Workers : pc[w] # "idle" => held[w] # j
    BY <1>1 DEF Submit, RowFollowsHolder, TypeInv, TypeOK, WorkerTypeOK, PCs, Active
  <2>2. /\ UNCHANGED <<pc, held, seenRetry, retry>>
        /\ status' = [status EXCEPT ![j] = "queued"]
    BY <1>1 DEF Submit, Create, workerVars, claimVars
  <2>3. RowFollowsHolder'
    BY <1>a, <1>c, <2>1, <2>2 DEF RowFollowsHolder, ProcessPCs, HandlerPCs
  <2>4. QED
    BY <1>c, <2>2, <2>3 DEF ExclusiveClaim, SnapshotIsCurrent, RetryBudget
<1>2. ASSUME NEW w \in Workers, Select(w)
      PROVE  CoreInv'
  <2>1. PICK j \in Jobs : /\ Selectable(j)
                          /\ held' = [held EXCEPT ![w] = j]
                          /\ seenRetry' = [seenRetry EXCEPT ![w] = retry[j]]
    BY <1>2 DEF Select
  <2>2. /\ pc[w] = "idle"
        /\ pc' = [pc EXCEPT ![w] = "claim"]
        /\ UNCHANGED <<status, retry>>
    BY <1>2 DEF Select, Goto, storeVars, jobVars
  <2>3. \A v \in Workers : v # w /\ held[v] # NoJob => held[v] # j
    BY <2>1 DEF Selectable, Locked, RowFollowsHolder, TypeInv, TypeOK, WorkerTypeOK,
                HoldsJobUnlessIdle, PCs, Active
  <2>4. ExclusiveClaim'
    BY <2>1, <2>3 DEF ExclusiveClaim, TypeInv, TypeOK, WorkerTypeOK, NoJob, Jobs
  <2>5. RowFollowsHolder'
    BY <2>1, <2>2 DEF RowFollowsHolder, Selectable, TypeInv, TypeOK, WorkerTypeOK,
                      ProcessPCs, HandlerPCs
  <2>6. SnapshotIsCurrent'
    BY <2>1, <2>2 DEF SnapshotIsCurrent, TypeInv, TypeOK, WorkerTypeOK
  <2>7. QED
    BY <2>2, <2>4, <2>5, <2>6 DEF RetryBudget
<1>3. ASSUME NEW w \in Workers, Claim(w)
      PROVE  CoreInv'
  <2>1. PICK o : /\ MarkClaimed(o, held[w])
                 /\ IF Acked(o) THEN Goto(w, "begin") /\ UNCHANGED claimVars
                                ELSE Release(w)
    BY <1>3 DEF Claim
  <2>2. pc[w] # "idle" /\ held[w] \in Jobs /\ status[held[w]] = "queued"
    BY <1>3, <1>a DEF Claim, RowFollowsHolder
  <2>3. /\ UNCHANGED retry
        /\ \A i \in Jobs : i # held[w] => status'[i] = status[i]
        /\ status'[held[w]] \in {"queued", "analyzing"}
        /\ Acked(o) => status'[held[w]] \in Active
    BY <1>c, <2>1, <2>2 DEF MarkClaimed, Write, Acked, Applied, Active
  <2>4. CASE Acked(o)
    BY <2>1, <2>2, <2>3, <2>4, CoreGoesOn DEF claimVars, ProcessPCs, HandlerPCs
  <2>5. CASE ~Acked(o)
    BY <1>d, <2>1, <2>2, <2>3, <2>5, CoreReleases
  <2>6. QED
    BY <2>4, <2>5
<1>4. ASSUME NEW w \in Workers, SetProgress(w)
      PROVE  CoreInv'
  <2>1. PICK o : UpdateStatus(o, held[w], ActiveStatus(TypeAt(w)),
                              Milestone(TypeAt(w), pc[w]))
    BY <1>4 DEF SetProgress
  <2>2. /\ pc[w] # "idle" /\ held[w] \in Jobs /\ status[held[w]] \in Active
        /\ Goto(w, AfterMilestone(TypeAt(w), pc[w])) /\ UNCHANGED claimVars
    BY <1>4, <1>a, <1>b DEF SetProgress, HandlerPCs
  <2>3. /\ UNCHANGED retry
        /\ \A i \in Jobs : i # held[w] => status'[i] = status[i]
        /\ status'[held[w]] \in Active
    BY <1>c, <2>1, <2>2, ActiveStatusType DEF UpdateStatus, Write
  <2>4. AfterMilestone(TypeAt(w), pc[w]) \in ProcessPCs
    BY DEF AfterMilestone, ProcessPCs, HandlerPCs
  <2>5. QED
    BY <2>2, <2>3, <2>4, CoreGoesOn DEF claimVars
<1>5. ASSUME NEW w \in Workers,
             \/ ReadInput(w) \/ StartTool(w) \/ ToolEnds(w) \/ ToolKilled(w) \/ Persist(w)
             \/ Upload(w) \/ CopyLocal(w) \/ Record(w) \/ LogError(w)
      PROVE  CoreInv'
  <2>1. /\ pc[w] \in (HandlerPCs \ {"report"}) \cup {"error", "settle"}
        /\ UNCHANGED <<claimVars, jobVars>>
    BY <1>5 DEF ReadInput, StartTool, ToolEnds, ToolSucceeds, ToolFails, ToolKilled, Persist,
                Upload, CopyLocal, Record, LogError, storeVars, HandlerPCs
  <2>2. PICK p \in ProcessPCs : Goto(w, p)
    <3>1. ReadInput(w) => Goto(w, "announce") \/ Goto(w, "error")
      BY DEF ReadInput
    <3>2. StartTool(w) => Goto(w, "running") \/ Goto(w, "error")
      BY DEF StartTool
    <3>3. ToolEnds(w) => Goto(w, "encoded") \/ Goto(w, "deliver") \/ Goto(w, "error")
      BY DEF ToolEnds, ToolSucceeds, ToolFails
    <3>4. ToolKilled(w) => Goto(w, "error")
      BY DEF ToolKilled
    <3>5. Persist(w) => Goto(w, "complete") \/ Goto(w, "error")
      BY DEF Persist, AfterPersist
    <3>6. Upload(w) \/ CopyLocal(w) => Goto(w, "record") \/ Goto(w, "copying") \/ Goto(w, "error")
      BY DEF Upload, CopyLocal
    <3>7. Record(w) => Goto(w, "complete") \/ Goto(w, "error")
      BY DEF Record
    <3>8. LogError(w) => Goto(w, "settle")
      BY DEF LogError
    <3>9. {"announce", "running", "encoded", "deliver", "complete", "record", "copying",
           "error", "settle"} \subseteq ProcessPCs
      BY DEF ProcessPCs, HandlerPCs
    <3>10. QED
      BY <1>5, <3>1, <3>2, <3>3, <3>4, <3>5, <3>6, <3>7, <3>8, <3>9
  <2>3. pc[w] # "idle" /\ status[held[w]] \in Active
    BY <1>b, <2>1 DEF HandlerPCs
  <2>4. QED
    BY <2>1, <2>2, <2>3, CoreGoesOn DEF claimVars, jobVars
<1>6. ASSUME NEW w \in Workers, Complete(w)
      PROVE  CoreInv'
  <2>1. PICK o : UpdateStatus(o, held[w], "completed", 100) /\ Goto(w, AfterComplete(o))
    BY <1>6 DEF Complete
  <2>2. /\ pc[w] # "idle" /\ held[w] \in Jobs /\ status[held[w]] \in Active
        /\ UNCHANGED claimVars
    BY <1>6, <1>b DEF Complete, HandlerPCs
  <2>3. /\ UNCHANGED retry
        /\ \A i \in Jobs : i # held[w] => status'[i] = status[i]
        /\ status'[held[w]] \in Active \/ status'[held[w]] = "completed"
    BY <1>c, <2>1, <2>2 DEF UpdateStatus, Write
  <2>4. QED
    BY <2>1, <2>2, <2>3, CoreGoesOn DEF claimVars, AfterComplete, ProcessPCs, HandlerPCs
<1>7. ASSUME NEW w \in Workers, Report(w)
      PROVE  CoreInv'
  <2>1. pc[w] # "idle" /\ held[w] \in Jobs /\ Release(w) /\ UNCHANGED <<status, retry>>
    BY <1>7, <1>a DEF Report, jobVars
  <2>2. QED
    BY <1>d, <2>1, CoreReleases
<1>8. ASSUME NEW w \in Workers, Settle(w)
      PROVE  CoreInv'
  <2>1. PICK o : IF MayRetry(w) THEN IncrementRetry(o, held[w]) ELSE UpdateError(o, held[w])
    BY <1>8 DEF Settle
  <2>2. /\ pc[w] # "idle" /\ held[w] \in Jobs /\ status[held[w]] \in Active
        /\ Release(w)
    BY <1>8, <1>b DEF Settle, HandlerPCs
  <2>3. seenRetry[w] = retry[held[w]]
    BY <2>2 DEF SnapshotIsCurrent
  <2>4. CASE MayRetry(w)
    <3>1. retry[held[w]] + 1 <= MaxRetry
      BY <1>c, <2>2, <2>3, <2>4, MaxRetryAssumption DEF MayRetry
    <3>2. /\ \A i \in Jobs : i # held[w] => status'[i] = status[i] /\ retry'[i] = retry[i]
          /\ retry'[held[w]] \in {retry[held[w]], retry[held[w]] + 1}
          /\ status'[held[w]] # "failed"
      BY <1>c, <2>1, <2>2, <2>4 DEF IncrementRetry, Write, Active
    <3>3. QED
      BY <1>d, <2>2, <3>1, <3>2, CoreReleases
  <2>5. CASE ~MayRetry(w)
    <3>1. retry[held[w]] >= MaxRetry
      BY <1>c, <2>2, <2>3, <2>5, MaxRetryAssumption DEF MayRetry
    <3>2. \A i \in Jobs : (i # held[w] => status'[i] = status[i]) /\ retry'[i] = retry[i]
      BY <1>c, <2>1, <2>2, <2>5 DEF UpdateError, Write
    <3>3. QED
      BY <1>d, <2>2, <3>1, <3>2, CoreReleases
  <2>6. QED
    BY <2>4, <2>5
<1>9. ASSUME Exit
      PROVE  CoreInv'
  BY <1>9 DEF Exit, ExclusiveClaim, RowFollowsHolder, SnapshotIsCurrent, RetryBudget,
              storeVars, jobVars, ProcessPCs, HandlerPCs
<1>10. ASSUME UNCHANGED <<pc, held, seenRetry, status, retry>>
       PROVE  CoreInv'
  BY <1>10 DEF ExclusiveClaim, RowFollowsHolder, SnapshotIsCurrent, RetryBudget
<1>11. ASSUME \/ Stop \/ Start \/ UNCHANGED vars
              \/ \E w \in Workers : Expire(w) \/ PollEmpty(w)
       PROVE  UNCHANGED <<pc, held, seenRetry, status, retry>>
  BY <1>11 DEF Stop, Start, vars, Expire, PollEmpty, workerVars, claimVars, storeVars, jobVars
<1>12. QED
  BY <1>1, <1>2, <1>3, <1>4, <1>5, <1>6, <1>7, <1>8, <1>9, <1>10, <1>11 DEF Next, OwnStep

(* No job is ever in the hands of two workers.                             *)
THEOREM ClaimsAreExclusive == Spec => []ExclusiveClaim
<1>1. CoreInv => ExclusiveClaim
  BY DEF CoreInv
<1>2. QED
  BY <1>1, TypeInit, TypeStep, CoreInit, CoreStep, PTL DEF Spec

(* No job is retried more often than MAX_RETRIES allows, and none fails    *)
(* before its retries are used up.                                         *)
THEOREM RetriesAreBounded == Spec => []RetryBudget
<1>1. CoreInv => RetryBudget
  BY DEF CoreInv
<1>2. QED
  BY <1>1, TypeInit, TypeStep, CoreInit, CoreStep, PTL DEF Spec

-------------------------------------------------------------------------------
(* What a step can touch at all.                                           *)

(* The steps, sorted by whom they concern.                                 *)
LEMMA StepKinds ==
    ASSUME [Next]_vars
    PROVE  \/ \E j \in Jobs : Submit(j)
           \/ \E w \in Workers : Select(w)
           \/ \E w \in Workers : pc[w] # "idle" /\ (OwnStep(w) \/ ToolEnds(w))
           \/ Exit
           \/ UNCHANGED <<pc, held, seenRetry, storeVars, fileVars>>
<1>1. ASSUME NEW w \in Workers, OwnStep(w) \/ ToolEnds(w)
      PROVE  Select(w) \/ pc[w] # "idle"
  BY <1>1 DEF OwnStep, ToolEnds, Claim, SetProgress, ReadInput, StartTool, ToolKilled, Persist,
              Upload, CopyLocal, Record, Complete, Report, LogError, Settle, ToolSucceeds, ToolFails
<1>2. ASSUME \/ UNCHANGED vars \/ Stop \/ Start
             \/ \E w \in Workers : PollEmpty(w) \/ Expire(w)
      PROVE  UNCHANGED <<pc, held, seenRetry, storeVars, fileVars>>
  BY <1>2 DEF Stop, Start, PollEmpty, Expire, vars, workerVars, claimVars
<1>3. QED
  BY <1>1, <1>2 DEF Next

(* A worker with a job writes the rows and the files of that job only, and *)
(* either keeps it or lets it go.                                          *)
LEMMA WorkerStepIsLocal ==
    ASSUME TypeInv, NEW w \in Workers, pc[w] # "idle", OwnStep(w) \/ ToolEnds(w)
    PROVE  /\ held[w] \in Jobs
           /\ \A i \in Jobs : i # held[w] =>
                /\ status'[i] = status[i] /\ progress'[i] = progress[i] /\ retry'[i] = retry[i]
                /\ outputs'[i] = outputs[i] /\ blob'[i] = blob[i] /\ temp'[i] = temp[i]
           /\ \A v \in Workers : v # w => pc'[v] = pc[v] /\ held'[v] = held[v]
           /\ UNCHANGED held \/ Release(w)
<1>a. held[w] \in Jobs
  BY HolderHasJob DEF TypeInv
<1>b. /\ status \in [Jobs -> Statuses] /\ progress \in [Jobs -> 0 .. 100]
      /\ retry \in [Jobs -> Nat] /\ outputs \in [Jobs -> Nat]
      /\ temp \in [Jobs -> Contents] /\ blob \in [Jobs -> Contents]
      /\ pc \in [Workers -> PCs] /\ held \in [Workers -> Jobs \cup {NoJob}]
  BY DEF TypeInv, TypeOK, StoreTypeOK, FileTypeOK, WorkerTypeOK
<1>1. UNCHANGED held \/ Release(w)
  BY DEF OwnStep, ToolEnds, Select, Claim, SetProgress, ReadInput, StartTool, ToolKilled, Persist,
         Upload, CopyLocal, Record, Complete, Report, LogError, Settle, ToolSucceeds, ToolFails,
         claimVars
<1>2. /\ \A i \in Jobs : i # held[w] =>
            /\ status'[i] = status[i] /\ progress'[i] = progress[i] /\ retry'[i] = retry[i]
            /\ outputs'[i] = outputs[i]
  BY <1>a, <1>b
     DEF OwnStep, ToolEnds, Select, Claim, SetProgress, ReadInput, StartTool, ToolKilled, Persist,
         Upload, CopyLocal, Record, Complete, Report, LogError, Settle, ToolSucceeds, ToolFails,
         MarkClaimed, UpdateStatus, UpdateError, IncrementRetry, BulkCreate, CreateAsset, Write,
         storeVars, jobVars
<1>3. \A i \in Jobs : i # held[w] => blob'[i] = blob[i] /\ temp'[i] = temp[i]
  BY <1>a, <1>b
     DEF OwnStep, ToolEnds, Select, Claim, SetProgress, ReadInput, StartTool, ToolKilled, Persist,
         Upload, CopyLocal, Record, Complete, Report, LogError, Settle, ToolSucceeds, ToolFails,
         BeginOutput, EndOutput, Cleanup, LocalCreate, LocalCopy, PutObject, Write, fileVars
<1>4. \A v \in Workers : v # w => pc'[v] = pc[v] /\ held'[v] = held[v]
  BY <1>b
     DEF OwnStep, ToolEnds, Select, Claim, SetProgress, ReadInput, StartTool, ToolKilled, Persist,
         Upload, CopyLocal, Record, Complete, Report, LogError, Settle, ToolSucceeds, ToolFails,
         Release, Goto, claimVars
<1>5. QED
  BY <1>a, <1>1, <1>2, <1>3, <1>4
===============================================================================
