------------------------------ MODULE WorkerPool ------------------------------
(***************************************************************************)
(* The worker pool of internal/jobs/worker.go: workers that poll the       *)
(* media_jobs table, claim the oldest queued job, run its handler under a  *)
(* deadline and settle the result, while the process they live in is       *)
(* stopped, killed and started again.                                      *)
(*                                                                         *)
(* A step is one call that another worker, the deadline or the end of the  *)
(* process can fall in front of or behind: a statement, a transaction, a   *)
(* tool's start or end, a storage call.  pc names the call a worker is     *)
(* about to make, or the one it is in:                                     *)
(*                                                                         *)
(*   idle - claim - begin - input - announce - work - running -            *)
(*     analyze:  deliver - persist -                          complete -   *)
(*     others:   [encoded -] deliver - upload [- copying] - record -       *)
(*                                                            complete -   *)
(*   report - idle,    and from a failed call   error - settle - idle.     *)
(***************************************************************************)
EXTENDS JobStore, FileStore

CONSTANTS
    Workers,    \* WORKER_COUNT workers
    MaxRetry    \* MAX_RETRIES; any integer parses (config.go:116)

ASSUME WorkersAssumption  == Workers # {}
ASSUME MaxRetryAssumption == MaxRetry \in Int

VARIABLES
    proc,       \* the API process: "up", "stopping" (workerCancel done), "down"
    pc,         \* where each worker is
    held,       \* the job in each worker's hands, NoJob when there is none
    seenRetry,  \* job.RetryCount as Dequeue read it
    expired     \* whether the deadline of jobCtx has passed

claimVars  == <<held, seenRetry, expired>>
workerVars == <<pc, claimVars>>
vars       == <<proc, workerVars, storeVars, fileVars>>

NoJob == 0

(* Inside the handler, under jobCtx; and the whole stay in process().      *)
HandlerPCs == {"begin", "input", "announce", "work", "running", "encoded",
               "deliver", "persist", "upload", "copying", "record",
               "complete", "report"}
ProcessPCs == HandlerPCs \cup {"error", "settle"}
PCs        == ProcessPCs \cup {"idle", "claim"}

WorkerTypeOK ==
    /\ pc \in [Workers -> PCs]
    /\ held \in [Workers -> Jobs \cup {NoJob}]
    /\ seenRetry \in [Workers -> Nat]
    /\ expired \in [Workers -> BOOLEAN]

TypeOK ==
    /\ StoreTypeOK
    /\ FileTypeOK
    /\ WorkerTypeOK
    /\ proc \in {"up", "stopping", "down"}

Init ==
    /\ StoreInit
    /\ FileInit
    /\ proc = "up"
    /\ pc = [w \in Workers |-> "idle"]
    /\ held = [w \in Workers |-> NoJob]
    /\ seenRetry = [w \in Workers |-> 0]
    /\ expired = [w \in Workers |-> FALSE]

-------------------------------------------------------------------------------
(* Contexts.  workerCtx is cancelled by the shutdown; jobCtx is its child  *)
(* with a deadline.  A call under a dead context is refused.               *)
WorkerCtxLive == proc = "up"
JobCtxLive(w) == WorkerCtxLive /\ ~expired[w]

Goto(w, p) == pc' = [pc EXCEPT ![w] = p]

Release(w) ==
    /\ Goto(w, "idle")
    /\ held' = [held EXCEPT ![w] = NoJob]
    /\ seenRetry' = [seenRetry EXCEPT ![w] = 0]
    /\ expired' = [expired EXCEPT ![w] = FALSE]

TypeAt(w)    == JobType[held[w]]
Analyzing(w) == TypeAt(w) = "analyze"

-------------------------------------------------------------------------------
(* The API's side: a job row appears.  The handlers of the API run in the  *)
(* same process and are served until srv.Shutdown returns.                 *)
Submit(j) ==
    /\ proc # "down"
    /\ status[j] = "absent"
    /\ Create(j)
    /\ UNCHANGED <<proc, workerVars, outputs, eventVars, fileVars>>

(* Dequeue, first half: SELECT ... FOR UPDATE SKIP LOCKED LIMIT 1.         *)
Locked(j) == \E w \in Workers : pc[w] = "claim" /\ held[w] = j

(* Seeded fault: a plain SELECT, which sees the locked row too.            *)
SelectableUnlocked(j) == status[j] = "queued"

Selectable(j) == status[j] = "queued" /\ ~Locked(j)

Select(w) ==
    /\ WorkerCtxLive
    /\ pc[w] = "idle"
    /\ \E j \in Jobs :
        /\ Selectable(j)
        /\ \A i \in Jobs : Selectable(i) => j <= i
        /\ held' = [held EXCEPT ![w] = j]
        /\ seenRetry' = [seenRetry EXCEPT ![w] = retry[j]]
    /\ Goto(w, "claim")
    /\ UNCHANGED <<proc, expired, storeVars, fileVars>>

(* No row: Dequeue returns nil, nil and the worker waits for the ticker.   *)
PollEmpty(w) ==
    /\ WorkerCtxLive
    /\ pc[w] = "idle"
    /\ \A j \in Jobs : ~Selectable(j)
    /\ UNCHANGED vars

(* Dequeue, second half: UPDATE and COMMIT, or a rollback.                 *)
Claim(w) ==
    /\ pc[w] = "claim"
    /\ \E o \in Outcomes(WorkerCtxLive, "db") :
        /\ MarkClaimed(o, held[w])
        /\ IF Acked(o) THEN Goto(w, "begin") /\ UNCHANGED claimVars
                       ELSE Release(w)
    /\ UNCHANGED <<proc, outputs, eventVars, fileVars>>

-------------------------------------------------------------------------------
(* The handlers, up to the point where they have a result.                 *)

ActiveStatus(t) == IF t = "analyze" THEN "analyzing" ELSE "processing"

(* Seeded fault: the callback's share of the bar is not halved.            *)
MilestoneUnhalved(t, p) ==
    CASE p = "begin"    -> IF t = "analyze" THEN 10 ELSE 5
      [] p = "announce" -> IF t = "analyze" THEN 30 ELSE 20
      [] p = "encoded"  -> 120
      [] OTHER          -> IF t = "analyze" THEN 80 ELSE 75

(* The percentages a handler reports; "encoded" is ExtractAudio's callback *)
(* with p = 100, i.e. 20 + 100/2.                                          *)
Milestone(t, p) ==
    CASE p = "begin"    -> IF t = "analyze" THEN 10 ELSE 5
      [] p = "announce" -> IF t = "analyze" THEN 30 ELSE 20
      [] p = "encoded"  -> 70
      [] OTHER          -> IF t = "analyze" THEN 80 ELSE 75

(* Seeded fault: an analysis is completed without its list being stored.   *)
AfterMilestoneEarly(t, p) ==
    CASE p = "begin"    -> "input"
      [] p = "announce" -> "work"
      [] p = "encoded"  -> "deliver"
      [] OTHER          -> IF t = "analyze" THEN "complete" ELSE "upload"

AfterMilestone(t, p) ==
    CASE p = "begin"    -> "input"
      [] p = "announce" -> "work"
      [] p = "encoded"  -> "deliver"
      [] OTHER          -> IF t = "analyze" THEN "persist" ELSE "upload"

(* setProgress: the error of the UPDATE is thrown away.                    *)
SetProgress(w) ==
    /\ pc[w] \in {"begin", "announce", "encoded", "deliver"}
    /\ \E o \in Outcomes(JobCtxLive(w), "db") :
        UpdateStatus(o, held[w], ActiveStatus(TypeAt(w)), Milestone(TypeAt(w), pc[w]))
    /\ Goto(w, AfterMilestone(TypeAt(w), pc[w]))
    /\ UNCHANGED <<proc, claimVars, outputs, eventVars, fileVars>>

(* An analyze job reads its source_requests row.  The others find their    *)
(* URLs in the metadata the API stored with the job.  Both are there: see  *)
(* JobsAreGrounded of Submission.                                          *)
ReadInput(w) ==
    /\ pc[w] = "input"
    /\ \/ /\ Analyzing(w) => JobCtxLive(w)
          /\ Goto(w, "announce")
       \/ /\ Analyzing(w)
          /\ ~JobCtxLive(w) \/ "db" \in Faults
          /\ Goto(w, "error")
    /\ UNCHANGED <<proc, claimVars, storeVars, fileVars>>

(* exec.CommandContext does not start a tool under a dead context.         *)
StartTool(w) ==
    /\ pc[w] = "work"
    /\ \/ /\ JobCtxLive(w)
          /\ Goto(w, "running")
          /\ IF Analyzing(w) THEN UNCHANGED fileVars ELSE BeginOutput(held[w])
       \/ /\ ~JobCtxLive(w) \/ "tool" \in Faults
          /\ Goto(w, "error")
          /\ UNCHANGED fileVars
    /\ UNCHANGED <<proc, claimVars, storeVars>>

ToolSucceeds(w) ==
    /\ pc[w] = "running"
    /\ JobCtxLive(w)
    /\ Goto(w, IF TypeAt(w) = "extract_audio" THEN "encoded" ELSE "deliver")
    /\ IF Analyzing(w) THEN UNCHANGED fileVars ELSE EndOutput(held[w])
    /\ UNCHANGED <<proc, claimVars, storeVars>>

(* The tool fails by itself: a bad source, no playable stream, the 60 s or *)
(* 120 s limit of an analysis.  What it wrote stays in TEMP_DIR.           *)
ToolFails(w) ==
    /\ pc[w] = "running"
    /\ "tool" \in Faults
    /\ Goto(w, "error")
    /\ UNCHANGED <<proc, claimVars, storeVars, fileVars>>

(* Seeded fault: the tool runs under the worker's context, which has no    *)
(* deadline.                                                               *)
ToolKilledByShutdown(w) ==
    /\ pc[w] = "running"
    /\ ~WorkerCtxLive
    /\ Goto(w, "error")
    /\ UNCHANGED <<proc, claimVars, storeVars, fileVars>>

(* exec.CommandContext kills the tool when jobCtx dies.                    *)
ToolKilled(w) ==
    /\ pc[w] = "running"
    /\ ~JobCtxLive(w)
    /\ Goto(w, "error")
    /\ UNCHANGED <<proc, claimVars, storeVars, fileVars>>

-------------------------------------------------------------------------------
(* The handlers, from the result to the return.                            *)

(* handleAnalyze stores the variants.  The list is never empty: Analyze    *)
(* fails when it finds nothing.                                            *)

(* Seeded fault: the error of BulkCreate is ignored like the others.       *)
AfterPersistIgnored(o) == "complete"

AfterPersist(o) == IF Acked(o) THEN "complete" ELSE "error"

Persist(w) ==
    /\ pc[w] = "persist"
    /\ \E o \in Outcomes(JobCtxLive(w), "db") :
        /\ BulkCreate(o, held[w])
        /\ Goto(w, AfterPersist(o))
    /\ UNCHANGED <<proc, claimVars, jobVars, eventVars, fileVars>>

(* storeFile, first part: storage.Store.  The local backend ignores its    *)
(* context; the copy is a step of its own.  An error return runs the       *)
(* handler's deferred Cleanup of the temporary file.                       *)
Upload(w) ==
    /\ pc[w] = "upload"
    /\ \/ /\ Backend = "s3"
          /\ \E o \in Outcomes(JobCtxLive(w), "store") :
                /\ PutObject(o, held[w])
                /\ IF Acked(o) THEN Goto(w, "record") /\ UNCHANGED temp
                               ELSE Goto(w, "error") /\ Cleanup(held[w])
       \/ /\ Backend = "local"
          /\ LocalCreate(held[w])
          /\ Goto(w, "copying")
          /\ UNCHANGED temp
       \/ /\ Backend = "local"
          /\ "store" \in Faults
          /\ Goto(w, "error")
          /\ Cleanup(held[w])
          /\ UNCHANGED blob
    /\ UNCHANGED <<proc, claimVars, storeVars>>

CopyLocal(w) ==
    /\ pc[w] = "copying"
    /\ \/ /\ LocalCopy(held[w])
          /\ Goto(w, "record")
          /\ UNCHANGED temp
       \/ /\ "store" \in Faults
          /\ Goto(w, "error")
          /\ Cleanup(held[w])
          /\ UNCHANGED blob
    /\ UNCHANGED <<proc, claimVars, storeVars>>

(* storeFile, second part: assets.Create.                                  *)
Record(w) ==
    /\ pc[w] = "record"
    /\ \E o \in Outcomes(JobCtxLive(w), "db") :
        /\ CreateAsset(o, held[w])
        /\ IF Acked(o) THEN Goto(w, "complete") /\ UNCHANGED temp
                       ELSE Goto(w, "error") /\ Cleanup(held[w])
    /\ UNCHANGED <<proc, claimVars, jobVars, eventVars, blob>>

(* Seeded fault: a refused completion counts as a failed attempt.          *)
AfterCompleteChecked(o) == IF Acked(o) THEN "report" ELSE "error"

(* The error of the completing UPDATE is thrown away, so the handler goes  *)
(* on to return nil.                                                       *)
AfterComplete(o) == "report"

Complete(w) ==
    /\ pc[w] = "complete"
    /\ \E o \in Outcomes(JobCtxLive(w), "db") :
        /\ UpdateStatus(o, held[w], "completed", 100)
        /\ Goto(w, AfterComplete(o))
    /\ UNCHANGED <<proc, claimVars, outputs, eventVars, fileVars>>

(* Seeded fault: a handler without its deferred Cleanup.                   *)
ReportUncleaned(w) ==
    /\ pc[w] = "report"
    /\ \E o \in Outcomes(JobCtxLive(w), "db") : AppendInfo(o, held[w])
    /\ Release(w)
    /\ UNCHANGED <<proc, jobVars, outputs, fileVars>>

(* The "info" event; the handler returns nil, its deferred Cleanup runs    *)
(* (an analyze job has no such file) and process() is over.                *)
Report(w) ==
    /\ pc[w] = "report"
    /\ \E o \in Outcomes(JobCtxLive(w), "db") : AppendInfo(o, held[w])
    /\ Cleanup(held[w])
    /\ Release(w)
    /\ UNCHANGED <<proc, jobVars, outputs, blob>>

-------------------------------------------------------------------------------
(* process() after a handler's error: both calls run under the worker's    *)
(* context, which no deadline kills, and both errors are thrown away.      *)

(* Seeded fault: the event is appended under the job's dead context.       *)
EventCtxLiveJob(w) == JobCtxLive(w)

EventCtxLive(w) == WorkerCtxLive

LogError(w) ==
    /\ pc[w] = "error"
    /\ \E o \in Outcomes(EventCtxLive(w), "db") : AppendError(o, held[w])
    /\ Goto(w, "settle")
    /\ UNCHANGED <<proc, claimVars, jobVars, outputs, fileVars>>

(* Seeded fault: the bound is off by one.                                  *)
MayRetryOnceMore(w) == seenRetry[w] <= MaxRetry

(* The count compared is the one read when the job was claimed.            *)
MayRetry(w) == seenRetry[w] < MaxRetry

Settle(w) ==
    /\ pc[w] = "settle"
    /\ \E o \in Outcomes(WorkerCtxLive, "db") :
        IF MayRetry(w) THEN IncrementRetry(o, held[w]) ELSE UpdateError(o, held[w])
    /\ Release(w)
    /\ UNCHANGED <<proc, outputs, eventVars, fileVars>>

-------------------------------------------------------------------------------
(* The deadline and the process.                                           *)

(* JOB_TIMEOUT passes while a handler runs.                                *)
Expire(w) ==
    /\ "timeout" \in Faults
    /\ pc[w] \in HandlerPCs
    /\ ~expired[w]
    /\ expired' = [expired EXCEPT ![w] = TRUE]
    /\ UNCHANGED <<proc, pc, held, seenRetry, storeVars, fileVars>>

(* SIGTERM: workerCancel, then srv.Shutdown.                               *)
Stop ==
    /\ "stop" \in Faults
    /\ proc = "up"
    /\ proc' = "stopping"
    /\ UNCHANGED <<workerVars, storeVars, fileVars>>

(* main returns as soon as the HTTP server has shut down, without waiting  *)
(* for the workers; or the process is killed.  Either way the workers end  *)
(* where they are.  The open transaction of a Dequeue is rolled back.      *)
Exit ==
    /\ proc = "stopping" \/ (proc = "up" /\ "crash" \in Faults)
    /\ proc' = "down"
    /\ pc' = [w \in Workers |-> "idle"]
    /\ held' = [w \in Workers |-> NoJob]
    /\ seenRetry' = [w \in Workers |-> 0]
    /\ expired' = [w \in Workers |-> FALSE]
    /\ UNCHANGED <<storeVars, fileVars>>

(* Nothing is repaired when the process starts: the pool just polls.       *)
Start ==
    /\ proc = "down"
    /\ proc' = "up"
    /\ UNCHANGED <<workerVars, storeVars, fileVars>>

-------------------------------------------------------------------------------
(* What a worker does of itself, the end of a running tool left aside.     *)
OwnStep(w) ==
    \/ Select(w) \/ Claim(w) \/ SetProgress(w) \/ ReadInput(w) \/ StartTool(w)
    \/ ToolKilled(w) \/ Persist(w) \/ Upload(w) \/ CopyLocal(w) \/ Record(w)
    \/ Complete(w) \/ Report(w) \/ LogError(w) \/ Settle(w)

ToolEnds(w) == ToolSucceeds(w) \/ ToolFails(w)

Next ==
    \/ \E j \in Jobs : Submit(j)
    \/ \E w \in Workers : OwnStep(w) \/ ToolEnds(w) \/ PollEmpty(w) \/ Expire(w)
    \/ Stop
    \/ Exit
    \/ Start

Spec == Init /\ [][Next]_vars

(* A worker is a goroutine with a ticker: it takes its next step when it   *)
(* can.  Every tool ends, by itself or because it is killed.               *)
FairSpec == Spec /\ \A w \in Workers : WF_vars(OwnStep(w) \/ ToolEnds(w))

(* A process that was told to stop does end, and is started again.         *)
RestartSpec == FairSpec /\ WF_vars(Exit) /\ WF_vars(Start)

(* The same as FairSpec, but a tool may hang; the jobCtx timer fires.  *)
HangingToolSpec ==
    /\ Spec
    /\ \A w \in Workers : WF_vars(OwnStep(w)) /\ WF_vars(Expire(w))

-------------------------------------------------------------------------------
(* Properties                                                              *)

(* A job is in the hands of one worker at most: SKIP LOCKED between the    *)
(* SELECT and the COMMIT of Dequeue, the status afterwards.                *)
ExclusiveClaim ==
    \A v, w \in Workers : v # w /\ held[v] # NoJob => held[v] # held[w]

(* MAX_RETRIES bounds the retries of a job, and only a job that has used   *)
(* them up fails, although the bound is tested on a copy of the count that *)
(* was read before the attempt.                                            *)
RetryBudget ==
    \A j \in Jobs :
        /\ retry[j] = 0 \/ retry[j] <= MaxRetry
        /\ status[j] = "failed" => retry[j] >= MaxRetry

(* A client that sees "completed" can have the result: the variants, or an *)
(* asset row with the whole object behind it.  Whatever went wrong before. *)
CompletedHasOutput ==
    \A j \in Jobs : status[j] = "completed" =>
        /\ outputs[j] > 0
        /\ JobType[j] # "analyze" => blob[j] = "whole"

(* An asset row always has its whole object behind it.  The local backend  *)
(* rewrites objects in place, so there it takes the absence of lost        *)
(* replies: a retry after one would rewrite the object of a stored row.    *)
AssetRowHasObject ==
    (Backend = "s3" \/ "ack" \notin Faults) =>
        \A j \in Jobs : JobType[j] # "analyze" /\ outputs[j] > 0 => blob[j] = "whole"

(* A job delivers its variants or its asset once, unless a reply is lost;  *)
(* and then once per attempt at most.                                      *)
SingleDelivery ==
    \A j \in Jobs :
        /\ outputs[j] <= retry[j] + 1
        /\ "ack" \notin Faults => outputs[j] <= 1

(* The events explain the row: an error event for every attempt that was   *)
(* retried or gave up, an info event only where there is something to show.*)
EventTrail ==
    \A j \in Jobs :
        /\ "db" \notin Faults =>
               errorEvents[j] >= retry[j] + (IF status[j] = "failed" THEN 1 ELSE 0)
        /\ infoEvents[j] > 0 => outputs[j] > 0

(* A delivered job leaves no temporary file behind, not even that of an    *)
(* earlier attempt that failed in the middle, while the process lives.     *)
TempReclaimed ==
    Faults \cap {"stop", "crash"} = {} =>
        \A j \in Jobs :
            (status[j] = "completed" /\ \A w \in Workers : held[w] # j) => temp[j] = "none"

(* Once a job is completed or failed, nothing changes its row, its outputs *)
(* or its object any more: no late progress report, no second attempt.     *)
TerminalFrozen ==
    [][\A j \in Jobs : status[j] \in Terminal =>
        /\ status'[j] = status[j]
        /\ progress'[j] = progress[j]
        /\ retry'[j] = retry[j]
        /\ outputs'[j] = outputs[j]
        /\ blob'[j] = blob[j]]_vars

(* A client's progress bar goes back only because an attempt was given up. *)
ProgressRestartsOnlyOnRetry ==
    [][\A j \in Jobs : progress'[j] < progress[j] => retry[j] > 0]_vars

(* How far a job is from its end: the calls that its worker has still to   *)
(* make in this attempt, at most, and AttemptSteps for each retry it has.  *)
(* Nobody works any more on an active row without a holder.                *)
CallsLeft(p) ==
    CASE p = "claim"    -> 17
      [] p = "begin"    -> 16
      [] p = "input"    -> 15
      [] p = "announce" -> 14
      [] p = "work"     -> 13
      [] p = "running"  -> 12
      [] p = "encoded"  -> 11
      [] p = "deliver"  -> 10
      [] p \in {"persist", "upload"} -> 9
      [] p = "copying"  -> 8
      [] p = "record"   -> 7
      [] p = "complete" -> 6
      [] p = "report"   -> 5
      [] p = "error"    -> 2
      [] p = "settle"   -> 1
      [] OTHER          -> 0

AttemptSteps == 18

HasHolder(j)   == \E w \in Workers : held[w] = j
HolderOf(j)    == CHOOSE w \in Workers : held[w] = j
RetriesLeft(j) == IF retry[j] < MaxRetry THEN MaxRetry - retry[j] ELSE 0

StepsLeft(j) ==
    IF HasHolder(j)              THEN AttemptSteps * RetriesLeft(j) + CallsLeft(pc[HolderOf(j)])
    ELSE IF status[j] = "absent" THEN AttemptSteps * RetriesLeft(j) + AttemptSteps + 1
    ELSE IF status[j] = "queued" THEN AttemptSteps * RetriesLeft(j) + AttemptSteps
    ELSE 0

(* Every step of a worker brings its job nearer to the end, whatever       *)
(* fails, and no step of anybody sets a job back: a job is not worked on   *)
(* for ever.  Only a claim that was not committed leaves the job in the    *)
(* queue as it was.                                                        *)
EveryStepCounts ==
    [][\A j \in Jobs :
        \/ /\ StepsLeft(j)' <= StepsLeft(j)
           /\ \A w \in Workers : held[w] = j /\ pc'[w] # pc[w] => StepsLeft(j)' < StepsLeft(j)
        \/ \E w \in Workers :
            held[w] = j /\ pc[w] = "claim" /\ pc'[w] = "idle" /\ status'[j] = "queued"]_vars

(* Every job that is submitted ends completed or failed.                   *)
SubmittedJobsSettle ==
    \A j \in Jobs : status[j] = "queued" ~> status[j] \in Terminal

(* A worker never stays with one job for ever, even when a tool hangs.     *)
WorkersReturn ==
    \A w \in Workers : pc[w] # "idle" ~> pc[w] = "idle"

-------------------------------------------------------------------------------
(* The pool implements JobLifecycle: an active row is a taken job as long  *)
(* as a worker holds it, and a lost one afterwards.                        *)

PhaseOf(j) ==
    CASE status[j] = "absent"    -> "absent"
      [] status[j] = "queued"    -> "waiting"
      [] status[j] = "completed" -> "done"
      [] status[j] = "failed"    -> "failed"
      [] OTHER -> IF HasHolder(j) THEN "taken" ELSE "lost"

Lifecycle ==
    INSTANCE JobLifecycle WITH
        phase <- [j \in Jobs |-> PhaseOf(j)],
        tries <- retry,
        Lossy <- Faults \cap {"db", "ack", "timeout", "stop", "crash"} # {}

(* Every behaviour of the pool is a life the abstract queue allows; with   *)
(* tool and storage failures only, one in which no job is ever lost.       *)
ImplementsLifecycle == Lifecycle!Spec

-------------------------------------------------------------------------------
(* The inductive invariant behind the safety properties: what is known of  *)
(* a job from where its worker is.                                         *)

HoldsJobUnlessIdle == \A w \in Workers : held[w] = NoJob <=> pc[w] = "idle"

(* The row of a claimed job says so, and only its holder changes that.     *)
RowFollowsHolder ==
    \A w \in Workers :
        /\ pc[w] = "claim" => status[held[w]] = "queued"
        /\ pc[w] \in ProcessPCs =>
               \/ status[held[w]] \in Active
               \/ pc[w] = "report" /\ status[held[w]] = "completed"

(* The copy of retry_count the worker decides on is still the true count.  *)
SnapshotIsCurrent ==
    \A w \in Workers : pc[w] # "idle" => seenRetry[w] = retry[held[w]]

(* What is known of job j's output when its worker is at p, or when it has *)
(* none ("idle").  An attempt that has not stored its output yet finds at  *)
(* most one output for each earlier attempt; without lost replies, none.   *)
JobDelivery(j, p) ==
    /\ p = "persist" => JobType[j] = "analyze"
    /\ p \in {"upload", "copying", "record"} => JobType[j] # "analyze"
    /\ outputs[j] <= retry[j] + 1
    /\ "ack" \notin Faults => outputs[j] <= 1
    /\ (\/ status[j] \in {"absent", "queued"}
        \/ p \notin {"idle", "complete", "report", "error", "settle"})
           => /\ outputs[j] <= retry[j]
              /\ "ack" \notin Faults => outputs[j] = 0
    /\ p \in {"error", "settle"} => ("ack" \notin Faults => outputs[j] = 0)
    /\ (p \in {"complete", "report"} \/ status[j] = "completed") => outputs[j] > 0
    /\ (\/ p \in {"record", "complete", "report"}
        \/ status[j] = "completed"
        \/ outputs[j] > 0 /\ (Backend = "s3" \/ "ack" \notin Faults))
           => (JobType[j] # "analyze" => blob[j] = "whole")
    /\ Backend = "s3" => blob[j] # "partial"

DeliveryInv ==
    \A j \in Jobs :
        /\ (\A w \in Workers : held[w] # j) => JobDelivery(j, "idle")
        /\ \A w \in Workers : held[w] = j => JobDelivery(j, pc[w])

(* All of the above with the properties they carry.                        *)
IInv ==
    /\ TypeOK
    /\ HoldsJobUnlessIdle
    /\ ExclusiveClaim
    /\ RowFollowsHolder
    /\ SnapshotIsCurrent
    /\ RetryBudget
    /\ DeliveryInv
===============================================================================
