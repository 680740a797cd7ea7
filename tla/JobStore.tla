------------------------------- MODULE JobStore -------------------------------
(***************************************************************************)
(* The tables of internal/store/postgres.go that the workers write, one    *)
(* function per column that matters, and the statements as operators.      *)
(* Every statement addresses the row by its id and has no further WHERE    *)
(* condition, so it overwrites whatever the row holds.                     *)
(*                                                                         *)
(* Left out: progress_stage, error_message, updated_at, metadata (no       *)
(* decision reads them), and the contents of variants, assets and events,  *)
(* which are counted.                                                      *)
(***************************************************************************)
EXTENDS Calls

CONSTANT JobType        \* the job_type column: [Jobs -> JobTypes]

(* The types a request can ask for.  Left out: "package", which the domain *)
(* declares, and the branch of process that fails a job of any other type: *)
(* no handler inserts such a job.                                          *)
JobTypes == {"analyze", "extract_audio", "merge", "transcode"}

ASSUME JobTypeAssumption == JobType \in [Jobs -> JobTypes]

VARIABLES
    status,         \* media_jobs.status, "absent" before the INSERT
    progress,       \* media_jobs.progress_percent
    retry,          \* media_jobs.retry_count
    outputs,        \* number of variant batches or asset rows ever inserted for it
    infoEvents,     \* number of job_events rows of type "info"
    errorEvents     \* number of job_events rows of type "error"

jobVars   == <<status, progress, retry>>
eventVars == <<infoEvents, errorEvents>>
storeVars == <<jobVars, outputs, eventVars>>

Active   == {"analyzing", "processing"}
Terminal == {"completed", "failed"}
Statuses == {"absent", "queued"} \cup Active \cup Terminal

StoreTypeOK ==
    /\ status \in [Jobs -> Statuses]
    /\ progress \in [Jobs -> 0 .. 100]
    /\ retry \in [Jobs -> Nat]
    /\ outputs \in [Jobs -> Nat]
    /\ infoEvents \in [Jobs -> Nat]
    /\ errorEvents \in [Jobs -> Nat]

StoreInit ==
    /\ status = [j \in Jobs |-> "absent"]
    /\ progress = [j \in Jobs |-> 0]
    /\ retry = [j \in Jobs |-> 0]
    /\ outputs = [j \in Jobs |-> 0]
    /\ infoEvents = [j \in Jobs |-> 0]
    /\ errorEvents = [j \in Jobs |-> 0]

-------------------------------------------------------------------------------
(* media_jobs.  Create's row starts with progress 0 and retry_count 0, the *)
(* values the functions hold for an absent job.                            *)

Create(j) ==
    /\ status' = [status EXCEPT ![j] = "queued"]
    /\ UNCHANGED <<progress, retry>>

UpdateStatus(o, j, s, pct) ==
    /\ status' = Write(o, status, j, s)
    /\ progress' = Write(o, progress, j, pct)
    /\ UNCHANGED retry

UpdateError(o, j) ==
    /\ status' = Write(o, status, j, "failed")
    /\ UNCHANGED <<progress, retry>>

(* Seeded fault: the new count is stored, the status is forgotten.         *)
IncrementRetryOnly(o, j) ==
    /\ retry' = Write(o, retry, j, retry[j] + 1)
    /\ UNCHANGED <<status, progress>>

(* Seeded fault: the row is queued again, the new count is not stored.     *)
IncrementRetryUncounted(o, j) ==
    /\ status' = Write(o, status, j, "queued")
    /\ UNCHANGED <<progress, retry>>

IncrementRetry(o, j) ==
    /\ status' = Write(o, status, j, "queued")
    /\ retry' = Write(o, retry, j, retry[j] + 1)
    /\ UNCHANGED progress

(* The UPDATE and COMMIT that end Dequeue's transaction.                   *)
MarkClaimed(o, j) ==
    /\ status' = Write(o, status, j, "analyzing")
    /\ UNCHANGED <<progress, retry>>

(* media_variants: one transaction for the whole batch.                    *)
BulkCreate(o, j) == outputs' = Write(o, outputs, j, outputs[j] + 1)

(* output_assets                                                           *)
CreateAsset(o, j) == outputs' = Write(o, outputs, j, outputs[j] + 1)

(* job_events                                                              *)
AppendInfo(o, j) ==
    /\ infoEvents' = Write(o, infoEvents, j, infoEvents[j] + 1)
    /\ UNCHANGED errorEvents

AppendError(o, j) ==
    /\ errorEvents' = Write(o, errorEvents, j, errorEvents[j] + 1)
    /\ UNCHANGED infoEvents
===============================================================================
