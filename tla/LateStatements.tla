----------------------------- MODULE LateStatements -----------------------------
(***************************************************************************)
(* The worker pool over connections that may break in the middle of a      *)
(* statement.  The call returns an error, the worker goes on, and the      *)
(* statement is still under way: PostgreSQL runs what it has received, at  *)
(* once, later or never, whatever became of the client.  None of the       *)
(* UPDATEs of internal/store/postgres.go looks at the status it overwrites *)
(* (lines 151-175), so what a late one does depends on what has happened   *)
(* to the row meanwhile.                                                   *)
(*                                                                         *)
(* Left out are late INSERTs into job_events, which nothing reads.  A late *)
(* COMMIT of Dequeue is the lost reply of Claim: until it arrives the row  *)
(* stays locked, and nobody else touches it.                               *)
(***************************************************************************)
EXTENDS WorkerPool, FiniteSets

CONSTANT MaxFlight      \* bound: statements under way at a time

ASSUME MaxFlightAssumption == MaxFlight \in Nat

(* A statement that arrives late is a failure of the database to the       *)
(* worker, and a lost reply once it has arrived.                           *)
ASSUME LateFaultsAssumption == {"db", "ack"} \subseteq Faults

VARIABLE flight         \* the statements under way that nobody waits for

lateVars == <<vars, flight>>

(* attempt is the retry count of the attempt it belongs to, pct what it    *)
(* reports as progress.                                                    *)
Kinds     == {"progress", "output", "complete", "retry", "fail"}
Statement == [kind : Kinds, job : Jobs, pct : 0 .. 100, attempt : Nat]

Decisive == {"complete", "retry", "fail"}

Writing == {"begin", "announce", "encoded", "deliver", "persist", "record", "complete",
            "settle"}

FlightTypeOK == flight \subseteq Statement /\ Cardinality(flight) <= MaxFlight

LateInit == Init /\ flight = {}

-------------------------------------------------------------------------------
(* process() settles under the worker's context, handlers run under jobCtx.*)
CallLive(w) == IF pc[w] = "settle" THEN WorkerCtxLive ELSE JobCtxLive(w)

KindAt(w) ==
    CASE pc[w] \in {"persist", "record"} -> "output"
      [] pc[w] = "complete" -> "complete"
      [] pc[w] = "settle" -> IF MayRetry(w) THEN "retry" ELSE "fail"
      [] OTHER -> "progress"

StatementOf(w) ==
    [kind |-> KindAt(w), job |-> held[w], attempt |-> seenRetry[w],
     pct |-> IF KindAt(w) = "progress" THEN Milestone(TypeAt(w), pc[w]) ELSE 0]

(* The connection breaks: the worker does what it does after a refusal.    *)
GiveUp(w) ==
    /\ pc[w] \in Writing
    /\ CallLive(w)
    /\ Cardinality(flight) < MaxFlight
    /\ UNCHANGED storeVars
    /\ OwnStep(w)
    /\ flight' = flight \cup {StatementOf(w)}

(* An UPDATE of the row waits for Dequeue's lock, and so does an INSERT    *)
(* that refers to the row.                                                 *)
Blocked(s) == Locked(s.job)

Effect(s) ==
    \/ /\ s.kind = "progress"
       /\ UpdateStatus("ok", s.job, ActiveStatus(JobType[s.job]), s.pct)
       /\ UNCHANGED outputs
    \/ /\ s.kind = "output"
       /\ outputs' = [outputs EXCEPT ![s.job] = @ + 1]
       /\ UNCHANGED jobVars
    \/ s.kind = "complete" /\ UpdateStatus("ok", s.job, "completed", 100) /\ UNCHANGED outputs
    \/ s.kind = "retry" /\ IncrementRetry("ok", s.job) /\ UNCHANGED outputs
    \/ s.kind = "fail" /\ UpdateError("ok", s.job) /\ UNCHANGED outputs

(* PostgreSQL runs a statement it has received; the process may be down.   *)
Land(s) ==
    /\ ~Blocked(s)
    /\ Effect(s)
    /\ flight' = flight \ {s}
    /\ UNCHANGED <<proc, workerVars, eventVars, fileVars>>

(* It never arrived.                                                       *)
Lose(s) == flight' = flight \ {s} /\ UNCHANGED vars

LateNext ==
    \/ Next /\ UNCHANGED flight
    \/ \E w \in Workers : GiveUp(w)
    \/ \E s \in flight : Land(s) \/ Lose(s)

LateSpec == LateInit /\ [][LateNext]_lateVars

-------------------------------------------------------------------------------
(* Properties, besides ExclusiveClaim, RetryBudget, SingleDelivery and     *)
(* CompletedHasOutput of WorkerPool, which late statements leave intact.   *)
(* TerminalFrozen they do not: a late progress report takes a completed    *)
(* job back to "processing", where it then stays.                          *)

(* A job that was completed or failed is never given to a worker again,    *)
(* not even by a statement of an earlier attempt that arrives only now.    *)
NeverRequeued ==
    [][\A j \in Jobs : status[j] \in Terminal => status'[j] # "queued"]_lateVars

(* The statement that is to end an attempt finds the row as the attempt    *)
(* left it: active, its count unchanged, in nobody's hands any more (or in *)
(* those of the worker that is still to report).                           *)
Stands(s) ==
    /\ status[s.job] \in Active
    /\ retry[s.job] = s.attempt
    /\ \A w \in Workers : held[w] = s.job => s.kind = "complete" /\ pc[w] = "report"
    /\ s.kind = "retry" => s.attempt < MaxRetry
    /\ s.kind = "fail" => s.attempt >= MaxRetry

(* However late it is, the decision an attempt ended with is still the     *)
(* right one when it arrives; and there is never a second one on its way.  *)
DecisionStands ==
    \A s \in flight : s.kind \in Decisive =>
        /\ Stands(s)
        /\ \A r \in flight : r.job = s.job /\ r.kind \in Decisive => r = s

-------------------------------------------------------------------------------
(* What SingleDelivery and CompletedHasOutput rest on when an INSERT may   *)
(* take effect long after its attempt is over.                             *)

OutputsInFlight(j) == {s \in flight : s.kind = "output" /\ s.job = j}

(* The attempt of job j that is under way, or the next one, has not sent   *)
(* its output yet.                                                         *)
Unsent(j) ==
    \/ status[j] \in {"absent", "queued"}
    \/ \E w \in Workers : held[w] = j /\ pc[w] \in HandlerPCs \ {"complete", "report"}

(* The outputs stored and those still under way are at most one for each   *)
(* attempt that has sent its own.                                          *)
OutputsAreCounted ==
    \A j \in Jobs :
        outputs[j] + Cardinality(OutputsInFlight(j)) <= retry[j] + IF Unsent(j) THEN 0 ELSE 1

HasOutput(j) == outputs[j] > 0 /\ (JobType[j] # "analyze" => blob[j] = "whole")

(* Whoever is about to complete a job has stored its output, and so has    *)
(* the attempt behind a completion that is still under way.                *)
CompletionsAreEarned ==
    /\ \A w \in Workers :
        /\ pc[w] = "persist" => Analyzing(w)
        /\ pc[w] \in {"upload", "copying", "record"} => ~Analyzing(w)
        /\ pc[w] = "record" => blob[held[w]] = "whole"
        /\ pc[w] \in {"complete", "report"} => HasOutput(held[w])
    /\ \A s \in flight : s.kind = "complete" => HasOutput(s.job)
    /\ \A j \in Jobs : status[j] = "completed" => HasOutput(j)

(* Both, an invariant like IInv of WorkerPool.                             *)
LateDelivery == OutputsAreCounted /\ CompletionsAreEarned
================================================================================
