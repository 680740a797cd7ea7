-------------------------------- MODULE Calls --------------------------------
(***************************************************************************)
(* What a caller in the worker process sees of a call to another system:   *)
(* PostgreSQL through a pgxpool connection, or the object store.  Every    *)
(* store method of internal/store/postgres.go takes a context, runs one    *)
(* statement or one transaction, and returns the driver's error as it is.  *)
(* So a call ends in one of three ways:                                    *)
(*                                                                         *)
(*   "ok"       it took effect and the caller got a nil error;             *)
(*   "refused"  it took no effect and the caller got an error: the context *)
(*              was already dead, or the other side failed;                *)
(*   "unacked"  it took effect and the caller got an error all the same:   *)
(*              the connection, or the caller's context, died between the  *)
(*              commit and the reply.                                      *)
(***************************************************************************)
EXTENDS Integers

CONSTANTS
    MaxJobs,    \* bound: number of jobs submitted during a behaviour
    Faults      \* what may go wrong, a subset of FaultKinds

(* "db"/"store": the database/the object store refuses a call.  "ack": a   *)
(* reply is lost.  "tool": ffmpeg, ffprobe or yt-dlp fails by itself.      *)
(* "timeout": JOB_TIMEOUT passes.  "stop": SIGTERM.  "crash": the process  *)
(* dies without warning.                                                   *)
FaultKinds == {"db", "store", "ack", "tool", "timeout", "stop", "crash"}

ASSUME MaxJobsAssumption == MaxJobs \in Nat \ {0}
ASSUME FaultsAssumption  == Faults \subseteq FaultKinds

(* Jobs are numbered by created_at, so "oldest" is "smallest".  The rows   *)
(* need not appear in that order: created_at is taken by the application   *)
(* before the INSERT runs (postgres.go:110).                               *)
Jobs == 1 .. MaxJobs

(* The outcomes of a call made under a context, to a system whose own      *)
(* failure is the fault kind "side".                                       *)
Outcomes(live, side) ==
    {o \in {"ok", "refused", "unacked"} :
        \/ o = "ok" /\ live
        \/ o = "refused" /\ (~live \/ side \in Faults)
        \/ o = "unacked" /\ live /\ "ack" \in Faults}

Applied(o) == o # "refused"

(* Seeded fault: the error of the call is not looked at.                   *)
AckedAlways(o) == TRUE

Acked(o) == o = "ok"

(* Column or object f of job j after a write of v that ended in outcome o. *)
Write(o, f, j, v) == IF Applied(o) THEN [f EXCEPT ![j] = v] ELSE f
==============================================================================
