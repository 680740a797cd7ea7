------------------------------ MODULE ClientFlow ------------------------------
(***************************************************************************)
(* The way through the API that README.md gives its clients (lines         *)
(* 118-132): submit a URL, poll the analysis, list its variants, ask for   *)
(* an action on them, poll that job, download the asset.  One client goes  *)
(* it once for each action job, from one analysis.  The client never hangs *)
(* up, asks with well-formed bodies, and names the variants it was shown   *)
(* and the job that found them.  It repeats a poll, and a download that is *)
(* answered with 500.                                                      *)
(*                                                                         *)
(* Beside it the clean-up deletes asset rows.  When its ticker ticks, and  *)
(* how old the rows are, is AssetDelivery's business: here it may come at  *)
(* any time and find any rows old enough.                                  *)
(***************************************************************************)
EXTENDS Submission

CONSTANT Analysis       \* the job the client's first request creates

ASSUME AnalysisAssumption ==
    /\ Analysis \in Jobs
    /\ \A j \in Jobs : JobType[j] = "analyze" <=> j = Analysis

VARIABLES
    flow,       \* how far the client has come with each action
    cleaned     \* how many asset rows of each action have been deleted

clientVars == <<flow, cleaned>>
flowVars   == <<submitVars, clientVars>>

Actions == Jobs \ {Analysis}

(* download - the client has the link; open - its download has found the   *)
(* row of the link.  done - it has the file; told - it knows that there is *)
(* none; expired - there was one, and it came after the clean-up; stuck -  *)
(* it was promised something that it did not get.                          *)
Ends   == {"done", "told", "expired", "stuck"}
Stages ==
    {"analysis", "variants", "action", "polling", "link", "download", "open"} \cup Ends

FlowTypeOK ==
    /\ SubmissionTypeOK
    /\ flow \in [Actions -> Stages]
    /\ cleaned \in [Actions -> Nat]

FlowInit ==
    /\ SubmissionInit
    /\ flow = [f \in Actions |-> "analysis"]
    /\ cleaned = [f \in Actions |-> 0]

(* The database answers every statement.                                   *)
Answering == Faults \cap {"db", "ack"} = {}

Step(f, from, to) ==
    /\ flow[f] = from
    /\ flow' = [flow EXCEPT ![f] = to]

Asking(f) == proc # "down" /\ UNCHANGED <<submitVars, cleaned>>

-------------------------------------------------------------------------------
(* The client's requests that only read.                                   *)

(* GET /v1/jobs/{id} until the job has ended; and the answer to the POST   *)
(* before that: the URL is no good, or the process ended without a word.   *)
PollAnalysis(f) ==
    /\ Asking(f)
    /\ \/ at[Analysis] \in Refused \cup {"cut"} /\ Step(f, "analysis", "told")
       \/ /\ at[Analysis] = "accepted"
          /\ \/ status[Analysis] = "completed" /\ Step(f, "analysis", "variants")
             \/ status[Analysis] = "failed"    /\ Step(f, "analysis", "told")

(* GET /v1/jobs/{id}/variants                                              *)
GetVariants(f) ==
    /\ Asking(f)
    /\ \E o \in Outcomes(TRUE, "db") :
        Step(f, "variants",
             IF Acked(o) /\ outputs[Analysis] > 0 THEN "action" ELSE "stuck")

(* The answer to POST /v1/jobs/{id}/actions/..., if there is one.          *)
AfterAnswer(p) ==
    CASE p = "accepted" -> "polling"
      [] p = "cut"      -> "told"
      [] OTHER          -> "stuck"

ReadAnswer(f) ==
    /\ Asking(f)
    /\ at[f] \in Answered \cup {"cut"}
    /\ Step(f, "action", AfterAnswer(at[f]))

(* GET /v1/jobs/{id}, first statement, and, for a completed job, second.   *)
PollJob(f) ==
    /\ Asking(f)
    /\ \/ status[f] = "completed" /\ Step(f, "polling", "link")
       \/ status[f] = "failed"    /\ Step(f, "polling", "told")

(* What comes of looking for the newest asset row of a job, whose token    *)
(* the client has or is to be given.                                       *)
Asset(f, o, there) ==
    CASE ~Acked(o) \/ outputs[f] = 0         -> "stuck"
      [] Acked(o) /\ cleaned[f] < outputs[f] -> there
      [] OTHER                               -> "expired"

GetJobAsset(f) ==
    /\ Asking(f)
    /\ \E o \in Outcomes(TRUE, "db") : Step(f, "link", Asset(f, o, "download"))

(* GET /v1/assets/dl/{token}: the row of the token, then the object.       *)
FindToken(f) ==
    /\ Asking(f)
    /\ \E o \in Outcomes(TRUE, "db") : Step(f, "download", Asset(f, o, "open"))

(* Half an object is sent like a whole one.                                *)
OpenObject(f) ==
    /\ Asking(f)
    /\ blob[f] # "none"
    /\ Step(f, "open", IF blob[f] = "whole" THEN "done" ELSE "stuck")

(* 500, "file not available": the client asks again.                       *)
NotAvailable(f) ==
    /\ Asking(f)
    /\ blob[f] = "none" \/ "store" \in Faults
    /\ Step(f, "open", "download")

ClientStep(f) ==
    \/ PollAnalysis(f) \/ GetVariants(f) \/ ReadAnswer(f)
    \/ PollJob(f) \/ GetJobAsset(f)
    \/ FindToken(f) \/ OpenObject(f) \/ NotAvailable(f)

-------------------------------------------------------------------------------
(* CleanupAssets: of each job in old, the rows that it has now.            *)
CleanUp ==
    /\ proc # "down"
    /\ \E old \in SUBSET {f \in Actions : cleaned[f] < outputs[f]} :
        cleaned' = [f \in Actions |-> IF f \in old THEN outputs[f] ELSE cleaned[f]]
    /\ UNCHANGED <<submitVars, flow>>

(* The client's requests that write, and the API's work on them.  With the *)
(* database up, a row that is there is found.                              *)
Submitting(j) ==
    \/ j = Analysis /\ (Refuse(j) \/ Analyze(j))
    \/ j # Analysis /\ flow[j] = "action" /\ Action(j)
    \/ InsertSource(j)
    \/ FindVariant(j, Analysis)
    \/ FindParent(j, Analysis)
    \/ ~Answering /\ Miss(j)
    \/ at[j] = "variant" /\ outputs[Analysis] = 0 /\ Miss(j)
    \/ at[j] = "parent" /\ status[Analysis] = "absent" /\ Miss(j)
    \/ CreateJob(j)

FlowNext ==
    \/ PoolStep /\ UNCHANGED clientVars
    \/ \E j \in Jobs : Submitting(j) /\ UNCHANGED clientVars
    \/ \E f \in Actions : ClientStep(f)
    \/ CleanUp

FlowSpec == FlowInit /\ [][FlowNext]_flowVars

(* Workers go on as in FairSpec.  A request is served by a goroutine of    *)
(* its own, and the client sends the next one when it has its answer.  The *)
(* store may refuse to open an object, but not each time it is asked: that *)
(* is strong fairness, for in between the client has to ask again.         *)
FairFlowSpec ==
    /\ FlowSpec
    /\ \A w \in Workers :
        WF_flowVars((OwnStep(w) \/ ToolEnds(w)) /\ PoolStep /\ UNCHANGED clientVars)
    /\ \A j \in Jobs : WF_flowVars(Submitting(j) /\ UNCHANGED clientVars)
    /\ \A f \in Actions : WF_flowVars(ClientStep(f)) /\ SF_flowVars(OpenObject(f))

-------------------------------------------------------------------------------
(* Properties                                                              *)

(* What the documented way promises: "completed" means variants to choose  *)
(* from and an asset to download, a request for what was listed is         *)
(* accepted, and a file that is "not available" is so because the store    *)
(* does not answer, never because it is missing or incomplete, so that     *)
(* asking again helps.  Anything else takes a failure of the database or a *)
(* reply that is lost; a client that comes after the clean-up finds the    *)
(* row gone, and is not counted as stuck.                                  *)
NobodyGetsStuck ==
    Answering =>
        \A f \in Actions :
            /\ flow[f] # "stuck"
            /\ flow[f] \in {"link", "download", "open"} => blob[f] = "whole"

(* Everybody who starts gets the file, or is told that there is none, or   *)
(* comes after the clean-up.  With a store that refuses to open objects it *)
(* rests on its not refusing for ever.                                     *)
FlowEnds ==
    \A f \in Actions :
        flow[f] = "analysis" ~> flow[f] \in {"done", "told", "expired"}
===============================================================================
