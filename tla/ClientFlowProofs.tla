--------------------------- MODULE ClientFlowProofs ---------------------------
(***************************************************************************)
(* A proof about ClientFlow: with a database that answers, nobody who goes *)
(* the documented way gets stuck, for every mix of actions, every pool,    *)
(* and whatever the tools, the storage, the deadline, the clean-up or the  *)
(* process do.                                                             *)
(***************************************************************************)
EXTENDS ClientFlow, SubmissionProofs

(* The flow is one way of using the API.                                   *)
LEMMA FlowSteps == [FlowNext]_flowVars => [SubmissionNext]_submitVars
<1>1. ASSUME NEW j \in Jobs, Submitting(j)
      PROVE  SubmissionNext
  <2>1. Receive(j) \/ InsertSource(j) \/ Look(j) \/ CreateJob(j)
    BY <1>1, AnalysisAssumption DEF Submitting, Receive, Look
  <2>2. QED
    BY <2>1 DEF SubmissionNext
<1>2. ASSUME NEW f \in Actions, ClientStep(f)
      PROVE  UNCHANGED submitVars
  BY <1>2 DEF ClientStep, PollAnalysis, GetVariants, ReadAnswer, PollJob, GetJobAsset,
              FindToken, OpenObject, NotAvailable, Asking
<1>3. CleanUp => UNCHANGED submitVars
  BY DEF CleanUp
<1>4. QED
  BY <1>1, <1>2, <1>3 DEF FlowNext, SubmissionNext, flowVars

THEOREM FlowUsesTheAPI == FlowSpec => SubmissionSpec
<1>1. FlowInit => SubmissionInit
  BY DEF FlowInit
<1>2. QED
  BY <1>1, FlowSteps, PTL DEF FlowSpec, SubmissionSpec

-------------------------------------------------------------------------------
(* What the client has seen is still there.                                *)

Seen(f) ==
    /\ flow[f] \notin {"analysis", "told"} =>
          outputs[Analysis] > 0 /\ status[Analysis] # "absent"
    /\ at[f] \in Working => flow[f] = "action"
    /\ flow[f] \in {"link", "download", "open", "done"} => outputs[f] > 0

Unhindered(f) == at[f] \notin Refused /\ flow[f] # "stuck"

FlowInv ==
    /\ gone = {}
    /\ flow \in [Actions -> Stages]
    /\ cleaned \in [Actions -> Nat]
    /\ \A f \in Actions : Seen(f) /\ (Answering => Unhindered(f))

LEMMA FlowInvInit == FlowInit => FlowInv
  BY DEF FlowInit, SubmissionInit, FlowInv, Seen, Unhindered, Actions, Stages, Working, Refused

(* What the pool's invariant says of a completed job and of an asset row.  *)
LEMMA CompletedIsThere ==
    ASSUME IInv, NEW j \in Jobs
    PROVE  /\ status[j] = "completed" => outputs[j] > 0
           /\ Answering /\ JobType[j] # "analyze" /\ outputs[j] > 0 => blob[j] = "whole"
<1>1. PICK p : JobDelivery(j, p)
  BY DEF IInv, DeliveryInv
<1>2. QED
  BY <1>1 DEF JobDelivery, Answering

(* What the client meets when it looks for an asset row.                   *)
LEMMA AssetEnds ==
    ASSUME NEW f \in Actions, NEW o, NEW there \in {"download", "open"}
    PROVE  Asset(f, o, there) \in {"stuck", there, "expired"}
<1>1. CASE ~Acked(o) \/ outputs[f] = 0
  BY <1>1 DEF Asset
<1>2. CASE Acked(o) /\ outputs[f] # 0 /\ cleaned[f] < outputs[f]
  BY <1>2 DEF Asset
<1>3. CASE Acked(o) /\ outputs[f] # 0 /\ ~(cleaned[f] < outputs[f])
  BY <1>3 DEF Asset
<1>4. QED
  BY <1>1, <1>2, <1>3

(* A database that answers has one outcome for a statement.                *)
LEMMA Answers ==
    ASSUME Answering, NEW o \in Outcomes(TRUE, "db")
    PROVE  Acked(o)
  BY DEF Answering, Outcomes, Acked

LEMMA AssetIsThere ==
    ASSUME Answering, NEW f \in Actions, outputs[f] \in Nat \ {0}, NEW o \in Outcomes(TRUE, "db"),
           NEW there \in {"download", "open"}
    PROVE  Asset(f, o, there) \in {there, "expired"}
<1>1. Acked(o) /\ outputs[f] # 0
  BY Answers
<1>2. CASE cleaned[f] < outputs[f]
  BY <1>1, <1>2 DEF Asset
<1>3. CASE ~(cleaned[f] < outputs[f])
  BY <1>1, <1>3 DEF Asset
<1>4. QED
  BY <1>2, <1>3

LEMMA ClientMoves ==
    ASSUME IInv, FlowInv, NEW f \in Actions, ClientStep(f)
    PROVE  FlowInv'
<1>a. /\ f \in Jobs /\ Analysis \in Jobs /\ JobType[f] # "analyze"
      /\ flow \in [Actions -> Stages] /\ Seen(f) /\ (Answering => Unhindered(f))
  BY AnalysisAssumption DEF Actions, FlowInv
<1>b. UNCHANGED <<at, gone, status, outputs, cleaned>>
  BY DEF ClientStep, PollAnalysis, GetVariants, ReadAnswer, PollJob, GetJobAsset, FindToken,
         OpenObject, NotAvailable, Asking, submitVars, requestVars, vars, storeVars, jobVars
<1>c. status[Analysis] = "completed" => outputs[Analysis] > 0
  BY <1>a, CompletedIsThere
<1>d. /\ status[f] = "completed" => outputs[f] > 0
      /\ Answering /\ outputs[f] > 0 => blob[f] = "whole"
  BY <1>a, CompletedIsThere
<1>e. outputs[f] \in Nat
  BY <1>a DEF IInv, TypeOK, StoreTypeOK
<1>1. PICK to \in Stages :
        /\ flow' = [flow EXCEPT ![f] = to]
        /\ to \notin {"analysis", "told"} =>
              flow[f] # "analysis" \/ status[Analysis] = "completed"
        /\ flow[f] \notin {"told", "done"}
        /\ flow[f] = "action" => at[f] \notin Working
        /\ to \in {"link", "download", "open", "done"} =>
              \/ status[f] = "completed"
              \/ outputs[f] > 0
        /\ Answering => to # "stuck"
  <2>1. CASE PollAnalysis(f)
    BY <1>a, <2>1 DEF PollAnalysis, Step, Stages, Ends
  <2>2. CASE GetVariants(f)
    BY <1>a, <2>2, Answers DEF GetVariants, Step, Stages, Ends, Seen
  <2>3. CASE ReadAnswer(f)
    <3>1. /\ at[f] \in {"accepted", "cut"} \cup Refused /\ flow[f] = "action"
          /\ flow' = [flow EXCEPT ![f] = AfterAnswer(at[f])]
      BY <2>3 DEF ReadAnswer, Step, Answered
    <3>2. /\ AfterAnswer(at[f]) \in {"polling", "told", "stuck"}
          /\ Answering => AfterAnswer(at[f]) # "stuck"
      BY <1>a, <3>1 DEF AfterAnswer, Unhindered
    <3>3. QED
      BY <3>1, <3>2 DEF Stages, Ends, Working, Refused
  <2>4. CASE PollJob(f)
    BY <1>a, <2>4 DEF PollJob, Step, Stages, Ends
  <2>5. CASE GetJobAsset(f)
    <3>1. PICK o \in Outcomes(TRUE, "db") : Step(f, "link", Asset(f, o, "download"))
      BY <2>5 DEF GetJobAsset
    <3>2. flow[f] = "link" /\ outputs[f] \in Nat \ {0} /\ outputs[f] > 0
      BY <1>a, <1>e, <3>1 DEF Step, Seen
    <3>3. Asset(f, o, "download") \in {"stuck", "download", "expired"}
      BY AssetEnds
    <3>4. Answering => Asset(f, o, "download") \in {"download", "expired"}
      BY <3>2, AssetIsThere
    <3>5. PICK to \in {"stuck", "download", "expired"} :
            flow' = [flow EXCEPT ![f] = to] /\ (Answering => to # "stuck")
      BY <3>1, <3>3, <3>4 DEF Step
    <3>6. QED
      BY <3>2, <3>5 DEF Stages, Ends
  <2>6. CASE FindToken(f)
    <3>1. PICK o \in Outcomes(TRUE, "db") : Step(f, "download", Asset(f, o, "open"))
      BY <2>6 DEF FindToken
    <3>2. flow[f] = "download" /\ outputs[f] \in Nat \ {0} /\ outputs[f] > 0
      BY <1>a, <1>e, <3>1 DEF Step, Seen
    <3>3. Asset(f, o, "open") \in {"stuck", "open", "expired"}
      BY AssetEnds
    <3>4. Answering => Asset(f, o, "open") \in {"open", "expired"}
      BY <3>2, AssetIsThere
    <3>5. PICK to \in {"stuck", "open", "expired"} :
            flow' = [flow EXCEPT ![f] = to] /\ (Answering => to # "stuck")
      BY <3>1, <3>3, <3>4 DEF Step
    <3>6. QED
      BY <3>2, <3>5 DEF Stages, Ends
  <2>7. CASE OpenObject(f)
    <3>1. PICK to \in {"done", "stuck"} :
            /\ Step(f, "open", to)
            /\ to = "stuck" => blob[f] # "whole"
      BY <2>7 DEF OpenObject
    <3>2. QED
      BY <1>a, <1>d, <3>1 DEF Step, Stages, Ends, Seen
  <2>8. CASE NotAvailable(f)
    BY <1>a, <2>8 DEF NotAvailable, Step, Stages, Ends, Seen
  <2>9. QED
    BY <2>1, <2>2, <2>3, <2>4, <2>5, <2>6, <2>7, <2>8 DEF ClientStep
<1>2. flow'[f] = to
  BY <1>a, <1>1
<1>3. Seen(f)'
  BY <1>a, <1>b, <1>c, <1>d, <1>1, <1>2 DEF Seen
<1>4. Answering => Unhindered(f)'
  BY <1>a, <1>b, <1>1, <1>2 DEF Unhindered
<1>5. ASSUME NEW e \in Actions, e # f
      PROVE  Seen(e)' /\ (Answering => Unhindered(e)')
  BY <1>a, <1>b, <1>1, <1>5 DEF FlowInv, Seen, Unhindered
<1>6. QED
  BY <1>a, <1>b, <1>1, <1>3, <1>4, <1>5 DEF FlowInv

(* The clean-up deletes rows and no files, and no variants.                *)
LEMMA CleanUpMoves ==
    ASSUME IInv, FlowInv, CleanUp
    PROVE  FlowInv'
<1>1. \A f \in Actions : outputs[f] \in Nat
  BY DEF IInv, TypeOK, StoreTypeOK, Actions
<1>2. cleaned' \in [Actions -> Nat]
  BY <1>1 DEF CleanUp, FlowInv
<1>3. UNCHANGED <<at, gone, status, outputs, flow>>
  BY DEF CleanUp, submitVars, requestVars, vars, storeVars, jobVars
<1>4. QED
  BY <1>2, <1>3 DEF FlowInv, Seen, Unhindered

(* A step of the pool or of a request leaves what was seen in place.       *)
LEMMA SeenStays ==
    ASSUME IInv, [Next]_vars, NEW f \in Actions, Seen(f), UNCHANGED clientVars,
           at'[f] \in Working => at[f] \in Working \/ flow[f] = "action"
    PROVE  Seen(f)'
<1>1. f \in Jobs /\ Analysis \in Jobs
  BY AnalysisAssumption DEF Actions
<1>2. RowsStay(f) /\ RowsStay(Analysis)
  BY <1>1, RowsStayStep
<1>3. QED
  BY <1>2 DEF RowsStay, Seen, clientVars

LEMMA PoolMoves ==
    ASSUME IInv, SubmissionInv, FlowInv, PoolStep, UNCHANGED clientVars
    PROVE  FlowInv'
<1>1. ASSUME NEW f \in Actions
      PROVE  Seen(f)' /\ (Answering => Unhindered(f)')
  <2>1. f \in Jobs /\ Seen(f) /\ (Answering => Unhindered(f))
    BY DEF FlowInv, Actions
  <2>2. at'[f] = at[f] \/ (at[f] \in Working /\ at'[f] = "cut")
    BY <2>1 DEF PoolStep
  <2>3. Seen(f)'
    BY <2>1, <2>2, SeenStays DEF PoolStep, Working
  <2>4. QED
    BY <2>1, <2>2, <2>3 DEF Unhindered, Working, Refused, clientVars
<1>2. QED
  BY <1>1 DEF FlowInv, PoolStep, clientVars

LEMMA RequestMoves ==
    ASSUME IInv, SubmissionInv, FlowInv, NEW j \in Jobs, Submitting(j), UNCHANGED clientVars
    PROVE  FlowInv'
<1>a. at \in [Jobs -> Places] /\ gone = {}
  BY DEF FlowInv, SubmissionInv, SubmissionTypeOK
<1>b. [Next]_vars
  BY FlowSteps, SubmitSteps DEF FlowNext
<1>1. gone' = gone /\ \A i \in Jobs : i # j => at'[i] = at[i]
  BY <1>a DEF Submitting, Refuse, Analyze, Action, Begin, InsertSource, FindVariant, FindParent,
              Miss, CreateJob, Proceed, Reject
<1>2. ASSUME NEW f \in Actions
      PROVE  Seen(f)' /\ (Answering => Unhindered(f)')
  <2>1. f \in Jobs /\ f # Analysis /\ JobType[f] # "analyze"
        /\ Seen(f) /\ (Answering => Unhindered(f))
    BY AnalysisAssumption DEF FlowInv, Actions
  <2>2. CASE f # j
    BY <1>b, <1>1, <2>1, <2>2, SeenStays DEF Unhindered, clientVars
  <2>3. CASE f = j
    <3>1. flow[f] = "action"
      BY <2>1, <2>3
         DEF Submitting, InsertSource, FindVariant, FindParent, Miss, CreateJob, Seen, Working
    <3>2. Seen(f)'
      BY <1>b, <2>1, <3>1, SeenStays
    <3>3. ASSUME Answering
          PROVE  at'[f] \notin Refused
      <4>1. outputs[Analysis] > 0 /\ status[Analysis] # "absent"
        BY <2>1, <3>1 DEF Seen
      <4>2. \/ Action(f) \/ InsertSource(f) \/ FindVariant(f, Analysis)
            \/ FindParent(f, Analysis) \/ CreateJob(f)
        BY <2>1, <2>3, <3>3, <4>1 DEF Submitting, Answering
      <4>3. ~InsertSource(f)
        BY <2>1 DEF InsertSource, SubmissionInv, RequestInv, Gathered
      <4>4. CreateJob(f) => at'[f] = "accepted"
        BY <1>a, <2>1, <3>3 DEF CreateJob, Outcomes, Answering, Answer, Proceed
      <4>5. QED
        BY <1>a, <2>1, <4>2, <4>3, <4>4
           DEF Action, Begin, FindVariant, FindParent, AfterVariant, Proceed, Refused
    <3>4. QED
      BY <2>1, <3>2, <3>3 DEF Unhindered, clientVars
  <2>4. QED
    BY <2>2, <2>3
<1>3. QED
  BY <1>1, <1>2 DEF FlowInv, clientVars

LEMMA FlowInvStep == IInv /\ SubmissionInv /\ FlowInv /\ [FlowNext]_flowVars => FlowInv'
<1>1. ASSUME IInv, FlowInv, UNCHANGED flowVars
      PROVE  FlowInv'
  BY <1>1 DEF flowVars, clientVars, submitVars, requestVars, vars, storeVars, jobVars, FlowInv,
              Seen, Unhindered
<1>2. QED
  BY <1>1, ClientMoves, CleanUpMoves, PoolMoves, RequestMoves DEF FlowNext

(* Whoever follows the README's way, and whose analysis or action does not *)
(* fail, is never without variants, without an answer or without a link    *)
(* that was not cleaned up, as long as the database answers; and a file    *)
(* that the store does not give out is there to be asked for again.        *)
THEOREM TheDocumentedWayIsOpen == FlowSpec => []NobodyGetsStuck
<1>1. IInv /\ FlowInv => NobodyGetsStuck
  <2>1. ASSUME IInv, FlowInv, Answering, NEW f \in Actions
        PROVE  /\ flow[f] # "stuck"
               /\ flow[f] \in {"link", "download", "open"} => blob[f] = "whole"
    <3>1. f \in Jobs /\ JobType[f] # "analyze"
      BY AnalysisAssumption DEF Actions
    <3>2. QED
      BY <2>1, <3>1, CompletedIsThere DEF FlowInv, Seen, Unhindered
  <2>2. QED
    BY <2>1 DEF NobodyGetsStuck
<1>2. FlowSpec => [](IInv /\ SubmissionInv)
  BY FlowUsesTheAPI, SubmissionInvariant, PTL
<1>3. QED
  BY <1>1, <1>2, FlowInvInit, FlowInvStep, PTL DEF FlowSpec

(* Types.                                                                  *)
THEOREM FlowTypes == FlowSpec => []FlowTypeOK
<1>1. SubmissionInv /\ FlowInv => FlowTypeOK
  BY DEF SubmissionInv, FlowInv, FlowTypeOK
<1>2. FlowSpec => [](IInv /\ SubmissionInv)
  BY FlowUsesTheAPI, SubmissionInvariant, PTL
<1>3. QED
  BY <1>1, <1>2, FlowInvInit, FlowInvStep, PTL DEF FlowSpec
===============================================================================
