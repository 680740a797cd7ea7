---------------------------- MODULE SubmissionProofs ----------------------------
(***************************************************************************)
(* Proofs about Submission, for every mix of jobs, every pool and every    *)
(* set of faults.                                                          *)
(***************************************************************************)
EXTENDS Submission, DeliveryProofs

(* A request touches the pool only by adding its job to the queue.         *)
LEMMA SubmitSteps == [SubmissionNext]_submitVars => [Next]_vars
<1>1. ASSUME NEW j \in Jobs, CreateJob(j)
      PROVE  Submit(j) \/ UNCHANGED vars
  BY <1>1 DEF CreateJob
<1>2. QED
  BY <1>1 DEF SubmissionNext, submitVars, PoolStep, Receive, Analyze, Action, Begin, Leave,
              InsertSource, Refuse, Look, Miss, FindVariant, FindParent, Next

THEOREM PoolBehind == SubmissionSpec => Spec
<1>1. SubmissionInit => Init
  BY DEF SubmissionInit
<1>2. QED
  BY <1>1, SubmitSteps, PTL DEF SubmissionSpec, Spec

-------------------------------------------------------------------------------
(* What the tables keep.                                                   *)

(* No row goes and no output is taken back: every write is of an existing  *)
(* row, and the outputs are counted upwards.                               *)
RowsStay(j) ==
    /\ status[j] # "absent" => status'[j] # "absent"
    /\ outputs[j] > 0 => outputs'[j] > 0

LEMMA RowsStayStep ==
    ASSUME IInv, [Next]_vars, NEW j \in Jobs
    PROVE  RowsStay(j)
<1>a. StoreTypeOK
  BY DEF IInv, TypeOK
<1>1. ASSUME UNCHANGED <<status, outputs>>
      PROVE  RowsStay(j)
  BY <1>1 DEF RowsStay
<1>2. ASSUME NEW i \in Jobs, Submit(i)
      PROVE  RowsStay(j)
  BY <1>2, <1>a DEF Submit, Create, RowsStay, StoreTypeOK
<1>3. ASSUME NEW w \in Workers, Claim(w) \/ SetProgress(w) \/ Complete(w) \/ Settle(w)
      PROVE  RowsStay(j)
  <2>1. UNCHANGED outputs
    BY <1>3 DEF Claim, SetProgress, Complete, Settle
  <2>2. PICK o, s, n : \/ MarkClaimed(o, held[w])
                       \/ UpdateStatus(o, held[w], s, n) /\ s # "absent"
                       \/ IncrementRetry(o, held[w])
                       \/ UpdateError(o, held[w])
    BY <1>3, ActiveStatusType DEF Claim, SetProgress, Complete, Settle, Active
  <2>3. QED
    BY <1>a, <2>1, <2>2
       DEF MarkClaimed, UpdateStatus, IncrementRetry, UpdateError, Write, RowsStay, StoreTypeOK
<1>4. ASSUME NEW w \in Workers, Persist(w) \/ Record(w)
      PROVE  RowsStay(j)
  <2>1. UNCHANGED status
    BY <1>4 DEF Persist, Record, jobVars
  <2>2. PICK o : BulkCreate(o, held[w]) \/ CreateAsset(o, held[w])
    BY <1>4 DEF Persist, Record
  <2>3. QED
    BY <1>a, <2>1, <2>2 DEF BulkCreate, CreateAsset, Write, RowsStay, StoreTypeOK
<1>5. ASSUME \/ Stop \/ Exit \/ Start \/ UNCHANGED vars
             \/ \E w \in Workers :
                  \/ Select(w) \/ ReadInput(w) \/ StartTool(w) \/ ToolEnds(w)
                  \/ ToolKilled(w) \/ LogError(w) \/ Report(w) \/ Expire(w) \/ PollEmpty(w)
                  \/ Upload(w) \/ CopyLocal(w)
      PROVE  UNCHANGED <<status, outputs>>
  BY <1>5 DEF Stop, Exit, Start, vars, Select, ReadInput, StartTool, ToolEnds, ToolSucceeds,
              ToolFails, ToolKilled, LogError, Report, Expire, PollEmpty, Upload, CopyLocal,
              storeVars, jobVars
<1>6. QED
  BY <1>1, <1>2, <1>3, <1>4, <1>5 DEF Next, OwnStep

-------------------------------------------------------------------------------
(* What is true of a request where it stands.                              *)

Stored(s) == \A n \in DOMAIN s : outputs[s[n]] > 0

(* What jobs.Create is about to insert, or has inserted.                   *)
Sound(j) ==
    /\ origin[j] \in sources
    /\ JobType[origin[j]] = "analyze"
    /\ origin[j] = j \/ status[origin[j]] # "absent"
    /\ Len(inputs[j]) = Wanted(JobType[j])

(* The inputs gathered so far.                                             *)
Gathered(j) ==
    /\ at[j] \in {"unsent", "source"} => inputs[j] = <<>>
    /\ at[j] = "source" => JobType[j] = "analyze"
    /\ at[j] \in {"variant", "parent"} => JobType[j] # "analyze"
    /\ at[j] = "variant" => Len(inputs[j]) < Needs(JobType[j])
    /\ at[j] = "parent" => Len(inputs[j]) = Needs(JobType[j])

(* Where a request may stand while its job is, or is not, in the queue.    *)
Placed(j) ==
    /\ at[j] \in {"unsent"} \cup Working => status[j] = "absent"
    /\ at[j] \in {"accepted", "misled"} => status[j] # "absent"
    /\ at[j] = "rejected" => status[j] = "absent"
    /\ j \in sources /\ status[j] = "absent" => at[j] \in {"create", "rejected", "cut"}

RequestInv(j) ==
    /\ Stored(inputs[j])
    /\ Gathered(j)
    /\ at[j] = "create" \/ status[j] # "absent" => Sound(j)
    /\ Placed(j)

SubmissionInv == SubmissionTypeOK /\ \A j \in Jobs : RequestInv(j)

LEMMA SubmissionInvInit == SubmissionInit => SubmissionInv
<1> SUFFICES ASSUME SubmissionInit
             PROVE  SubmissionInv
  OBVIOUS
<1>1. <<>> \in Seq(Jobs) /\ Len(<<>>) = 0 /\ DOMAIN <<>> = {}
  OBVIOUS
<1>2. SubmissionTypeOK
  BY <1>1 DEF SubmissionInit, SubmissionTypeOK, Places
<1>3. ASSUME NEW j \in Jobs
      PROVE  /\ at[j] = "unsent" /\ status[j] = "absent"
             /\ inputs[j] = <<>> /\ j \notin sources
  BY DEF SubmissionInit, Init, StoreInit
<1>4. ASSUME NEW j \in Jobs
      PROVE  RequestInv(j)
  BY <1>1, <1>3 DEF RequestInv, Stored, Gathered, Placed, Working
<1>5. QED
  BY <1>2, <1>4 DEF SubmissionInv

(* What is true of inputs and origins stays true as the tables grow.       *)
LEMMA StoredStays ==
    ASSUME IInv, SubmissionTypeOK, [Next]_vars, NEW s \in Seq(Jobs), Stored(s)
    PROVE  Stored(s)'
<1>1. ASSUME NEW n \in DOMAIN s
      PROVE  outputs'[s[n]] > 0
  <2>1. PICK i \in Jobs : i = s[n]
    BY <1>1
  <2>2. QED
    BY <1>1, <2>1, RowsStayStep DEF RowsStay, Stored
<1>2. QED
  BY <1>1 DEF Stored

LEMMA SoundStays ==
    ASSUME IInv, SubmissionTypeOK, [Next]_vars, NEW j \in Jobs, Sound(j),
           origin'[j] = origin[j], inputs'[j] = inputs[j], sources \subseteq sources'
    PROVE  Sound(j)'
<1>1. PICK i \in Jobs : i = origin[j]
  BY DEF Sound, SubmissionTypeOK
<1>2. status[i] # "absent" => status'[i] # "absent"
  BY RowsStayStep DEF RowsStay
<1>3. QED
  BY <1>1, <1>2 DEF Sound

(* A request that does not move, or is cut short.                          *)
LEMMA RequestStays ==
    ASSUME IInv, SubmissionTypeOK, [Next]_vars, NEW j \in Jobs, RequestInv(j),
           at'[j] = at[j] \/ (at[j] \in Working /\ at'[j] = "cut"),
           origin'[j] = origin[j], inputs'[j] = inputs[j],
           sources \subseteq sources', j \in sources' => j \in sources,
           status'[j] = "absent" <=> status[j] = "absent"
    PROVE  RequestInv(j)'
<1>1. PICK s \in Seq(Jobs) : s = inputs[j] /\ s = inputs'[j]
  BY DEF SubmissionTypeOK
<1>2. Stored(s)'
  BY <1>1, StoredStays DEF RequestInv
<1>3. Stored(inputs[j])'
  BY <1>1, <1>2 DEF Stored
<1>4. (at[j] = "create" \/ status[j] # "absent" => Sound(j))'
  <2>1. CASE at[j] = "create" \/ status[j] # "absent"
    BY <2>1, SoundStays DEF RequestInv
  <2>2. CASE ~(at[j] = "create" \/ status[j] # "absent")
    BY <2>2
  <2>3. QED
    BY <2>1, <2>2
<1>5. Gathered(j)'
  BY DEF RequestInv, Gathered
<1>6. Placed(j)'
  BY DEF RequestInv, Placed, Working
<1>7. QED
  BY <1>3, <1>4, <1>5, <1>6 DEF RequestInv

LEMMA SubmissionTypeStep ==
    ASSUME SubmissionTypeOK, [SubmissionNext]_submitVars, \A j \in Jobs : RequestInv(j)
    PROVE  SubmissionTypeOK'
<1>a. \A p \in Working \cup Answered \cup {"unsent", "cut"} : p \in Places
  BY DEF Places
<1>1. ASSUME PoolStep
      PROVE  SubmissionTypeOK'
  BY <1>1 DEF PoolStep, SubmissionTypeOK, Places
<1>2. ASSUME NEW j \in Jobs, Receive(j) \/ Leave(j) \/ Miss(j)
      PROVE  SubmissionTypeOK'
  BY <1>2 DEF Receive, Refuse, Analyze, Action, Begin, Leave, Miss, Reject, Proceed, SubmissionTypeOK, Places,
              Working, Answered, Refused
<1>3. ASSUME NEW j \in Jobs, InsertSource(j)
      PROVE  SubmissionTypeOK'
  BY <1>3 DEF InsertSource, Proceed, Reject, SubmissionTypeOK, Places, Working, Answered, Refused
<1>4. ASSUME NEW j \in Jobs, NEW i \in Jobs, FindVariant(j, i)
      PROVE  SubmissionTypeOK'
  <2>1. at' \in [Jobs -> Places] /\ UNCHANGED <<sources, gone, origin>>
    BY <1>4 DEF FindVariant, Proceed, AfterVariant, SubmissionTypeOK, Places, Working
  <2>2. Len(inputs[j]) < 2
    BY <1>4 DEF FindVariant, RequestInv, Gathered, Needs, SubmissionTypeOK
  <2>3. Append(inputs[j], i) \in Seq(Jobs) /\ Len(Append(inputs[j], i)) <= 2
    BY <2>2 DEF SubmissionTypeOK
  <2>4. QED
    BY <1>4, <2>1, <2>3 DEF FindVariant, SubmissionTypeOK
<1>5. ASSUME NEW j \in Jobs, NEW p \in Jobs, FindParent(j, p)
      PROVE  SubmissionTypeOK'
  BY <1>5 DEF FindParent, Proceed, SubmissionTypeOK, Places, Working
<1>6. ASSUME NEW j \in Jobs, CreateJob(j)
      PROVE  SubmissionTypeOK'
  BY <1>6 DEF CreateJob, Proceed, Answer, SubmissionTypeOK, Places, Working, Answered, Refused
<1>7. ASSUME UNCHANGED submitVars
      PROVE  SubmissionTypeOK'
  BY <1>7 DEF submitVars, requestVars, SubmissionTypeOK
<1>8. QED
  BY <1>1, <1>2, <1>3, <1>4, <1>5, <1>6, <1>7 DEF SubmissionNext, Look

(* The request that takes a step.                                          *)
LEMMA AnalysisMoves ==
    ASSUME IInv, SubmissionTypeOK, [Next]_vars, NEW j \in Jobs, RequestInv(j), InsertSource(j)
    PROVE  RequestInv(j)'
<1>1. /\ status[j] = "absent" /\ status' = status /\ outputs' = outputs
      /\ JobType[j] = "analyze" /\ inputs[j] = <<>> /\ inputs' = inputs
  BY DEF InsertSource, RequestInv, Gathered, Placed, Working, Reject, vars, storeVars, jobVars
<1>2. \/ /\ at'[j] = "create" /\ origin'[j] = j /\ j \in sources'
      \/ at'[j] = "rejected"
  BY DEF InsertSource, Acked, Applied, Proceed, Reject, SubmissionTypeOK
<1>3. (at[j] = "create" \/ status[j] # "absent" => Sound(j))'
  BY <1>1, <1>2 DEF Sound, Wanted
<1>4. Stored(inputs[j])' /\ Gathered(j)'
  BY <1>1, <1>2 DEF Stored, Gathered, RequestInv
<1>5. Placed(j)'
  BY <1>1, <1>2 DEF Placed, Working
<1>6. QED
  BY <1>3, <1>4, <1>5 DEF RequestInv

LEMMA MissMoves ==
    ASSUME IInv, SubmissionTypeOK, [Next]_vars, NEW j \in Jobs, RequestInv(j), Miss(j)
    PROVE  RequestInv(j)'
<1>1. /\ at'[j] = "rejected" /\ status[j] = "absent" /\ j \notin sources
      /\ UNCHANGED <<sources, inputs, status, outputs>>
  BY DEF Miss, Reject, Proceed, SubmissionTypeOK, RequestInv, Placed, Working, vars, storeVars,
         jobVars
<1>2. QED
  BY <1>1 DEF RequestInv, Stored, Gathered, Placed, Working

LEMMA VariantMoves ==
    ASSUME IInv, SubmissionTypeOK, [Next]_vars, NEW j \in Jobs, RequestInv(j),
           NEW i \in Jobs, FindVariant(j, i)
    PROVE  RequestInv(j)'
<1>1. /\ status[j] = "absent" /\ JobType[j] # "analyze"
      /\ Len(inputs[j]) < Needs(JobType[j])
      /\ status' = status /\ outputs' = outputs /\ sources' = sources
      /\ j \notin sources
  BY DEF FindVariant, RequestInv, Gathered, Placed, Working, vars, storeVars, jobVars
<1>2. /\ outputs[i] > 0 /\ at'[j] = AfterVariant(j)
      /\ inputs' = [inputs EXCEPT ![j] = Append(@, i)]
  BY DEF FindVariant, Proceed, SubmissionTypeOK
<1>3. PICK s \in Seq(Jobs) : s = inputs[j] /\ inputs'[j] = Append(s, i)
  BY <1>2 DEF SubmissionTypeOK
<1>4. /\ Len(Append(s, i)) = Len(s) + 1
      /\ \A n \in DOMAIN Append(s, i) :
            Append(s, i)[n] = i \/ (n \in DOMAIN s /\ Append(s, i)[n] = s[n])
  OBVIOUS
<1>5. Stored(inputs[j])'
  BY <1>1, <1>2, <1>3, <1>4 DEF RequestInv, Stored
<1>6. Gathered(j)'
  BY <1>1, <1>2, <1>3, <1>4 DEF Gathered, AfterVariant, Needs
<1>7. Placed(j)' /\ at'[j] # "create" /\ status'[j] = "absent"
  BY <1>1, <1>2 DEF Placed, AfterVariant, Working
<1>8. QED
  BY <1>5, <1>6, <1>7 DEF RequestInv

LEMMA ParentMoves ==
    ASSUME IInv, SubmissionTypeOK, [Next]_vars, NEW j \in Jobs, \A i \in Jobs : RequestInv(i),
           NEW p \in Jobs, FindParent(j, p)
    PROVE  RequestInv(j)'
<1>1. /\ status[j] = "absent" /\ JobType[j] # "analyze"
      /\ Len(inputs[j]) = Needs(JobType[j]) /\ inputs' = inputs /\ sources' = sources
      /\ status' = status /\ outputs' = outputs
      /\ j \notin sources
  BY DEF FindParent, RequestInv, Gathered, Placed, Working, vars, storeVars, jobVars
<1>2. status[p] # "absent" /\ origin'[j] = origin[p] /\ at'[j] = "create"
  BY DEF FindParent, Proceed, SubmissionTypeOK
<1>3. Sound(p)
  BY <1>2 DEF RequestInv
<1>4. status[origin[p]] # "absent"
  BY <1>2, <1>3 DEF Sound
<1>5. Sound(j)'
  BY <1>1, <1>2, <1>3, <1>4, JobTypeAssumption DEF Sound, Needs, Wanted
<1>6. Stored(inputs[j])' /\ Gathered(j)' /\ Placed(j)'
  BY <1>1, <1>2 DEF RequestInv, Stored, Gathered, Placed, Working
<1>7. QED
  BY <1>5, <1>6 DEF RequestInv

LEMMA CreateMoves ==
    ASSUME IInv, SubmissionTypeOK, [Next]_vars, NEW j \in Jobs, RequestInv(j), CreateJob(j)
    PROVE  RequestInv(j)'
<1>1. /\ at[j] = "create" /\ status[j] = "absent" /\ Sound(j)
      /\ UNCHANGED <<sources, origin, inputs>>
  BY DEF CreateJob, RequestInv, Placed, Working
<1>2. Sound(j)'
  BY <1>1, SoundStays
<1>3. PICK s \in Seq(Jobs) : s = inputs[j] /\ s = inputs'[j]
  BY <1>1 DEF SubmissionTypeOK
<1>4. Stored(s)'
  BY <1>3, StoredStays DEF RequestInv
<1>5. Stored(inputs[j])'
  BY <1>3, <1>4 DEF Stored
<1>6. \/ at'[j] = "accepted" /\ status'[j] = "queued"
      \/ at'[j] = "misled" /\ status'[j] = "queued"
      \/ at'[j] = "rejected" /\ status'[j] = status[j]
  BY DEF CreateJob, Outcomes, Applied, Answer, Proceed, Submit, Create,
         SubmissionTypeOK, IInv, TypeOK, StoreTypeOK, vars, storeVars, jobVars
<1>7. Gathered(j)'
  BY <1>6 DEF Gathered
<1>8. Placed(j)'
  BY <1>1, <1>6 DEF Placed, Working
<1>9. QED
  BY <1>2, <1>5, <1>7, <1>8 DEF RequestInv

(* All the requests, when one of them or the pool takes a step.            *)
LEMMA RequestsStep ==
    ASSUME IInv, SubmissionInv, [SubmissionNext]_submitVars
    PROVE  \A i \in Jobs : RequestInv(i)'
<1>a. SubmissionTypeOK /\ [Next]_vars /\ \A i \in Jobs : RequestInv(i)
  BY SubmitSteps DEF SubmissionInv
<1>1. ASSUME PoolStep, NEW i \in Jobs
      PROVE  RequestInv(i)'
  <2>1. status'[i] = "absent" <=> status[i] = "absent"
    BY <1>a, <1>1, RowsStayStep DEF PoolStep, RowsStay
  <2>2. at'[i] = at[i] \/ (at[i] \in Working /\ at'[i] = "cut")
    BY <1>1 DEF PoolStep
  <2>3. UNCHANGED <<sources, origin, inputs>>
    BY <1>1 DEF PoolStep
  <2>4. QED
    BY <1>a, <2>1, <2>2, <2>3, RequestStays
<1>2. ASSUME NEW j \in Jobs,
             Receive(j) \/ Leave(j) \/ InsertSource(j) \/ Look(j) \/ CreateJob(j),
             NEW i \in Jobs, i # j
      PROVE  RequestInv(i)'
  <2>1. at'[i] = at[i]
    BY <1>a, <1>2 DEF Receive, Analyze, Action, Begin, Leave, InsertSource, Refuse, Look, Miss,
                      FindVariant, FindParent, CreateJob, Proceed, Reject, SubmissionTypeOK
  <2>2. origin'[i] = origin[i] /\ inputs'[i] = inputs[i]
    BY <1>a, <1>2 DEF Receive, Analyze, Action, Begin, Leave, InsertSource, Refuse, Look, Miss,
                      FindVariant, FindParent, CreateJob, Reject, SubmissionTypeOK
  <2>3. sources \subseteq sources' /\ (i \in sources' => i \in sources)
    BY <1>2 DEF Receive, Analyze, Action, Begin, Leave, InsertSource, Refuse, Look, Miss,
                      FindVariant, FindParent, CreateJob
  <2>4. status'[i] = status[i]
    BY <1>2 DEF Receive, Analyze, Action, Begin, Leave, InsertSource, Refuse, Look, Miss,
                FindVariant, FindParent, CreateJob, Submit, Create, IInv, TypeOK, StoreTypeOK, vars, storeVars, jobVars
  <2>5. QED
    BY <1>a, <2>1, <2>2, <2>3, <2>4, RequestStays
<1>3. ASSUME NEW j \in Jobs, Receive(j)
      PROVE  RequestInv(j)'
  <2>1. /\ at[j] = "unsent" /\ inputs[j] = <<>> /\ status[j] = "absent" /\ j \notin sources
        /\ UNCHANGED <<sources, origin, inputs, status, outputs>>
    BY <1>a, <1>3 DEF Receive, Refuse, Reject, Analyze, Action, Begin, RequestInv, Gathered, Placed, vars,
                      storeVars, jobVars
  <2>2. \/ at'[j] = "source" /\ JobType[j] = "analyze"
        \/ at'[j] = "variant" /\ JobType[j] # "analyze"
        \/ at'[j] = "rejected"
    BY <1>a, <1>3 DEF Receive, Refuse, Reject, Analyze, Action, Begin, Proceed,
                      SubmissionTypeOK
  <2>3. Gathered(j)'
    BY <2>1, <2>2 DEF Gathered, Needs
  <2>4. Stored(inputs[j])' /\ Placed(j)' /\ at'[j] # "create" /\ status'[j] = "absent"
    BY <2>1, <2>2 DEF Stored, Placed, Working
  <2>5. QED
    BY <2>3, <2>4 DEF RequestInv
<1>4. ASSUME NEW j \in Jobs, Leave(j)
      PROVE  RequestInv(j)'
  <2>1. UNCHANGED <<at, sources, origin, inputs, status>>
    BY <1>4 DEF Leave, vars, storeVars, jobVars
  <2>2. QED
    BY <1>a, <2>1, RequestStays
<1>5. ASSUME NEW j \in Jobs,
             InsertSource(j) \/ Look(j) \/ CreateJob(j)
      PROVE  RequestInv(j)'
  BY <1>a, <1>5, AnalysisMoves, MissMoves, VariantMoves, ParentMoves, CreateMoves DEF Look
<1>6. ASSUME UNCHANGED submitVars, NEW i \in Jobs
      PROVE  RequestInv(i)'
  <2>1. UNCHANGED <<at, sources, origin, inputs, status>>
    BY <1>6 DEF submitVars, requestVars, vars, storeVars, jobVars
  <2>2. QED
    BY <1>a, <2>1, RequestStays
<1>7. QED
  BY <1>1, <1>2, <1>3, <1>4, <1>5, <1>6 DEF SubmissionNext

LEMMA SubmissionInvariant == SubmissionSpec => [](IInv /\ SubmissionInv)
<1>1. SubmissionSpec => []IInv
  BY PoolBehind, Inductive, PTL
<1>2. IInv /\ SubmissionInv /\ [SubmissionNext]_submitVars => SubmissionInv'
  BY SubmissionTypeStep, RequestsStep DEF SubmissionInv
<1>3. QED
  BY <1>1, <1>2, SubmissionInvInit, PTL DEF SubmissionSpec

(* A client that was told 202 has a job in the queue, and one that was     *)
(* told 400 has none, unless the reply to its own INSERT of the job was    *)
(* lost; then it has one.                                                  *)
THEOREM AnswersHold == SubmissionSpec => []AnswersAreTrue
<1>1. SubmissionInv => AnswersAreTrue
  BY DEF SubmissionInv, RequestInv, Placed, AnswersAreTrue, Refused
<1>2. QED
  BY <1>1, SubmissionInvariant, PTL

(* Whatever job a worker takes, its source row is there and an action has  *)
(* the URLs its handler wants: what WorkerPool's ReadInput relies on.      *)
THEOREM WorkersFindTheirInputs == SubmissionSpec => []JobsAreGrounded
<1>1. ASSUME SubmissionInv, NEW j \in Jobs, status[j] # "absent"
      PROVE  /\ origin[j] \in sources
             /\ JobType[origin[j]] = "analyze" /\ status[origin[j]] # "absent"
             /\ Len(inputs[j]) = Wanted(JobType[j])
             /\ \A n \in DOMAIN inputs[j] : outputs[inputs[j][n]] > 0
  BY <1>1 DEF SubmissionInv, RequestInv, Sound, Stored
<1>2. SubmissionInv => JobsAreGrounded
  BY <1>1 DEF JobsAreGrounded
<1>3. QED
  BY <1>2, SubmissionInvariant, PTL

(* Types; and a request never gathers more than two variants.              *)
THEOREM RequestTypes == SubmissionSpec => []SubmissionTypeOK
<1>1. SubmissionInv => SubmissionTypeOK
  BY DEF SubmissionInv
<1>2. QED
  BY <1>1, SubmissionInvariant, PTL
===============================================================================
