------------------------------ MODULE Submission ------------------------------
(***************************************************************************)
(* How a job comes into the queue: the four POST handlers of               *)
(* internal/http/handler and the Submit methods of internal/service behind *)
(* them, in front of the worker pool.                                      *)
(*                                                                         *)
(* A request reads or writes the database two to four times, with no       *)
(* transaction around the calls; between any two of them the workers and   *)
(* other requests go on, the client may hang up, which cancels the         *)
(* request's context, and the process may end.  Request j is the one that  *)
(* would create job j and, when it asks for an analysis, source row j.     *)
(***************************************************************************)
EXTENDS WorkerPool, Sequences

VARIABLES
    at,         \* where each request is
    gone,       \* the requests whose client has hung up
    sources,    \* the rows of source_requests
    origin,     \* source_request_id of each job, once its request knows it
    inputs      \* the analyses whose variants are in the job's metadata

requestVars == <<at, gone, origin, inputs>>
submitVars  == <<vars, sources, requestVars>>

NoRow == 0

(* accepted - answered with 202; rejected and misled - with 400, misled    *)
(* when the INSERT of the job took effect and only its reply was lost,     *)
(* which the request cannot know; cut - the process ended before it had an *)
(* answer.                                                                 *)
Working  == {"source", "variant", "parent", "create"}
Refused  == {"rejected", "misled"}
Answered == {"accepted"} \cup Refused
Places   == {"unsent", "cut"} \cup Working \cup Answered

SubmissionTypeOK ==
    /\ at \in [Jobs -> Places]
    /\ gone \subseteq Jobs
    /\ sources \subseteq Jobs
    /\ origin \in [Jobs -> Jobs \cup {NoRow}]
    /\ inputs \in [Jobs -> Seq(Jobs)]
    /\ \A j \in Jobs : Len(inputs[j]) <= 2

SubmissionInit ==
    /\ Init
    /\ at = [j \in Jobs |-> "unsent"]
    /\ gone = {}
    /\ sources = {}
    /\ origin = [j \in Jobs |-> NoRow]
    /\ inputs = [j \in Jobs |-> <<>>]

-------------------------------------------------------------------------------
(* The handlers.                                                           *)

Proceed(j, p) == at' = [at EXCEPT ![j] = p]

(* Every error of a Submit method is answered with 400.                    *)
Reject(j) == Proceed(j, "rejected") /\ UNCHANGED <<origin, inputs>>

(* Answered before the first statement: TokenService.Middleware does not   *)
(* accept the token, a body or an id does not parse, or validateURL does   *)
(* not like the URL.                                                       *)
Refuse(j) ==
    /\ proc # "down"
    /\ at[j] = "unsent"
    /\ Reject(j)
    /\ UNCHANGED <<vars, sources, gone>>

Begin(j, p) ==
    /\ proc # "down"
    /\ at[j] = "unsent"
    /\ Proceed(j, p)
    /\ UNCHANGED <<vars, sources, gone, origin, inputs>>

Analyze(j) == JobType[j] = "analyze" /\ Begin(j, "source")
Action(j)  == JobType[j] # "analyze" /\ Begin(j, "variant")

Receive(j) == Refuse(j) \/ Analyze(j) \/ Action(j)

Leave(j) ==
    /\ at[j] \in Working
    /\ gone' = gone \cup {j}
    /\ UNCHANGED <<vars, sources, at, origin, inputs>>

(* SubmitAnalyze, first statement: the source_requests row.                *)
InsertSource(j) ==
    /\ at[j] = "source"
    /\ \E o \in Outcomes(j \notin gone, "db") :
        /\ sources' = IF Applied(o) THEN sources \cup {j} ELSE sources
        /\ \/ /\ Acked(o)
              /\ Proceed(j, "create")
              /\ origin' = [origin EXCEPT ![j] = j]
              /\ UNCHANGED inputs
           \/ ~Acked(o) /\ Reject(j)
    /\ UNCHANGED <<vars, gone>>

(* Seeded fault: a merge takes one variant for both of its streams.        *)
NeedsOne(t) == 1

(* The variants a request names: two for a merge.                          *)
Needs(t) == IF t = "merge" THEN 2 ELSE 1

(* Seeded fault: an off-by-one in the count of the variants read.          *)
AfterVariantTooMany(j) ==
    IF Len(inputs[j]) < Needs(JobType[j]) THEN "variant" ELSE "parent"

AfterVariant(j) ==
    IF Len(inputs[j]) + 1 < Needs(JobType[j]) THEN "variant" ELSE "parent"

(* variants.GetByID finds a variant of analysis i, whatever i's status is. *)
FindVariant(j, i) ==
    /\ at[j] = "variant"
    /\ j \notin gone
    /\ JobType[i] = "analyze" /\ outputs[i] > 0
    /\ inputs' = [inputs EXCEPT ![j] = Append(@, i)]
    /\ Proceed(j, AfterVariant(j))
    /\ UNCHANGED <<vars, sources, gone, origin>>

(* jobs.GetByID finds job p, of whatever type and status.                  *)
FindParent(j, p) ==
    /\ at[j] = "parent"
    /\ j \notin gone
    /\ status[p] # "absent"
    /\ origin' = [origin EXCEPT ![j] = origin[p]]
    /\ Proceed(j, "create")
    /\ UNCHANGED <<vars, sources, gone, inputs>>

(* There is no such row, or the database does not say.                     *)
Miss(j) ==
    /\ at[j] \in {"variant", "parent"}
    /\ Reject(j)
    /\ UNCHANGED <<vars, sources, gone>>

(* The ids are the client's: they may name anything.                       *)
Look(j) == Miss(j) \/ \E i \in Jobs : FindVariant(j, i) \/ FindParent(j, i)

Answer(o) ==
    CASE o = "ok"      -> "accepted"
      [] o = "unacked" -> "misled"
      [] OTHER         -> "rejected"

(* Seeded fault: the row is read back, and the request fails if that does. *)
CreateThenRead(j) ==
    /\ at[j] = "create"
    /\ \E o \in Outcomes(j \notin gone, "db"), read \in BOOLEAN :
        /\ \/ Applied(o) /\ origin[j] \in sources /\ Submit(j)
           \/ ~Applied(o) /\ UNCHANGED vars
        /\ Proceed(j, IF read THEN Answer(o) ELSE "rejected")
    /\ UNCHANGED <<sources, gone, origin, inputs>>

(* jobs.Create.  The row takes effect only with its source_requests row    *)
(* there: media_jobs.source_request_id is a foreign key.                   *)
CreateJob(j) ==
    /\ at[j] = "create"
    /\ \E o \in Outcomes(j \notin gone, "db") :
        /\ \/ Applied(o) /\ origin[j] \in sources /\ Submit(j)
           \/ ~Applied(o) /\ UNCHANGED vars
        /\ Proceed(j, Answer(o))
    /\ UNCHANGED <<sources, gone, origin, inputs>>

-------------------------------------------------------------------------------
(* A step of the pool other than an INSERT into media_jobs.  The end of    *)
(* the process cuts its requests short.                                    *)
PoolStep ==
    /\ Next
    /\ \A j \in Jobs : status[j] = "absent" => status'[j] = "absent"
    /\ at' = [j \in Jobs |->
                IF proc' = "down" /\ at[j] \in Working THEN "cut" ELSE at[j]]
    /\ UNCHANGED <<sources, gone, origin, inputs>>

SubmissionNext ==
    \/ PoolStep
    \/ \E j \in Jobs :
        \/ Receive(j) \/ Leave(j) \/ InsertSource(j) \/ Look(j) \/ CreateJob(j)

SubmissionSpec == SubmissionInit /\ [][SubmissionNext]_submitVars

-------------------------------------------------------------------------------
(* Properties                                                              *)

(* The answer is true: 202 means that the job is in the queue, or further, *)
(* and 400 that it is not and never will be, with the one exception of the *)
(* request whose own INSERT of the job took effect without a reply.        *)
AnswersAreTrue ==
    \A j \in Jobs :
        /\ at[j] = "accepted" => status[j] # "absent"
        /\ at[j] \in Refused => (status[j] # "absent" <=> at[j] = "misled")

(* The URLs that the handler of a job type takes from the metadata.        *)
Wanted(t) ==
    CASE t = "analyze" -> 0
      [] t = "merge"   -> 2
      [] OTHER         -> 1

(* A worker finds what it needs: the source row of every job is there, and *)
(* was made for an analysis that is itself in the queue; an action has as  *)
(* many URLs as its handler wants, each of a variant that is stored.       *)
JobsAreGrounded ==
    \A j \in Jobs : status[j] # "absent" =>
        /\ origin[j] \in sources
        /\ JobType[origin[j]] = "analyze" /\ status[origin[j]] # "absent"
        /\ Len(inputs[j]) = Wanted(JobType[j])
        /\ \A n \in DOMAIN inputs[j] : outputs[inputs[j][n]] > 0
===============================================================================
