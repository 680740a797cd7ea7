# A TLA+ model of deep-backend

deep-backend is a Go service that analyses media URLs and extracts, merges or
transcodes media from them. A client posts a URL and polls a job row; a pool of
workers in the same process takes jobs from a PostgreSQL table, runs ffprobe,
yt-dlp or ffmpeg, and stores what comes out in a file backend. This directory
holds TLA+ modules of its core logic, TLC configurations that check them on
small instances, and theorems that TLAPS checks for every instance.

`PROJECT.json` holds the tables: which definition models which lines (`map`),
what each run checks (`runs`), which change of a definition breaks which
property (`mutants`), and the hazards, findings and theorems.

## 1. Inventory

### The parts

| part | source | state | operations |
|---|---|---|---|
| worker pool | `internal/jobs/worker.go` | per worker: the job in hand, its handler's position, the job's deadline | poll, process, four handlers, storeFile, setProgress, appendEvent, settle |
| job store | `internal/store/postgres.go` | tables `source_requests`, `media_jobs`, `media_variants`, `output_assets`, `job_events` | one statement or transaction per method |
| storage backends | `internal/storage` | objects by key | Store, Open, SignedURL (Delete and PublicURL are never called) |
| media tools | `internal/media` | output files in `TEMP_DIR` | ExtractAudio, MergeAV, Transcode, Analyze, Cleanup |
| API handlers and service | `internal/http/handler`, `internal/service` | none of its own | submit an analysis or an action, read jobs, variants, assets, download |
| asset clean-up | `worker.go:337`, `cmd/api/main.go:173` | an hourly ticker | delete old asset rows |
| process | `cmd/api/main.go` | up, stopping, down | start, signal, shutdown |
| auth and middleware | `internal/auth`, `internal/http/middleware` | none | check a bearer token, request ids, logging, panics |
| configuration | `internal/config` | read once | environment to values |
| domain types, API description | `internal/domain`, `docs/openapi.yaml` | none | declarations |

### How they meet

The parts meet in the database and in the file backend only. The API inserts
rows that the workers find by polling; the workers write status, progress,
variants and assets that the API reads; the clean-up deletes rows under both.
There is no lock and, Dequeue and the batch of variants aside, no transaction
of more than one statement. Two contexts cross the parts: `workerCtx`,
cancelled by the shutdown, and its child `jobCtx`, one per job, with a deadline
of `JOB_TIMEOUT`; a request has a context of its own, which ends when the
client leaves.

### What is hard, and what makes each part correct

| part | hard behaviour | what should hold |
|---|---|---|
| worker pool | several workers on one table; a deadline or a shutdown between any two calls; errors that are thrown away; retries decided on a count read half an hour ago | a job has one worker; retries are bounded; what is completed has its output, and stays as it is; a submitted job settles; a worker comes back |
| job store | a commit whose reply is lost; statements that overwrite whatever the row holds, some of them late | output is stored once per attempt at most; a late decision is still right |
| storage | the local backend truncates and refills in place; both overwrite the object of an earlier attempt | an asset row has its whole object behind it |
| media tools | a tool that hangs, fails or is killed with half a file written; reports that repeat a format, or name no codec, in any order | the worker is freed; a delivered job leaves no file in `TEMP_DIR`; every format is listed once, and what a variant says of itself agrees |
| submission | two to four statements without a transaction, a client that hangs up between them | the answer is true; the job that appears can be worked on |
| polling and download | two statements of a poll race the worker's two; the row goes between lookup and open | a link works as long as it says; a download is whole; "completed" without a link never means "not yet" |
| client | five or more requests, each trusting the answer to the one before; a store that refuses to open the file | whoever keeps to the documented way gets the file or is told why not |
| clean-up | two clocks: the link's life is counted from the upload, the row's age from its INSERT | rows go in the end, and never before their links run out |
| process | main does not wait for the workers; nothing is repaired at the start | jobs in hand are not lost |

`PROJECT.json` lists 40 hazards at the lines where they bite, with the
properties that would show them.

## 2. Modules

Plain modules first, then what is composed of them:

    Calls ──┬── JobStore ──┐                 ┌── AssetDelivery ── MCAssetDelivery
            │              │                 │         └─ refines ─ LinkLife
            └── FileStore ─┴── WorkerPool ───┼── Submission ─┬─── MCSubmission
                                  │          │               └─── ClientFlow ── MCClientFlow
                         MCWorkerPool        └── LateStatements ─ MCLateStatements
                                  └─ refines ─ JobLifecycle

    MediaAnalysis ── MCMediaAnalysis

    WorkerPoolProofs ─┬─ DeliveryProofs ──┬── LifecycleProofs
                      │                   ├── AssetProofs       (with AssetDelivery)
                      │                   └── SubmissionProofs ── ClientFlowProofs
                      └─ LateProofs                             (with LateStatements)
    MediaAnalysisProofs

**Calls** says how a call to PostgreSQL or to the object store can end: it took
effect and was acknowledged (`ok`), it was refused and had no effect, or it took
effect and the reply was lost (`unacked`). `Outcomes(live, side)` gives the
possible ones from whether the caller's context is alive and from the constant
`Faults`, the set of things that may go wrong in an instance. Every write of the
other modules takes such an outcome, so a failure of any one statement is in
every action that makes one.

**JobStore** has one function per column that a decision or a property reads
(status, progress, retry count), a count of the outputs ever stored for a job
(variant batches, asset INSERTs) and of its events, and one operator per
statement. Jobs are numbered by `created_at`, so the oldest is the smallest. No
UPDATE in the code has a condition besides the id, so none has here.

**FileStore** has the file in `TEMP_DIR` and the object in the backend, each
absent, partial or whole. Both are named after the job, so every attempt
overwrites those of the one before it.

**WorkerPool** is `worker.go` with the process around it. `pc[w]` names the call
the worker is about to make: a step is one call, because between two calls the
deadline may pass, the process may end and other workers may go on. `held[w]`
and `seenRetry[w]` are the `*domain.MediaJob` of `process`; `expired[w]` is the
deadline of `jobCtx`; `proc` is the process. One difference in grain: the
transaction of Dequeue is two steps, `Select` (the row is read and locked) and
`Claim` (UPDATE and COMMIT), so that SKIP LOCKED has something to skip.

| action | code |
|---|---|
| `Submit` | `jobs.Create` |
| `Select`, `PollEmpty`, `Claim` | `Dequeue`, `poll` |
| `SetProgress` | every `setProgress`, and the callback of ffmpeg's progress |
| `ReadInput` | `sources.GetByID`, or the URLs in the job's metadata |
| `StartTool`, `ToolSucceeds`, `ToolFails`, `ToolKilled` | `exec.CommandContext` and its end |
| `Persist` | `variants.BulkCreate` |
| `Upload`, `CopyLocal`, `Record` | `storeFile`: `storage.Store` (the local one is a create and a copy), `assets.Create`; with the deferred `Cleanup` where the handler returns |
| `Complete`, `Report` | the last UPDATE, the "info" event, and the end of `process` |
| `LogError`, `Settle` | the error branch of `process` |
| `Expire`, `Stop`, `Exit`, `Start` | the deadline, SIGTERM, the end and the start of the process |

**JobLifecycle** is the abstract queue: a job waits, is taken, and is done, put
back with one try more, or given up; and, only where `Lossy`, it may be lost,
which means that its row still says somebody works on it and nobody does.
`WorkerPool` implements it: an active row with a holder is "taken", one without
is "lost", and the queue is lossy exactly when the faults are more than failing
tools and a failing object store.

**AssetDelivery** composes the pool with the read side of the API and with the
clean-up. `assets` are the rows of `output_assets`; `links` are the download
links clients hold, one per row; `req[r]` is where a request of `GetJob` or
`DownloadByToken` is between its two calls (`GetAsset` has one). Time is a
countdown: `left` runs down to `signed_url_expires_at`, `age` runs up from
`created_at`, `wait` down to the next tick. `PoolStep` is a step of the pool
with what it means here: a row is inserted when `Record` takes effect, with the
expiry computed when the object was stored (`stamp`).

**LinkLife** is what clients are promised about links, without workers, clocks or
rows: a file is made one or more times, its job is published, a link runs out and
goes. `AssetDelivery` implements it: `made` are the `outputs` of processing jobs,
`public` the completed ones, `fresh` and `stale` the rows by whether their time is
up, `known` the links clients hold, `sending` the downloads that have found their
row. It says of the code what no single module of it shows: a file recorded twice,
after a lost reply, has two rows with two tokens, and still all clients of the job
get the same one (`Give`), since the job is completed after the last INSERT,
`GetByJobID` takes the newest row, and the clean-up cannot take it before the
others.

**Submission** composes the pool with the four POST handlers. `at[j]` is where
the request is that would create job j, `gone` are the requests whose client
has hung up, `sources` the rows of `source_requests`, `origin` and `inputs`
what the request has read for its job. `Refuse` is every answer given before
the first statement: the bearer check of `internal/auth`, a body or an id that
does not parse, `validateURL`. `FindVariant`, `FindParent` and `Miss` are the
lookups of an action. `Answer` separates the 400s: a request whose job's INSERT
took effect without a reply is "misled", any other is "rejected"; so a property
can say of which request the answer was wrong. Where the pool alone lets any job appear
at any time (`Submit`), here it appears only by the handlers' own statements;
`PoolStep` is the pool without `Submit`.

Both compositions leave the pool's variables to the pool's own actions, which
is a theorem (`PoolUnderneath`, `PoolBehind`) and makes everything proved of the
pool hold in them.

**ClientFlow** is the way through the API that the repository's README gives its
clients (lines 118-132), on top of `Submission`: submit a URL, poll, list the
variants, ask for an action, poll, download. `flow[f]` is how far the client has
come with action f. Its requests that write are the handlers of `Submission`,
with the ids it was shown; those that read (`PollAnalysis`, `GetVariants`,
`PollJob`, `GetJobAsset`) are the GET handlers, each with the answer that leaves
the client stuck. A download is its two calls, `FindToken` and `OpenObject`, and
`NotAvailable` is the 500 that `DownloadByToken` answers when the store refuses
to open the object: the client asks again. `CleanUp` may delete the asset rows of
any actions at any time, and `cleaned` counts them; who comes too late for the row
is "expired". `FlowUsesTheAPI` says that it is an instance of
`Submission`, and so of the pool.

**LateStatements** is the pool over connections that break in the middle of a
statement. `GiveUp(w)` is the worker's step as after a refusal, with the
statement put into `flight`; `Land` runs it at any later time, also between the
steps of a later attempt or while the process is down, unless the row is locked;
`Lose` drops it. A statement carries what the SQL carries: the job, the
percentage, and, for the properties only, the attempt it belongs to.

**MediaAnalysis** is `Analyzer.Analyze` with the functions it calls: the choice
between yt-dlp and ffprobe by the URL, the loop of `parseYtDlpJSON` over the
formats with its table of keys (one step per format), the variants that
`analyzeYouTube` and `analyzeDirect` make, and their MIME types. Names of codecs and
containers are compared as the code compares them, after `Fold`, a constant that
stands for trimming and lower case. What the tools
report is any sequence of entries, drawn from sets that are constants. The pool
uses of it that a success has a list to store, which is `SuccessHasVariants`.

**Seeded faults.** A definition under a comment "Seeded fault" is not used by
any specification. It is what the definition after it might have been with a
plausible bug in it; put in that definition's place, it breaks the property that
`PROJECT.json` names under `mutants`. They show that each property can fail.

## 3. Runs

Faults are named as in `Calls`: db, store (refused), ack (a lost reply), tool,
timeout, stop (SIGTERM), crash. All states are explored, none is cut off.

| run | instance | faults | states | shows |
|---|---|---|---|---|
| LocalStore | 2 workers, extract + analyze, 1 retry, local | all but ack | 1,448,520 | one worker per job, a settled job is frozen, progress goes back only after a retry, every step of work brings a job nearer to its end; the inductive invariant of the proofs, which contains the retry limit and that completed means delivered |
| LostReplies | 2 workers, analyze + merge, 1 retry, S3; tools may hang | store, ack, tool, timeout, stop | 268,212 | duplicates stay within one per attempt, each row has its object, the events explain the row, the abstract queue is implemented, every worker comes back |
| ToolFailures | 2 workers, analyze + merge, 2 retries, local | store, tool | 10,920 | every job settles; a delivered job leaves no temporary file; the abstract queue that loses nothing is implemented |
| LateStatements | 2 workers, 1 extract, 1 retry, local, 3 statements in flight | db, ack, timeout, crash | 176,178 | what survives statements that arrive late: one worker per job, the retry limit, completed means delivered, the account of outputs stored and under way, late decisions are still right, settled jobs are not handed out again |
| Links | 2 workers, 1 job, 2 requests, 1 retry, link and row live 3, hour of 2 | ack, tool, timeout, stop | 201,394 | links live as long as they say, downloads are whole, "completed" without a link means cleaned up, old rows go while the process stays up, the abstract life of a link is implemented |
| Submissions | 1 worker, analyze, merge, extract, no retry, S3 | ack, stop | 239,895 | a 202 has its job, and a 400 has none unless the reply to that request's own INSERT was lost; each job in the queue has all its handler asks for |
| ClientFlow | 2 workers, analyze, merge, extract, 1 retry, S3; the store may refuse reads as well as writes, and the clean-up may come at any time | store, tool | 147,589 | nobody who keeps to the documented way gets stuck, and everybody comes to an end: the file, an error or an expired link |
| Analysis | reports of up to 3 entries out of 12 formats or 5 streams, 5 containers, 6 URLs | tools fail at will | 33,212 | like formats are listed once, the others all; a success has variants; each variant agrees with itself |

Four runs show that the code does not do what its documents say; each checks
one property and ends with a counterexample.

| run | property | what happens |
|---|---|---|
| LostCompletion | `SubmittedJobsSettle` | the deadline passes between the asset's INSERT and the completing UPDATE, whose error is thrown away (`worker.go:186`): the output is there and the row says "processing" for ever. All four handlers end this way (`worker.go:158, 186, 213, 239`) |
| Shutdown | `SubmittedJobsSettle` | SIGTERM cancels the context under which a failed job would be requeued, and the next start looks at no active rows (`main.go:206`) |
| ExpiredLinks | `NoDownloadAfterExpiry` | the lookup of a token ignores `signed_url_expires_at` |
| WrongTool | `YouTubeNeverProbed` | a URL with a space or a line end in front is validated without it and stored with it (`media_service.go:49`); `url.Parse` then fails in `isYouTubeURL`, and the page goes to ffprobe, which `analyzer.go:123` says must not happen |

### Why the bounds are enough

- *Two workers, two jobs.* The workers interact through the lock on one row and
  through its status. Two of each give every race for a row and every way of
  working side by side; the theorems have any number.
- *Retries 0 to 2.* One retry gives an attempt that meets what an earlier one
  left behind; two give a retry of a retry. With none, a job settles at once,
  which is enough where the property is about something else.
- *Time.* Only comparisons of the link's life, the row's life and the ticker's
  period matter. `LinkTTL = AssetTTL = 3` with an hour of 2 lets ticks fall
  between and exactly on the limits, and the expiry lie before the age limit by
  the delay of the INSERT; this is the tight case of `LinkHonoured`, whose
  theorem has all the others. A row that is old enough to go ages no further.
- *Requests.* A request reads and never writes, so one is enough for what it may
  see, and two for what two of them may do with one token.
- *Three submissions*, an analysis and two actions on it, are the least in which
  a merge takes two variants and an action's parent may be an action.
- *Late statements.* Three in flight are more than one attempt of an extract job
  leaves undecided at a time that matter to each other: a progress report, an
  output and a decision. Two attempts give statements of the first that land in
  the second.
- *Reports.* Formats are compared two at a time, and a third one shows what a
  repetition in between does. The twelve formats differ in every part of the key,
  include each reason for which one is left out, and include names that are the
  same only after folding ("AVC1", "NONE", a blank, "WebM").
- *Job kinds.* An instance mixes an analyze job, whose output is variants, and a
  processing job. Extract is the one with a progress callback; transcode makes
  the same calls as merge, with the same percentages.

### Fairness

`FairSpec`: a worker goroutine takes its next step when it can, and every tool
ends. The first is what the Go scheduler, a ticker and a database that answers
give; the second holds because `Analyze` has limits of its own (60 s, 120 s) and
ffmpeg is taken to finish. `HangingToolSpec`, of LostReplies, drops the second and asks instead
that the timer of `jobCtx` fires. `FairFlowSpec`, of ClientFlow, adds that a
request, which has a goroutine of its own, goes on when it can, and that the
client sends the next one when it has its answer. A store that fails a read may do
so any number of times but not for ever: `OpenObject` has strong fairness, since
each refusal disables it until the client has asked again. No fairness is on
`CleanUp`. `RestartSpec` adds that a process told to stop
ends (`srv.Shutdown` has a limit) and is started again, without which `Shutdown`
would show only that a stopped program does nothing. `TimedSpec`, of Links, says that time
passes and that the clean-up goroutine receives its ticks. Elsewhere nothing is
assumed about clients, and nowhere about signals or about any fault. A database that never answers
is outside all of them: every call is taken to return, and one whose context
dies meanwhile is the outcome `unacked` or `refused`.

## 4. Proofs

All theorems hold for every set of workers, number and mix of jobs, retry limit
(any integer, since any parses), backend and set of faults, from the named
assumptions in the modules: `Workers` is not empty, `MaxJobs` is positive,
`Faults` are known kinds, the types of `JobType`, `Backend`, the lives and the
period.

| module | theorem | argument |
|---|---|---|
| WorkerPoolProofs | `TypeCorrect` | `TypeInv`: types, and a worker holds a job exactly when it is not idle; without the second, a write to `held[w]` could miss the tables |
| | `ClaimsAreExclusive`, `RetriesAreBounded` | `CoreInv`: one holder per job; the row of a held job is active (queued while Dequeue's transaction is open, completed just before the end); the holder's copy of `retry_count` is the true one. Exclusiveness alone is not inductive: nothing would stop a second `Select` of a claimed job but its status. The budget alone is not either: it needs the copy to be current, and that needs exclusiveness |
| DeliveryProofs | `Inductive` | `IInv` adds `DeliveryInv`: where the worker is determines what the job's outputs and object can be. It distinguishes attempts that have stored their output from those that have not, and holds under every fault |
| | `CompletedJobsHaveOutput`, `DeliveriesAreCounted`, `AssetRowsHaveObjects` | read off `DeliveryInv` |
| | `SettledJobsAreFrozen` | an action property: only a worker that is at "report" can hold a settled job, and that step writes an event and the temporary file only |
| | `DeliveredJobsLeaveNoFile` | `TidyInv`: without a stop or a crash, a worker at "report" is the only one that can still have a file of a settled job, and that step removes it |
| | `EventsExplainTheRow` | `TrailInv`: a worker about to settle has written its error event, or its process is stopping and both calls are futile |
| | `FirstAttemptsOnlyAdvance` | `BarInv`: in a first attempt the progress is at most what the handler had reported before the call the worker is at (`Ceiling`). Every report is at least its ceiling |
| LifecycleProofs | `PoolImplementsLifecycle` | step simulation under the refinement mapping. `LossInv`: the process is not up, a deadline has passed, or a worker that is about to return has not completed its row, only where the abstract queue is lossy; these are the states from which a job drops out of sight |
| | `NoJobIsWorkedOnForEver` | a measure: `StepsLeft` counts the calls an attempt can still make from where its worker is, and `AttemptSteps` for each retry left. Each action goes to a call with fewer left, a retry pays for its attempt with the count it stores; that a held job has one holder and that its copy of `retry_count` is current make the measure well defined. A claim that is refused or whose worker ends before the COMMIT is the one step that gives nothing up |
| AssetProofs | `PoolUnderneath` | every step of the composition is a step of the pool or leaves it alone |
| | `DownloadsAreWhole`, `LinksAreHonoured` | `FinalInv`: links and requests are about completed jobs only, which by `SettledJobsAreFrozen` keep their object. `HonourInv`: as long as a link has time left, its row is there with the same time left, and a row's age and the time left never exceed the life of the link, so the row is not old enough to go |
| | `AssetTypes` | with the stamps of the workers, from which a link's life comes |
| | `BareAnswers` | `BareInv`: a completed job without a row never gets one again |
| | `LinksKeepTheirLife` | step simulation under the mapping to `LinkLife`. `RowsInOrder`: the rows of a job have different numbers, the later is the younger, and the last one is there as long as any is; the ages are what makes this inductive, because the clean-up then takes an earlier row no later than a later one. `LinksAreLast` follows: no link is to an earlier INSERT. A step of the pool is one of three to the links (`PoolStepSorts`): it records one row of an uncompleted job, it completes one that has a file, or it is none of their business |
| | `LinksNeverReturn` | from the simulation: `LinkLife` makes every link once, with a number above all earlier ones |
| SubmissionProofs | `PoolBehind` | as `PoolUnderneath`; the only step of a request that touches the pool is `Submit` |
| | `AnswersHold`, `WorkersFindTheirInputs` | `SubmissionInv`, per request: what it has gathered so far is stored (`Stored`, no row goes), of the number its place asks for (`Gathered`), is sound when the job is about to be inserted (`Sound`), and the request's place agrees with the job's (`Placed`, which also tells the misled from the rejected). An action inherits its source from its parent, so soundness of one request rests on that of another |
| | `RequestTypes` | the number of variants read is part of `Gathered` |
| ClientFlowProofs | `FlowUsesTheAPI` | each step of the client is a step of `Submission` or leaves it alone |
| | `TheDocumentedWayIsOpen`, `FlowTypes` | an invariant that says what the client has been told so far and that it still holds: an accepted job stays in the queue or beyond, a completed one keeps its outputs and its object, whether or not its row has been cleaned. It is proved for every set of faults, so it has the stages in which a client may be stuck for a database that fails or a reply that is lost, and shows that the store is not among the reasons: a link, a lookup or an open has a whole object behind it, and a refused one can be asked for again. It rests on the theorems on submission and on settled jobs |
| LateProofs | `LateClaimsAreExclusive`, `LateRetriesAreBounded`, `LateDecisionsStand`, `LateTypes` | `LateInv`: the pool's `CoreInv` and `DecisionStands` are inductive together. A decision in flight keeps its job active and out of everybody's hands, so no second one can be made; a late progress report may change the status of a row, but neither its retry count nor who holds it, and never to "queued" |
| | `LateNeverRequeued` | the only statement that requeues is a decision, and `Stands` says its row is still active |
| | `LateDeliveryHolds`, `LateDeliveriesAreCounted`, `LateCompletionsAreDelivered` | the count of stored outputs is not enough, since an INSERT may take effect when its attempt, or the job, is long over: `OutputsAreCounted` counts an output from when it is sent, stored or not, and allows one to each attempt that has got that far. `CompletionsAreEarned` says of every completion, to be sent, under way or stored, that its output is there; it needs that nothing takes an output away and that a late completion is never overtaken by a new attempt, which is `DecisionStands` |
| MediaAnalysisProofs | `ReportsListedOnce` | an invariant of the loop: the keys seen are those of the formats picked, every usable format before the current one has a picked one with its key not after it, and the places picked ascend. Holds for reports of any length |
| | `SuccessIsNotEmpty`, `FlagsAgree`, `AnalysisTypes` | read off the same invariant; the flags from the two ways a variant is made |

`IInv` is also an invariant of two runs, `LateDelivery` of one.

Only model-checked: the liveness properties `SubmittedJobsSettle`,
`WorkersReturn`, `OldRowsGo` and `FlowEnds`, which are out of the prover's
reach. Of the first two, `EveryStepCounts` is the part that is safety, proved for
every instance: what remains to be checked is that the steps left are taken.
Every invariant, action property and refinement of a passing run is proved.

`TerminalFrozen`, which the pool has under refused calls and lost replies, does
not survive late statements: a progress report that arrives late takes a
completed job back to "processing" (`postgres.go:152`), where it stays. What
`LateProofs` shows is that no worker gets the job again.

## 5. What is not modelled

- **What the tools do**: ffmpeg, ffprobe and yt-dlp are external, and so are the
  arguments ffmpeg is given. Labels, durations, bit rates and titles are left out
  of variants.
- **Details of requests**: what a body looks like, which token is accepted and
  which URL `validateURL` refuses are choices in `Submission`; `MediaAnalysis`
  has of a URL what the choice of the tool depends on. The health checks answer
  from no state. Request ids, logging and the recovery from panics change none.
- **Configuration**: read once. Its values are constants here, with the ranges
  its parser lets through, but for a pool of no workers.
- **Jobs nobody can ask for**: the type "package" (`domain.go:20`), which no
  handler inserts, and with it the default branch of `process` (`worker.go:116`).
- **The second statement of the clean-up**: `CleanupAssets` ends with an attempt to
  remove the system's temporary directory (`worker.go:346`), which is not
  `TEMP_DIR`.
- **Time in `ClientFlow`**: its clean-up may come at any moment after the
  completion, so a link is never promised to last there; how long it does is the
  subject of `AssetDelivery`.
- **The start**: cookies file, connection, migrations. `Start` begins after them.
- **Late INSERTs of events**, which nothing reads; and late statements of
  requests, of which a request that gave up is never heard again (for its INSERTs
  that is the lost reply of `Submission`). A job's INSERT that takes effect just as
  the process ends is there an accepted request whose answer does not arrive.
- **Late INSERTs of assets beside clients.** `LateStatements` has them, without
  the read side; `AssetDelivery`, and so `LinkLife`, has the INSERT that took
  effect without a reply, at once. `created_at` is taken before the statement is
  sent, so a row that arrives late is not the newest of its job while a newer
  one is there.
- **Two processes on one database.** The repository runs one; nothing in the
  pool's model depends on it but `Exit`, which ends all workers at once.
- **Database faults in the liveness runs.** A lost settling UPDATE strands a job,
  as LostCompletion and Shutdown show for two causes of it; `JobLifecycle` with
  `Lossy` is what remains true.

Seen in the code and not stated as a property, because no document says
otherwise, or because one call after another shows it:

- `CleanupAssets` deletes rows and no object, although its comment
  (`worker.go:337`) says "from disk"; the storage key goes with the row.
- Nothing marks a download token as used, although `openapi.yaml:252` calls it
  one-time.
- `Dequeue` sets 'analyzing' for every kind of job, although its comment
  (`postgres.go:178`) says processing; the handler's first report corrects it.
- An action's variants are compared neither with the job in the path nor with
  what the action needs: two video streams can be merged.
- A process restarted more often than hourly never cleans up, since the ticker
  starts anew and the first tick comes after an hour.
- A failed tool leaves its partial file in `TEMP_DIR`: only a later attempt that
  succeeds removes it, so a failed job's file stays.
- A failure between the two INSERTs of an analysis leaves a source row that
  nothing refers to.
- `GetJob` answers 404 for every failure of the database, and `GetVariants` an
  empty list for a job that does not exist.
- ffprobe reports an embedded cover as a video stream, so an mp3 with a cover is
  listed as a video; a codec yt-dlp reports as null counts as absent.
- With JWT enabled, rows carry a user id that refers to a table nobody fills.

## 6. Plan

Done, in this order: `Calls`, `JobStore`, `FileStore`, `WorkerPool` with its
runs; the invariants' proofs; `JobLifecycle` and the refinement; `AssetDelivery`
and its proofs; `Submission` and its proofs; `MediaAnalysis`, `LateStatements`
and `ClientFlow` with theirs; the proofs of `EventTrail`, `TempReclaimed` and
`ProgressRestartsOnlyOnRetry`; the outputs of late statements; the measure of
`EveryStepCounts`; `LinkLife`, its refinement and what follows from it.

What could come next:

1. The clocks of `AssetDelivery` in `ClientFlow`, by way of `LinkLife`, so that
   "expired" is an answer only a late client gets.
2. Tokens with a history, so that one use after another is told from two at once.
3. The start of the process, from the configuration to the first poll, with
   values that the parser accepts and the program does not survive.
