----------------------------- MODULE AssetDelivery -----------------------------
(***************************************************************************)
(* What becomes of a processed file: the worker pool records it, clients   *)
(* learn its link by polling the job and download it, and the hourly       *)
(* clean-up of cmd/api/main.go deletes its row when it is too old.         *)
(*                                                                         *)
(* The module composes the pool with the read side of the API              *)
(* (internal/http/handler, internal/service) and with the clean-up.  The   *)
(* handlers hold no lock and open no transaction: each of their statements *)
(* is a step.  Time passes in units of which TickPeriod make the hour of   *)
(* the clean-up's ticker; it may pass between any two steps.               *)
(***************************************************************************)
EXTENDS WorkerPool

CONSTANTS
    Requests,       \* bound: HTTP requests in progress at a time
    LinkTTL,        \* how long storeFile says a link is good for (24 h)
    AssetTTL,       \* ASSET_TTL; any duration parses (config.go:134)
    TickPeriod      \* the period of the clean-up's ticker (1 h)

ASSUME LinkTTLAssumption    == LinkTTL \in Nat \ {0}
ASSUME AssetTTLAssumption   == AssetTTL \in Int
ASSUME TickPeriodAssumption == TickPeriod \in Nat \ {0}

VARIABLES
    assets,     \* the rows of output_assets
    stamp,      \* what is left of the life of the link in each worker's hands
    links,      \* the links that clients have been given
    req,        \* where each request is, and the asset it is about
    wait,       \* time to the next tick, 0 when there is no ticker
    tick        \* a tick has not been received yet

assetVars == <<assets, stamp, links, req, wait, tick>>
allVars   == <<vars, assetVars>>

(* A row and a link are known by their job and by the number n of the      *)
(* INSERT among those of the job; it stands for the asset's id and for its *)
(* download token.  age counts from created_at, left runs down to          *)
(* signed_url_expires_at.                                                  *)
Link == [job : Jobs, n : Nat \ {0}, left : 0 .. LinkTTL]
Row  == [job : Jobs, n : Nat \ {0}, left : 0 .. LinkTTL, age : Nat]

LinkOf(a)    == [job |-> a.job, n |-> a.n, left |-> a.left]
Names(l, a)  == l.job = a.job /\ l.n = a.n
RowsOf(j)    == {a \in assets : a.job = j}

(* Seeded fault: ORDER BY created_at without DESC.                         *)
Oldest(a) == \A b \in RowsOf(a.job) : a.n <= b.n

(* GetByJobID: ORDER BY created_at DESC LIMIT 1.                           *)
Newest(a) == \A b \in RowsOf(a.job) : b.n <= a.n

(* idle; asset - GetJob has seen "completed" and looks for the asset;      *)
(* bare - it answers without one; open - a download has found the row;     *)
(* stream - it sends the object; failed - it answers 404 or 500.           *)
Places == {"idle", "asset", "bare", "open", "stream", "failed"}

Idle == [at |-> "idle", job |-> NoJob, n |-> 0]

AssetTypeOK ==
    /\ assets \subseteq Row
    /\ stamp \in [Workers -> 0 .. LinkTTL]
    /\ links \subseteq Link
    /\ req \in [Requests -> [at : Places, job : Jobs \cup {NoJob}, n : Nat]]
    /\ wait \in 0 .. TickPeriod
    /\ tick \in BOOLEAN

AssetInit ==
    /\ Init
    /\ assets = {}
    /\ stamp = [w \in Workers |-> 0]
    /\ links = {}
    /\ req = [r \in Requests |-> Idle]
    /\ wait = TickPeriod
    /\ tick = FALSE

-------------------------------------------------------------------------------
(* A step of the pool, with what it means here.                            *)

(* Seeded fault: the expiry is a unit of time later than it should be.     *)
StampedLate ==
    [w \in Workers |->
        IF pc[w] # "record" /\ pc'[w] = "record" THEN LinkTTL + 1 ELSE stamp[w]]

(* storeFile computes the expiry when the object is stored; assets.Create  *)
(* takes created_at later, with the INSERT.                                *)
Stamped ==
    [w \in Workers |->
        IF pc[w] # "record" /\ pc'[w] = "record" THEN LinkTTL ELSE stamp[w]]

Inserting == {w \in Workers : pc[w] = "record" /\ outputs'[held[w]] > outputs[held[w]]}

Inserted ==
    {[job |-> held[w], n |-> outputs'[held[w]], left |-> stamp[w], age |-> 0] :
        w \in Inserting}

PoolStep ==
    /\ Next
    /\ stamp' = Stamped
    /\ assets' = assets \cup Inserted
    /\ UNCHANGED links
    /\ \/ /\ proc' = "down"
          /\ req' = [r \in Requests |-> Idle]
          /\ wait' = 0
          /\ tick' = FALSE
       \/ /\ proc' # "down"
          /\ wait' = IF proc = "down" THEN TickPeriod ELSE wait
          /\ UNCHANGED <<req, tick>>

-------------------------------------------------------------------------------
(* Requests.  The server accepts them until srv.Shutdown is called and     *)
(* lets them finish until the process ends.                                *)

Serving == proc # "down"

At(r, p, j, n) == req' = [req EXCEPT ![r] = [at |-> p, job |-> j, n |-> n]]

(* Seeded fault: the asset is attached whatever the job's status.          *)
ReadJobAnyStatus(r) ==
    /\ Serving
    /\ req[r] = Idle
    /\ \E j \in Jobs : status[j] # "absent" /\ At(r, "asset", j, 0)
    /\ UNCHANGED <<vars, assets, stamp, links, wait, tick>>

(* GetJob, first statement.  A job that is not completed is answered from  *)
(* this row alone, with nothing about assets.                              *)
ReadJob(r) ==
    /\ Serving
    /\ req[r] = Idle
    /\ \E j \in Jobs : status[j] = "completed" /\ At(r, "asset", j, 0)
    /\ UNCHANGED <<vars, assets, stamp, links, wait, tick>>

(* GetJob, second statement: the newest asset of the job.  An error, be it *)
(* "no rows" or a failure of the database, is not reported.                *)
ReadAsset(r) ==
    /\ req[r].at = "asset"
    /\ \/ /\ \E a \in RowsOf(req[r].job) :
                Newest(a) /\ links' = links \cup {LinkOf(a)}
          /\ req' = [req EXCEPT ![r] = Idle]
       \/ /\ RowsOf(req[r].job) = {} \/ "db" \in Faults
          /\ At(r, "bare", req[r].job, 0)
          /\ UNCHANGED links
    /\ UNCHANGED <<vars, assets, stamp, wait, tick>>

(* GetAsset: the same link again, for a client that kept the asset's id.   *)
GetAsset(r) ==
    /\ Serving
    /\ req[r] = Idle
    /\ \E l \in links, a \in assets :
        /\ Names(l, a)
        /\ links' = links \cup {LinkOf(a)}
    /\ UNCHANGED <<vars, assets, stamp, req, wait, tick>>

(* DownloadByToken, first call: find the row of the token.  Neither the    *)
(* expiry nor an earlier use of the token is looked at.                    *)
FindToken(r) ==
    /\ Serving
    /\ req[r] = Idle
    /\ \E l \in links :
        \/ (\E a \in assets : Names(l, a)) /\ At(r, "open", l.job, l.n)
        \/ /\ (\A a \in assets : ~Names(l, a)) \/ "db" \in Faults
           /\ At(r, "failed", l.job, l.n)
    /\ UNCHANGED <<vars, assets, stamp, links, wait, tick>>

(* DownloadByToken, second call: open the object; then send it.            *)
OpenObject(r) ==
    /\ req[r].at = "open"
    /\ \/ blob[req[r].job] # "none" /\ At(r, "stream", req[r].job, req[r].n)
       \/ /\ blob[req[r].job] = "none" \/ "store" \in Faults
          /\ At(r, "failed", req[r].job, req[r].n)
    /\ UNCHANGED <<vars, assets, stamp, links, wait, tick>>

(* The answer has been written, or the client has gone.                    *)
Finish(r) ==
    /\ req[r].at \in {"bare", "stream", "failed"}
    /\ req' = [req EXCEPT ![r] = Idle]
    /\ UNCHANGED <<vars, assets, stamp, links, wait, tick>>

-------------------------------------------------------------------------------
(* The clean-up and the clock.                                             *)

(* Seeded fault: what would be too old at the next tick goes already now.  *)
OlderSoon(a) == a.age + TickPeriod > AssetTTL

Older(a) == a.age > AssetTTL

(* CleanupAssets: the rows only, the objects stay.  It does not run under  *)
(* the context the shutdown cancels.  Left out: it then tries to remove    *)
(* the system's directory for temporary files, which is not the TEMP_DIR   *)
(* of the tools; no state here is in it.                                   *)
CleanUp ==
    /\ Serving
    /\ tick
    /\ tick' = FALSE
    /\ \/ assets' = {a \in assets : ~Older(a)}
       \/ "db" \in Faults /\ UNCHANGED assets
    /\ UNCHANGED <<vars, stamp, links, req, wait>>

(* Seeded fault: a timer instead of a ticker.                              *)
RearmNever == 0

Rearm == TickPeriod

Less(n) == IF n > 0 THEN n - 1 ELSE 0

(* One unit of time.  A row that is old enough to go does not age further, *)
(* which bounds the ages.                                                  *)
AgedLink(l) == [job |-> l.job, n |-> l.n, left |-> Less(l.left)]

AgedRow(a) ==
    [job |-> a.job, n |-> a.n, left |-> Less(a.left),
     age |-> IF Older(a) THEN a.age ELSE a.age + 1]

Pass ==
    /\ assets' = {AgedRow(a) : a \in assets}
    /\ stamp' = [w \in Workers |-> Less(stamp[w])]
    /\ links' = {AgedLink(l) : l \in links}
    /\ wait' = IF wait = 1 THEN Rearm ELSE Less(wait)
    /\ tick' = (tick \/ wait = 1)
    /\ UNCHANGED <<vars, req>>

AssetNext ==
    \/ PoolStep
    \/ \E r \in Requests :
        \/ ReadJob(r) \/ ReadAsset(r) \/ GetAsset(r)
        \/ FindToken(r) \/ OpenObject(r) \/ Finish(r)
    \/ CleanUp
    \/ Pass

AssetSpec == AssetInit /\ [][AssetNext]_allVars

(* Time passes, and a goroutine that has a tick to receive receives it.    *)
(* Once the shutdown has begun it may return instead.                      *)
TimedSpec ==
    AssetSpec /\ WF_allVars(Pass) /\ WF_allVars(proc = "up" /\ CleanUp)

-------------------------------------------------------------------------------
(* Properties                                                              *)

(* A link works for as long as its response said, when ASSET_TTL is not    *)
(* below the 24 hours of storeFile: its row is there and so is the object. *)
LinkHonoured ==
    AssetTTL >= LinkTTL =>
        \A l \in links : l.left > 0 =>
            /\ \E a \in assets : Names(l, a)
            /\ blob[l.job] = "whole"

(* A download never sends a part of a file as if it were the whole: no     *)
(* attempt rewrites an object that somebody has a link to.                 *)
ServedWhole ==
    \A r \in Requests : req[r].at \in {"open", "stream"} => blob[req[r].job] = "whole"

(* "completed" without an asset means that the asset was there and has     *)
(* been cleaned up, never that it is still to come: GetJob reads the job   *)
(* before the asset, the worker writes the asset before the job.           *)
BareMeansCleanedUp ==
    "db" \notin Faults =>
        \A r \in Requests : req[r].at = "bare" /\ JobType[req[r].job] # "analyze" =>
            outputs[req[r].job] > 0 /\ RowsOf(req[r].job) = {}

(* An asset row that is too old is deleted in the end, by a process that   *)
(* lives long enough: a restart also restarts the hour of the ticker.      *)
OldRowsGo ==
    <>[](proc = "up") =>
        \A j \in Jobs, n \in 1 .. MaxRetry + 1 :
            (\E a \in assets : a.job = j /\ a.n = n /\ Older(a))
                ~> (\A a \in assets : ~(a.job = j /\ a.n = n))

(* A download starts only before the expiry the client was told            *)
(* (handler.go:286, "asset not found or token expired").                   *)
NoDownloadAfterExpiry ==
    [][\A r \in Requests : req[r].at = "idle" /\ req'[r].at = "open" =>
        \E l \in links : l.job = req'[r].job /\ l.n = req'[r].n /\ l.left > 0]_allVars
-------------------------------------------------------------------------------
(* The links seen from outside: which of them run, have run out or are     *)
(* gone, and who is being sent what.                                       *)
Processing == {j \in Jobs : JobType[j] # "analyze"}

IdOf(a) == [job |-> a.job, n |-> a.n]

Fresh == {IdOf(a) : a \in {b \in assets : b.left > 0}}
Stale == {IdOf(a) : a \in {b \in assets : b.left = 0}}

Made      == [j \in Processing |-> outputs[j]]
Published == {j \in Processing : status[j] = "completed"}
Known     == {IdOf(l) : l \in links}

Answering(q) == IF q.at \in {"open", "stream"} THEN {IdOf(q)} ELSE {}

Sending == [r \in Requests |-> Answering(req[r])]

Links ==
    INSTANCE LinkLife WITH
        Files <- Processing, Kept <- AssetTTL >= LinkTTL,
        made <- Made, public <- Published, fresh <- Fresh, stale <- Stale,
        known <- Known, sending <- Sending

(* Workers, clients, clean-up, clock and restarts together treat a link as *)
(* LinkLife says: however often a job's file was recorded, all clients get *)
(* the same link to it and none before the job is completed; a link runs   *)
(* out before it goes, and one that is gone neither comes back nor starts  *)
(* a download.                                                             *)
ImplementsLinkLife == Links!Spec
===============================================================================
