------------------------------ MODULE AssetProofs ------------------------------
(***************************************************************************)
(* Proofs about AssetDelivery, for every life of links and rows, every     *)
(* number of requests, and every pool.                                     *)
(***************************************************************************)
EXTENDS AssetDelivery, DeliveryProofs

(* Clients and clean-up leave the pool's variables alone, so whatever was  *)
(* proved of the pool holds here.                                          *)
LEMMA PoolSteps == [AssetNext]_allVars => [Next]_vars
  BY DEF AssetNext, allVars, PoolStep, ReadJob, ReadAsset, GetAsset, FindToken, OpenObject,
         Finish, CleanUp, Pass

THEOREM PoolUnderneath == AssetSpec => Spec
<1>1. AssetInit => Init
  BY DEF AssetInit
<1>2. QED
  BY <1>1, PoolSteps, PTL DEF AssetSpec, Spec

-------------------------------------------------------------------------------
(* What a link stands on.                                                  *)

(* Only processing jobs have assets, and none has more rows than INSERTs.  *)
RowsAreReal ==
    \A a \in assets : a \in Row /\ JobType[a.job] # "analyze"

(* A link is given out for a completed job only, whose row and object      *)
(* nothing changes any more.                                               *)
LinksAreFinal ==
    \A l \in links : l \in Link /\ status[l.job] = "completed" /\ JobType[l.job] # "analyze"

(* A request that has got anywhere is about a completed job.               *)
RequestsAreFinal ==
    \A r \in Requests : req[r] # Idle =>
        /\ req[r].job \in Jobs
        /\ status[req[r].job] = "completed"
        /\ req[r].at \in {"open", "stream"} => JobType[req[r].job] # "analyze"

FinalInv == RowsAreReal /\ LinksAreFinal /\ RequestsAreFinal

-------------------------------------------------------------------------------
RequestStates == [at : Places, job : Jobs \cup {NoJob}, n : Nat]

LEMMA IdleType == Idle \in RequestStates
  BY DEF Idle, RequestStates, Places

LEMMA FinalInit == AssetInit => AssetTypeOK /\ FinalInv
<1> SUFFICES ASSUME AssetInit
             PROVE  AssetTypeOK /\ FinalInv
  OBVIOUS
<1>1. \A r \in Requests : req[r] = Idle
  BY DEF AssetInit
<1>2. req \in [Requests -> RequestStates]
  BY IdleType DEF AssetInit
<1>3. /\ stamp \in [Workers -> 0 .. LinkTTL]
      /\ wait \in 0 .. TickPeriod
  BY LinkTTLAssumption, TickPeriodAssumption DEF AssetInit
<1>4. tick \in BOOLEAN /\ assets = {} /\ links = {}
  BY DEF AssetInit
<1>5. QED
  BY <1>1, <1>2, <1>3, <1>4
     DEF AssetTypeOK, FinalInv, RowsAreReal, LinksAreFinal, RequestsAreFinal, RequestStates

(* A completed job stays completed.                                        *)
LEMMA CompletedStays ==
    ASSUME IInv, [AssetNext]_allVars, NEW j \in Jobs, status[j] = "completed"
    PROVE  status'[j] = "completed"
  BY PoolSteps, FrozenStep DEF Frozen, Terminal

(* What the pool inserts is a row of a processing job that is not          *)
(* completed yet.                                                          *)
LEMMA InsertedRows ==
    ASSUME IInv, IInv', AssetTypeOK, NEW a \in Inserted
    PROVE  /\ a \in Row
           /\ JobType[a.job] # "analyze"
           /\ status[a.job] # "completed"
           /\ a.age = 0
<1>1. PICK w \in Workers :
        /\ pc[w] = "record" /\ outputs'[held[w]] > outputs[held[w]]
        /\ a = [job |-> held[w], n |-> outputs'[held[w]], left |-> stamp[w], age |-> 0]
  BY DEF Inserted, Inserting
<1>2. pc[w] \in PCs \ {"idle", "report"}
  BY <1>1 DEF PCs, ProcessPCs, HandlerPCs
<1>3. held[w] \in Jobs /\ status[held[w]] # "completed"
  BY <1>2, OnlyReportHoldsSettled DEF Terminal
<1>4. JobType[held[w]] # "analyze"
  BY <1>1, <1>3 DEF IInv, DeliveryInv, JobDelivery
<1>5. outputs'[held[w]] \in Nat \ {0}
  BY <1>1, <1>3 DEF IInv, TypeOK, StoreTypeOK
<1>6. QED
  BY <1>1, <1>3, <1>4, <1>5 DEF Row, AssetTypeOK

(* Ageing keeps rows and links what they are.                              *)
LEMMA AgedRowType ==
    ASSUME NEW a \in Row
    PROVE  /\ AgedRow(a) \in Row
           /\ AgedRow(a).job = a.job /\ AgedRow(a).n = a.n
           /\ AgedRow(a).left = Less(a.left)
  BY LinkTTLAssumption, AssetTTLAssumption DEF AgedRow, Row, Less, Older

LEMMA AgedLinkType ==
    ASSUME NEW l \in Link
    PROVE  /\ AgedLink(l) \in Link
           /\ AgedLink(l).job = l.job /\ AgedLink(l).n = l.n
           /\ AgedLink(l).left = Less(l.left)
  BY LinkTTLAssumption DEF AgedLink, Link, Less

LEMMA LinkOfType ==
    ASSUME NEW a \in Row
    PROVE  /\ LinkOf(a) \in Link
           /\ LinkOf(a).job = a.job /\ LinkOf(a).n = a.n /\ LinkOf(a).left = a.left
  BY DEF LinkOf, Row, Link

-------------------------------------------------------------------------------
(* The types, one variable at a time.                                      *)

LEMMA RowsKeepType ==
    ASSUME IInv, IInv', AssetTypeOK, [AssetNext]_allVars
    PROVE  assets' \subseteq Row
<1>a. assets \subseteq Row
  BY DEF AssetTypeOK
<1>1. ASSUME PoolStep
      PROVE  assets' \subseteq Row
  BY <1>a, <1>1, InsertedRows DEF PoolStep
<1>2. ASSUME Pass
      PROVE  assets' \subseteq Row
  BY <1>a, <1>2, AgedRowType DEF Pass
<1>3. ASSUME assets' \subseteq assets
      PROVE  assets' \subseteq Row
  BY <1>a, <1>3
<1>4. ASSUME \/ CleanUp \/ UNCHANGED allVars
             \/ \E r \in Requests : \/ ReadJob(r) \/ ReadAsset(r) \/ GetAsset(r)
                                    \/ FindToken(r) \/ OpenObject(r) \/ Finish(r)
      PROVE  assets' \subseteq assets
  BY <1>4 DEF CleanUp, allVars, assetVars, ReadJob, ReadAsset, GetAsset, FindToken,
              OpenObject, Finish
<1>5. QED
  BY <1>1, <1>2, <1>3, <1>4 DEF AssetNext

LEMMA LinksKeepType ==
    ASSUME AssetTypeOK, [AssetNext]_allVars
    PROVE  links' \subseteq Link
<1>a. assets \subseteq Row /\ links \subseteq Link
  BY DEF AssetTypeOK
<1>1. ASSUME Pass
      PROVE  links' \subseteq Link
  BY <1>a, <1>1, AgedLinkType DEF Pass
<1>2. ASSUME NEW r \in Requests, ReadAsset(r) \/ GetAsset(r)
      PROVE  links' \subseteq Link
  <2>1. links' = links \/ \E a \in assets : links' = links \cup {LinkOf(a)}
    BY <1>2 DEF ReadAsset, GetAsset, RowsOf
  <2>2. QED
    BY <1>a, <2>1, LinkOfType
<1>3. ASSUME \/ PoolStep \/ CleanUp \/ UNCHANGED allVars
             \/ \E r \in Requests : ReadJob(r) \/ FindToken(r) \/ OpenObject(r) \/ Finish(r)
      PROVE  links' = links
  BY <1>3 DEF PoolStep, CleanUp, allVars, assetVars, ReadJob, FindToken, OpenObject, Finish
<1>4. QED
  BY <1>a, <1>1, <1>2, <1>3 DEF AssetNext

LEMMA RequestsKeepType ==
    ASSUME AssetTypeOK, FinalInv, [AssetNext]_allVars
    PROVE  req' \in [Requests -> RequestStates]
<1>a. req \in [Requests -> RequestStates] /\ links \subseteq Link
  BY DEF AssetTypeOK, RequestStates
<1>1. ASSUME PoolStep
      PROVE  req' \in [Requests -> RequestStates]
  BY <1>a, <1>1, IdleType DEF PoolStep
<1>2. ASSUME NEW r \in Requests, NEW p \in Places, NEW j \in Jobs \cup {NoJob}, NEW n \in Nat,
             At(r, p, j, n)
      PROVE  req' \in [Requests -> RequestStates]
  <2>1. [at |-> p, job |-> j, n |-> n] \in RequestStates
    BY DEF RequestStates
  <2>2. QED
    BY <1>a, <1>2, <2>1 DEF At
<1>3. ASSUME NEW r \in Requests, req' = [req EXCEPT ![r] = Idle]
      PROVE  req' \in [Requests -> RequestStates]
  BY <1>a, <1>3, IdleType
<1>4. ASSUME NEW r \in Requests, ReadJob(r)
      PROVE  req' \in [Requests -> RequestStates]
  BY <1>2, <1>4 DEF ReadJob, Places
<1>5. ASSUME NEW r \in Requests, ReadAsset(r) \/ OpenObject(r)
      PROVE  req' \in [Requests -> RequestStates]
  <2>1. req[r].job \in Jobs \cup {NoJob} /\ req[r].n \in Nat
    BY <1>a DEF RequestStates
  <2>2. \/ req' = [req EXCEPT ![r] = Idle]
        \/ \E p \in Places : At(r, p, req[r].job, 0) \/ At(r, p, req[r].job, req[r].n)
    BY <1>5 DEF ReadAsset, OpenObject, Places
  <2>3. QED
    BY <1>2, <1>3, <2>1, <2>2
<1>6. ASSUME NEW r \in Requests, FindToken(r)
      PROVE  req' \in [Requests -> RequestStates]
  <2>1. PICK l \in links, p \in Places : At(r, p, l.job, l.n)
    BY <1>6 DEF FindToken, Places
  <2>2. l.job \in Jobs /\ l.n \in Nat
    BY <1>a DEF Link
  <2>3. QED
    BY <1>2, <2>1, <2>2
<1>7. ASSUME NEW r \in Requests, Finish(r)
      PROVE  req' \in [Requests -> RequestStates]
  BY <1>3, <1>7 DEF Finish
<1>8. ASSUME \/ CleanUp \/ Pass \/ UNCHANGED allVars \/ \E r \in Requests : GetAsset(r)
      PROVE  req' = req
  BY <1>8 DEF CleanUp, Pass, allVars, assetVars, GetAsset
<1>9. QED
  BY <1>a, <1>1, <1>4, <1>5, <1>6, <1>7, <1>8 DEF AssetNext

LEMMA ClockKeepsType ==
    ASSUME AssetTypeOK, [AssetNext]_allVars
    PROVE  /\ stamp' \in [Workers -> 0 .. LinkTTL]
           /\ wait' \in 0 .. TickPeriod
           /\ tick' \in BOOLEAN
<1>a. stamp \in [Workers -> 0 .. LinkTTL] /\ wait \in 0 .. TickPeriod /\ tick \in BOOLEAN
  BY DEF AssetTypeOK
<1>1. ASSUME PoolStep
      PROVE  /\ stamp' \in [Workers -> 0 .. LinkTTL] /\ wait' \in 0 .. TickPeriod
             /\ tick' \in BOOLEAN
  <2>1. stamp' \in [Workers -> 0 .. LinkTTL]
    BY <1>a, <1>1, LinkTTLAssumption DEF PoolStep, Stamped
  <2>2. wait' \in 0 .. TickPeriod
    BY <1>a, <1>1, TickPeriodAssumption DEF PoolStep
  <2>3. tick' \in BOOLEAN
    BY <1>a, <1>1, Zenon DEF PoolStep
  <2>4. QED
    BY <2>1, <2>2, <2>3
<1>2. ASSUME Pass
      PROVE  /\ stamp' \in [Workers -> 0 .. LinkTTL] /\ wait' \in 0 .. TickPeriod
             /\ tick' \in BOOLEAN
  <2>1. stamp' \in [Workers -> 0 .. LinkTTL]
    BY <1>a, <1>2, LinkTTLAssumption DEF Pass, Less
  <2>2. wait' \in 0 .. TickPeriod
    BY <1>a, <1>2, TickPeriodAssumption DEF Pass, Less, Rearm
  <2>3. tick' \in BOOLEAN
    BY <1>2 DEF Pass
  <2>4. QED
    BY <2>1, <2>2, <2>3
<1>3. ASSUME CleanUp
      PROVE  stamp' = stamp /\ wait' = wait /\ tick' = FALSE
  BY <1>3 DEF CleanUp
<1>4. ASSUME \/ UNCHANGED allVars
             \/ \E r \in Requests : \/ ReadJob(r) \/ ReadAsset(r) \/ GetAsset(r)
                                    \/ FindToken(r) \/ OpenObject(r) \/ Finish(r)
      PROVE  stamp' = stamp /\ wait' = wait /\ tick' = tick
  BY <1>4 DEF allVars, assetVars, ReadJob, ReadAsset, GetAsset, FindToken, OpenObject, Finish
<1>5. QED
  BY <1>a, <1>1, <1>2, <1>3, <1>4 DEF AssetNext

LEMMA AssetTypeStep ==
    ASSUME IInv, IInv', AssetTypeOK, FinalInv, [AssetNext]_allVars
    PROVE  AssetTypeOK'
  BY RowsKeepType, LinksKeepType, RequestsKeepType, ClockKeepsType
     DEF AssetTypeOK, RequestStates

-------------------------------------------------------------------------------
(* The final state of whatever has a link.                                 *)

LEMMA RowsStayReal ==
    ASSUME IInv, IInv', AssetTypeOK, FinalInv, [AssetNext]_allVars
    PROVE  RowsAreReal'
<1>a. \A a \in assets : a \in Row /\ JobType[a.job] # "analyze"
  BY DEF FinalInv, RowsAreReal
<1>1. ASSUME PoolStep
      PROVE  RowsAreReal'
  BY <1>a, <1>1, InsertedRows DEF PoolStep, RowsAreReal
<1>2. ASSUME Pass
      PROVE  RowsAreReal'
  BY <1>a, <1>2, AgedRowType DEF Pass, RowsAreReal
<1>3. ASSUME assets' \subseteq assets
      PROVE  RowsAreReal'
  BY <1>a, <1>3 DEF RowsAreReal
<1>4. ASSUME \/ CleanUp \/ UNCHANGED allVars
             \/ \E r \in Requests : \/ ReadJob(r) \/ ReadAsset(r) \/ GetAsset(r)
                                    \/ FindToken(r) \/ OpenObject(r) \/ Finish(r)
      PROVE  assets' \subseteq assets
  BY <1>4 DEF CleanUp, allVars, assetVars, ReadJob, ReadAsset, GetAsset, FindToken,
              OpenObject, Finish
<1>5. QED
  BY <1>1, <1>2, <1>3, <1>4 DEF AssetNext

(* Every link of the next state is an older link, an aged one, or that of  *)
(* a row of a completed job.                                               *)
LEMMA LinksStayFinal ==
    ASSUME IInv, AssetTypeOK, FinalInv, [AssetNext]_allVars
    PROVE  LinksAreFinal'
<1>a. \A l \in links : l \in Link /\ status[l.job] = "completed" /\ JobType[l.job] # "analyze"
  BY DEF FinalInv, LinksAreFinal
<1>b. \A l \in links : l.job \in Jobs /\ status'[l.job] = "completed"
  BY <1>a, CompletedStays DEF Link
<1>1. ASSUME Pass
      PROVE  LinksAreFinal'
  BY <1>a, <1>b, <1>1, AgedLinkType DEF Pass, LinksAreFinal
<1>2. ASSUME NEW r \in Requests, ReadAsset(r)
      PROVE  LinksAreFinal'
  <2>1. links' = links \/ \E a \in assets : a.job = req[r].job /\ links' = links \cup {LinkOf(a)}
    BY <1>2 DEF ReadAsset, RowsOf
  <2>2. status[req[r].job] = "completed" /\ req[r].job \in Jobs
    BY <1>2 DEF ReadAsset, FinalInv, RequestsAreFinal, Idle
  <2>3. status'[req[r].job] = "completed"
    BY <2>2, CompletedStays
  <2>4. QED
    BY <1>a, <1>b, <2>1, <2>3, LinkOfType DEF FinalInv, RowsAreReal, LinksAreFinal
<1>3. ASSUME NEW r \in Requests, GetAsset(r)
      PROVE  LinksAreFinal'
  <2>1. PICK l \in links, a \in assets : l.job = a.job /\ links' = links \cup {LinkOf(a)}
    BY <1>3 DEF GetAsset, Names
  <2>2. QED
    BY <1>a, <1>b, <2>1, LinkOfType DEF FinalInv, RowsAreReal, LinksAreFinal
<1>4. ASSUME links' = links
      PROVE  LinksAreFinal'
  BY <1>a, <1>b, <1>4 DEF LinksAreFinal
<1>5. ASSUME \/ PoolStep \/ CleanUp \/ UNCHANGED allVars
             \/ \E r \in Requests : ReadJob(r) \/ FindToken(r) \/ OpenObject(r) \/ Finish(r)
      PROVE  links' = links
  BY <1>5 DEF PoolStep, CleanUp, allVars, assetVars, ReadJob, FindToken, OpenObject, Finish
<1>6. QED
  BY <1>1, <1>2, <1>3, <1>4, <1>5 DEF AssetNext

(* A request of the next state is idle, the same one, or one step further. *)
LEMMA RequestsStayFinal ==
    ASSUME IInv, AssetTypeOK, FinalInv, [AssetNext]_allVars
    PROVE  RequestsAreFinal'
<1> DEFINE Sound(q) == /\ q.job \in Jobs
                       /\ status[q.job] = "completed"
                       /\ q.at \in {"open", "stream"} => JobType[q.job] # "analyze"
<1>a. \A r \in Requests : req[r] # Idle => Sound(req[r])
  BY DEF FinalInv, RequestsAreFinal
<1>b. \A l \in links : l.job \in Jobs /\ status[l.job] = "completed"
                       /\ JobType[l.job] # "analyze"
  BY DEF FinalInv, LinksAreFinal, Link
<1>c. \A q : Sound(q) => Sound(q)'
  BY CompletedStays
<1>d. req \in [Requests -> RequestStates]
  BY DEF AssetTypeOK, RequestStates
<1>e. ASSUME \A r \in Requests : req'[r] \in {Idle, req[r]} \/ Sound(req'[r])
      PROVE  RequestsAreFinal'
  <2>1. \A r \in Requests : req'[r] # Idle => Sound(req'[r])
    BY <1>a, <1>e
  <2>2. \A r \in Requests : req'[r] # Idle => Sound(req[r])'
    BY <1>c, <2>1
  <2>3. QED
    BY <2>2 DEF RequestsAreFinal
<1>1. ASSUME NEW r \in Requests, NEW q, req' = [req EXCEPT ![r] = q], q = Idle \/ Sound(q)
      PROVE  RequestsAreFinal'
  BY <1>d, <1>e, <1>1
<1>2. ASSUME NEW r \in Requests, ReadJob(r)
      PROVE  RequestsAreFinal'
  <2>1. PICK j \in Jobs : status[j] = "completed" /\ At(r, "asset", j, 0)
    BY <1>2 DEF ReadJob
  <2>2. Sound([at |-> "asset", job |-> j, n |-> 0])
    BY <2>1
  <2>3. QED
    BY <1>1, <2>1, <2>2 DEF At
<1>3. ASSUME NEW r \in Requests, ReadAsset(r)
      PROVE  RequestsAreFinal'
  <2>1. Sound(req[r])
    BY <1>a, <1>3 DEF ReadAsset, Idle
  <2>2. Sound([at |-> "bare", job |-> req[r].job, n |-> 0])
    BY <2>1
  <2>3. req' = [req EXCEPT ![r] = Idle] \/ At(r, "bare", req[r].job, 0)
    BY <1>3 DEF ReadAsset
  <2>4. QED
    BY <1>1, <2>2, <2>3 DEF At
<1>4. ASSUME NEW r \in Requests, FindToken(r)
      PROVE  RequestsAreFinal'
  <2>1. PICK l \in links, p \in Places : At(r, p, l.job, l.n)
    BY <1>4 DEF FindToken, Places
  <2>2. Sound([at |-> p, job |-> l.job, n |-> l.n])
    BY <1>b
  <2>3. QED
    BY <1>1, <2>1, <2>2 DEF At
<1>5. ASSUME NEW r \in Requests, OpenObject(r)
      PROVE  RequestsAreFinal'
  <2>1. Sound(req[r]) /\ req[r].at = "open"
    BY <1>a, <1>5 DEF OpenObject, Idle
  <2>2. PICK p \in Places : At(r, p, req[r].job, req[r].n)
    BY <1>5 DEF OpenObject, Places
  <2>3. Sound([at |-> p, job |-> req[r].job, n |-> req[r].n])
    BY <2>1
  <2>4. QED
    BY <1>1, <2>2, <2>3 DEF At
<1>6. ASSUME NEW r \in Requests, Finish(r)
      PROVE  RequestsAreFinal'
  BY <1>1, <1>6 DEF Finish
<1>7. ASSUME PoolStep
      PROVE  RequestsAreFinal'
  <2>1. \A r \in Requests : req'[r] \in {Idle, req[r]}
    BY <1>7 DEF PoolStep
  <2>2. QED
    BY <1>e, <2>1
<1>8. ASSUME \/ CleanUp \/ Pass \/ UNCHANGED allVars \/ \E r \in Requests : GetAsset(r)
      PROVE  RequestsAreFinal'
  <2>1. req' = req
    BY <1>8 DEF CleanUp, Pass, allVars, assetVars, GetAsset
  <2>2. QED
    BY <1>e, <2>1
<1>9. QED
  BY <1>2, <1>3, <1>4, <1>5, <1>6, <1>7, <1>8 DEF AssetNext

(* The pool's invariant holds here too.                                    *)
LEMMA PoolInvariant == AssetSpec => []IInv
  BY PoolUnderneath, Inductive, PTL

LEMMA FinalInvariant == AssetSpec => [](AssetTypeOK /\ FinalInv)
<1>1. IInv /\ IInv' /\ AssetTypeOK /\ FinalInv /\ [AssetNext]_allVars
          => AssetTypeOK' /\ FinalInv'
  BY AssetTypeStep, RowsStayReal, LinksStayFinal, RequestsStayFinal DEF FinalInv
<1>2. QED
  BY <1>1, FinalInit, PoolInvariant, PTL DEF AssetSpec

(* A download sends whole objects: those of completed jobs, which nothing  *)
(* rewrites.                                                               *)
THEOREM DownloadsAreWhole == AssetSpec => []ServedWhole
<1>1. IInv => CompletedHasOutput
  BY EveryJobDelivers DEF CompletedHasOutput, JobDelivery
<1>2. FinalInv /\ CompletedHasOutput => ServedWhole
  BY DEF FinalInv, RequestsAreFinal, CompletedHasOutput, ServedWhole, Idle
<1>3. QED
  BY <1>1, <1>2, PoolInvariant, FinalInvariant, PTL

-------------------------------------------------------------------------------
(* How long a link lasts.                                                  *)

(* The link of a row runs out no later than LinkTTL after created_at.      *)
LinkRunsOut == \A a \in assets : a.left > 0 => a.age + a.left <= LinkTTL

(* A live link and its row run down together.                              *)
LinkHasRow ==
    AssetTTL >= LinkTTL =>
        \A l \in links : l.left > 0 => \E a \in assets : Names(l, a) /\ a.left = l.left

HonourInv == LinkRunsOut /\ LinkHasRow

LEMMA HonourInit == AssetInit => HonourInv
  BY DEF AssetInit, HonourInv, LinkRunsOut, LinkHasRow

LEMMA LinkStillRunsOut ==
    ASSUME IInv, IInv', AssetTypeOK, LinkRunsOut, [AssetNext]_allVars
    PROVE  LinkRunsOut'
<1>a. \A a \in assets : a \in Row
  BY DEF AssetTypeOK
<1>1. ASSUME PoolStep
      PROVE  LinkRunsOut'
  <2>1. \A a \in Inserted : a.age = 0 /\ a.left \in 0 .. LinkTTL
    BY InsertedRows DEF Row
  <2>2. QED
    BY <1>1, <2>1, LinkTTLAssumption DEF PoolStep, LinkRunsOut
<1>2. ASSUME Pass
      PROVE  LinkRunsOut'
  <2>1. ASSUME NEW a \in assets
        PROVE  AgedRow(a).left > 0 => AgedRow(a).age + AgedRow(a).left <= LinkTTL
    BY <1>a, <2>1, LinkTTLAssumption DEF LinkRunsOut, AgedRow, Less, Row
  <2>2. QED
    BY <1>2, <2>1 DEF Pass, LinkRunsOut
<1>3. ASSUME assets' \subseteq assets
      PROVE  LinkRunsOut'
  BY <1>3 DEF LinkRunsOut
<1>4. ASSUME \/ CleanUp \/ UNCHANGED allVars
             \/ \E r \in Requests : \/ ReadJob(r) \/ ReadAsset(r) \/ GetAsset(r)
                                    \/ FindToken(r) \/ OpenObject(r) \/ Finish(r)
      PROVE  assets' \subseteq assets
  BY <1>4 DEF CleanUp, allVars, assetVars, ReadJob, ReadAsset, GetAsset, FindToken,
              OpenObject, Finish
<1>5. QED
  BY <1>1, <1>2, <1>3, <1>4 DEF AssetNext

LEMMA LinkStillHasRow ==
    ASSUME AssetTypeOK, HonourInv, [AssetNext]_allVars
    PROVE  LinkHasRow'
<1> SUFFICES ASSUME AssetTTL >= LinkTTL
             PROVE  (\A l \in links : l.left > 0 =>
                        \E a \in assets : Names(l, a) /\ a.left = l.left)'
  BY DEF LinkHasRow
<1>a. /\ \A a \in assets : a \in Row
      /\ \A l \in links : l \in Link
      /\ \A l \in links : l.left > 0 => \E a \in assets : Names(l, a) /\ a.left = l.left
  BY DEF AssetTypeOK, HonourInv, LinkHasRow
<1>1. ASSUME PoolStep
      PROVE  links' = links /\ assets \subseteq assets'
  BY <1>1 DEF PoolStep
<1>2. ASSUME \/ UNCHANGED allVars
             \/ \E r \in Requests : ReadJob(r) \/ FindToken(r) \/ OpenObject(r) \/ Finish(r)
      PROVE  links' = links /\ assets \subseteq assets'
  BY <1>2 DEF allVars, assetVars, ReadJob, FindToken, OpenObject, Finish
<1>3. ASSUME links' = links, assets \subseteq assets'
      PROVE  (\A l \in links : l.left > 0 => \E a \in assets : Names(l, a) /\ a.left = l.left)'
  BY <1>a, <1>3 DEF Names
<1>4. ASSUME NEW r \in Requests, ReadAsset(r) \/ GetAsset(r)
      PROVE  (\A l \in links : l.left > 0 => \E a \in assets : Names(l, a) /\ a.left = l.left)'
  <2>1. assets' = assets
    BY <1>4 DEF ReadAsset, GetAsset
  <2>2. links' = links \/ \E a \in assets : links' = links \cup {LinkOf(a)}
    BY <1>4 DEF ReadAsset, GetAsset, RowsOf
  <2>3. \A a \in assets : Names(LinkOf(a), a) /\ a.left = LinkOf(a).left
    BY DEF Names, LinkOf
  <2>4. QED
    BY <1>a, <2>1, <2>2, <2>3 DEF Names
<1>5. ASSUME CleanUp
      PROVE  (\A l \in links : l.left > 0 => \E a \in assets : Names(l, a) /\ a.left = l.left)'
  <2>1. links' = links /\ \A a \in assets : ~Older(a) => a \in assets'
    BY <1>5 DEF CleanUp
  <2>2. \A a \in assets : a.left > 0 => ~Older(a)
    BY <1>a, LinkTTLAssumption, AssetTTLAssumption DEF HonourInv, LinkRunsOut, Older, Row
  <2>3. QED
    BY <1>a, <2>1, <2>2 DEF Names
<1>6. ASSUME Pass
      PROVE  (\A l \in links : l.left > 0 => \E a \in assets : Names(l, a) /\ a.left = l.left)'
  <2>1. ASSUME NEW l \in links, AgedLink(l).left > 0
        PROVE  \E a \in assets : Names(AgedLink(l), AgedRow(a))
                                 /\ AgedRow(a).left = AgedLink(l).left
    <3>1. l.left \in Nat /\ l.left > 0
      BY <1>a, <2>1 DEF AgedLink, Less, Link
    <3>2. PICK a \in assets : Names(l, a) /\ a.left = l.left
      BY <1>a, <3>1
    <3>3. Names(AgedLink(l), AgedRow(a)) /\ AgedRow(a).left = AgedLink(l).left
      BY <3>2 DEF Names, AgedLink, AgedRow
    <3>4. QED
      BY <3>3
  <2>2. QED
    BY <1>6, <2>1 DEF Pass, Names
<1>7. QED
  BY <1>1, <1>2, <1>3, <1>4, <1>5, <1>6 DEF AssetNext

LEMMA HonourInvariant == AssetSpec => []HonourInv
<1>1. IInv /\ IInv' /\ AssetTypeOK /\ HonourInv /\ [AssetNext]_allVars => HonourInv'
  BY LinkStillRunsOut, LinkStillHasRow DEF HonourInv
<1>2. QED
  BY <1>1, HonourInit, FinalInvariant, PoolInvariant, PTL DEF AssetSpec

(* A link works for as long as its response said, whatever the worker, the *)
(* clean-up and the restarts do, when ASSET_TTL covers the link's life.    *)
THEOREM LinksAreHonoured == AssetSpec => []LinkHonoured
<1>1. IInv => CompletedHasOutput
  BY EveryJobDelivers DEF CompletedHasOutput, JobDelivery
<1>2. FinalInv /\ HonourInv /\ CompletedHasOutput => LinkHonoured
  BY DEF FinalInv, LinksAreFinal, HonourInv, LinkHasRow, CompletedHasOutput, LinkHonoured, Link
<1>3. QED
  BY <1>1, <1>2, PoolInvariant, FinalInvariant, HonourInvariant, PTL

-------------------------------------------------------------------------------
(* A poll that finds no asset.                                             *)

(* No row of a completed job appears any more.                             *)
LEMMA NoLateRows ==
    ASSUME IInv, IInv', AssetTypeOK, [AssetNext]_allVars,
           NEW j \in Jobs, status[j] = "completed", RowsOf(j) = {}
    PROVE  RowsOf(j)' = {}
<1>1. CASE PoolStep
  <2>1. \A a \in Inserted : a.job # j
    BY InsertedRows
  <2>2. QED
    BY <1>1, <2>1 DEF PoolStep, RowsOf
<1>2. CASE Pass
  BY <1>2 DEF Pass, RowsOf, AgedRow
<1>3. ASSUME assets' \subseteq assets
      PROVE  RowsOf(j)' = {}
  BY <1>3 DEF RowsOf
<1>4. ASSUME \/ CleanUp \/ UNCHANGED allVars
             \/ \E r \in Requests : \/ ReadJob(r) \/ ReadAsset(r) \/ GetAsset(r)
                                    \/ FindToken(r) \/ OpenObject(r) \/ Finish(r)
      PROVE  assets' \subseteq assets
  BY <1>4 DEF CleanUp, allVars, assetVars, ReadJob, ReadAsset, GetAsset, FindToken,
              OpenObject, Finish
<1>5. QED
  BY <1>1, <1>2, <1>3, <1>4 DEF AssetNext

BareInv ==
    "db" \notin Faults =>
        \A r \in Requests : req[r].at = "bare" => RowsOf(req[r].job) = {}

LEMMA BareStep ==
    ASSUME IInv, IInv', AssetTypeOK, FinalInv, BareInv, [AssetNext]_allVars
    PROVE  BareInv'
<1> SUFFICES ASSUME "db" \notin Faults, NEW r \in Requests, (req[r].at = "bare")'
             PROVE  (RowsOf(req[r].job) = {})'
  BY DEF BareInv
<1>1. CASE req'[r] = req[r]
  <2>1. /\ req[r].job \in Jobs
        /\ status[req[r].job] = "completed"
        /\ RowsOf(req[r].job) = {}
    BY <1>1 DEF BareInv, FinalInv, RequestsAreFinal, Idle
  <2>2. PICK j \in Jobs : j = req[r].job
    BY <2>1
  <2>3. status[j] = "completed" /\ RowsOf(j) = {}
    BY <2>1, <2>2 DEF RowsOf
  <2>4. RowsOf(j)' = {}
    BY <2>3, NoLateRows
  <2>5. QED
    BY <1>1, <2>2, <2>4 DEF RowsOf
<1>2. CASE req'[r] # req[r]
  <2>1. req \in [Requests -> RequestStates]
    BY DEF AssetTypeOK, RequestStates
  <2>2. ASSUME NEW q \in Requests,
               \/ ReadJob(q) \/ GetAsset(q) \/ FindToken(q) \/ OpenObject(q) \/ Finish(q)
        PROVE  FALSE
    BY <1>2, <2>1, <2>2 DEF ReadJob, GetAsset, FindToken, OpenObject, Finish, At, Idle
  <2>3. ASSUME PoolStep \/ CleanUp \/ Pass \/ UNCHANGED allVars
        PROVE  FALSE
    BY <1>2, <2>3 DEF PoolStep, CleanUp, Pass, allVars, assetVars, Idle
  <2>4. PICK q \in Requests : ReadAsset(q)
    BY <2>2, <2>3 DEF AssetNext
  <2>5. /\ RowsOf(req[q].job) = {}
        /\ At(q, "bare", req[q].job, 0)
        /\ assets' = assets
    BY <1>2, <2>1, <2>4 DEF ReadAsset, At, Idle
  <2>6. r = q /\ req'[r].job = req[q].job
    BY <1>2, <2>1, <2>5 DEF At
  <2>7. QED
    BY <2>5, <2>6 DEF RowsOf
<1>3. QED
  BY <1>1, <1>2

(* A poll answers "completed" without an asset only for a job whose asset  *)
(* was recorded and has been cleaned up.                                   *)
THEOREM BareAnswers == AssetSpec => []BareMeansCleanedUp
<1>1. AssetInit => BareInv
  BY DEF AssetInit, BareInv, Idle
<1>2. IInv /\ IInv' /\ AssetTypeOK /\ FinalInv /\ BareInv /\ [AssetNext]_allVars
          => BareInv'
  BY BareStep
<1>3. IInv => CompletedHasOutput
  BY EveryJobDelivers DEF CompletedHasOutput, JobDelivery
<1>4. FinalInv /\ BareInv /\ CompletedHasOutput => BareMeansCleanedUp
  BY DEF FinalInv, RequestsAreFinal, BareInv, CompletedHasOutput, BareMeansCleanedUp, Idle
<1>5. QED
  BY <1>1, <1>2, <1>3, <1>4, PoolInvariant, FinalInvariant, PTL DEF AssetSpec

(* Types: rows and links belong to recorded assets, requests to known jobs *)
(* and clocks stay in their bounds.                                        *)
THEOREM AssetTypes == AssetSpec => []AssetTypeOK
  BY FinalInvariant, PTL
-------------------------------------------------------------------------------
(* AssetDelivery implements LinkLife.                                      *)

(* The rows of a job have different numbers, the later the younger, and    *)
(* as long as there is any, the last one INSERTed is there.                *)
RowsInOrder ==
    /\ \A a \in assets : a.n <= outputs[a.job]
    /\ \A a, b \in assets : Names(a, b) => a = b
    /\ \A a, b \in assets : a.job = b.job /\ a.n <= b.n => b.age <= a.age
    /\ \A a \in assets : \E b \in assets : b.job = a.job /\ b.n = outputs[a.job]

(* All links to a file are to the last one made.                           *)
LinksAreLast == \A l \in links : l.n = outputs[l.job]

LifeInv == RowsInOrder /\ LinksAreLast

LEMMA LifeInvInit == AssetInit => LifeInv
  BY DEF AssetInit, LifeInv, RowsInOrder, LinksAreLast

(* Another worker than the one that moves records nothing.                 *)
LEMMA OthersRecordNothing ==
    ASSUME IInv, NEW w \in Workers, pc[w] # "idle", OwnStep(w) \/ ToolEnds(w)
    PROVE  Inserting \subseteq {w}
<1>1. ASSUME NEW v \in Workers, v # w, pc[v] = "record"
      PROVE  outputs'[held[v]] = outputs[held[v]] /\ outputs[held[v]] \in Nat
  <2>1. held[v] \in Jobs /\ held[v] # held[w]
    BY <1>1, OnlyReportHoldsSettled DEF IInv, ExclusiveClaim, PCs, ProcessPCs, HandlerPCs, NoJob, Jobs
  <2>2. QED
    BY <2>1, WorkerStepIsLocal DEF IInv, TypeInv, TypeOK, StoreTypeOK
<1>2. QED
  BY <1>1 DEF Inserting

(* The step that records: one row, of a job in work, numbered next.        *)
Records(w) ==
    /\ held[w] \in Jobs
    /\ JobType[held[w]] # "analyze"
    /\ status[held[w]] # "completed"
    /\ outputs' = [outputs EXCEPT ![held[w]] = @ + 1]
    /\ Inserting = {w}
    /\ UNCHANGED status
    /\ proc' # "down"

(* The step that completes.                                                *)
Completes(j) ==
    /\ j \in Processing \ Published
    /\ outputs[j] > 0
    /\ Published' = Published \cup {j}
    /\ UNCHANGED Made
    /\ Inserting = {}
    /\ proc' # "down"

LEMMA RecordingStep ==
    ASSUME IInv, TrailInv, NEW w \in Workers, Record(w)
    PROVE  Records(w) \/ (Inserting = {} /\ UNCHANGED <<outputs, status>>)
<1>a. pc[w] \in PCs \ {"idle", "report"} /\ pc[w] = "record"
  BY DEF Record, PCs, ProcessPCs, HandlerPCs
<1>b. held[w] \in Jobs /\ status[held[w]] # "completed"
  BY <1>a, OnlyReportHoldsSettled DEF Terminal
<1>c. JobType[held[w]] # "analyze"
  BY <1>a, <1>b DEF IInv, DeliveryInv, JobDelivery
<1>d. outputs \in [Jobs -> Nat]
  BY DEF IInv, TypeOK, StoreTypeOK
<1>e. UNCHANGED status /\ proc' # "down"
  BY <1>a DEF Record, jobVars, TrailInv
<1>f. Inserting \subseteq {w}
  BY <1>a, OthersRecordNothing DEF OwnStep
<1>1. \/ UNCHANGED outputs
      \/ outputs' = [outputs EXCEPT ![held[w]] = @ + 1]
  BY <1>b, <1>d DEF Record, CreateAsset, Write
<1>2. CASE UNCHANGED outputs
  <2>1. w \notin Inserting
    BY <1>b, <1>d, <1>2 DEF Inserting
  <2>2. QED
    BY <1>e, <1>f, <1>2, <2>1
<1>3. CASE outputs' = [outputs EXCEPT ![held[w]] = @ + 1]
  <2>1. w \in Inserting
    BY <1>a, <1>b, <1>d, <1>3 DEF Inserting
  <2>2. QED
    BY <1>b, <1>c, <1>e, <1>f, <1>3, <2>1 DEF Records
<1>4. QED
  BY <1>1, <1>2, <1>3

(* A step of a worker that records nothing.                                *)
LEMMA OtherStep ==
    ASSUME IInv, IInv', TrailInv, [Next]_vars,
           NEW w \in Workers, pc[w] # "idle", OwnStep(w) \/ ToolEnds(w), ~Record(w)
    PROVE  \/ Inserting = {} /\ UNCHANGED <<Made, Published>>
           \/ \E j \in Jobs : Completes(j)
<1>a. held[w] \in Jobs /\ outputs \in [Jobs -> Nat] /\ outputs' \in [Jobs -> Nat]
  BY WorkerStepIsLocal DEF IInv, TypeInv, TypeOK, StoreTypeOK
<1>b. \A i \in Jobs : i # held[w] => status'[i] = status[i] /\ outputs'[i] = outputs[i]
  BY WorkerStepIsLocal DEF IInv, TypeInv
<1>c. \A i \in Jobs : status[i] = "completed" => status'[i] = "completed"
  BY FrozenStep DEF Frozen, Terminal
<1>d. proc' # "down"
  BY DEF OwnStep, ToolEnds, Select, Claim, SetProgress, ReadInput, StartTool, ToolKilled, Persist,
         Upload, CopyLocal, Record, Complete, Report, LogError, Settle, ToolSucceeds, ToolFails,
         TrailInv
<1>e. Inserting = {}
  <2>1. pc[w] # "record"
    BY DEF OwnStep, ToolEnds, Select, Claim, SetProgress, ReadInput, StartTool, ToolKilled, Persist,
           Upload, CopyLocal, Complete, Report, LogError, Settle, ToolSucceeds, ToolFails
  <2>2. QED
    BY <2>1, OthersRecordNothing DEF Inserting
<1>1. CASE Persist(w)
  <2>1. JobType[held[w]] = "analyze"
    BY <1>a, <1>1 DEF Persist, IInv, DeliveryInv, JobDelivery
  <2>2. UNCHANGED status
    BY <1>1 DEF Persist, jobVars
  <2>3. QED
    BY <1>b, <1>e, <2>1, <2>2 DEF Made, Published, Processing
<1>2. CASE ~Persist(w)
  <2>1. UNCHANGED outputs
    BY <1>2 DEF OwnStep, ToolEnds, Select, Claim, SetProgress, ReadInput, StartTool, ToolKilled,
       Upload, CopyLocal, Complete, Report, LogError, Settle, ToolSucceeds, ToolFails,
       storeVars
  <2>2. UNCHANGED Made
    BY <2>1 DEF Made
  <2>3. CASE held[w] \in Processing /\ status'[held[w]] = "completed" /\ status[held[w]] # "completed"
    <3>1. outputs[held[w]] > 0
      BY <1>a, <2>1, <2>3, EveryJobDelivers DEF IInv, DeliveryInv, JobDelivery
    <3>2. Published' = Published \cup {held[w]}
      BY <1>b, <1>c, <2>3 DEF Published, Processing
    <3>3. QED
      BY <1>a, <1>d, <1>e, <2>2, <2>3, <3>1, <3>2 DEF Completes, Published
  <2>4. CASE ~(held[w] \in Processing /\ status'[held[w]] = "completed" /\ status[held[w]] # "completed")
    <3>1. Published' = Published
      BY <1>b, <1>c, <2>4 DEF Published, Processing
    <3>2. QED
      BY <1>e, <2>2, <3>1
  <2>5. QED
    BY <2>3, <2>4
<1>3. QED
  BY <1>1, <1>2

(* What a step of the pool is to the links.                                *)
LEMMA PoolStepSorts ==
    ASSUME IInv, IInv', TrailInv, [Next]_vars
    PROVE  \/ \E w \in Workers : Records(w)
           \/ \E j \in Jobs : Completes(j)
           \/ Inserting = {} /\ UNCHANGED <<Made, Published>>
<1>a. outputs \in [Jobs -> Nat] /\ status \in [Jobs -> Statuses]
  BY DEF IInv, TypeOK, StoreTypeOK
<1>b. \A w \in Workers : pc[w] = "record" => held[w] \in Jobs
  BY OnlyReportHoldsSettled DEF PCs, ProcessPCs, HandlerPCs
<1>c. ASSUME UNCHANGED outputs
      PROVE  Inserting = {} /\ UNCHANGED Made
  BY <1>a, <1>b, <1>c DEF Inserting, Made
<1>1. ASSUME NEW w \in Workers, pc[w] # "idle", OwnStep(w) \/ ToolEnds(w), ~Record(w)
      PROVE  (Inserting = {} /\ UNCHANGED <<Made, Published>>) \/ \E j \in Jobs : Completes(j)
  BY <1>1, OtherStep
<1>2. ASSUME NEW w \in Workers, Record(w)
      PROVE  Records(w) \/ (Inserting = {} /\ UNCHANGED <<Made, Published>>)
  BY <1>c, <1>2, RecordingStep DEF Published
<1>3. ASSUME NEW j \in Jobs, Submit(j)
      PROVE  UNCHANGED outputs /\ Published' = Published
  BY <1>a, <1>3 DEF Submit, Create, Published
<1>4. ASSUME \/ \E w \in Workers : Select(w)
             \/ Exit
             \/ UNCHANGED <<pc, held, seenRetry, storeVars, fileVars>>
      PROVE  UNCHANGED <<outputs, status>>
  BY <1>4 DEF Select, Exit, storeVars, jobVars
<1>5. UNCHANGED status => Published' = Published
  BY DEF Published
<1>6. QED
  BY <1>c, <1>1, <1>2, <1>3, <1>4, <1>5, StepKinds

(* The row a recording step INSERTs.                                       *)
NewRow(w) == [job |-> held[w], n |-> outputs[held[w]] + 1, left |-> stamp[w], age |-> 0]

LEMMA RecordedRow ==
    ASSUME IInv, AssetTypeOK, PoolStep, NEW w \in Workers, Records(w)
    PROVE  /\ assets' = assets \cup {NewRow(w)}
           /\ NewRow(w) \in Row
<1>1. outputs'[held[w]] = outputs[held[w]] + 1 /\ outputs[held[w]] \in Nat
  BY DEF Records, IInv, TypeOK, StoreTypeOK
<1>2. Inserted = {NewRow(w)}
  BY <1>1 DEF Inserted, Records, NewRow
<1>3. QED
  BY <1>1, <1>2 DEF PoolStep, AssetTypeOK, NewRow, Row, Records

(* A step that makes nothing leaves the numbers of files alone.            *)
LEMMA NothingMade ==
    ASSUME UNCHANGED Made
    PROVE  \A j \in Processing : outputs'[j] = outputs[j]
<1>1. ASSUME NEW j \in Processing
      PROVE  outputs'[j] = outputs[j]
  <2>1. Made'[j] = Made[j] /\ Made[j] = outputs[j]
    BY <1>1 DEF Made
  <2>2. Made'[j] = outputs'[j]
    BY <1>1 DEF Made, Processing
  <2>3. QED
    BY <2>1, <2>2
<1>2. QED
  BY <1>1

LEMMA RowsKeepOrder ==
    ASSUME IInv, IInv', TrailInv, AssetTypeOK, FinalInv, RowsInOrder, [AssetNext]_allVars
    PROVE  RowsInOrder'
<1>a. \A a \in assets : a \in Row /\ a.job \in Processing
  BY DEF FinalInv, RowsAreReal, Row, Processing
<1>b. /\ \A a \in assets : a.n <= outputs[a.job]
      /\ \A a, b \in assets : a.job = b.job /\ a.n = b.n => a = b
      /\ \A a, b \in assets : a.job = b.job /\ a.n <= b.n => b.age <= a.age
      /\ \A a \in assets : \E b \in assets : b.job = a.job /\ b.n = outputs[a.job]
  BY DEF RowsInOrder, Names
<1>c. \A j \in Jobs : outputs[j] \in Nat
  BY DEF IInv, TypeOK, StoreTypeOK
<1>1. ASSUME PoolStep, NEW w \in Workers, Records(w)
      PROVE  RowsInOrder'
  <2>1. assets' = assets \cup {NewRow(w)} /\ NewRow(w) \in Row
    BY <1>1, RecordedRow
  <2>2. /\ NewRow(w).job = held[w] /\ NewRow(w).n = outputs[held[w]] + 1 /\ NewRow(w).age = 0
        /\ held[w] \in Jobs
    BY <1>1 DEF NewRow, Records
  <2>3. /\ outputs'[held[w]] = outputs[held[w]] + 1
        /\ \A i \in Jobs : i # held[w] => outputs'[i] = outputs[i]
    BY <1>1 DEF Records, IInv, TypeOK, StoreTypeOK
  <2>4. \A a \in assets : a.job \in Jobs /\ a.n \in Nat /\ a.age \in Nat
    BY <1>a DEF Row
  <2>5. \A a \in assets : a.job = held[w] => a.n < NewRow(w).n
    BY <1>b, <1>c, <2>2, <2>4
  <2>6. \A a \in assets' : a.n <= outputs'[a.job]
    BY <1>b, <1>c, <2>1, <2>2, <2>3, <2>4
  <2>7. \A a, b \in assets' : a.job = b.job /\ a.n = b.n => a = b
    BY <1>b, <1>c, <2>1, <2>2, <2>4, <2>5
  <2>8. \A a, b \in assets' : a.job = b.job /\ a.n <= b.n => b.age <= a.age
    BY <1>b, <1>c, <2>1, <2>2, <2>4, <2>5
  <2>9. \A a \in assets' : \E b \in assets' : b.job = a.job /\ b.n = outputs'[a.job]
    BY <1>b, <2>1, <2>2, <2>3, <2>4
  <2>10. QED
    BY <2>6, <2>7, <2>8, <2>9 DEF RowsInOrder, Names
<1>2. ASSUME assets' = assets, \A j \in Processing : outputs'[j] = outputs[j]
      PROVE  RowsInOrder'
  <2>1. \A a \in assets : outputs'[a.job] = outputs[a.job]
    BY <1>a, <1>2
  <2>2. QED
    BY <1>b, <1>2, <2>1 DEF RowsInOrder, Names
<1>3. ASSUME PoolStep, \A w \in Workers : ~Records(w)
      PROVE  RowsInOrder'
  <2>1. Inserting = {} /\ UNCHANGED Made
    BY <1>3, PoolStepSorts DEF PoolStep, Completes
  <2>2. QED
    BY <1>2, <1>3, <2>1, NothingMade DEF PoolStep, Inserted
<1>4. ASSUME CleanUp
      PROVE  RowsInOrder'
  <2>1. /\ outputs' = outputs /\ assets' \subseteq assets
        /\ assets' = assets \/ \A a \in assets : a \in assets' <=> ~Older(a)
    BY <1>4 DEF CleanUp, vars, storeVars
  <2>2. ASSUME NEW a \in assets'
        PROVE  \E b \in assets' : b.job = a.job /\ b.n = outputs[a.job]
    <3>1. PICK b \in assets : b.job = a.job /\ b.n = outputs[a.job]
      BY <1>b, <2>1, <2>2
    <3>2. b.age <= a.age /\ a.age \in Nat /\ b.age \in Nat
      BY <1>a, <1>b, <2>1, <2>2, <3>1 DEF Row
    <3>3. ~Older(a) => ~Older(b)
      BY <3>2, AssetTTLAssumption DEF Older
    <3>4. QED
      BY <2>1, <2>2, <3>1, <3>3
  <2>3. QED
    BY <1>b, <2>1, <2>2 DEF RowsInOrder, Names
<1>5. ASSUME Pass
      PROVE  RowsInOrder'
  <2>1. outputs' = outputs /\ assets' = {AgedRow(a) : a \in assets}
    BY <1>5 DEF Pass, vars, storeVars
  <2>2. \A a \in assets : AgedRow(a).job = a.job /\ AgedRow(a).n = a.n
    BY DEF AgedRow
  <2>3. ASSUME NEW a \in assets, NEW b \in assets, b.age <= a.age
        PROVE  AgedRow(b).age <= AgedRow(a).age
    <3>1. a.age \in Nat /\ b.age \in Nat
      BY <1>a DEF Row
    <3>2. QED
      BY <2>3, <3>1, AssetTTLAssumption DEF AgedRow, Older
  <2>4. \A a, b \in assets' : a.job = b.job /\ a.n = b.n => a = b
    BY <1>b, <2>1, <2>2
  <2>5. \A a, b \in assets' : a.job = b.job /\ a.n <= b.n => b.age <= a.age
    BY <1>b, <2>1, <2>2, <2>3
  <2>6. /\ \A a \in assets' : a.n <= outputs'[a.job]
        /\ \A a \in assets' : \E b \in assets' : b.job = a.job /\ b.n = outputs'[a.job]
    BY <1>b, <2>1, <2>2
  <2>7. QED
    BY <2>4, <2>5, <2>6 DEF RowsInOrder, Names
<1>6. ASSUME \/ UNCHANGED allVars
             \/ \E r \in Requests : \/ ReadJob(r) \/ ReadAsset(r) \/ GetAsset(r)
                                    \/ FindToken(r) \/ OpenObject(r) \/ Finish(r)
      PROVE  assets' = assets /\ outputs' = outputs
  BY <1>6 DEF allVars, assetVars, vars, storeVars, ReadJob, ReadAsset, GetAsset, FindToken,
              OpenObject, Finish
<1>7. QED
  BY <1>1, <1>2, <1>3, <1>4, <1>5, <1>6 DEF AssetNext

(* The row GetJob picks is the last one made.                              *)
LEMMA NewestIsLast ==
    ASSUME IInv, AssetTypeOK, RowsInOrder, NEW a \in assets, Newest(a)
    PROVE  a.n = outputs[a.job]
<1>1. PICK b \in assets : b.job = a.job /\ b.n = outputs[a.job]
  BY DEF RowsInOrder
<1>2. b.n <= a.n /\ a.n <= outputs[a.job]
  BY <1>1 DEF Newest, RowsOf, RowsInOrder
<1>3. a.n \in Nat /\ b.n \in Nat
  BY DEF AssetTypeOK, Row
<1>4. QED
  BY <1>1, <1>2, <1>3

LEMMA LinksStayLast ==
    ASSUME IInv, AssetTypeOK, FinalInv, LifeInv, [AssetNext]_allVars
    PROVE  LinksAreLast'
<1>a. \A l \in links : l.job \in Jobs /\ status[l.job] = "completed" /\ l.n = outputs[l.job]
  BY DEF FinalInv, LinksAreFinal, LifeInv, LinksAreLast, Link
<1>b. \A l \in links : l.n = outputs'[l.job]
  BY <1>a, PoolSteps, FrozenStep DEF Frozen, Terminal
<1>1. ASSUME Pass
      PROVE  LinksAreLast'
  BY <1>b, <1>1 DEF Pass, LinksAreLast, AgedLink
<1>2. ASSUME NEW r \in Requests, ReadAsset(r)
      PROVE  LinksAreLast'
  <2>1. links' = links \/ \E a \in assets : Newest(a) /\ links' = links \cup {LinkOf(a)}
    BY <1>2 DEF ReadAsset, RowsOf
  <2>2. outputs' = outputs
    BY <1>2 DEF ReadAsset, vars, storeVars
  <2>3. \A a \in assets : Newest(a) => LinkOf(a).n = outputs[LinkOf(a).job]
    BY NewestIsLast DEF LifeInv, LinkOf
  <2>4. QED
    BY <1>b, <2>1, <2>2, <2>3 DEF LinksAreLast
<1>3. ASSUME NEW r \in Requests, GetAsset(r)
      PROVE  LinksAreLast'
  <2>1. PICK l \in links, a \in assets :
            l.job = a.job /\ l.n = a.n /\ links' = links \cup {LinkOf(a)}
    BY <1>3 DEF GetAsset, Names
  <2>2. QED
    BY <1>b, <2>1 DEF LinksAreLast, LinkOf
<1>4. ASSUME \/ PoolStep \/ CleanUp \/ UNCHANGED allVars
             \/ \E r \in Requests : ReadJob(r) \/ FindToken(r) \/ OpenObject(r) \/ Finish(r)
      PROVE  links' = links
  BY <1>4 DEF PoolStep, CleanUp, allVars, assetVars, ReadJob, FindToken, OpenObject, Finish
<1>5. QED
  BY <1>b, <1>1, <1>2, <1>3, <1>4 DEF AssetNext, LinksAreLast

LEMMA LifeInvariant == AssetSpec => [](TrailInv /\ LifeInv)
<1>1. IInv /\ IInv' /\ TrailInv /\ AssetTypeOK /\ FinalInv /\ LifeInv /\ [AssetNext]_allVars
          => LifeInv'
  BY RowsKeepOrder, LinksStayLast DEF LifeInv
<1>2. AssetSpec => []TrailInv
  BY PoolUnderneath, TrailInit, TrailStep, Inductive, PTL DEF Spec
<1>3. QED
  BY <1>1, <1>2, LifeInvInit, FinalInvariant, PoolInvariant, PTL DEF AssetSpec

LEMMA LinksInit == AssetInit => Links!Init
<1> SUFFICES ASSUME AssetInit
             PROVE  Links!Init
  OBVIOUS
<1>1. outputs = [j \in Jobs |-> 0] /\ status = [j \in Jobs |-> "absent"]
  BY DEF AssetInit, Init, StoreInit
<1>2. Made = [j \in Processing |-> 0] /\ Published = {}
  BY <1>1 DEF Made, Published, Processing
<1>3. Fresh = {} /\ Stale = {} /\ Known = {}
  BY DEF AssetInit, Fresh, Stale, Known
<1>4. Sending = [r \in Requests |-> {}]
  BY DEF AssetInit, Sending, Answering, Idle
<1>5. QED
  BY <1>2, <1>3, <1>4 DEF Links!Init

(* The rows that are there are the links that are not gone.                *)
LEMMA RowsAreLinks ==
    ASSUME AssetTypeOK
    PROVE  /\ Fresh \cup Stale = {IdOf(a) : a \in assets}
           /\ \A a \in assets : a.left > 0 <=> a.left # 0
<1>1. \A a \in assets : a.left \in Nat
  BY LinkTTLAssumption DEF AssetTypeOK, Row
<1>2. QED
  BY <1>1 DEF Fresh, Stale

LEMMA RowsUntouched ==
    ASSUME assets' = assets
    PROVE  UNCHANGED <<Fresh, Stale>>
  BY DEF Fresh, Stale

(* A request answers something else, or is over.                           *)
LEMMA RequestMoves ==
    ASSUME AssetTypeOK, NEW r \in Requests, NEW q, req' = [req EXCEPT ![r] = q]
    PROVE  Sending' = [Sending EXCEPT ![r] = Answering(q)]
  BY DEF AssetTypeOK, Sending

LEMMA LinksPoolStep ==
    ASSUME IInv, IInv', TrailInv, AssetTypeOK, PoolStep
    PROVE  [Links!Next]_(Links!linkVars)
<1>a. Known' = Known
  BY DEF PoolStep, Known
<1>b. proc' # "down" => Sending' = Sending
  BY DEF PoolStep, Sending
<1>1. ASSUME NEW w \in Workers, Records(w)
      PROVE  Links!Make(held[w]) /\ held[w] \in Processing
  <2>1. assets' = assets \cup {NewRow(w)} /\ NewRow(w).left \in Nat
    BY <1>1, RecordedRow, LinkTTLAssumption DEF Row
  <2>2. held[w] \in Processing \ Published /\ UNCHANGED Published
    BY <1>1 DEF Records, Processing, Published
  <2>3. Made' = [Made EXCEPT ![held[w]] = @ + 1] /\ Made[held[w]] = outputs[held[w]]
    BY <1>1, <2>2 DEF Records, Made, Processing, IInv, TypeOK, StoreTypeOK
  <2>4. IdOf(NewRow(w)) = Links!LinkTo(held[w], Made[held[w]] + 1)
    BY <2>3 DEF IdOf, NewRow, Links!LinkTo
  <2>5. CASE NewRow(w).left > 0
    <3>1. Fresh' = Fresh \cup {IdOf(NewRow(w))} /\ Stale' = Stale
      BY <2>1, <2>5 DEF Fresh, Stale
    <3>2. QED
      BY <1>1, <1>a, <1>b, <2>2, <2>3, <2>4, <3>1 DEF Links!Make, Records
  <2>6. CASE NewRow(w).left = 0
    <3>1. Stale' = Stale \cup {IdOf(NewRow(w))} /\ Fresh' = Fresh
      BY <2>1, <2>6 DEF Fresh, Stale
    <3>2. QED
      BY <1>1, <1>a, <1>b, <2>2, <2>3, <2>4, <3>1 DEF Links!Make, Records
  <2>7. QED
    BY <2>1, <2>2, <2>5, <2>6
<1>2. ASSUME NEW j \in Jobs, Completes(j)
      PROVE  Links!Publish(j) /\ j \in Processing
  <2>1. j \in Processing \ Published /\ Made[j] > 0
    BY <1>2 DEF Completes, Made
  <2>2. UNCHANGED <<Fresh, Stale>>
    BY <1>2, RowsUntouched DEF Completes, PoolStep, Inserted
  <2>3. QED
    BY <1>2, <1>a, <1>b, <2>1, <2>2 DEF Completes, Links!Publish
<1>3. ASSUME Inserting = {}, UNCHANGED <<Made, Published>>
      PROVE  [Links!Next]_(Links!linkVars)
  <2>1. UNCHANGED <<Made, Published, Fresh, Stale, Known>>
    BY <1>3, <1>a, RowsUntouched DEF PoolStep, Inserted
  <2>2. CASE proc' # "down"
    BY <1>b, <2>1, <2>2 DEF Links!linkVars
  <2>3. CASE proc' = "down"
    <3>1. Sending' = [r \in Requests |-> {}]
      BY <2>3 DEF PoolStep, Sending, Answering, Idle
    <3>2. QED
      BY <2>1, <3>1 DEF Links!Break, Links!Next
  <2>4. QED
    BY <2>2, <2>3
<1>4. QED
  BY <1>1, <1>2, <1>3, PoolStepSorts DEF PoolStep, Links!Next

(* A request's step leaves files and rows alone.                           *)
LEMMA LinksRequestStep ==
    ASSUME IInv, AssetTypeOK, FinalInv, LifeInv, NEW r \in Requests,
           \/ ReadJob(r) \/ ReadAsset(r) \/ GetAsset(r)
           \/ FindToken(r) \/ OpenObject(r) \/ Finish(r)
    PROVE  [Links!Next]_(Links!linkVars)
<1>a. UNCHANGED <<outputs, status, assets>>
  BY DEF ReadJob, ReadAsset, GetAsset, FindToken, OpenObject, Finish, vars, storeVars, jobVars
<1>b. UNCHANGED <<Made, Published, Fresh, Stale>>
  BY <1>a, RowsUntouched DEF Made, Published
<1>c. Sending[r] = Answering(req[r])
  BY DEF Sending
<1>d. Sending = [Sending EXCEPT ![r] = Answering(req[r])]
  BY DEF Sending
<1>1. ASSUME Known' = Known, Sending' = [Sending EXCEPT ![r] = {}]
      PROVE  Links!Next
  BY <1>b, <1>1 DEF Links!End, Links!Next
<1>2. ASSUME Known' = Known, Sending' = Sending
      PROVE  UNCHANGED Links!linkVars
  BY <1>b, <1>2 DEF Links!linkVars
<1>3. ASSUME ReadJob(r) \/ Finish(r)
      PROVE  Links!Next
  <2>1. Known' = Known
    BY <1>3 DEF ReadJob, Finish, Known
  <2>2. PICK q : req' = [req EXCEPT ![r] = q] /\ Answering(q) = {}
    BY <1>3 DEF ReadJob, Finish, At, Answering, Idle
  <2>3. QED
    BY <1>1, <2>1, <2>2, RequestMoves
<1>4. ASSUME ReadAsset(r)
      PROVE  [Links!Next]_(Links!linkVars)
  <2>1. Sending' = Sending
    <3>1. PICK q : req' = [req EXCEPT ![r] = q] /\ Answering(q) = {}
      BY <1>4 DEF ReadAsset, At, Answering, Idle
    <3>2. Answering(req[r]) = {}
      BY <1>4 DEF ReadAsset, Answering
    <3>3. QED
      BY <1>d, <3>1, <3>2, RequestMoves
  <2>2. CASE links' = links
    BY <1>2, <2>1, <2>2 DEF Known
  <2>3. CASE links' # links
    <3>1. PICK a \in assets :
            a.job = req[r].job /\ Newest(a) /\ links' = links \cup {LinkOf(a)}
      BY <1>4, <2>3 DEF ReadAsset, RowsOf
    <3>2. a.job \in Published
      BY <1>4, <3>1 DEF ReadAsset, FinalInv, RequestsAreFinal, RowsAreReal, Idle, Published,
         Processing
    <3>3. IdOf(a) = Links!LinkTo(a.job, Made[a.job])
      BY <3>1, <3>2, NewestIsLast DEF LifeInv, IdOf, Links!LinkTo, Made, Published
    <3>4. IdOf(a) \in Fresh \cup Stale
      BY RowsAreLinks
    <3>5. Known' = Known \cup {IdOf(a)}
      <4>1. IdOf(LinkOf(a)) = IdOf(a)
        BY DEF IdOf, LinkOf
      <4>2. QED
        BY <3>1, <4>1 DEF Known
    <3>6. Links!Give(a.job) /\ a.job \in Processing
      BY <1>b, <2>1, <3>2, <3>3, <3>4, <3>5 DEF Links!Give, Published
    <3>7. QED
      BY <3>6 DEF Links!Next
  <2>4. QED
    BY <2>2, <2>3
<1>5. ASSUME GetAsset(r)
      PROVE  UNCHANGED Links!linkVars
  <2>1. PICK l \in links, a \in assets : Names(l, a) /\ links' = links \cup {LinkOf(a)}
    BY <1>5 DEF GetAsset
  <2>2. IdOf(LinkOf(a)) = IdOf(l)
    BY <2>1 DEF Names, IdOf, LinkOf
  <2>3. Known' = Known
    BY <2>1, <2>2 DEF Known
  <2>4. Sending' = Sending
    BY <1>5 DEF GetAsset, Sending
  <2>5. QED
    BY <1>2, <2>3, <2>4
<1>6. ASSUME FindToken(r)
      PROVE  [Links!Next]_(Links!linkVars)
  <2>1. Known' = Known /\ Answering(req[r]) = {}
    BY <1>6 DEF FindToken, Known, Answering, Idle
  <2>2. PICK l \in links :
            \/ (\E a \in assets : Names(l, a)) /\ At(r, "open", l.job, l.n)
            \/ At(r, "failed", l.job, l.n)
    BY <1>6 DEF FindToken
  <2>3. CASE At(r, "failed", l.job, l.n)
    <3>1. Answering([at |-> "failed", job |-> l.job, n |-> l.n]) = {}
      BY DEF Answering
    <3>2. QED
      BY <1>1, <2>1, <2>3, <3>1, RequestMoves DEF At
  <2>4. CASE (\E a \in assets : Names(l, a)) /\ At(r, "open", l.job, l.n)
    <3>1. IdOf(l) \in Fresh \cup Stale
      BY <2>4, RowsAreLinks DEF Names, IdOf
    <3>2. Answering([at |-> "open", job |-> l.job, n |-> l.n]) = {IdOf(l)}
      BY DEF Answering, IdOf
    <3>3. Sending' = [Sending EXCEPT ![r] = {IdOf(l)}]
      BY <2>4, <3>2, RequestMoves DEF At
    <3>4. Links!Begin(r, IdOf(l)) /\ IdOf(l) \in Known
      BY <1>b, <1>c, <2>1, <3>1, <3>3 DEF Links!Begin, Known
    <3>5. QED
      BY <3>4 DEF Links!Next
  <2>5. QED
    BY <2>2, <2>3, <2>4
<1>7. ASSUME OpenObject(r)
      PROVE  [Links!Next]_(Links!linkVars)
  <2>1. Known' = Known /\ Answering(req[r]) = {IdOf(req[r])}
    BY <1>7 DEF OpenObject, Known, Answering
  <2>2. CASE At(r, "stream", req[r].job, req[r].n)
    <3>1. Answering([at |-> "stream", job |-> req[r].job, n |-> req[r].n]) = {IdOf(req[r])}
      BY DEF Answering, IdOf
    <3>2. Sending' = Sending
      BY <1>d, <2>1, <2>2, <3>1, RequestMoves DEF At
    <3>3. QED
      BY <1>2, <2>1, <3>2
  <2>3. CASE At(r, "failed", req[r].job, req[r].n)
    <3>1. Answering([at |-> "failed", job |-> req[r].job, n |-> req[r].n]) = {}
      BY DEF Answering
    <3>2. QED
      BY <1>1, <2>1, <2>3, <3>1, RequestMoves DEF At
  <2>4. QED
    BY <1>7, <2>2, <2>3 DEF OpenObject
<1>8. QED
  BY <1>3, <1>4, <1>5, <1>6, <1>7

(* The clean-up removes what it removes, and while rows outlive their      *)
(* links nothing fresh.                                                    *)
LEMMA LinksCleanUpStep ==
    ASSUME AssetTypeOK, HonourInv, RowsInOrder, CleanUp
    PROVE  [Links!Next]_(Links!linkVars)
<1> DEFINE Old == {IdOf(a) : a \in {b \in assets : Older(b)}}
<1>a. UNCHANGED <<Made, Published, Known, Sending>>
  BY DEF CleanUp, Made, Published, Known, Sending, vars, storeVars, jobVars
<1>b. \A a, b \in assets : IdOf(a) = IdOf(b) => a = b
  BY DEF RowsInOrder, Names, IdOf
<1>1. CASE assets' = assets
  BY <1>a, <1>1, RowsUntouched DEF Links!linkVars
<1>2. CASE assets' = {a \in assets : ~Older(a)}
  <2>1. Fresh' = Fresh \ Old /\ Stale' = Stale \ Old
    BY <1>b, <1>2 DEF Fresh, Stale
  <2>2. ASSUME AssetTTL >= LinkTTL, NEW a \in assets, Older(a)
        PROVE  ~(a.left > 0)
    BY <2>2, LinkTTLAssumption, AssetTTLAssumption
       DEF HonourInv, LinkRunsOut, Older, AssetTypeOK, Row
  <2>3. AssetTTL >= LinkTTL => Old \cap Fresh = {}
    BY <1>b, <2>2 DEF Fresh
  <2>4. Old \in SUBSET (Fresh \cup Stale)
    BY RowsAreLinks
  <2>5. Links!Remove(Old)
    BY <1>a, <2>1, <2>3 DEF Links!Remove
  <2>6. QED
    BY <2>4, <2>5 DEF Links!Next
<1>3. QED
  BY <1>1, <1>2 DEF CleanUp

LEMMA LinksTimeStep ==
    ASSUME AssetTypeOK, RowsInOrder, Pass
    PROVE  Links!Next
<1> DEFINE Last == {IdOf(a) : a \in {b \in assets : b.left = 1}}
<1>a. UNCHANGED <<Made, Published, Sending>>
  BY DEF Pass, Made, Published, Sending, vars, storeVars, jobVars
<1>b. \A a, b \in assets : IdOf(a) = IdOf(b) => a = b
  BY DEF RowsInOrder, Names, IdOf
<1>c. \A a \in assets : a.left \in Nat /\ IdOf(AgedRow(a)) = IdOf(a)
                        /\ AgedRow(a).left = Less(a.left)
  BY LinkTTLAssumption DEF AssetTypeOK, Row, AgedRow, IdOf
<1>1. Known' = Known
  <2>1. \A l \in links : IdOf(AgedLink(l)) = IdOf(l)
    BY DEF IdOf, AgedLink
  <2>2. QED
    BY <2>1 DEF Pass, Known
<1>2. /\ Fresh' = {IdOf(a) : a \in {b \in assets : b.left > 1}}
      /\ Stale' = {IdOf(a) : a \in {b \in assets : b.left <= 1}}
  BY <1>c DEF Pass, Fresh, Stale, Less
<1>3. Fresh' = Fresh \ Last /\ Stale' = Stale \cup Last
  BY <1>b, <1>c, <1>2 DEF Fresh, Stale
<1>4. Last \in SUBSET Fresh
  BY DEF Fresh
<1>5. Links!RunOut(Last)
  BY <1>a, <1>1, <1>3 DEF Links!RunOut
<1>6. QED
  BY <1>4, <1>5 DEF Links!Next

LEMMA LinksStep ==
    ASSUME IInv, IInv', TrailInv, AssetTypeOK, FinalInv, HonourInv, LifeInv, [AssetNext]_allVars
    PROVE  [Links!Next]_(Links!linkVars)
<1>1. ASSUME UNCHANGED allVars
      PROVE  UNCHANGED Links!linkVars
  BY <1>1 DEF allVars, assetVars, vars, storeVars, jobVars, Made, Published, Fresh, Stale, Known,
              Sending, Links!linkVars
<1>2. QED
  BY <1>1, LinksPoolStep, LinksRequestStep, LinksCleanUpStep, LinksTimeStep
     DEF AssetNext, LifeInv

(* Pool, clients, clean-up, clock and restarts together implement the      *)
(* abstract life of a link: every client gets the same one, none before    *)
(* the job is completed, and what has run out or gone stays so.            *)
THEOREM LinksKeepTheirLife == AssetSpec => ImplementsLinkLife
  BY LinksInit, LinksStep, PoolInvariant, FinalInvariant, HonourInvariant, LifeInvariant, PTL
     DEF AssetSpec, ImplementsLinkLife, Links!Spec

LEMMA NoWayBackStep ==
    ASSUME IInv, [Links!Next]_(Links!linkVars), NEW f \in Processing, NEW k \in 1 .. Made[f]
    PROVE  /\ Links!LinkTo(f, k) \in Fresh' => Links!LinkTo(f, k) \in Fresh
           /\ Links!LinkTo(f, k) \in Fresh' \cup Stale' => Links!LinkTo(f, k) \in Fresh \cup Stale
<1>1. ASSUME NEW g \in Processing, Links!Make(g)
      PROVE  Links!LinkTo(f, k) # Links!LinkTo(g, Made[g] + 1)
  <2>1. \A h \in Processing : Made[h] \in Nat
    BY DEF Made, Processing, IInv, TypeOK, StoreTypeOK
  <2>2. QED
    BY <2>1 DEF Links!LinkTo
<1>2. ASSUME NEW g \in Processing, Links!Make(g)
      PROVE  \/ Fresh' = Fresh \cup {Links!LinkTo(g, Made[g] + 1)} /\ Stale' = Stale
             \/ Stale' = Stale \cup {Links!LinkTo(g, Made[g] + 1)} /\ Fresh' = Fresh
  BY <1>2 DEF Links!Make
<1>3. ASSUME NEW S, S \subseteq Fresh, Links!RunOut(S)
      PROVE  Fresh' \subseteq Fresh /\ Fresh' \cup Stale' = Fresh \cup Stale
  BY <1>3 DEF Links!RunOut
<1>4. ASSUME NEW S, Links!Remove(S)
      PROVE  Fresh' \subseteq Fresh /\ Fresh' \cup Stale' \subseteq Fresh \cup Stale
  BY <1>4 DEF Links!Remove
<1>5. ASSUME \/ UNCHANGED Links!linkVars
             \/ \E g \in Processing : Links!Publish(g) \/ Links!Give(g)
             \/ \E r \in Requests : Links!End(r) \/ \E l \in Known : Links!Begin(r, l)
             \/ Links!Break
      PROVE  UNCHANGED <<Fresh, Stale>>
  BY <1>5 DEF Links!linkVars, Links!Publish, Links!Give, Links!End, Links!Begin, Links!Break
<1>6. QED
  BY <1>1, <1>2, <1>3, <1>4, <1>5 DEF Links!Next

(* A link that has run out never runs again, and one that has been cleaned *)
(* up never works again: no retry, restart or late row brings it back.     *)
THEOREM LinksNeverReturn == AssetSpec => Links!NoWayBack
<1> DEFINE Back == \A f \in Processing : \A k \in 1 .. Made[f] :
                /\ Links!LinkTo(f, k) \in Fresh' => Links!LinkTo(f, k) \in Fresh
                /\ Links!LinkTo(f, k) \in Fresh' \cup Stale' =>
                       Links!LinkTo(f, k) \in Fresh \cup Stale
<1>1. IInv /\ [Links!Next]_(Links!linkVars) => Back
  BY NoWayBackStep
<1>2. QED
  BY <1>1, LinksKeepTheirLife, PoolInvariant, PTL
     DEF ImplementsLinkLife, Links!Spec, Links!NoWayBack
===============================================================================
