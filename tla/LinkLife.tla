-------------------------------- MODULE LinkLife --------------------------------
(***************************************************************************)
(* What the service promises about download links, without saying how.     *)
(* A file is made, possibly more than once, before its job is published;   *)
(* each making has a link of its own.  A link is fresh, then stale, then   *)
(* gone, and never the other way.  All clients are given the same link to  *)
(* a file, that of its last making, once its job is published and no other *)
(* can follow.  A download starts only from a link that was given and is   *)
(* not gone.  If links are Kept, none goes while it is fresh.              *)
(***************************************************************************)
EXTENDS Integers

CONSTANTS
    Files,      \* the jobs that make a file
    Requests,
    Kept        \* whether links are kept until they have run out

VARIABLES
    made,       \* how many times each file has been made
    public,     \* the jobs that are published
    fresh,      \* the links that still have time left
    stale,      \* those that have run out and are still there
    known,      \* those that have ever been given to a client
    sending     \* the link each request is answering, if any

linkVars == <<made, public, fresh, stale, known, sending>>

LinkTo(f, k) == [job |-> f, n |-> k]

Init ==
    /\ made = [f \in Files |-> 0]
    /\ public = {}
    /\ fresh = {}
    /\ stale = {}
    /\ known = {}
    /\ sending = [r \in Requests |-> {}]

(* A slow worker may make a file whose link has run out by then.           *)
Make(f) ==
    /\ f \notin public
    /\ made' = [made EXCEPT ![f] = @ + 1]
    /\ LET l == LinkTo(f, made[f] + 1) IN
        \/ fresh' = fresh \cup {l} /\ UNCHANGED stale
        \/ stale' = stale \cup {l} /\ UNCHANGED fresh
    /\ UNCHANGED <<public, known, sending>>

Publish(f) ==
    /\ f \notin public
    /\ made[f] > 0
    /\ public' = public \cup {f}
    /\ UNCHANGED <<made, fresh, stale, known, sending>>

Give(f) ==
    /\ f \in public
    /\ LinkTo(f, made[f]) \in fresh \cup stale
    /\ known' = known \cup {LinkTo(f, made[f])}
    /\ UNCHANGED <<made, public, fresh, stale, sending>>

RunOut(S) ==
    /\ fresh' = fresh \ S
    /\ stale' = stale \cup S
    /\ UNCHANGED <<made, public, known, sending>>

Remove(S) ==
    /\ Kept => S \cap fresh = {}
    /\ fresh' = fresh \ S
    /\ stale' = stale \ S
    /\ UNCHANGED <<made, public, known, sending>>

Begin(r, l) ==
    /\ sending[r] = {}
    /\ l \in known \cap (fresh \cup stale)
    /\ sending' = [sending EXCEPT ![r] = {l}]
    /\ UNCHANGED <<made, public, fresh, stale, known>>

End(r) ==
    /\ sending' = [sending EXCEPT ![r] = {}]
    /\ UNCHANGED <<made, public, fresh, stale, known>>

(* The service stops in the middle of everything.                          *)
Break ==
    /\ sending' = [r \in Requests |-> {}]
    /\ UNCHANGED <<made, public, fresh, stale, known>>

Next ==
    \/ \E f \in Files : Make(f) \/ Publish(f) \/ Give(f)
    \/ \E S \in SUBSET fresh : RunOut(S)
    \/ \E S \in SUBSET (fresh \cup stale) : Remove(S)
    \/ \E r \in Requests : End(r) \/ \E l \in known : Begin(r, l)
    \/ Break

Spec == Init /\ [][Next]_linkVars

-------------------------------------------------------------------------------
(* A link that was there once never becomes fresh again, and one that is   *)
(* gone never comes back.                                                  *)
NoWayBack ==
    [][\A f \in Files : \A k \in 1 .. made[f] :
        /\ LinkTo(f, k) \in fresh' => LinkTo(f, k) \in fresh
        /\ LinkTo(f, k) \in fresh' \cup stale' => LinkTo(f, k) \in fresh \cup stale]_linkVars
===============================================================================
