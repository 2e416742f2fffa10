----------------------------- MODULE AttachTimed -----------------------------
(***************************************************************************)
(* Attach with two stop watches that only observe it: how many periods the *)
(* loop has slept through while the controller was there to be attached,   *)
(* and while the state machine was Attached to a link that is gone.        *)
(***************************************************************************)
EXTENDS Attach

VARIABLES waited, gone

Ready == fresh /\ addr = home /\ exporting /\ ~paused /\ link = NoHost

Dead == state = "Attached" /\ link = NoHost

Watch(count, on, limit) ==
    IF ~on THEN 0
    ELSE IF pc = "sleep" /\ pc' = "events" THEN Least(count + 1, limit + 1)
    ELSE count

\* A `usbip list` or `usbip attach` that fails although the controller is there.
CallFailed == (DiscoverFails \/ AttachFails) /\ Offered(host)

TInit == Init /\ waited = 0 /\ gone = 0

TNext ==
    /\ Next
    /\ waited' = Watch(waited, Ready' /\ ~CallFailed, MaxBackoff)
    /\ gone' = Watch(gone, Dead', CacheTtl)

TSpec == TInit /\ [][TNext]_<<vars, waited, gone>>

TFairSpec == TSpec /\ Fairness

-----------------------------------------------------------------------------
\* A controller that is there to be attached is attached, or a call on it fails,
\* within the longest backoff, however long it had been missing, whatever failed
\* before and however late the loss of the link before was noticed: the cap, the
\* start of the backoff clock and the age of the port list add up
\* (Attach::tick, CliDriver).
ReattachIsPrompt == waited <= MaxBackoff

\* The state machine holds on to a link that is gone for no longer than the port
\* list is cached (CliDriver::ported_busids).
LossIsNoticed == gone <= CacheTtl

-----------------------------------------------------------------------------
(* Why: the parts of the inductive invariant. *)

\* A young port list of an attached state machine names the controller: it was
\* dropped before the attach and read as such since.
CacheIsPositive ==
    /\ state = "Attached" /\ cacheAge < CacheTtl => cached
    /\ pc = "attach" => state = "Idle"

\* A dead link has been dead for no longer than the list has been cached.
GoneIsCached ==
    /\ gone \in Nat
    /\ ~Dead => gone = 0
    /\ Dead => gone <= cacheAge
    /\ Dead /\ pc \in {"paint", "sleep"} /\ cacheAge = CacheTtl => gone = 0

\* A wait is no older than the last attempt; the period that sees it out works
\* on a sample that is still true.
WaitIsBackoff ==
    /\ waited \in Nat
    /\ ~Ready => waited = 0
    /\ pc # "attach" => waited <= sinceAttempt
    /\ state = "Attached" => backoff = BaseBackoff /\ waited <= gone
    /\ pc \in {"paint", "sleep"} => waited < MaxBackoff
    /\ pc \in {"tick", "attach"} /\ waited > 0 => heard /\ host = home
    /\ pc = "attach" => waited <= MaxBackoff
=============================================================================
