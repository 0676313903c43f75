----------------------------- MODULE FdbWatches -----------------------------
(***************************************************************************)
(* FdbSubscriptions: writers bump dependency keys, and a subscriber keeps  *)
(* one watch loop per key.  Firings are coalesced by a debounce timer that *)
(* calls onInvalidate, which reruns the query.                             *)
(*                                                                         *)
(*   version  per key, how often it was bumped (the marker stored in it)   *)
(*   handle   "opening" | "open" | "failed" | "closed"                     *)
(*   loop     per key: [state, at]; `at` is the version the watch was      *)
(*            armed on                                                     *)
(*   timer    debounceTimer is set                                         *)
(*   view     per key, the version the subscriber last read                *)
(*   missed   (history) keys bumped while neither a watch was armed on     *)
(*            them nor a callback was to come                              *)
(***************************************************************************)
EXTENDS Naturals

CONSTANTS
    Keys,            \* the keys of the query's dependencies, after dedupe
    Signals,         \* sets of keys that one event bumps
    MaxVersion       \* bound on the bumps of a key

ASSUME WatchAssumption == MaxVersion \in Nat

VARIABLES version, handle, loop, timer, view, missed

wvars == <<version, handle, loop, timer, view, missed>>

Open == handle \in {"opening", "open"}     \* ~closed

WatchInit ==
    /\ version = [k \in Keys |-> 0] /\ view = [k \in Keys |-> 0]
    /\ handle = "opening" /\ timer = FALSE /\ missed = {}
    /\ loop = [k \in Keys |-> [state |-> "arming", at |-> 0, ready |-> FALSE]]

SetLoop(k, record) == loop' = [loop EXCEPT ![k] = record]

\* scheduleInvalidate
scheduleInvalidate == timer' = (timer \/ Open)

\* signal: one transaction sets the marker in every key of the event; one
\* that fails is swallowed by the emitter and leaves no trace.
Signal(keys) ==
    /\ \A k \in keys : version[k] < MaxVersion
    /\ version' = [k \in Keys |-> IF k \in keys THEN version[k] + 1 ELSE version[k]]
    /\ missed' = missed \cup {k \in keys : loop[k].state # "armed" /\ ~timer /\ handle = "open"}
    /\ UNCHANGED <<handle, loop, timer, view>>

\* getWatch: read the key and arm the watch in one transaction
Arm(k) ==
    /\ loop[k].state = "arming" /\ Open
    /\ SetLoop(k, [state |-> "armed", at |-> version[k], ready |-> TRUE])
    /\ UNCHANGED <<version, handle, timer, view, missed>>

\* Faulty form: the loop re-arms without telling anyone.
Notify_Bug == UNCHANGED timer

\* What the loop does once its watch has fired, or has failed.
Notify == scheduleInvalidate

\* watch.promise resolves: the key no longer holds what the watch was armed on.
Fire(k) ==
    /\ loop[k].state = "armed" /\ version[k] # loop[k].at /\ Open
    /\ SetLoop(k, [loop[k] EXCEPT !.state = "arming"])
    /\ Notify
    /\ UNCHANGED <<version, handle, view, missed>>

\* Faulty form: the retry starts over without invalidating.
Fault_Bug(k) ==
    /\ loop[k].state \in {"arming", "armed"} /\ Open
    /\ SetLoop(k, [loop[k] EXCEPT !.state = IF loop[k].ready THEN "sleeping" ELSE "ended"])
    /\ UNCHANGED <<version, handle, timer, view, missed>>

\* getWatch or the watch fails.  Before the loop was ever ready this rejects
\* `ready` and ends the loop; later it invalidates and tries again.
Fault(k) ==
    /\ loop[k].state \in {"arming", "armed"} /\ Open
    /\ IF ~loop[k].ready
         THEN SetLoop(k, [loop[k] EXCEPT !.state = "ended"]) /\ UNCHANGED timer
         ELSE SetLoop(k, [loop[k] EXCEPT !.state = "sleeping"]) /\ scheduleInvalidate
    /\ UNCHANGED <<version, handle, view, missed>>

\* sleep(retryDelayMs) is over.
Wake(k) ==
    /\ loop[k].state = "sleeping" /\ Open
    /\ SetLoop(k, [loop[k] EXCEPT !.state = "arming"])
    /\ UNCHANGED <<version, handle, timer, view, missed>>

\* Every loop was ready: watchKeys returns and the caller reads its query.
Ready ==
    /\ handle = "opening" /\ \A k \in Keys : loop[k].ready
    /\ handle' = "open" /\ view' = version
    /\ UNCHANGED <<version, loop, timer, missed>>

EndLoops == loop' = [k \in Keys |-> [loop[k] EXCEPT !.state = "ended"]]

\* A `ready` that was rejected closes the loops and fails the call ...
Fail ==
    /\ handle = "opening" /\ \E k \in Keys : loop[k].state = "ended"
    /\ handle' = "failed" /\ timer' = FALSE /\ EndLoops
    /\ UNCHANGED <<version, view, missed>>

\* ... and so does close, on purpose.
Close ==
    /\ handle = "open"
    /\ handle' = "closed" /\ timer' = FALSE /\ EndLoops
    /\ UNCHANGED <<version, view, missed>>

\* The debounce timer fires: onInvalidate reruns the query.
Debounced ==
    /\ timer
    /\ timer' = FALSE /\ view' = version /\ missed' = {}
    /\ UNCHANGED <<version, handle, loop>>

LoopStep(k) == Arm(k) \/ Fire(k) \/ Wake(k)

WatchNext ==
    \/ \E keys \in Signals : Signal(keys)
    \/ \E k \in Keys : LoopStep(k) \/ Fault(k)
    \/ Ready \/ Fail \/ Close \/ Debounced

-----------------------------------------------------------------------------

\* At rest (open, every watch armed on what its key holds, no callback to
\* come) the subscriber has read every bump, except those that landed
\* between a callback and the re-arming of the watch that fired: the window
\* this design leaves, and the only one.
OnlyTheRearmWindowLosesHints ==
    (/\ handle = "open" /\ ~timer
     /\ \A k \in Keys : loop[k].state = "armed" /\ loop[k].at = version[k])
        => \A k \in Keys : view[k] = version[k] \/ k \in missed

\* A bump of a key that is being watched reaches the subscriber, unless the
\* subscription ends, through watch failures and retries.
WatchedBumpsArrive ==
    \A k \in Keys, n \in 1..MaxVersion :
        (handle = "open" /\ loop[k].state = "armed" /\ loop[k].at < n /\ version[k] = n)
            ~> (handle = "closed" \/ view[k] >= n)

=============================================================================
