----------------------------- MODULE DatomCache -----------------------------
(***************************************************************************)
(* The decoded-datom cache that all readers of one Triples layer share.    *)
(* A scan reads the index keys, takes cached datoms as they are, fetches   *)
(* the META records of the others and keeps them; every transact, when its *)
(* boundary is over, drops the whole cache and then returns.  A running    *)
(* transaction has a hexastore, and a cache, of its own.                   *)
(*                                                                         *)
(*   backend   the kind of backend the layer was made with                 *)
(*   cache     the datom kept for each triple id, or NoDatom               *)
(*   ending    transact calls whose boundary is over (the client, and the  *)
(*             position it committed at or 0) but not their clean-up       *)
(*   reader    per reader: its scan in progress                            *)
(*   returned  (history) positions of the transact calls that returned     *)
(***************************************************************************)
EXTENDS Triples

CONSTANTS
    Readers,      \* fibers that read
    Backends      \* kinds of key-value backend, of those below

\* An in-memory backend offers getRangeSync, a networked one answers later.
ASSUME BackendAssumption == Backends \subseteq {"in-memory", "networked"}

VARIABLES backend, cache, ending, reader, returned

dvars == <<store, buffer, tx, result, backend, cache, ending, reader, returned>>

EmptyCache == [i \in TripleIds |-> NoDatom]

NoScan == [phase |-> "idle", ids |-> {}, missed |-> {}, datoms |-> EmptyCache,
           rows |-> {}, since |-> {}]

DInit == /\ Init
         /\ backend \in Backends
         /\ cache = EmptyCache
         /\ ending = {}
         /\ reader = [r \in Readers |-> NoScan]
         /\ returned = {}

-----------------------------------------------------------------------------
(* transact, with what follows its boundary *)

Ended(c, position) == ending' = ending \cup {[client |-> c, position |-> position]}

StartTransact(c, req, now) ==
    /\ \A e \in ending : e.client # c
    /\ \/ Begin(c, req, now) /\ UNCHANGED ending
       \/ Refuse(c, req, now) /\ Ended(c, 0)
    /\ UNCHANGED <<backend, cache, reader, returned>>

StepTransact ==
    /\ Step
    /\ IF tx' # NoTx THEN UNCHANGED ending
       ELSE Ended(tx.client, IF result'[tx.client] = "Committed" THEN store'.position ELSE 0)
    /\ UNCHANGED <<backend, cache, reader, returned>>

\* Faulty form: a transact leaves the cache as it is.
clearCache_Bug == cache

clearCache == EmptyCache

\* Effect.ensuring: the cache is dropped whatever the outcome was, then the
\* call returns.
EndTransact(e) ==
    /\ e \in ending
    /\ cache' = clearCache
    /\ ending' = ending \ {e}
    /\ returned' = returned \cup ({e.position} \ {0})
    /\ UNCHANGED <<store, buffer, tx, result, backend, reader>>

-----------------------------------------------------------------------------
(* A scan of all live facts. *)

SetReader(r, scan) == /\ reader' = [reader EXCEPT ![r] = scan]
                      /\ UNCHANGED <<store, buffer, tx, result, backend, ending, returned>>

StartsScan(r) == reader[r].phase \in {"idle", "done"}

\* Cached datoms as they are, the META records of the others.
CachedOrStored(ids) ==
    [i \in TripleIds |-> IF i \notin ids THEN NoDatom
                         ELSE IF cache[i] # NoDatom THEN cache[i] ELSE store.datoms[i]]

Missed(ids) == {i \in ids : cache[i] = NoDatom}

Keep(missed, datoms) ==
    cache' = [i \in TripleIds |-> IF i \in missed THEN datoms[i] ELSE cache[i]]

\* The answer: retracted facts are filtered out.
Answered(since, ids, datoms) ==
    [NoScan EXCEPT !.phase = "done", !.since = since, !.rows = {i \in ids : Live(datoms[i])}]

\* scanCollect: an in-process backend answers without a suspension.
scanCollect(r) ==
    /\ backend = "in-memory" /\ StartsScan(r)
    /\ LET ids == Ids(store.datoms)
       IN  /\ Keep(Missed(ids), CachedOrStored(ids))
           /\ SetReader(r, Answered(returned, ids, CachedOrStored(ids)))

\* scanCollectAsync reads the index keys of the range ...
ScanRange(r) ==
    /\ backend = "networked" /\ StartsScan(r)
    /\ SetReader(r, [NoScan EXCEPT !.phase = "range", !.since = returned,
                                   !.ids = Ids(store.datoms)])
    /\ UNCHANGED cache

\* ... batchFetchMeta asks the backend for what the cache does not hold ...
FetchMeta(r) ==
    /\ reader[r].phase = "range"
    /\ SetReader(r, [reader[r] EXCEPT !.phase = "fetched", !.missed = Missed(reader[r].ids),
                                      !.datoms = CachedOrStored(reader[r].ids)])
    /\ UNCHANGED cache

\* ... and, when the answer arrives, keeps it in the cache.
KeepMeta(r) ==
    /\ reader[r].phase = "fetched"
    /\ Keep(reader[r].missed, reader[r].datoms)
    /\ SetReader(r, Answered(reader[r].since, reader[r].ids, reader[r].datoms))

-----------------------------------------------------------------------------

DNext == \/ \E c \in Clients, req \in Requests, now \in Instants : StartTransact(c, req, now)
         \/ StepTransact
         \/ \E e \in ending : EndTransact(e)
         \/ \E r \in Readers : scanCollect(r) \/ ScanRange(r) \/ FetchMeta(r) \/ KeepMeta(r)

DSpec == DInit /\ [][DNext]_dvars

-----------------------------------------------------------------------------
(* Properties *)

\* A scan that starts after a transact returned does not answer with a fact
\* that it retracted ("A completed KV transaction clears the shared
\* decoded-datom cache so reads observe its result").
ReadsObserveCommits(r) ==
    \A i \in reader[r].rows : store.datoms[i].retractedPosition \notin reader[r].since

\* It answers with every fact written before it started that is still live.
NoLiveFactMissed(r) ==
    \A i \in LiveIds(store.datoms) :
        store.datoms[i].recordedPosition \in reader[r].since => i \in reader[r].rows

(***************************************************************************)
(* A stale cache errs on one side only: on either backend, whatever        *)
(* transactions fail around it, no live fact is missed; and where scans    *)
(* are synchronous (scanCollect on the in-memory backend) reads observe    *)
(* every commit, for no scan is under way when the cache is dropped.       *)
(***************************************************************************)
CacheErrsOneSided ==
    \A r \in Readers : reader[r].phase = "done" =>
        /\ NoLiveFactMissed(r)
        /\ backend = "in-memory" => ReadsObserveCommits(r)

=============================================================================
