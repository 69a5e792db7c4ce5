-------------------------- MODULE TimeSeriesStore --------------------------
(***************************************************************************)
(* TimeSeriesStore, src/src/client/storage/timeseries_store.py, over an    *)
(* IndexedDBCache keyed by metric and timestamp: a bounded local copy of   *)
(* the points of a server.  Invalid points raise before anything is        *)
(* stored, and a query that needs no fetch changes nothing: no steps.      *)
(***************************************************************************)
EXTENDS Integers, FiniteSets, FiniteSetsExt

CONSTANTS
  Metrics,    \* metric names, which are ordered: numbers
  Times,      \* timestamps
  Values,
  Retention,  \* retention_seconds
  MaxRecords, \* max_records
  MaxBatch,   \* bound: points in one batch
  None        \* no latest timestamp

StoreAssumption ==
  /\ Metrics \subseteq Int /\ Times \subseteq Int /\ None \notin Times
  /\ Retention \in Nat /\ MaxRecords \in Nat /\ MaxBatch \in Nat

VARIABLES
  records, \* backend._records: the value stored for a metric and a time
  latest   \* _latest_timestamp

vars == <<records, latest>>

Keys == Metrics \X Times
Time(k) == k[2]

Batches ==
  UNION {[K -> Values] :
           K \in {S \in SUBSET Keys : IsFiniteSet(S) /\ Cardinality(S) \in 1 .. MaxBatch}}

Init == records = <<>> /\ latest = None

MutOlder(j, k) == j[1] < k[1] \/ (j[1] = k[1] /\ Time(j) < Time(k))

\* The order of the timestamp index, then of the primary key.
Older(j, k) == Time(j) < Time(k) \/ (Time(j) = Time(k) /\ j[1] < k[1])

\* What prune leaves: what is in the window, then the newest of it.
Kept(keys, now) ==
  LET inWindow == {k \in keys : Time(k) >= now - Retention}
  IN  {k \in inWindow : Cardinality({j \in inWindow : Older(k, j)}) < MaxRecords}

PruneTo(recs, now, top) ==
  LET kept == Kept(DOMAIN recs, now)
  IN  /\ records' = [k \in kept |-> recs[k]]
      /\ latest' = IF kept = {} THEN None ELSE top

NewLatest(batch) ==
  Max({Time(k) : k \in DOMAIN batch} \cup (IF latest = None THEN {} ELSE {latest}))

\* put_batch: a point takes the place of one with the same key.
Put(batch, recs) ==
  [k \in DOMAIN batch \cup DOMAIN recs |-> IF k \in DOMAIN batch THEN batch[k] ELSE recs[k]]

\* write_batch: put_batch, the latest timestamp, then prune.
WriteBatch(batch) ==
  PruneTo(Put(batch, records), NewLatest(batch), NewLatest(batch))

InRange(m, lo, hi) == {k \in Keys : k[1] = m /\ lo <= Time(k) /\ Time(k) <= hi}

\* query with a fetcher, when nothing stored is in the range.
QueryAndFetch(m, lo, hi, fetched) ==
  /\ InRange(m, lo, hi) \cap DOMAIN records = {}
  /\ DOMAIN fetched \subseteq InRange(m, lo, hi)
  /\ WriteBatch(fetched)

\* prune, called with a time of the caller's.
Prune(now) == PruneTo(records, now, latest)

Clear == records' = <<>> /\ latest' = None

Next ==
  \/ \E batch \in Batches : WriteBatch(batch)
  \/ \E m \in Metrics, lo, hi \in Times, fetched \in Batches :
       QueryAndFetch(m, lo, hi, fetched)
  \/ \E now \in Times : Prune(now)
  \/ Clear

Spec == Init /\ [][Next]_vars

-----------------------------------------------------------------------------
\* Records are values of keys.
TypeOK ==
  /\ DOMAIN records \subseteq Keys
  /\ \A k \in DOMAIN records : records[k] \in Values
  /\ latest \in Times \cup {None}

\* After every call, late batches and fetches included, the store is within its
\* capacity and its retention window, and the latest timestamp is that of its
\* newest record, or unset when it has none.
WithinLimits ==
  /\ TypeOK
  /\ Cardinality(DOMAIN records) <= MaxRecords
  /\ latest = IF records = <<>> THEN None ELSE Max({Time(k) : k \in DOMAIN records})
  /\ \A k \in DOMAIN records : Time(k) >= latest - Retention

\* A write or a prune never drops a point and keeps an older one, of whatever
\* metric.
EvictsOldest ==
  [][\A k \in DOMAIN records \ DOMAIN records', j \in DOMAIN records' :
       Time(k) <= Time(j)]_vars
=============================================================================
