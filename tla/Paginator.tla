------------------------------ MODULE Paginator ------------------------------
(***************************************************************************)
(* BackwardSeekingPaginator, src/src/data/paginator.py: one iteration from *)
(* end_time back to start_time.                                            *)
(*                                                                         *)
(* The archive behind fetch_callback is external.  It answers with the     *)
(* newest records on the far side of the cursor, newest first; records may *)
(* be added to it between two fetches.  The tests' callbacks leave out the *)
(* record at the cursor; one that includes it is explored as well.         *)
(***************************************************************************)
EXTENDS Integers, Sequences, FiniteSets, SequencesExt

CONSTANTS
  Records,  \* records: pairs of a time and a number
  Ranges,   \* pairs of start_time and end_time
  PageSizes \* how many records a fetch returns at most

PagesAssumption ==
  /\ Records \subseteq Int \X Int /\ IsFiniteSet(Records)
  /\ Ranges \subseteq Int \X Int
  /\ PageSizes \subseteq Nat \ {0}

VARIABLES
  range, page, boundary, \* the arguments and the callback's behaviour
  archive,   \* the records behind the callback
  arrived,   \* those added since the iteration began (history)
  cursor,    \* current_cursor
  batch,     \* what is left of the current batch
  yielded,   \* the records the consumer got
  pc         \* "fetching", "yielding" or "done"

vars == <<range, page, boundary, archive, arrived, cursor, batch, yielded, pc>>
arguments == <<range, page, boundary>>

Time(r) == r[1]
StartTime == range[1]
EndTime == range[2]

Init ==
  /\ range \in Ranges /\ page \in PageSizes /\ boundary \in {"before", "upto"}
  /\ archive \in SUBSET Records
  /\ arrived = {}
  /\ cursor = EndTime
  /\ batch = <<>> /\ yielded = <<>> /\ pc = "fetching"

Newer(a, b) == Time(a) > Time(b) \/ (Time(a) = Time(b) /\ a[2] > b[2])

\* Each record is preceded by the newer ones.
NewestFirst(R) ==
  [i \in 1 .. Cardinality(R) |->
     CHOOSE r \in R : Cardinality({s \in R : Newer(s, r)}) = i - 1]

\* fetch_callback(cursor).
Answer ==
  LET behind == {r \in archive :
        Time(r) < cursor \/ (boundary = "upto" /\ Time(r) = cursor)}
      n == Cardinality(behind)
  IN  SubSeq(NewestFirst(behind), 1, IF n < page THEN n ELSE page)

Fetch ==
  /\ pc = "fetching"
  /\ batch' = Answer
  /\ pc' = IF Answer = <<>> THEN "done" ELSE "yielding"
  /\ UNCHANGED <<arguments, archive, arrived, cursor, yielded>>

MutStops(oldest) == oldest <= StartTime

\* After a batch: start_time is reached, or the cursor would not move back.
Stops(oldest) == oldest <= StartTime \/ oldest >= cursor

\* A record older than start_time ends the iteration.
Truncates(r) == Time(r) < StartTime

Yield ==
  /\ pc = "yielding"
  /\ LET r == Head(batch) rest == Tail(batch) IN
       IF Truncates(r)
       THEN pc' = "done" /\ UNCHANGED <<cursor, batch, yielded>>
       ELSE /\ yielded' = Append(yielded, r)
            /\ batch' = rest
            /\ IF rest # <<>> THEN UNCHANGED <<cursor, pc>>
               ELSE IF Stops(Time(r)) THEN pc' = "done" /\ UNCHANGED cursor
               ELSE pc' = "fetching" /\ cursor' = Time(r)
  /\ UNCHANGED <<arguments, archive, arrived>>

\* The archive gets a record while the iteration runs.
Arrive(r) ==
  /\ r \notin archive
  /\ archive' = archive \cup {r}
  /\ arrived' = arrived \cup {r}
  /\ UNCHANGED <<arguments, cursor, batch, yielded, pc>>

Next == Fetch \/ Yield \/ \E r \in Records : Arrive(r)
Spec == Init /\ [][Next]_vars

-----------------------------------------------------------------------------
\* Every variable has the shape of what it stands for.
TypeOK ==
  /\ range \in Ranges /\ arrived \subseteq archive /\ archive \subseteq Records
  /\ ToSet(batch) \cup ToSet(yielded) \subseteq archive
  /\ pc \in {"fetching", "yielding", "done"}

Shared(r) == \E s \in archive : s # r /\ Time(s) = Time(r)

\* Over a callback that leaves out the cursor: records come newest first, none
\* twice, none out of range, and the iteration misses a record that was there
\* from the start only if another record has the same time.
PagesComplete == boundary = "before" =>
  /\ \A i, j \in DOMAIN yielded : i < j =>
       yielded[i] # yielded[j] /\ Time(yielded[i]) >= Time(yielded[j])
  /\ \A r \in ToSet(yielded) : StartTime <= Time(r) /\ Time(r) < EndTime
  /\ pc = "done" =>
       \A r \in archive \ arrived :
         StartTime <= Time(r) /\ Time(r) < EndTime /\ ~Shared(r) => r \in ToSet(yielded)

\* Whatever the callback includes, no page is asked for twice: the cursor
\* moves back between two fetches.
CursorMovesBack == [][pc = "yielding" /\ pc' = "fetching" => cursor' < cursor]_vars
=============================================================================
