--------------------------- MODULE MultiTierCache ---------------------------
(***************************************************************************)
(* Two tiers of cache.  A get that misses the first tier reads the second  *)
(* and fills the first from it; a set and a delete go to the first tier,   *)
(* then to the second.  Callers overlap between the two steps of a call.   *)
(* Entries of both tiers expire, but those a get filled in without a time  *)
(* to live stay.  The second tier is a Redis cluster and may raise, with   *)
(* or without effect; the first is in memory.                              *)
(***************************************************************************)
EXTENDS Naturals, FiniteSets

CONSTANTS Clients, Keys, Entries, Absent, MaxCalls

CacheAssumption == MaxCalls \in Nat

VARIABLES
  l1, l2,     \* the tiers: key -> entry or Absent
  lasting,    \* keys whose entry in l1 does not expire
  call,       \* client -> what it is doing
  calls,      \* number of calls
  since,      \* key -> what was set or deleted since, and by, the last set or
              \* delete that returned (history)
  raced       \* keys on which calls have overlapped (history)

vars == <<l1, l2, lasting, call, calls, since, raced>>

Idle == [op |-> "idle"]
Busy(c) == call[c] # Idle

TypeOK ==
  /\ l1 \in [Keys -> Entries \cup {Absent}] /\ l2 \in [Keys -> Entries \cup {Absent}]
  /\ lasting \subseteq Keys /\ calls \in 0..MaxCalls

Init ==
  /\ l1 = [k \in Keys |-> Absent] /\ l2 = l1 /\ lasting = {}
  /\ call = [c \in Clients |-> Idle] /\ calls = 0
  /\ since = [k \in Keys |-> {}] /\ raced = {}

\* A call begins; one that overlaps another on its key is noted.
Begins(c, op) ==
  /\ ~Busy(c) /\ calls < MaxCalls /\ calls' = calls + 1
  /\ call' = [call EXCEPT ![c] = op]
  /\ raced' = IF \E d \in Clients : Busy(d) /\ call[d].key = op.key
              THEN raced \cup {op.key} ELSE raced

Ends(c) == call' = [call EXCEPT ![c] = Idle]

\* A get that finds its key in the first tier is over at once.
get(c, k) ==
  /\ Begins(c, [op |-> IF l1[k] = Absent THEN "read" ELSE "found", key |-> k, entry |-> l1[k]])
  /\ UNCHANGED <<l1, l2, lasting, since>>

ReadSecond(c) ==
  /\ Busy(c) /\ call[c].op = "read"
  /\ LET entry == l2[call[c].key]
     IN call' = [call EXCEPT ![c].op = IF entry = Absent THEN "found" ELSE "fill",
                             ![c].entry = entry]
  /\ UNCHANGED <<l1, l2, lasting, calls, since, raced>>

Backfill(c) ==
  /\ Busy(c) /\ call[c].op = "fill"
  /\ l1' = [l1 EXCEPT ![call[c].key] = call[c].entry]
  /\ lasting' = lasting \cup {call[c].key}
  /\ call' = [call EXCEPT ![c].op = "found"]
  /\ UNCHANGED <<l2, calls, since, raced>>

Return(c) ==
  /\ Busy(c) /\ call[c].op = "found" /\ Ends(c)
  /\ UNCHANGED <<l1, l2, lasting, calls, since, raced>>

\* set, or delete when the entry is Absent: the first tier.
WriteFirst(c, k, entry) ==
  /\ Begins(c, [op |-> "write", key |-> k, entry |-> entry])
  /\ l1' = [l1 EXCEPT ![k] = entry]
  /\ lasting' = lasting \ {k}
  /\ since' = [since EXCEPT ![k] = @ \cup {entry}]
  /\ UNCHANGED l2

WriteReturns(c) ==
  /\ Busy(c) /\ call[c].op = "write" /\ Ends(c)
  /\ since' = [since EXCEPT ![call[c].key] = {call[c].entry}]
  /\ UNCHANGED <<l1, lasting, calls, raced>>

\* The mutant's delete forgets the second tier.
MutWriteSecond(c) ==
  /\ WriteReturns(c)
  /\ l2' = IF call[c].entry = Absent THEN l2 ELSE [l2 EXCEPT ![call[c].key] = call[c].entry]

\* The second tier, after which the call returns.
WriteSecond(c) ==
  /\ WriteReturns(c)
  /\ l2' = [l2 EXCEPT ![call[c].key] = call[c].entry]

\* The second tier raises, and so does the call: a get has changed nothing, a
\* write has been done in the first tier, and in the second or not.
SecondRaises(c) ==
  /\ Busy(c) /\ call[c].op \in {"read", "write"} /\ Ends(c)
  /\ \/ UNCHANGED l2
     \/ call[c].op = "write" /\ l2' = [l2 EXCEPT ![call[c].key] = call[c].entry]
  /\ UNCHANGED <<l1, lasting, calls, since, raced>>

\* The tiers drop what has outlived its time, each by itself.
Expire1(k) ==
  /\ l1[k] # Absent /\ k \notin lasting
  /\ l1' = [l1 EXCEPT ![k] = Absent]
  /\ UNCHANGED <<l2, lasting, call, calls, since, raced>>

Expire2(k) ==
  /\ l2[k] # Absent
  /\ l2' = [l2 EXCEPT ![k] = Absent]
  /\ UNCHANGED <<l1, lasting, call, calls, since, raced>>

Next ==
  \/ \E c \in Clients :
       \/ \E k \in Keys : get(c, k) \/ \E v \in Entries \cup {Absent} : WriteFirst(c, k, v)
       \/ ReadSecond(c) \/ Backfill(c) \/ Return(c) \/ WriteSecond(c)
       \/ SecondRaises(c)
  \/ \E k \in Keys : Expire1(k) \/ Expire2(k)

Spec == Init /\ [][Next]_vars

-----------------------------------------------------------------------------
Quiet(k) == \A c \in Clients : Busy(c) => call[c].key # k

\* Only overlapping calls and calls that raised can make the cache lie: on a key
\* no two calls have met on, neither tier holds and no get returns anything but
\* what was last set, nothing at all after a delete, or a miss; and after writes
\* that raised, anything but what they or the last write that returned left: the
\* first tier then holds the new entry, the second may still hold the old one, and
\* a get fills it in again once the new one has expired.
ServesLastStored ==
  \A k \in Keys \ raced :
    /\ Quiet(k) => {l1[k], l2[k]} \subseteq since[k] \cup {Absent}
    /\ \A c \in Clients : Busy(c) /\ call[c].op = "found" /\ call[c].key = k =>
         call[c].entry \in since[k] \cup {Absent}
=============================================================================
