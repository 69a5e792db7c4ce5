---------------------------- MODULE SyncManager ----------------------------
(***************************************************************************)
(* SyncManager, src/src/charting/sync_manager.py: charts of one group that *)
(* follow each other.                                                      *)
(*                                                                         *)
(* A broadcast calls the peers one by one over a snapshot of the group.    *)
(* A callback may call the manager again, and raise: broadcasts nest, so   *)
(* they are kept on a stack.  Crosshair, symbol and interval are the same  *)
(* code over one flag each, and groups share nothing: the model has one    *)
(* group and one of the three.  Charts without a callback and calls that   *)
(* are refused change nothing.                                             *)
(***************************************************************************)
EXTENDS Naturals, Sequences, FiniteSets, SequencesExt

CONSTANTS
  Charts,   \* chart ids
  MaxSubs,  \* bound: registrations
  MaxCasts, \* bound: broadcasts
  MaxDepth, \* bound: nested broadcasts
  Nobody    \* no callback is running

VARIABLES
  owner, \* the chart of each registration made so far
  flag,  \* sync_crosshair, sync_symbol or sync_interval of each registration
  group, \* _groups[group_id]: the current registrations, in dict order
  stack, \* the broadcasts that are running, innermost last
  casts  \* broadcasts so far

vars == <<owner, flag, group, stack, casts>>

Init == owner = <<>> /\ flag = <<>> /\ group = <<>> /\ stack = <<>> /\ casts = 0

Top == Last(stack)
SetTop(frame) == stack' = [stack EXCEPT ![Len(stack)] = frame]

\* The code of a chart runs: outside any broadcast or in a callback.
Active == stack # <<>> => Top.calling # Nobody

Registered(c) == \E i \in DOMAIN group : owner[group[i]] = c
PositionOf(c) == CHOOSE i \in DOMAIN group : owner[group[i]] = c
SubOf(c) == group[PositionOf(c)]

MayJoin(c) == Active /\ ~Registered(c)

Register(c) ==
  /\ MayJoin(c) /\ Len(owner) < MaxSubs
  /\ owner' = Append(owner, c)
  /\ flag' = Append(flag, TRUE)
  /\ group' = Append(group, Len(owner) + 1)
  /\ UNCHANGED <<stack, casts>>

\* A peer that leaves, or stops following, is no longer owed a call.
Excuse(s) ==
  stack' = [i \in DOMAIN stack |-> [stack[i] EXCEPT !.owed = @ \ {s}]]

Unregister(c) ==
  /\ Active /\ Registered(c)
  /\ group' = RemoveAt(group, PositionOf(c))
  /\ Excuse(SubOf(c))
  /\ UNCHANGED <<owner, flag, casts>>

SetSyncFlag(c, on) ==
  /\ Active /\ Registered(c)
  /\ flag' = [flag EXCEPT ![SubOf(c)] = on]
  /\ IF on THEN UNCHANGED stack ELSE Excuse(SubOf(c))
  /\ UNCHANGED <<owner, group, casts>>

\* update_crosshair, update_symbol or update_interval by chart c.
Update(c) ==
  /\ Active /\ Registered(c)
  /\ casts < MaxCasts /\ Len(stack) < MaxDepth
  /\ casts' = casts + 1
  /\ LET peers == RemoveAt(group, PositionOf(c))
     IN  stack' = Append(stack,
           [source |-> c, todo |-> peers, calling |-> Nobody, called |-> <<>>,
            owed |-> {s \in ToSet(peers) : flag[s]}])
  /\ UNCHANGED <<owner, flag, group>>

\* The next peer of the innermost broadcast is called, or passed over.
CallPeer ==
  /\ stack # <<>> /\ Top.calling = Nobody /\ Top.todo # <<>>
  /\ LET s == Head(Top.todo)
         next == [Top EXCEPT !.todo = Tail(@)]
     IN  SetTop(IF flag[s]
                THEN [next EXCEPT !.calling = s, !.called = Append(@, s)]
                ELSE next)
  /\ UNCHANGED <<owner, flag, group, casts>>

CallbackReturns ==
  /\ stack # <<>> /\ Top.calling # Nobody
  /\ SetTop([Top EXCEPT !.calling = Nobody])
  /\ UNCHANGED <<owner, flag, group, casts>>

MutAfterRaise(frame) == [frame EXCEPT !.calling = Nobody, !.todo = <<>>]

\* An exception in a callback is logged and the broadcast goes on.
AfterRaise(frame) == [frame EXCEPT !.calling = Nobody]

CallbackRaises ==
  /\ stack # <<>> /\ Top.calling # Nobody
  /\ SetTop(AfterRaise(Top))
  /\ UNCHANGED <<owner, flag, group, casts>>

EndBroadcast ==
  /\ stack # <<>> /\ Top.calling = Nobody /\ Top.todo = <<>>
  /\ stack' = Front(stack)
  /\ UNCHANGED <<owner, flag, group, casts>>

Next ==
  \/ \E c \in Charts :
       \/ Register(c) \/ Unregister(c) \/ Update(c)
       \/ \E on \in BOOLEAN : SetSyncFlag(c, on)
  \/ CallPeer \/ CallbackReturns \/ CallbackRaises \/ EndBroadcast

Spec == Init /\ [][Next]_vars

-----------------------------------------------------------------------------
\* The registrations are consistent with each other: one per chart.
TypeOK ==
  /\ owner \in Seq(Charts) /\ Len(flag) = Len(owner)
  /\ ToSet(group) \subseteq DOMAIN owner
  /\ \A c \in Charts : Cardinality({i \in DOMAIN group : owner[group[i]] = c}) <= 1

\* A peer that is registered and follows during a whole broadcast is called in
\* it exactly once, whatever other callbacks do: raise, register, unregister,
\* change flags or start broadcasts of their own.  The source is never called.
EveryPeerOnce == \A i \in DOMAIN stack :
  LET b == stack[i] called == b.called IN
  /\ \A j, k \in DOMAIN called : j # k => called[j] # called[k]
  /\ \A j \in DOMAIN called : owner[called[j]] # b.source
  /\ b.todo = <<>> => b.owed \subseteq ToSet(called)
=============================================================================
