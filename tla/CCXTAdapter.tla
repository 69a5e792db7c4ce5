---------------------------- MODULE CCXTAdapter ----------------------------
(***************************************************************************)
(* CCXTExchangeAdapter, src/src/adapters/ccxt_adapter.py: one authorized   *)
(* pair of exchange clients, REST and WebSocket.                           *)
(*                                                                         *)
(* A task is one call of authorize or disconnect.  authorize makes a pair  *)
(* of clients of its own (named by the task), awaits the exchange's        *)
(* answers to its probes, and only then installs the pair.  Closing awaits *)
(* the REST client, then the WebSocket client, and goes on when a close    *)
(* raises.  The exchange is external: it accepts or refuses.               *)
(*                                                                         *)
(* Two kinds of exits close nothing: what raises before the try of         *)
(* authorize, and a cancellation at an await, which except Exception does  *)
(* not catch.  The pair such a call had in hand is abandoned.              *)
(***************************************************************************)
CONSTANTS
  Tasks, \* calls, and the pair of clients each authorize makes
  None   \* no pair

AdapterAssumption == None \notin Tasks

VARIABLES
  current,      \* _rest_client, _ws_client and both flags: the installed pair
  client,       \* the two clients of each pair: "unused", "open" or "closed"
  pc,           \* where each task is
  target,       \* the pair a task is closing
  abandoned,    \* pairs a call had in hand when it ended without closing them (history)
  lastCall,     \* the call that started last (history)
  overlapped,   \* a call started while another ran (history)
  reauthorized  \* authorize was called over an installed pair (history)

vars ==
  <<current, client, pc, target, abandoned, lastCall, overlapped, reauthorized>>

Kinds == {"rest", "ws"}
Ended == {"idle", "done"}
Idle == \A t \in Tasks : pc[t] \in Ended

Starts(t, call) ==
  /\ pc[t] = "idle"
  /\ lastCall' = call
  /\ overlapped' = (overlapped \/ ~Idle)

Init ==
  /\ current = None
  /\ client = [t \in Tasks |-> [k \in Kinds |-> "unused"]]
  /\ pc = [t \in Tasks |-> "idle"]
  /\ target = [t \in Tasks |-> None]
  /\ abandoned = {}
  /\ lastCall = "none"
  /\ overlapped = FALSE
  /\ reauthorized = FALSE

\* authorize: both clients are made and the exchange is probed.
Authorize(t) ==
  /\ Starts(t, "authorize")
  /\ reauthorized' = (reauthorized \/ current # None)
  /\ client' = [client EXCEPT ![t] = [k \in Kinds |-> "open"]]
  /\ pc' = [pc EXCEPT ![t] = "probing"]
  /\ UNCHANGED <<current, target, abandoned>>

\* The second constructor or a set_sandbox_mode raises, before the try: the
\* clients that are made stay as they are.
FailsToMake(t) ==
  /\ Starts(t, "authorize")
  /\ reauthorized' = (reauthorized \/ current # None)
  /\ \E made \in {{"rest"}, Kinds} :
       client' = [client EXCEPT ![t] = [k \in Kinds |-> IF k \in made THEN "open" ELSE "unused"]]
  /\ abandoned' = abandoned \cup {t}
  /\ pc' = [pc EXCEPT ![t] = "done"]
  /\ UNCHANGED <<current, target>>

Authorized(t) ==
  /\ pc[t] = "probing"
  /\ current' = t
  /\ pc' = [pc EXCEPT ![t] = "done"]
  /\ UNCHANGED <<client, target, abandoned, lastCall, overlapped, reauthorized>>

\* The close of a pair begins: whatever is installed is dropped first.
BeginClose(t, pair) ==
  /\ current' = None
  /\ target' = [target EXCEPT ![t] = pair]
  /\ pc' = [pc EXCEPT ![t] = IF pair = None THEN "done" ELSE "closing_rest"]

\* The exchange refuses: _cleanup closes the pair this call made.
Refused(t) ==
  /\ pc[t] = "probing"
  /\ BeginClose(t, t)
  /\ UNCHANGED <<client, abandoned, lastCall, overlapped, reauthorized>>

Disconnect(t) ==
  /\ Starts(t, "disconnect")
  /\ BeginClose(t, current)
  /\ UNCHANGED <<client, abandoned, reauthorized>>

\* One close, whether it returns or raises.
CloseRest(t) ==
  /\ pc[t] = "closing_rest"
  /\ client' = [client EXCEPT ![target[t]]["rest"] = "closed"]
  /\ pc' = [pc EXCEPT ![t] = "closing_ws"]
  /\ UNCHANGED <<current, target, abandoned, lastCall, overlapped, reauthorized>>

MutSkipWs(t) ==
  /\ pc[t] = "closing_ws"
  /\ target' = [target EXCEPT ![t] = None]
  /\ pc' = [pc EXCEPT ![t] = "done"]
  /\ UNCHANGED <<current, client, abandoned, lastCall, overlapped, reauthorized>>

CloseWs(t) ==
  /\ pc[t] = "closing_ws"
  /\ client' = [client EXCEPT ![target[t]]["ws"] = "closed"]
  /\ target' = [target EXCEPT ![t] = None]
  /\ pc' = [pc EXCEPT ![t] = "done"]
  /\ UNCHANGED <<current, abandoned, lastCall, overlapped, reauthorized>>

\* The task is cancelled where it awaits.  A close it awaits may have been done;
\* what is installed stays as it is.
Cancelled(t) ==
  \/ /\ pc[t] = "probing"
     /\ pc' = [pc EXCEPT ![t] = "done"]
     /\ abandoned' = abandoned \cup {t}
     /\ UNCHANGED <<current, client, target, lastCall, overlapped, reauthorized>>
  \/ \E k \in Kinds :
       /\ pc[t] = IF k = "rest" THEN "closing_rest" ELSE "closing_ws"
       /\ client' \in {client, [client EXCEPT ![target[t]][k] = "closed"]}
       /\ pc' = [pc EXCEPT ![t] = "done"]
       /\ abandoned' = abandoned \cup {target[t]}
       /\ target' = [target EXCEPT ![t] = None]
       /\ UNCHANGED <<current, lastCall, overlapped, reauthorized>>

Next == \E t \in Tasks :
  \/ Authorize(t) \/ FailsToMake(t) \/ Authorized(t) \/ Refused(t) \/ Disconnect(t)
  \/ CloseRest(t) \/ CloseWs(t) \/ Cancelled(t)

Spec == Init /\ [][Next]_vars

-----------------------------------------------------------------------------
(***************************************************************************)
(* Properties.                                                             *)
(***************************************************************************)

\* Every variable has the shape of the field it stands for.
TypeOK ==
  /\ current \in Tasks \cup {None}
  /\ client \in [Tasks -> [Kinds -> {"unused", "open", "closed"}]]
  /\ pc \in [Tasks -> Ended \cup {"probing", "closing_rest", "closing_ws"}]
  /\ target \in [Tasks -> Tasks \cup {None}]
  /\ abandoned \subseteq Tasks
  /\ lastCall \in {"none", "authorize", "disconnect"}
  /\ overlapped \in BOOLEAN /\ reauthorized \in BOOLEAN

\* Even when calls overlap, the installed pair is fully open: no task is
\* closing it, so a subscription never runs on a closed client; and no pair is
\* closed by two tasks.
InstalledIsOpen ==
  /\ current # None =>
       /\ \A k \in Kinds : client[current][k] = "open"
       /\ \A t \in Tasks : target[t] # current
  /\ \A t, u \in Tasks : target[t] # None /\ target[t] = target[u] => t = u

\* Where authorize is called only without an installed pair and calls do not
\* overlap, the open clients are those of the installed pair and those of the
\* calls that were cancelled or that raised before the try: a refused probe or a
\* failing close leaves neither of its two clients behind, and a pair that is
\* installed was never given up.
NoClientLeak ==
  Idle /\ ~overlapped /\ ~reauthorized =>
    /\ {t \in Tasks \ abandoned : \E k \in Kinds : client[t][k] = "open"}
         = {current} \ {None}
    /\ current \notin abandoned

\* The docstring of disconnect: "Safely close and clean up active REST and
\* WebSocket sessions."  After a second authorize the first pair is forgotten,
\* and disconnect leaves it open, although no call was cancelled or raised early.
DisconnectClosesAll ==
  Idle /\ ~overlapped /\ abandoned = {} /\ lastCall = "disconnect" =>
    \A t \in Tasks, k \in Kinds : client[t][k] # "open"
=============================================================================
