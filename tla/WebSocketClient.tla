--------------------------- MODULE WebSocketClient ---------------------------
(***************************************************************************)
(* The resilient WebSocket client, src/src/network/websocket_client.py.    *)
(*                                                                         *)
(* A task is one call of connect, reconnect (which handle_disconnect and   *)
(* on_disconnect are) or disconnect, run by the event loop.  A task gives  *)
(* up control only where the code awaits: in the close of a connection, in *)
(* the connection factory, in the backoff sleep.  Where there is nothing   *)
(* to close the code does not await, and one step runs on to the next      *)
(* await.  Nothing in the client serialises the calls: overlapped records  *)
(* that its user let one start before the others had ended.                *)
(***************************************************************************)
EXTENDS Integers, Sequences, FiniteSets

CONSTANTS
  Tasks,      \* calls of the lifecycle methods
  Conns,      \* connections the factory can return (bounds successful attempts)
  Null,       \* no connection
  MaxRetries, \* max_retries
  BaseDelay,  \* base_delay
  MaxDelay    \* max_delay

ClientAssumption ==
  /\ Null \notin Conns
  /\ MaxRetries \in Nat /\ BaseDelay \in Nat \ {0} /\ MaxDelay \in Nat
  /\ BaseDelay =< MaxDelay

VARIABLES
  state,      \* self.state
  retryCount, \* self.retry_count
  connection, \* self.connection
  conn,       \* the life of each connection: "unused", "open" or "closed"
  pc,         \* where each task is
  op,         \* what each task was called for
  closing,    \* the connection a task is closing
  waited,     \* the backoff delays each task has slept (history)
  overlapped, \* a call started while another ran (history)
  quit        \* the client was connected and then disconnected on purpose (history)

vars == <<state, retryCount, connection, conn, pc, op, closing, waited, overlapped, quit>>

Calls == {"connect", "reconnect", "disconnect"}
Ended == {"idle", "returned", "raised"}

Init ==
  /\ state = "DISCONNECTED"
  /\ retryCount = 0
  /\ connection = Null
  /\ conn = [c \in Conns |-> "unused"]
  /\ pc = [t \in Tasks |-> "idle"]
  /\ op = [t \in Tasks |-> "connect"]
  /\ closing = [t \in Tasks |-> Null]
  /\ waited = [t \in Tasks |-> <<>>]
  /\ overlapped = FALSE
  /\ quit = FALSE

\* compute_backoff_delay
Backoff(attempt) ==
  IF BaseDelay * 2 ^ attempt < MaxDelay THEN BaseDelay * 2 ^ attempt ELSE MaxDelay

\* What the call does once the old connection is closed: disconnect ends, the
\* others enter the retry loop and await the connection factory.
Proceed(t, call) ==
  /\ retryCount' = 0
  /\ IF call = "disconnect"
     THEN /\ state' = "DISCONNECTED"
          /\ pc' = [pc EXCEPT ![t] = "returned"]
          /\ quit' = (quit \/ pc[t] = "closing")
     ELSE /\ state' = IF call = "connect" THEN "CONNECTING" ELSE "RECONNECTING"
          /\ pc' = [pc EXCEPT ![t] = "attempting"]
          /\ quit' = FALSE

Idle == \A t \in Tasks : pc[t] \in Ended

\* A call starts: it takes the current connection and awaits its close.
Start(t, call) ==
  /\ pc[t] = "idle"
  /\ overlapped' = (overlapped \/ ~Idle)
  /\ op' = [op EXCEPT ![t] = call]
  /\ closing' = [closing EXCEPT ![t] = connection]
  /\ connection' = Null
  /\ IF connection = Null
     THEN Proceed(t, call)
     ELSE /\ pc' = [pc EXCEPT ![t] = "closing"]
          /\ UNCHANGED <<state, retryCount, quit>>
  /\ UNCHANGED <<conn, waited>>

\* The connection a task awaits to close is closed.
Closes(t) == [conn EXCEPT ![closing[t]] = "closed"]

Closed(t) ==
  /\ pc[t] = "closing"
  /\ conn' = Closes(t)
  /\ closing' = [closing EXCEPT ![t] = Null]
  /\ Proceed(t, op[t])
  /\ UNCHANGED <<connection, op, waited, overlapped>>

\* The factory returns a connection.
Connected(t) ==
  /\ pc[t] = "attempting"
  /\ \E c \in Conns :
       /\ conn[c] = "unused"
       /\ conn' = [conn EXCEPT ![c] = "open"]
       /\ connection' = c
  /\ state' = "CONNECTED"
  /\ retryCount' = 0
  /\ pc' = [pc EXCEPT ![t] = "returned"]
  /\ UNCHANGED <<op, closing, waited, overlapped, quit>>

MayRetry == retryCount < MaxRetries

\* The history of delays, kept while calls do not overlap and cut off once it is
\* too long to be right.
Slept(delays, d) ==
  IF overlapped \/ Len(delays) > MaxRetries THEN delays ELSE Append(delays, d)

\* After a failed attempt and its close: sleep, or give up.
Recover(t) ==
  IF MayRetry
  THEN /\ pc' = [pc EXCEPT ![t] = "sleeping"]
       /\ waited' = [waited EXCEPT ![t] = Slept(@, Backoff(retryCount))]
       /\ UNCHANGED state
  ELSE /\ state' = "DISCONNECTED"
       /\ pc' = [pc EXCEPT ![t] = "raised"]
       /\ UNCHANGED waited

MutAttemptFails(t) ==
  /\ pc[t] = "attempting"
  /\ closing' = [closing EXCEPT ![t] = connection]
  /\ IF connection = Null
     THEN Recover(t)
     ELSE /\ pc' = [pc EXCEPT ![t] = "clearing"]
          /\ UNCHANGED <<state, waited>>
  /\ UNCHANGED <<connection, retryCount, conn, op, overlapped, quit>>

\* The factory raises; whatever connection the client has now is closed.
AttemptFails(t) ==
  /\ pc[t] = "attempting"
  /\ closing' = [closing EXCEPT ![t] = connection]
  /\ connection' = Null
  /\ IF connection = Null
     THEN Recover(t)
     ELSE /\ pc' = [pc EXCEPT ![t] = "clearing"]
          /\ UNCHANGED <<state, waited>>
  /\ UNCHANGED <<retryCount, conn, op, overlapped, quit>>

Cleared(t) ==
  /\ pc[t] = "clearing"
  /\ conn' = Closes(t)
  /\ closing' = [closing EXCEPT ![t] = Null]
  /\ Recover(t)
  /\ UNCHANGED <<retryCount, connection, op, overlapped, quit>>

MutWakeResets(t) ==
  /\ pc[t] = "sleeping"
  /\ retryCount' = 0
  /\ pc' = [pc EXCEPT ![t] = "attempting"]
  /\ UNCHANGED <<state, connection, conn, op, closing, waited, overlapped, quit>>

\* The backoff sleep ends and the loop makes its next attempt.
Wake(t) ==
  /\ pc[t] = "sleeping"
  /\ retryCount' = retryCount + 1
  /\ pc' = [pc EXCEPT ![t] = "attempting"]
  /\ UNCHANGED <<state, connection, conn, op, closing, waited, overlapped, quit>>

Continue(t) ==
  Closed(t) \/ Connected(t) \/ AttemptFails(t) \/ Cleared(t) \/ Wake(t)

Next == \E t \in Tasks : Continue(t) \/ \E call \in Calls : Start(t, call)

Spec == Init /\ [][Next]_vars

\* The event loop runs every task whose await is over; the factory answers.
Fairness == \A t \in Tasks : WF_vars(Continue(t))

FairSpec == Spec /\ Fairness

-----------------------------------------------------------------------------
(***************************************************************************)
(* Properties.                                                             *)
(***************************************************************************)

\* Every variable has the shape of the field it stands for.
TypeOK ==
  /\ state \in {"DISCONNECTED", "CONNECTING", "CONNECTED", "RECONNECTING"}
  /\ retryCount \in Nat
  /\ connection \in Conns \cup {Null}
  /\ conn \in [Conns -> {"unused", "open", "closed"}]
  /\ pc \in [Tasks -> Ended \cup {"closing", "attempting", "clearing", "sleeping"}]
  /\ op \in [Tasks -> Calls]
  /\ closing \in [Tasks -> Conns \cup {Null}]
  /\ waited \in [Tasks -> Seq(Nat)]
  /\ overlapped \in BOOLEAN /\ quit \in BOOLEAN

\* Even when calls overlap, the client never holds a connection that it has
\* closed or is closing, and no connection is closed by two tasks.  Between
\* calls that did not overlap, the only open connection is the one the client
\* holds, and it holds one exactly when it says CONNECTED: none leaks.
HoldsWhatIsOpen ==
  /\ connection # Null =>
       conn[connection] = "open" /\ \A t \in Tasks : closing[t] # connection
  /\ \A t, u \in Tasks : closing[t] # Null /\ closing[t] = closing[u] => t = u
  /\ \A t \in Tasks : closing[t] # Null => conn[closing[t]] = "open"
  /\ Idle /\ ~overlapped =>
       /\ {c \in Conns : conn[c] = "open"} = {connection} \ {Null}
       /\ state = IF connection = Null THEN "DISCONNECTED" ELSE "CONNECTED"

\* A call that does not overlap others backs off by base * 2^n, capped, for
\* each failure in turn, and gives up only after max_retries retries.
BackoffSchedule ==
  ~overlapped => \A t \in Tasks :
    /\ Len(waited[t]) =< MaxRetries
    /\ \A i \in DOMAIN waited[t] :
         /\ waited[t][i] =< MaxDelay
         /\ waited[t][i] = MaxDelay \/ waited[t][i] = BaseDelay * 2 ^ (i - 1)
    /\ pc[t] = "raised" => Len(waited[t]) = MaxRetries

\* Every call comes to an end, by success or by MaxRetriesExceededError.
EveryCallEnds == \A t \in Tasks : pc[t] \notin Ended ~> pc[t] \in Ended

\* test_clean_disconnect_does_not_trigger_reconnection: "Given an actively
\* connected client, When disconnect() is called intentionally, Then client
\* transitions to DISCONNECTED and no reconnection attempts occur."  A retry
\* loop still running when disconnect is called goes on and connects.
DisconnectIsFinal == quit => state # "CONNECTED"
=============================================================================
