--------------------------- MODULE MCConnectivity ---------------------------
(***************************************************************************)
(* The connections to the outside for TLC: the FIX gateway, the WebSocket  *)
(* client and the exchange adapter.  They share no state; each behaviour   *)
(* explores one of them.                                                   *)
(***************************************************************************)
EXTENDS FIXEngineGateway, Naturals, Sequences, TLC

CONSTANTS Tasks, Conns, Null, MaxRetries, BaseDelay, MaxDelay, AdapterTasks, None

VARIABLES
  \* the WebSocket client
  state, retryCount, connection, conn, pc, op, closing, waited, overlapped, quit,
  \* the exchange adapter
  current, client, adapterPc, target, abandoned, lastCall, adapterOverlapped, reauthorized,
  \* the part that is explored
  part

WS == INSTANCE WebSocketClient
Adapter == INSTANCE CCXTAdapter
  WITH Tasks <- AdapterTasks, pc <- adapterPc, overlapped <- adapterOverlapped

ASSUME ConnectivityAssumption ==
  WS!ClientAssumption /\ Adapter!AdapterAssumption

socketVars ==
  <<state, retryCount, connection, conn, pc, op, closing, waited, overlapped, quit>>
adapterVars ==
  <<current, client, adapterPc, target, abandoned, lastCall, adapterOverlapped, reauthorized>>

Parts == {"fix", "websocket", "adapter"}

PartsInit == part \in Parts /\ Init /\ WS!Init /\ Adapter!Init

PartsNext ==
  /\ UNCHANGED part
  /\ \/ part = "fix" /\ Next /\ UNCHANGED <<socketVars, adapterVars>>
     \/ part = "websocket" /\ WS!Next /\ UNCHANGED <<vars, adapterVars>>
     \/ part = "adapter" /\ Adapter!Next /\ UNCHANGED <<vars, socketVars>>

PartsSpec ==
  PartsInit /\ [][PartsNext]_<<vars, socketVars, adapterVars, part>>

Symmetry == Permutations(Senders) \cup Permutations(BeginStrings)

\* Tasks and connections are alike: they are taken in turn.
InTurn ==
  /\ \A t, u \in Tasks : t < u /\ pc[u] # "idle" => pc[t] # "idle"
  /\ \A t, u \in AdapterTasks : t < u /\ adapterPc[u] # "idle" => adapterPc[t] # "idle"
  /\ \A c, d \in Conns : c < d /\ conn[d] # "unused" => conn[c] # "unused"

\* The properties of WebSocketClient, which states them.
SocketsAreSound ==
  part = "websocket" => WS!TypeOK /\ WS!HoldsWhatIsOpen /\ WS!BackoffSchedule
DisconnectIsFinal == part = "websocket" => WS!DisconnectIsFinal

\* The properties of CCXTAdapter, which states them.
ClientsAreSound ==
  part = "adapter" => Adapter!TypeOK /\ Adapter!InstalledIsOpen /\ Adapter!NoClientLeak
DisconnectClosesAll == part = "adapter" => Adapter!DisconnectClosesAll
=============================================================================
