----------------------------- MODULE MCProgress -----------------------------
(***************************************************************************)
(* What must eventually happen, for TLC: small instances without symmetry, *)
(* each component under the fairness its module states.  The auto-save     *)
(* engine and the script worker are checked here altogether.  A behaviour  *)
(* explores one component.                                                 *)
(***************************************************************************)
EXTENDS AutoSaveEngine, TLC

CONSTANTS
  Brackets, Orders, None, GatewayMayRaise, ReuseOrders,
  SocketTasks, Conns, Null, MaxRetries, BaseDelay, MaxDelay,
  Kinds, MaxPublish, MaxRuns,
  Scripts

VARIABLES
  \* brackets
  bracket, owner, exch, reports, cancels, calls, abandoned,
  \* the WebSocket client
  state, retryCount, connection, conn, socketPc, op, closing, waited, overlapped, quit,
  \* the rule worker
  rulePc, isRunning, isSubscribed, inbox, hand, published, evaluated, dead, missed, runs,
  \* script workers
  scriptPc, active, worker, pipe, exitcode, childEnd, holders, answer,
  \* the part that is explored
  part

OCO == INSTANCE OCOManager
WS == INSTANCE WebSocketClient WITH pc <- socketPc, Tasks <- SocketTasks
Rules == INSTANCE RuleEvaluationWorker WITH pc <- rulePc
Sandbox == INSTANCE ScriptWorker WITH pc <- scriptPc, Calls <- Scripts

ASSUME ProgressAssumption == Sandbox!WorkerAssumption

ocoVars == <<bracket, owner, exch, reports, cancels, calls, abandoned>>
socketVars ==
  <<state, retryCount, connection, conn, socketPc, op, closing, waited, overlapped, quit>>
ruleVars ==
  <<rulePc, isRunning, isSubscribed, inbox, hand, published, evaluated, dead, missed, runs>>
scriptVars == <<scriptPc, active, worker, pipe, exitcode, childEnd, holders, answer>>

PartsInit ==
  /\ part \in {"autosave", "brackets", "websocket", "rules", "scripts"}
  /\ Init /\ OCO!Init /\ WS!Init /\ Rules!Init /\ Sandbox!Init
  /\ part # "autosave" =>
       /\ store = [c \in Charts |-> NoChart]
       /\ delta = [t \in Tasks |-> CHOOSE d \in [chart : Charts, expected : Versions] : TRUE]

\* The parts that are not explored stay as they are.
Frozen ==
  /\ UNCHANGED part
  /\ part # "autosave" => UNCHANGED vars
  /\ part # "brackets" => UNCHANGED ocoVars
  /\ part # "websocket" => UNCHANGED socketVars
  /\ part # "rules" => UNCHANGED ruleVars
  /\ part # "scripts" => UNCHANGED scriptVars

PartsNext ==
  /\ \/ part = "autosave" /\ Next
     \/ part = "brackets" /\ OCO!Next
     \/ part = "websocket" /\ WS!Next
     \/ part = "rules" /\ Rules!Next
     \/ part = "scripts" /\ Sandbox!Next
  /\ Frozen

allVars == <<vars, ocoVars, socketVars, ruleVars, scriptVars, part>>

PartsSpec ==
  /\ PartsInit /\ [][PartsNext]_allVars
  /\ Fairness /\ OCO!Fairness /\ WS!Fairness /\ Rules!Fairness /\ Sandbox!Fairness

\* The properties of the other parts, whose modules state them.
OneCancelsTheOther == OCO!OneCancelsTheOther
WorkerStops == Rules!WorkerStops
RunsAreClean == part = "scripts" =>
  Sandbox!TypeOK /\ Sandbox!NothingLeft /\ Sandbox!AnswersAreTrue

\* Every call of the auto-save engine, the WebSocket client and the script
\* sandbox ends.
CallsEnd == EveryCallEnds /\ WS!EveryCallEnds /\ Sandbox!EveryRunEnds
=============================================================================
