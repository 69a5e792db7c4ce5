------------------------ MODULE RuleEvaluationWorker ------------------------
(***************************************************************************)
(* RuleEvaluationWorker, src/src/workers/rule_evaluation_worker.py: one    *)
(* thread that runs the polling loop, others that call stop.  Redis        *)
(* Pub/Sub is external: it queues what is published while the worker is    *)
(* subscribed, and any call to it may raise.                               *)
(***************************************************************************)
EXTENDS Naturals, Sequences, SequencesExt

CONSTANTS
  Kinds,      \* of messages: "valid", "invalid" or "other" than a message
  MaxPublish, \* bound: messages published
  MaxRuns     \* bound: calls of run

VARIABLES
  pc,           \* where run is
  isRunning,    \* is_running
  isSubscribed, \* is_subscribed
  inbox,        \* the messages Pub/Sub holds for this worker, numbered
  hand,         \* the message being handled, in a sequence of one, or none
  published,    \* the kinds of the messages published while subscribed (history)
  evaluated,    \* the messages evaluated, in order (history)
  dead,         \* the messages routed to the dead-letter channel (history)
  missed,       \* the invalid messages the channel refused (history)
  runs          \* calls of run so far

vars == <<pc, isRunning, isSubscribed, inbox, hand, published, evaluated, dead,
          missed, runs>>
messages == <<inbox, hand, published, evaluated, dead, missed>>

Init ==
  /\ pc = "idle" /\ isRunning = FALSE /\ isSubscribed = FALSE
  /\ inbox = <<>> /\ hand = <<>> /\ published = <<>>
  /\ evaluated = <<>> /\ dead = {} /\ missed = {} /\ runs = 0

Publish(kind) ==
  /\ isSubscribed /\ Len(published) < MaxPublish
  /\ published' = Append(published, kind)
  /\ inbox' = Append(inbox, Len(published) + 1)
  /\ UNCHANGED <<pc, isRunning, isSubscribed, hand, evaluated, dead, missed, runs>>

Run ==
  /\ pc = "idle" /\ runs < MaxRuns
  /\ runs' = runs + 1
  /\ isRunning' = TRUE
  /\ pc' = "subscribing"
  /\ UNCHANGED <<isSubscribed, messages>>

\* subscribe stands before the try: when it raises, run ends without finally.
Subscribe ==
  /\ pc = "subscribing"
  /\ \/ isSubscribed' = TRUE /\ pc' = "loop"
     \/ ~isSubscribed /\ pc' = "idle" /\ UNCHANGED isSubscribed
  /\ UNCHANGED <<isRunning, messages, runs>>

Loop ==
  /\ pc = "loop"
  /\ pc' = IF isRunning THEN "polling" ELSE "ending"
  /\ UNCHANGED <<isRunning, isSubscribed, messages, runs>>

MutAfterTimeout == "polling"

\* get_message returns None after its timeout.
AfterTimeout == "loop"

Poll ==
  /\ pc = "polling"
  /\ \/ inbox = <<>> /\ pc' = AfterTimeout /\ UNCHANGED <<inbox, hand>>
     \/ inbox # <<>> /\ pc' = "handling" /\ hand' = <<Head(inbox)>> /\ inbox' = Tail(inbox)
  /\ UNCHANGED <<isRunning, isSubscribed, published, evaluated, dead, missed, runs>>

\* get_message raises.
PollRaises ==
  /\ pc = "polling"
  /\ pc' = "ending"
  /\ UNCHANGED <<isRunning, isSubscribed, messages, runs>>

MutUndelivered(m) == missed' = missed \cup {m} /\ inbox' = <<m>> \o inbox

\* Routing to the dead-letter channel fails: the exception is swallowed.
Undelivered(m) == missed' = missed \cup {m} /\ UNCHANGED inbox

\* handle_message.
Handle ==
  /\ pc = "handling"
  /\ LET m == Head(hand) IN
       CASE published[m] = "valid" ->
              evaluated' = Append(evaluated, m) /\ UNCHANGED <<inbox, dead, missed>>
         [] published[m] = "invalid" ->
              /\ \/ dead' = dead \cup {m} /\ UNCHANGED <<inbox, missed>>
                 \/ Undelivered(m) /\ UNCHANGED dead
              /\ UNCHANGED evaluated
         [] OTHER -> UNCHANGED <<inbox, evaluated, dead, missed>>
  /\ hand' = <<>>
  /\ pc' = "loop"
  /\ UNCHANGED <<isRunning, isSubscribed, published, runs>>

\* finally: is_running, then close, whose unsubscribe may raise; what was still
\* queued is dropped with the subscription.
End ==
  /\ pc = "ending"
  /\ isRunning' = FALSE
  /\ pc' = "idle"
  /\ \/ isSubscribed' = FALSE /\ inbox' = <<>>
     \/ UNCHANGED <<isSubscribed, inbox>>
  /\ UNCHANGED <<hand, published, evaluated, dead, missed, runs>>

Stop ==
  /\ isRunning' = FALSE
  /\ UNCHANGED <<pc, isSubscribed, messages, runs>>

RunStep == Subscribe \/ Loop \/ Poll \/ Handle \/ End
Next == Run \/ RunStep \/ PollRaises \/ Stop \/ \E kind \in Kinds : Publish(kind)

\* The thread that called run is scheduled; get_message has a timeout.
Fairness == WF_vars(RunStep)
Spec == Init /\ [][Next]_vars /\ Fairness

-----------------------------------------------------------------------------
\* Every variable has the shape of what it stands for.
TypeOK ==
  /\ pc \in {"idle", "subscribing", "loop", "polling", "handling", "ending"}
  /\ {isRunning, isSubscribed} \subseteq BOOLEAN
  /\ Len(hand) = (IF pc = "handling" THEN 1 ELSE 0)
  /\ published \in Seq(Kinds)

\* Across stops, failures and new runs, messages are evaluated in the order in
\* which they were published, none twice, and a message has one fate.
AtMostOnce ==
  /\ \A i, j \in DOMAIN evaluated : i < j => evaluated[i] < evaluated[j]
  /\ \A m \in dead \cup missed : published[m] = "invalid"
  /\ dead \cap missed = {}
  /\ ToSet(inbox \o hand) \cap (ToSet(evaluated) \cup dead \cup missed) = {}

\* A stop during the loop ends run: no idle channel and no stream of messages,
\* valid or not, keeps it going.
WorkerStops == pc # "idle" /\ ~isRunning ~> pc = "idle"
=============================================================================
