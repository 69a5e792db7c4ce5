----------------------------- MODULE MCServices -----------------------------
(***************************************************************************)
(* The services for TLC: rollouts, webhooks, charts that follow each       *)
(* other, the rule worker, the cache, the render loop and the event        *)
(* simulation.  They share no state; each behaviour explores one of them.  *)
(***************************************************************************)
EXTENDS BlueGreen, Sequences, SequencesExt

CONSTANTS
  Callers, Deliveries, Limits, MaxPosts, Nothing,
  Charts, MaxSubs, MaxCasts, MaxDepth, Nobody,
  Kinds, MaxPublish, MaxRuns,
  Clients, Keys, Entries, Absent, MaxCalls,
  Pixels, MaxFrames, MaxDrawn, MaxSteps,
  EventTimes, SequenceIds, MaxEvents, MaxHandlers, MaxDispatches

VARIABLES
  \* webhooks
  maxRetries, attempts, status, retryPending, posting, dlq, letters, received, overlapped,
  \* the charts
  owner, flag, group, stack, casts,
  \* the rule worker
  rulePc, isRunning, isSubscribed, inbox, hand, published, evaluated, dead, missed, runs,
  \* the cache
  l1, l2, lasting, call, calls, since, raced,
  \* the render loop
  running, looping, rendered, buffer, front, drawing, drawn, loopRuns, nested,
  \* the event simulation
  queue, counter, handlers, frames, active, handed, disturbed,
  \* the part that is explored
  part

Webhooks == INSTANCE WebhookDispatcher
Sync == INSTANCE SyncManager
Rules == INSTANCE RuleEvaluationWorker WITH pc <- rulePc
Cache == INSTANCE MultiTierCache
Render == INSTANCE RenderLoop WITH runs <- loopRuns
Events == INSTANCE SimulationEngine

ASSUME ServicesAssumption ==
  /\ Webhooks!WebhookAssumption /\ Cache!CacheAssumption
  /\ Events!EventAssumption /\ Render!RenderAssumption

webhookVars ==
  <<maxRetries, attempts, status, retryPending, posting, dlq, letters, received, overlapped>>
syncVars == <<owner, flag, group, stack, casts>>
ruleVars ==
  <<rulePc, isRunning, isSubscribed, inbox, hand, published, evaluated, dead, missed, runs>>
cacheVars == <<l1, l2, lasting, call, calls, since, raced>>
renderVars == <<running, looping, rendered, buffer, front, drawing, drawn, loopRuns, nested>>
eventVars == <<queue, counter, handlers, frames, active, handed, disturbed>>
allVars ==
  <<vars, webhookVars, syncVars, ruleVars, cacheVars, renderVars, eventVars, part>>

Parts == {"rollouts", "webhooks", "charts", "rules", "cache", "frames", "events"}

\* The choices of a part that is not explored are fixed.
PartsInit ==
  /\ part \in Parts
  /\ Init /\ Webhooks!Init /\ Sync!Init /\ Rules!Init /\ Cache!Init /\ Render!Init /\ Events!Init
  /\ part # "webhooks" => \A d \in Deliveries : maxRetries[d] = 0

\* The parts that are not explored stay as they are.
Frozen ==
  /\ UNCHANGED part
  /\ part # "rollouts" => UNCHANGED vars
  /\ part # "webhooks" => UNCHANGED webhookVars
  /\ part # "charts" => UNCHANGED syncVars
  /\ part # "rules" => UNCHANGED ruleVars
  /\ part # "cache" => UNCHANGED cacheVars
  /\ part # "frames" => UNCHANGED renderVars
  /\ part # "events" => UNCHANGED eventVars

PartsNext ==
  /\ \/ part = "rollouts" /\ Next
     \/ part = "webhooks" /\ Webhooks!Next
     \/ part = "charts" /\ Sync!Next
     \/ part = "rules" /\ Rules!Next
     \/ part = "cache" /\ Cache!Next
     \/ part = "frames" /\ Render!Next
     \/ part = "events" /\ Events!Next
  /\ Frozen

PartsSpec == PartsInit /\ [][PartsNext]_allVars

\* Managers, callers, deliveries and charts are alike: they are taken in turn.
InTurn ==
  /\ \A m, n \in Managers : m < n /\ pc[n] # "idle" => pc[m] # "idle"
  /\ \A c, b \in Callers : c < b /\ posting[b] # Nothing => posting[c] # Nothing
  /\ \A i \in DOMAIN owner : owner[i] <= 1 + Cardinality(ToSet(SubSeq(owner, 1, i - 1)))

\* The properties of the parts, whose modules state them.
DeadLetterOnce == part = "webhooks" => Webhooks!TypeOK /\ Webhooks!DeadLetterOnce
EveryPeerOnce == part = "charts" => Sync!TypeOK /\ Sync!EveryPeerOnce
AtMostOnce == part = "rules" => Rules!TypeOK /\ Rules!AtMostOnce
ServesLastStored == part = "cache" => Cache!TypeOK /\ Cache!ServesLastStored
FramesAreWhole ==
  /\ [](part = "frames" => Render!TypeOK /\ Render!ShownIsWhole)
  /\ Render!FramesAdvance
EventsInOrder == part = "events" => Events!TypeOK /\ Events!EventsInOrder
=============================================================================
