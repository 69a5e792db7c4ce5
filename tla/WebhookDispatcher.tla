-------------------------- MODULE WebhookDispatcher --------------------------
(***************************************************************************)
(* WebhookDispatcher and DeadLetterQueue, src/src/webhooks: deliveries     *)
(* that are tried, retried by whoever calls dispatch again, and at last    *)
(* dead-lettered.                                                          *)
(*                                                                         *)
(* A call of dispatch takes two steps, before and after the answer to its  *)
(* HTTP request.  The endpoint is external: it may get the request and     *)
(* still not answer 2xx, or its answer may be lost.  A delivery that is    *)
(* terminal or has a bad URL raises and changes nothing: no step.          *)
(***************************************************************************)
EXTENDS Naturals, Sequences, FiniteSets, SequencesExt

CONSTANTS
  Callers,    \* threads that call dispatch
  Deliveries, \* deliveries with a valid URL
  Limits,     \* the max_retries a delivery may have
  MaxPosts,   \* bound: requests for one delivery
  Nothing     \* a caller that has no delivery in hand

WebhookAssumption == Limits \subseteq Nat /\ MaxPosts \in Nat /\ Nothing \notin Deliveries

VARIABLES
  maxRetries,   \* max_retries
  attempts,     \* attempt_count
  status,       \* status
  retryPending, \* metadata["retry_pending"]
  posting,      \* the delivery whose answer a caller waits for
  dlq,          \* the records of the DeadLetterQueue
  letters,      \* everything ever dead-lettered (history)
  received,     \* the deliveries the endpoint got and accepted (history)
  overlapped    \* deliveries two callers dispatched at once (history)

vars == <<maxRetries, attempts, status, retryPending, posting, dlq, letters,
          received, overlapped>>

Terminal == {"SUCCEEDED", "FAILED"}

Init ==
  /\ maxRetries \in [Deliveries -> Limits]
  /\ attempts = [d \in Deliveries |-> 0]
  /\ status = [d \in Deliveries |-> "PENDING"]
  /\ retryPending = [d \in Deliveries |-> FALSE]
  /\ posting = [c \in Callers |-> Nothing]
  /\ dlq = <<>> /\ letters = <<>> /\ received = {} /\ overlapped = {}

\* _validate_delivery.
Open(d) == status[d] \notin Terminal

Dispatch(c, d) ==
  /\ posting[c] = Nothing
  /\ Open(d)
  /\ attempts[d] < MaxPosts
  /\ attempts' = [attempts EXCEPT ![d] = @ + 1]
  /\ posting' = [posting EXCEPT ![c] = d]
  /\ overlapped' = overlapped \cup (IF \E b \in Callers : posting[b] = d THEN {d} ELSE {})
  /\ UNCHANGED <<maxRetries, status, retryPending, dlq, letters, received>>

Answered(c) ==
  /\ posting[c] # Nothing
  /\ posting' = [posting EXCEPT ![c] = Nothing]
  /\ UNCHANGED <<maxRetries, attempts, overlapped>>

\* The answer is 2xx.
Succeed(c) ==
  /\ Answered(c)
  /\ status' = [status EXCEPT ![posting[c]] = "SUCCEEDED"]
  /\ received' = received \cup {posting[c]}
  /\ UNCHANGED <<retryPending, dlq, letters>>

MutRetries(d) == attempts[d] <= maxRetries[d]
Retries(d) == attempts[d] < maxRetries[d]

\* Another answer or none: _handle_failure.
Fail(c) ==
  /\ Answered(c)
  /\ LET d == posting[c] IN
       /\ \E accepted \in {{}, {d}} : received' = received \cup accepted
       /\ retryPending' = [retryPending EXCEPT ![d] = Retries(d)]
       /\ status' = [status EXCEPT ![d] = IF Retries(d) THEN "RETRY_SCHEDULED" ELSE "FAILED"]
       /\ IF Retries(d) THEN UNCHANGED <<dlq, letters>>
          ELSE dlq' = Append(dlq, d) /\ letters' = Append(letters, d)

\* DeadLetterQueue.pop and clear.
Pop ==
  /\ dlq # <<>>
  /\ dlq' = Tail(dlq)
  /\ UNCHANGED <<maxRetries, attempts, status, retryPending, posting, letters,
                 received, overlapped>>

Clear ==
  /\ dlq # <<>>
  /\ dlq' = <<>>
  /\ UNCHANGED <<maxRetries, attempts, status, retryPending, posting, letters,
                 received, overlapped>>

Next ==
  \/ \E c \in Callers : \E d \in Deliveries : Dispatch(c, d)
  \/ \E c \in Callers : Succeed(c) \/ Fail(c)
  \/ Pop \/ Clear

Spec == Init /\ [][Next]_vars

-----------------------------------------------------------------------------
Statuses == Terminal \cup {"PENDING", "RETRY_SCHEDULED"}

\* Every field has the shape of the code's.
TypeOK ==
  /\ attempts \in [Deliveries -> 0 .. MaxPosts]
  /\ status \in [Deliveries -> Statuses]
  /\ retryPending \in [Deliveries -> BOOLEAN]
  /\ posting \in [Callers -> Deliveries \cup {Nothing}]
  /\ ToSet(dlq) \subseteq ToSet(letters) /\ ToSet(letters) \subseteq Deliveries

InHand(d) == \E c \in Callers : posting[c] = d
Count(d) == Cardinality({i \in DOMAIN letters : letters[i] = d})

\* A delivery no two callers dispatch at once is tried at most max_retries
\* times, and at least once whatever max_retries is; it is dead-lettered once
\* when it fails for good and never otherwise; one that succeeded was accepted
\* by the endpoint; one whose retry is pending has a retry left.
DeadLetterOnce == TypeOK /\ \A d \in Deliveries \ overlapped :
  /\ attempts[d] <= (IF maxRetries[d] = 0 THEN 1 ELSE maxRetries[d])
  /\ Count(d) = (IF status[d] = "FAILED" THEN 1 ELSE 0)
  /\ status[d] = "SUCCEEDED" => d \in received
  /\ status[d] = "RETRY_SCHEDULED" =>
       retryPending[d] /\ (attempts[d] < maxRetries[d] \/ InHand(d))
=============================================================================
