---------------------------- MODULE ScriptWorker ----------------------------
(***************************************************************************)
(* Running a script in a process of its own.  Each call checks the script, *)
(* opens a pipe, forks a worker, waits for it with a time limit, and only  *)
(* then reads the pipe; whatever happened, it leaves no worker behind.     *)
(* Calls of several threads overlap, and a worker forked while another     *)
(* call's end of the pipe is open inherits that end.                       *)
(***************************************************************************)
EXTENDS Naturals, FiniteSets

CONSTANT Calls

WorkerAssumption == IsFiniteSet(Calls)

VARIABLES
  pc,        \* where each call of execute is
  active,    \* _active_workers
  worker,    \* the worker process of each call
  pipe,      \* what is in its pipe
  exitcode,  \* how it exited
  childEnd,  \* does the caller still hold the worker's end of the pipe?
  holders,   \* the other workers that inherited that end
  answer     \* what the call returned or raised

vars == <<pc, active, worker, pipe, exitcode, childEnd, holders, answer>>

Steps == {"idle", "verify", "pipe", "fork", "close", "join", "terminate", "kill",
          "read", "cleanup", "done"}
Outcomes == {"SUCCESS", "SCRIPT_ERROR"}
Answers == Outcomes \cup
  {"none", "VIOLATION", "NO_RESOURCES", "TIMEOUT", "MEMORY_EXCEEDED", "CRASHED", "NO_OUTPUT",
   "OS_ERROR"}

TypeOK ==
  /\ pc \in [Calls -> Steps] /\ active \in 0..Cardinality(Calls)
  /\ worker \in [Calls -> {"none", "running", "sending", "sent", "exited"}]
  /\ pipe \in [Calls -> Outcomes \cup {"empty", "header", "partial"}]
  /\ exitcode \in [Calls -> {"none", "zero", "error", "killed", "terminated"}]
  /\ childEnd \in [Calls -> BOOLEAN] /\ holders \in [Calls -> SUBSET Calls]
  /\ answer \in [Calls -> Answers]

Init ==
  /\ pc = [c \in Calls |-> "idle"] /\ active = 0
  /\ worker = [c \in Calls |-> "none"] /\ pipe = [c \in Calls |-> "empty"]
  /\ exitcode = [c \in Calls |-> "none"] /\ childEnd = [c \in Calls |-> FALSE]
  /\ holders = [c \in Calls |-> {}] /\ answer = [c \in Calls |-> "none"]

Alive(c) == worker[c] \in {"running", "sending", "sent"}

Goto(c, step) == pc' = [pc EXCEPT ![c] = step]

Answer(c, a) == answer' = [answer EXCEPT ![c] = a] /\ Goto(c, "cleanup")

Exits(c, code) ==
  /\ worker' = [worker EXCEPT ![c] = "exited"]
  /\ exitcode' = [exitcode EXCEPT ![c] = code]
  /\ holders' = [d \in Calls |-> holders[d] \ {c}]

workerVars == <<worker, exitcode, holders>>

-----------------------------------------------------------------------------
\* The calling thread.

Begin(c) ==
  /\ pc[c] = "idle" /\ Goto(c, "verify") /\ active' = active + 1
  /\ UNCHANGED <<workerVars, pipe, childEnd, answer>>

Verify(c) ==
  /\ pc[c] = "verify"
  /\ \/ Answer(c, "VIOLATION")
     \/ Goto(c, "pipe") /\ UNCHANGED answer
  /\ UNCHANGED <<active, workerVars, pipe, childEnd>>

OpenPipe(c) ==
  /\ pc[c] = "pipe"
  /\ \/ Answer(c, "NO_RESOURCES") /\ UNCHANGED childEnd
     \/ /\ childEnd' = [childEnd EXCEPT ![c] = TRUE]
        /\ Goto(c, "fork") /\ UNCHANGED answer
  /\ UNCHANGED <<active, workerVars, pipe>>

Fork(c) ==
  /\ pc[c] = "fork"
  /\ \/ Answer(c, "NO_RESOURCES") /\ UNCHANGED <<worker, holders>>
     \/ /\ worker' = [worker EXCEPT ![c] = "running"]
        /\ holders' = [d \in Calls |-> IF childEnd[d] /\ d # c THEN holders[d] \cup {c}
                                       ELSE holders[d]]
        /\ Goto(c, "close") /\ UNCHANGED answer
  /\ UNCHANGED <<active, exitcode, pipe, childEnd>>

CloseEnd(c) ==
  /\ pc[c] = "close" /\ Goto(c, "join")
  /\ childEnd' = [childEnd EXCEPT ![c] = FALSE]
  /\ UNCHANGED <<active, workerVars, pipe, answer>>

\* join returns when the worker has exited or the time is up.
Join(c) ==
  /\ pc[c] = "join" /\ Goto(c, IF Alive(c) THEN "terminate" ELSE "read")
  /\ UNCHANGED <<active, workerVars, pipe, childEnd, answer>>

\* A worker may need longer to end than the caller waits, and is killed then.
Terminate(c) ==
  /\ pc[c] = "terminate"
  /\ \/ ~Alive(c) /\ UNCHANGED workerVars /\ Answer(c, "TIMEOUT")
     \/ Alive(c) /\ Exits(c, "terminated") /\ Answer(c, "TIMEOUT")
     \/ Alive(c) /\ UNCHANGED <<workerVars, answer>> /\ Goto(c, "kill")
  /\ UNCHANGED <<active, pipe, childEnd>>

Kill(c) ==
  /\ pc[c] = "kill" /\ Answer(c, "TIMEOUT")
  /\ IF Alive(c) THEN Exits(c, "killed") ELSE UNCHANGED workerVars
  /\ UNCHANGED <<active, pipe, childEnd>>

\* A message that is not whole blocks recv until every holder of the other end
\* is gone.
ReadBlocks(c) == pipe[c] \in {"header", "partial"} /\ holders[c] # {}

\* Without a message, or with no more of it than its header, recv ends with the
\* EOFError that execute catches, and the exit code decides.  An end within the
\* message is another OSError, which execute raises as it is.
Verdict(c) ==
  CASE pipe[c] \in Outcomes -> pipe[c]
    [] pipe[c] = "partial" -> "OS_ERROR"
    [] pipe[c] \in {"empty", "header"} /\ exitcode[c] = "killed" -> "MEMORY_EXCEEDED"
    [] pipe[c] \in {"empty", "header"} /\ exitcode[c] \in {"error", "terminated"} -> "CRASHED"
    [] OTHER -> "NO_OUTPUT"

Read(c) ==
  /\ pc[c] = "read" /\ ~ReadBlocks(c) /\ Answer(c, Verdict(c))
  /\ UNCHANGED <<active, workerVars, pipe, childEnd>>

\* The mutant leaves a worker that the call did not wait for.
MutCleanup(c) ==
  /\ pc[c] = "cleanup" /\ Goto(c, "done")
  /\ childEnd' = [childEnd EXCEPT ![c] = FALSE]
  /\ active' = IF worker[c] = "none" THEN active ELSE active - 1
  /\ UNCHANGED <<workerVars, pipe, answer>>

\* The finally clause.  The caller's end of the pipe goes with its last
\* reference when the call has failed before it was closed.
Cleanup(c) ==
  /\ pc[c] = "cleanup" /\ Goto(c, "done") /\ active' = active - 1
  /\ childEnd' = [childEnd EXCEPT ![c] = FALSE]
  /\ IF Alive(c) THEN Exits(c, "killed") ELSE UNCHANGED workerVars
  /\ UNCHANGED <<pipe, answer>>

Parent(c) ==
  \/ Begin(c) \/ Verify(c) \/ OpenPipe(c) \/ Fork(c) \/ CloseEnd(c)
  \/ Join(c) \/ Terminate(c) \/ Kill(c) \/ Read(c) \/ Cleanup(c)

-----------------------------------------------------------------------------
\* The worker.

\* The script ended, by itself or by an error or a limit of its own.  A long
\* message is sent header first, and one the pipe cannot hold blocks the worker:
\* nobody reads before it exits.
ScriptEnds(c) ==
  /\ worker[c] = "running"
  /\ \/ /\ worker' = [worker EXCEPT ![c] = "sent"]
        /\ \E o \in Outcomes : pipe' = [pipe EXCEPT ![c] = o]
     \/ /\ worker' = [worker EXCEPT ![c] = "sending"]
        /\ \E sofar \in {"header", "partial"} : pipe' = [pipe EXCEPT ![c] = sofar]
  /\ UNCHANGED <<pc, active, exitcode, childEnd, holders, answer>>

WorkerExits(c) ==
  /\ worker[c] = "sent" /\ Exits(c, "zero")
  /\ UNCHANGED <<pc, active, pipe, childEnd, answer>>

\* The system ends the worker: out of memory, out of processor time, a crash, also
\* after it has sent.
WorkerDies(c) ==
  /\ Alive(c)
  /\ Exits(c, "killed") \/ Exits(c, "error")
  /\ UNCHANGED <<pc, active, pipe, childEnd, answer>>

Worker(c) == ScriptEnds(c) \/ WorkerExits(c) \/ WorkerDies(c)

Next == \E c \in Calls : Parent(c) \/ Worker(c)

\* A caller runs on; a join ends by its time limit.  Nothing obliges a worker.
Fairness == \A c \in Calls : WF_vars(Parent(c) /\ pc[c] # "idle")

Spec == Init /\ [][Next]_vars
FairSpec == Spec /\ Fairness

-----------------------------------------------------------------------------
Busy(c) == pc[c] \notin {"idle", "done"}

\* The counter is the number of calls under way, whichever step of a call
\* failed; and a call that is over has left no worker and no end of its pipe
\* in the caller's process.
NothingLeft ==
  /\ active = Cardinality({c \in Calls : Busy(c)})
  /\ \A c \in Calls : pc[c] = "done" => ~Alive(c) /\ ~childEnd[c]

\* What a call answers is what happened: a result is the one its own worker
\* sent whole, and is never lost once the worker has exited in time, however it
\* exited; the memory limit and a crash are blamed only on a worker that ended
\* so, before any of its message; a bare OSError is raised only for a worker that
\* died within its message; and a worker that exited in good order has always
\* sent something.
AnswersAreTrue ==
  \A c \in Calls :
    /\ answer[c] \in Outcomes => pipe[c] = answer[c] /\ worker[c] = "exited"
    /\ answer[c] = "MEMORY_EXCEEDED" => exitcode[c] = "killed"
    /\ answer[c] = "CRASHED" => exitcode[c] = "error"
    /\ answer[c] \in {"MEMORY_EXCEEDED", "CRASHED"} => pipe[c] \in {"empty", "header"}
    /\ answer[c] = "OS_ERROR" => pipe[c] = "partial" /\ exitcode[c] \in {"killed", "error"}
    /\ answer[c] # "NO_OUTPUT"

\* Every call ends: the read can only wait for workers that inherited the pipe,
\* and their own callers end those.
EveryRunEnds == \A c \in Calls : Busy(c) ~> pc[c] = "done"
=============================================================================
