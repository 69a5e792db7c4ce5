----------------------------- MODULE RenderLoop -----------------------------
(***************************************************************************)
(* The render loop over a double buffer.  A frame is drawn pixel by pixel  *)
(* on the buffer that was the back one when its callback was called, then  *)
(* the buffers change roles.  The callback may raise, stop the loop, or    *)
(* step another frame itself; another thread may stop the loop.            *)
(***************************************************************************)
EXTENDS Integers, Sequences, SequencesExt

CONSTANTS
  Pixels,      \* number of pixels of a buffer
  MaxFrames,   \* max_frames of a run
  MaxRuns, MaxDrawn, MaxSteps   \* bounds: runs, frames drawn, steps inside each other

\* A buffer has a pixel (FrameBuffer.__init__ refuses others).
RenderAssumption ==
  /\ Pixels \in Nat \ {0}
  /\ MaxFrames \in Nat /\ MaxDrawn \in Nat /\ MaxSteps \in Nat \ {0}

VARIABLES
  running,    \* _is_running
  looping,    \* is run under way?
  rendered,   \* frames_rendered of the run
  buffer,     \* the two buffers, each a sequence of pixels holding frame numbers
  front,      \* which of them is shown
  drawing,    \* unfinished callbacks, the innermost last
  drawn,      \* frames begun
  runs,
  nested      \* has a callback stepped a frame? (history)

vars == <<running, looping, rendered, buffer, front, drawing, drawn, runs, nested>>

Sides == {1, 2}

TypeOK ==
  /\ running \in BOOLEAN /\ looping \in BOOLEAN /\ rendered \in 0..MaxFrames
  /\ buffer \in [Sides -> [1..Pixels -> 0..MaxDrawn]] /\ front \in Sides
  /\ Len(drawing) <= MaxSteps

Init ==
  /\ running = FALSE /\ looping = FALSE /\ rendered = 0
  /\ buffer = [s \in Sides |-> [p \in 1..Pixels |-> 0]] /\ front = 1
  /\ drawing = <<>> /\ drawn = 0 /\ runs = 0 /\ nested = FALSE

back == 3 - front

\* run starts the loop whatever a stop before it wanted.
run ==
  /\ ~looping /\ drawing = <<>> /\ runs < MaxRuns
  /\ runs' = runs + 1 /\ looping' = TRUE /\ running' = TRUE /\ rendered' = 0
  /\ UNCHANGED <<buffer, front, drawing, drawn, nested>>

stop ==
  /\ running' = FALSE
  /\ UNCHANGED <<looping, rendered, buffer, front, drawing, drawn, runs, nested>>

\* The callback is handed the buffer that is at the back now.
BeginFrame ==
  /\ drawn < MaxDrawn /\ drawn' = drawn + 1
  /\ drawing' = Append(drawing, [target |-> back, frame |-> drawn + 1, pixel |-> 1])

tick ==
  /\ looping /\ drawing = <<>> /\ running /\ rendered < MaxFrames
  /\ BeginFrame
  /\ UNCHANGED <<running, looping, rendered, buffer, front, runs, nested>>

\* The callback steps a frame of its own.
NestedTick ==
  /\ drawing # <<>> /\ Len(drawing) < MaxSteps
  /\ BeginFrame /\ nested' = TRUE
  /\ UNCHANGED <<running, looping, rendered, buffer, front, runs>>

Draw ==
  /\ drawing # <<>> /\ Last(drawing).pixel <= Pixels
  /\ LET d == Last(drawing)
     IN /\ buffer' = [buffer EXCEPT ![d.target][d.pixel] = d.frame]
        /\ drawing' = [drawing EXCEPT ![Len(drawing)].pixel = @ + 1]
  /\ UNCHANGED <<running, looping, rendered, front, drawn, runs, nested>>

swap == front' = back

EndFrame ==
  /\ drawing # <<>> /\ Last(drawing).pixel > Pixels
  /\ swap
  /\ drawing' = Front(drawing)
  /\ rendered' = IF Len(drawing) = 1 THEN rendered + 1 ELSE rendered
  /\ UNCHANGED <<running, looping, buffer, drawn, runs, nested>>

MutFrameRaises ==
  /\ drawing # <<>> /\ swap
  /\ drawing' = Front(drawing)
  /\ IF Len(drawing) = 1 THEN looping' = FALSE /\ running' = FALSE
     ELSE UNCHANGED <<looping, running>>
  /\ UNCHANGED <<rendered, buffer, drawn, runs, nested>>

\* An exception leaves the buffers as they are; out of the outermost callback
\* it ends the run.
FrameRaises ==
  /\ drawing # <<>>
  /\ drawing' = Front(drawing)
  /\ IF Len(drawing) = 1 THEN looping' = FALSE /\ running' = FALSE
     ELSE UNCHANGED <<looping, running>>
  /\ UNCHANGED <<rendered, buffer, front, drawn, runs, nested>>

EndRun ==
  /\ looping /\ drawing = <<>> /\ (~running \/ rendered = MaxFrames)
  /\ looping' = FALSE /\ running' = FALSE
  /\ UNCHANGED <<rendered, buffer, front, drawing, drawn, runs, nested>>

Next ==
  \/ run \/ stop \/ tick \/ NestedTick \/ Draw \/ EndFrame \/ FrameRaises \/ EndRun

Spec == Init /\ [][Next]_vars

-----------------------------------------------------------------------------
\* What is shown is a whole frame, of all those finished the last, whatever
\* callbacks raised halfway: as long as no callback steps frames itself.
ShownIsWhole ==
  ~nested => \A p, q \in 1..Pixels : buffer[front][p] = buffer[front][q]

\* A frame that was shown is never replaced by an older one, and a loop that is
\* not under way is not running.
FramesAdvance ==
  [][/\ ~nested' => buffer[front][1] <= buffer'[front'][1]
     /\ looping /\ ~looping' => ~running']_vars
=============================================================================
