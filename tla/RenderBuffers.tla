---------------------------- MODULE RenderBuffers ----------------------------
(***************************************************************************)
(* The frame buffers that the WinUI application's backend thread fills and *)
(* its render thread presents: render_buffer.cpp and render_thread.cpp.    *)
(*                                                                         *)
(* The buffers go round: from the queue ready_to_fill to the source (the   *)
(* backend thread), to the queue ready_to_present, to the sink (the render *)
(* thread) and back.  A frame that could not be drawn goes back to the     *)
(* front of ready_to_present.  Destroying the window shuts down the tasks  *)
(* and then both queues; a pop of a queue that is shut down ends its       *)
(* thread.                                                                 *)
(*                                                                         *)
(* A queue operation is atomic, as its mutex makes it; what a thread does  *)
(* between two of them touches only its own buffer.  Pixels are abstracted *)
(* to the version of the circuit and window that was drawn.                *)
(***************************************************************************)
EXTENDS Integers, Sequences

CONSTANTS
    BufferCount,   \* how many buffers there are: 2 in the application
    Params,        \* the sizes of the window
    EmptyParams,   \* those without any pixel
    RefusedParams, \* those too big for the graphics device
    MaxVersion,    \* bound: how often a task asks for a repaint
    MaxFailures    \* bound: how often the graphics device is lost or missing

ASSUME BufferAssumption ==
    /\ BufferCount \in Nat \ {0}
    /\ EmptyParams # {}
    /\ EmptyParams \subseteq Params
    /\ RefusedParams \subseteq Params \ EmptyParams
    /\ MaxVersion \in Nat
    /\ MaxFailures \in Nat

VARIABLES
    readyToFill,     \* queues of buffers
    readyToPresent,
    shutdown,        \* which queues are shut down
    frame,           \* what each buffer holds
    params,          \* new_params_: the size of the next frame
    version,         \* how often a repaint was asked for
    sourceState,     \* where the backend thread is
    sourceBuffer,    \* the buffer it holds, or NoBuffer
    sinkState,       \* where the render thread is
    sinkBuffer,      \* the buffer it holds, or NoBuffer
    bitmap,          \* the version its bitmap shows, 0 without graphics resources
    shown,           \* the version that the window shows
    lost,            \* history variable: the version lost with the device
    failures         \* how often the device failed

source == <<sourceState, sourceBuffer>>
sink == <<sinkState, sinkBuffer, bitmap, shown, lost, failures>>
vars == <<readyToFill, readyToPresent, shutdown, frame, params, version, source, sink>>

Buffers == 1..BufferCount
NoBuffer == 0
Frames == [params : Params, version : Nat]

Init ==
    /\ readyToFill = [i \in Buffers |-> i]
    /\ readyToPresent = <<>>
    /\ shutdown = {}
    /\ params \in EmptyParams
    /\ frame = [b \in Buffers |-> [params |-> params, version |-> 0]]
    /\ version = 0
    /\ sourceState = "idle"
    /\ sourceBuffer = NoBuffer
    /\ sinkState = "pop"
    /\ sinkBuffer = NoBuffer
    /\ bitmap = 0
    /\ shown = 0
    /\ lost = 0
    /\ failures = 0

------------------------------------------------------------------------------
(* The source: the backend thread handles a task, then renders the circuit.  *)

\* A task changed the circuit or the size of the window.
AskRepaint(p) ==
    /\ sourceState = "idle"
    /\ "tasks" \notin shutdown
    /\ version < MaxVersion
    /\ params' = p
    /\ version' = version + 1
    /\ sourceState' = "pop"
    /\ UNCHANGED <<readyToFill, readyToPresent, shutdown, frame, sourceBuffer, sink>>

\* Without a task the benchmark renders the same circuit again.
RepeatRepaint ==
    /\ sourceState = "idle"
    /\ "tasks" \notin shutdown
    /\ sourceState' = "pop"
    /\ UNCHANGED <<readyToFill, readyToPresent, shutdown, frame, params, version,
                   sourceBuffer, sink>>

PopToFill ==
    /\ sourceState = "pop"
    /\ "fill" \notin shutdown
    /\ readyToFill # <<>>
    /\ sourceBuffer' = Head(readyToFill)
    /\ readyToFill' = Tail(readyToFill)
    /\ sourceState' = "fill"
    /\ UNCHANGED <<readyToPresent, shutdown, frame, params, version, sink>>

RenderToBuffer ==
    /\ sourceState = "fill"
    /\ frame' = [frame EXCEPT ![sourceBuffer] = [params |-> params, version |-> version]]
    /\ readyToPresent' = Append(readyToPresent, sourceBuffer)
    /\ sourceBuffer' = NoBuffer
    /\ sourceState' = "idle"
    /\ UNCHANGED <<readyToFill, shutdown, params, version, sink>>

\* Popping a task, or a buffer to fill, throws: the thread ends.
EndSource ==
    /\ \/ sourceState = "idle" /\ "tasks" \in shutdown
       \/ sourceState = "pop" /\ "fill" \in shutdown
    /\ sourceState' = "ended"
    /\ UNCHANGED <<readyToFill, readyToPresent, shutdown, frame, params, version,
                   sourceBuffer, sink>>

------------------------------------------------------------------------------
(* The sink: the render thread draws a buffer and presents what it drew.     *)

PopToPresent ==
    /\ sinkState = "pop"
    /\ "present" \notin shutdown
    /\ readyToPresent # <<>>
    /\ sinkBuffer' = Head(readyToPresent)
    /\ readyToPresent' = Tail(readyToPresent)
    /\ sinkState' = "draw"
    /\ UNCHANGED <<readyToFill, shutdown, frame, params, version, source,
                   bitmap, shown, lost, failures>>

\* A frame without pixels is consumed, and frees the graphics resources.
DrawBuffer ==
    /\ sinkState = "draw"
    /\ frame[sinkBuffer].params \notin RefusedParams
    /\ bitmap' = IF frame[sinkBuffer].params \in EmptyParams THEN 0
                 ELSE frame[sinkBuffer].version
    /\ readyToFill' = Append(readyToFill, sinkBuffer)
    /\ sinkBuffer' = NoBuffer
    /\ sinkState' = "present"
    /\ UNCHANGED <<readyToPresent, shutdown, frame, params, version, source,
                   shown, lost, failures>>

\* Faults: the frame is queued last; it is dropped; the thread ends.
KeepBufferLast ==
    /\ sinkState = "draw"
    /\ frame[sinkBuffer].params \notin EmptyParams
    /\ frame[sinkBuffer].params \notin RefusedParams => failures < MaxFailures
    /\ failures' = IF frame[sinkBuffer].params \in RefusedParams THEN failures
                   ELSE failures + 1
    /\ readyToPresent' = Append(readyToPresent, sinkBuffer)
    /\ sinkBuffer' = NoBuffer
    /\ bitmap' = 0
    /\ sinkState' = "pop"
    /\ UNCHANGED <<readyToFill, shutdown, frame, params, version, source, shown, lost>>
DropBuffer ==
    /\ sinkState = "draw"
    /\ failures < MaxFailures
    /\ failures' = failures + 1
    /\ sinkBuffer' = NoBuffer
    /\ bitmap' = 0
    /\ sinkState' = "pop"
    /\ UNCHANGED <<readyToFill, readyToPresent, shutdown, frame, params, version, source,
                   shown, lost>>
KeepBufferAndEnd ==
    /\ sinkState = "draw"
    /\ failures < MaxFailures
    /\ failures' = failures + 1
    /\ readyToPresent' = <<sinkBuffer>> \o readyToPresent
    /\ sinkBuffer' = NoBuffer
    /\ bitmap' = 0
    /\ sinkState' = "ended"
    /\ UNCHANGED <<readyToFill, shutdown, frame, params, version, source, shown, lost>>

\* The device is lost or there is none, or it refuses the size: the frame is kept
\* and drawn again, whatever was rendered since.
KeepBuffer ==
    /\ sinkState = "draw"
    /\ frame[sinkBuffer].params \notin EmptyParams
    /\ frame[sinkBuffer].params \notin RefusedParams => failures < MaxFailures
    /\ failures' = IF frame[sinkBuffer].params \in RefusedParams THEN failures
                   ELSE failures + 1
    /\ readyToPresent' = <<sinkBuffer>> \o readyToPresent
    /\ sinkBuffer' = NoBuffer
    /\ bitmap' = 0
    /\ sinkState' = "pop"
    /\ UNCHANGED <<readyToFill, shutdown, frame, params, version, source, shown, lost>>

\* Without a bitmap there is no swap chain, and nothing to present.
PresentFrame ==
    /\ sinkState = "present"
    /\ shown' = IF bitmap = 0 THEN shown ELSE bitmap
    /\ sinkState' = "pop"
    /\ UNCHANGED <<readyToFill, readyToPresent, shutdown, frame, params, version, source,
                   sinkBuffer, bitmap, lost, failures>>

\* The device is lost while presenting: the frame was consumed and is gone.
LoseFrame ==
    /\ sinkState = "present"
    /\ bitmap # 0
    /\ failures < MaxFailures
    /\ failures' = failures + 1
    /\ lost' = bitmap
    /\ bitmap' = 0
    /\ sinkState' = "pop"
    /\ UNCHANGED <<readyToFill, readyToPresent, shutdown, frame, params, version, source,
                   sinkBuffer, shown>>

EndSink ==
    /\ sinkState = "pop"
    /\ "present" \in shutdown
    /\ sinkState' = "ended"
    /\ UNCHANGED <<readyToFill, readyToPresent, shutdown, frame, params, version, source,
                   sinkBuffer, bitmap, shown, lost, failures>>

------------------------------------------------------------------------------
(* The window is destroyed, last member first: the source of the tasks, then *)
(* the control of the buffers, then it joins the threads.                    *)

Shutdown(queue) ==
    /\ queue \notin shutdown
    /\ shutdown' = shutdown \cup {queue}
    /\ UNCHANGED <<readyToFill, readyToPresent, frame, params, version, source, sink>>

ShutdownTasks == Shutdown("tasks")
ShutdownFill == "tasks" \in shutdown /\ Shutdown("fill")
\* Fault: the queue of the other thread is shut down twice.
ShutdownFillAgain == "fill" \in shutdown /\ Shutdown("fill")
ShutdownPresent == "fill" \in shutdown /\ Shutdown("present")

Source == PopToFill \/ RenderToBuffer \/ EndSource
Sink == PopToPresent \/ DrawBuffer \/ KeepBuffer \/ PresentFrame \/ LoseFrame \/ EndSink
Control == ShutdownFill \/ ShutdownPresent

Next ==
    \/ \E p \in Params : AskRepaint(p)
    \/ RepeatRepaint
    \/ PopToFill
    \/ RenderToBuffer
    \/ EndSource
    \/ PopToPresent
    \/ DrawBuffer
    \/ KeepBuffer
    \/ PresentFrame
    \/ LoseFrame
    \/ EndSink
    \/ ShutdownTasks
    \/ ShutdownFill
    \/ ShutdownPresent

Spec == Init /\ [][Next]_vars

\* Threads run; a destructor that has begun runs to its end.  Nothing makes a task
\* arrive or a window close.
FairSpec == Spec /\ WF_vars(Source) /\ WF_vars(Sink) /\ WF_vars(Control)

------------------------------------------------------------------------------
(* Properties.                                                               *)

TypeOK ==
    /\ readyToFill \in Seq(Buffers)
    /\ readyToPresent \in Seq(Buffers)
    /\ shutdown \subseteq {"tasks", "fill", "present"}
    /\ frame \in [Buffers -> Frames]
    /\ params \in Params
    /\ version \in Nat
    /\ sourceState \in {"idle", "pop", "fill", "ended"}
    /\ sourceBuffer \in Buffers \cup {NoBuffer}
    /\ sinkState \in {"pop", "draw", "present", "ended"}
    /\ sinkBuffer \in Buffers \cup {NoBuffer}
    /\ bitmap \in Nat
    /\ shown \in Nat
    /\ lost \in Nat
    /\ failures \in Nat

Distinct(queue) == \A i, j \in DOMAIN queue : queue[i] = queue[j] => i = j
Queued(queue, b) == \E i \in DOMAIN queue : queue[i] = b

\* No buffer has two owners: no two threads touch the same pixels.
SingleOwner ==
    /\ Distinct(readyToFill)
    /\ Distinct(readyToPresent)
    /\ \A b \in Buffers :
         /\ Queued(readyToFill, b) => ~Queued(readyToPresent, b)
         /\ b \in {sourceBuffer, sinkBuffer} => ~Queued(readyToFill, b)
         /\ b \in {sourceBuffer, sinkBuffer} => ~Queued(readyToPresent, b)
         /\ b = sourceBuffer => b # sinkBuffer

\* Every buffer has exactly one owner, whatever fails between two queues: a buffer
\* dropped on an error path would leave the source waiting for it for ever.
OneOwner ==
    /\ SingleOwner
    /\ \A b \in Buffers : \/ Queued(readyToFill, b) \/ Queued(readyToPresent, b)
                          \/ b = sourceBuffer \/ b = sinkBuffer

\* The window never goes back to an older frame, although frames are retried.
FramesInOrder == [][shown' >= shown]_vars

\* A frame that the device refuses is retried for ever before all others.
Blocked ==
    \/ sinkBuffer # NoBuffer /\ frame[sinkBuffer].params \in RefusedParams
    \/ readyToPresent # <<>> /\ frame[Head(readyToPresent)].params \in RefusedParams

\* What was repainted is shown, or something newer is, unless the window is empty or
\* closes, the frame was lost with the device, or a refused frame blocks the queue.
RepaintsShown ==
    \A v \in 1..MaxVersion :
        version = v ~> \/ shown >= v
                       \/ lost >= v
                       \/ params \in EmptyParams
                       \/ Blocked
                       \/ "tasks" \in shutdown

\* Both threads end once the window is destroyed, whatever they are waiting for: its
\* destructor joins them.
ThreadsEnd ==
    "tasks" \in shutdown ~> sourceState = "ended" /\ sinkState = "ended"

------------------------------------------------------------------------------
(* What makes the invariants inductive, and the frames ascend.               *)

Version(i) == frame[readyToPresent[i]].version

\* A thread holds a buffer exactly where the code between two queues runs.
Held ==
    /\ sourceBuffer \in Buffers <=> sourceState = "fill"
    /\ sinkBuffer \in Buffers <=> sinkState = "draw"

\* The frames grow older from the end of the queue to the window.
Ascending ==
    /\ shown <= version
    /\ bitmap <= version
    /\ bitmap # 0 => shown <= bitmap
    /\ \A i, j \in DOMAIN readyToPresent : i <= j => Version(i) <= Version(j)
    /\ \A i \in DOMAIN readyToPresent : /\ Version(i) <= version
                                        /\ shown <= Version(i)
                                        /\ bitmap <= Version(i)
    /\ sinkBuffer \in Buffers =>
         /\ frame[sinkBuffer].version <= version
         /\ shown <= frame[sinkBuffer].version
         /\ bitmap <= frame[sinkBuffer].version
         /\ \A i \in DOMAIN readyToPresent : frame[sinkBuffer].version <= Version(i)

IInv == TypeOK /\ OneOwner /\ Held /\ Ascending
==============================================================================
