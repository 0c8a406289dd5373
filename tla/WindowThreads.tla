---------------------------- MODULE WindowThreads ----------------------------
(***************************************************************************)
(* The window and the backend thread of the WinUI application:             *)
(* MainWindow.xaml.cpp and backend_thread.cpp.                             *)
(*                                                                         *)
(* The window turns events into tasks for the backend thread, which owns   *)
(* the circuit (FileDialogs).  The backend sends messages to the window's  *)
(* dispatcher queue; when it asks something it waits for the answer, while *)
(* the window goes on.  What the backend renders is the subject of         *)
(* RenderBuffers.                                                          *)
(***************************************************************************)
EXTENDS FileDialogs, Sequences

CONSTANTS
    InitialDisk,    \* the files before the program starts
    InputKinds,     \* tasks that are no file actions: moves, presses, keys, ...
    CombinedKinds,  \* those of which several in a row become one
    EditKinds,      \* those that may change the circuit
    MaxTasks        \* bound: how many tasks there are

ASSUME WindowAssumption ==
    /\ CombinedKinds \cup EditKinds \subseteq InputKinds
    /\ InputKinds \cap Actions = {}
    /\ MaxTasks \in Nat
    /\ InitialDisk \in [Files -> Circuits \cup {"absent", "torn"}]

VARIABLES
    tasks,      \* the queue of the backend thread
    pushed,     \* history variable: how many tasks were pushed
    messages,   \* the dispatcher queue of the window
    window,     \* [modal, destroyed, dialog]: what the window shows
    backend,    \* where the backend thread is
    first,      \* the tasks it has popped, or NoTask
    second,
    handled,    \* history variable: how many tasks it has finished
    answer,     \* the promise it waits for
    session,    \* its circuit
    discarded   \* history variable: the user gave up the circuit in this request

vars == <<tasks, pushed, messages, window, backend, first, second, handled, answer,
          session, discarded>>
gui == <<tasks, pushed, window>>
own == <<backend, first, second, handled, session, discarded>>

NoTask == [kind |-> None, file |-> None, from |-> 0, to |-> 0, of |-> {}]

\* A task knows which pushed tasks it stands for.
Task(kind, file, n) == [kind |-> kind, file |-> file, from |-> n, to |-> n, of |-> {kind}]

\* The command line may name a file to open.
Init ==
    /\ \/ tasks = <<>>
       \/ \E f \in Files : tasks = <<Task("open_file", f, 1)>>
    /\ pushed = Len(tasks)
    /\ messages = <<>>
    /\ window = [modal |-> tasks # <<>>, destroyed |-> FALSE, dialog |-> None]
    /\ backend = "pop"
    /\ first = NoTask
    /\ second = NoTask
    /\ handled = 0
    /\ answer = None
    /\ session = NewSession(InitialDisk)
    /\ discarded = FALSE

------------------------------------------------------------------------------
(* The window.                                                               *)

Push(kind, file) ==
    /\ pushed < MaxTasks
    /\ ~window.destroyed
    /\ tasks' = Append(tasks, Task(kind, file, pushed + 1))
    /\ pushed' = pushed + 1
    /\ UNCHANGED <<messages, answer, own>>

\* Only the disabled content of a modal window keeps these away: the code that pushes
\* them does not look.
Input(kind) == Push(kind, None) /\ UNCHANGED window
LoadExample == Push("load_example", None) /\ UNCHANGED window

\* Also the close button asks the backend to exit.
Command(action) ==
    /\ ~window.modal
    /\ Push(action, None)
    /\ window' = [window EXCEPT !.modal = TRUE]

DropFile(file) ==
    /\ ~window.modal
    /\ Push("open_file", file)
    /\ window' = [window EXCEPT !.modal = TRUE]

ReceiveMessage ==
    /\ messages # <<>>
    /\ ~window.destroyed
    /\ messages' = Tail(messages)

\* Fault: commands are trusted to have made the window modal.
ShowDialogOnly ==
    /\ ReceiveMessage
    /\ Head(messages) \in Requests \cup Errors
    /\ window' = [window EXCEPT !.dialog = Head(messages)]
    /\ UNCHANGED <<tasks, pushed, answer, own>>
ShowDialog ==
    /\ ReceiveMessage
    /\ Head(messages) \in Requests \cup Errors
    /\ window' = [window EXCEPT !.dialog = Head(messages), !.modal = TRUE]
    /\ UNCHANGED <<tasks, pushed, answer, own>>

EndModalState ==
    /\ ReceiveMessage
    /\ Head(messages) = "end_modal"
    /\ window' = [window EXCEPT !.modal = FALSE]
    /\ UNCHANGED <<tasks, pushed, answer, own>>

ExitApplication ==
    /\ ReceiveMessage
    /\ Head(messages) = "exit"
    /\ window' = [window EXCEPT !.destroyed = TRUE]
    /\ UNCHANGED <<tasks, pushed, answer, own>>

AnswerDialog ==
    /\ window.dialog # None
    /\ answer' \in IF window.dialog \in Requests THEN Answers(window.dialog) ELSE {"ok"}
    /\ window' = [window EXCEPT !.dialog = None]
    /\ UNCHANGED <<tasks, pushed, messages, own>>

------------------------------------------------------------------------------
(* The backend thread pops two tasks to combine them, then handles the first. *)

PopFirst ==
    /\ backend = "pop"
    /\ tasks # <<>>
    /\ first' = Head(tasks)
    /\ tasks' = Tail(tasks)
    /\ backend' = "peek"
    /\ UNCHANGED <<pushed, messages, window, second, handled, answer, session, discarded>>

Combinable(a, b) == a.kind = b.kind /\ a.kind \in CombinedKinds

\* The newest move or size stays; wheel events are added.
CombineTasks ==
    /\ backend = "peek"
    /\ tasks # <<>>
    /\ Combinable(first, Head(tasks))
    /\ first' = [Head(tasks) EXCEPT !.from = first.from, !.of = @ \cup first.of]
    /\ tasks' = Tail(tasks)
    /\ UNCHANGED <<pushed, messages, window, backend, second, handled, answer, session,
                   discarded>>

PopSecond ==
    /\ backend = "peek"
    /\ \/ tasks = <<>> /\ UNCHANGED <<second, tasks>>
       \/ /\ tasks # <<>>
          /\ ~Combinable(first, Head(tasks))
          /\ second' = Head(tasks)
          /\ tasks' = Tail(tasks)
    /\ backend' = "handle"
    /\ UNCHANGED <<pushed, messages, window, first, handled, answer, session, discarded>>

\* Fault: the second task is forgotten.
TaskDoneNext ==
    /\ handled' = first.to
    /\ first' = NoTask
    /\ second' = NoTask
    /\ backend' = "pop"
TaskDone ==
    /\ handled' = first.to
    /\ first' = second
    /\ second' = NoTask
    /\ backend' = IF second = NoTask THEN "pop" ELSE "peek"

HandleInput ==
    /\ backend = "handle"
    /\ first.kind \in InputKinds
    /\ IF first.kind \in EditKinds
       THEN \E c \in Edited : session' = Edit(session, c)
       ELSE UNCHANGED session
    /\ TaskDone
    /\ UNCHANGED <<gui, messages, answer, discarded>>

HandleFileAction ==
    /\ backend = "handle"
    /\ first.kind \in Actions
    /\ \E outcome \in Outcomes : session' = FileAction(session, first.kind, outcome)
    /\ discarded' = FALSE
    /\ backend' = "step"
    /\ UNCHANGED <<gui, messages, first, second, handled, answer>>

IsDropped == session.step = "open_file" /\ first.file \in Files

Send(message) == messages' = Append(messages, message)

AskUser ==
    /\ backend = "step"
    /\ session.step \in Requests \cup Errors
    /\ ~IsDropped
    /\ Send(session.step)
    /\ backend' = "wait"
    /\ UNCHANGED <<gui, first, second, handled, answer, session, discarded>>

\* The name of a dropped file answers the question for it.
OpenDropped ==
    /\ backend = "step"
    /\ IsDropped
    /\ \E outcome \in Outcomes :
         session' = SubmitModalResult(session, first.file, outcome)
    /\ UNCHANGED <<gui, messages, backend, first, second, handled, answer, discarded>>

Answered ==
    /\ backend = "wait"
    /\ answer # None
    /\ session.step \in Requests
    /\ \E outcome \in Outcomes : session' = SubmitModalResult(session, answer, outcome)
    /\ discarded' = (discarded \/ answer = "no")
    /\ answer' = None
    /\ backend' = "step"
    /\ UNCHANGED <<gui, messages, first, second, handled>>

\* Fault: the task ends with its error message.
ErrorReadAndDone ==
    /\ backend = "wait"
    /\ answer # None
    /\ session.step \in Errors
    /\ session' = [session EXCEPT !.step = None]
    /\ answer' = None
    /\ TaskDone
    /\ UNCHANGED <<gui, messages, discarded>>
ErrorRead ==
    /\ backend = "wait"
    /\ answer # None
    /\ session.step \in Errors
    /\ session' = [session EXCEPT !.step = None]
    /\ answer' = None
    /\ backend' = "step"
    /\ UNCHANGED <<gui, messages, first, second, handled, discarded>>

EndRequest ==
    /\ backend = "step"
    /\ session.step = None
    /\ Send("end_modal")
    /\ TaskDone
    /\ UNCHANGED <<gui, answer, session, discarded>>

ExitRequest ==
    /\ backend = "step"
    /\ session.step = "exit"
    /\ Send("exit")
    /\ backend' = "ended"
    /\ UNCHANGED <<gui, first, second, handled, answer, session, discarded>>

Window == ShowDialog \/ EndModalState \/ ExitApplication
Backend ==
    \/ PopFirst \/ CombineTasks \/ PopSecond \/ HandleInput \/ HandleFileAction
    \/ AskUser \/ OpenDropped \/ Answered \/ ErrorRead \/ EndRequest \/ ExitRequest

Next ==
    \/ \E kind \in InputKinds : Input(kind)
    \/ LoadExample
    \/ \E action \in Actions \ {"load_example"} : Command(action)
    \/ \E f \in Files : DropFile(f)
    \/ ShowDialog
    \/ EndModalState
    \/ ExitApplication
    \/ AnswerDialog
    \/ PopFirst
    \/ CombineTasks
    \/ PopSecond
    \/ HandleInput
    \/ HandleFileAction
    \/ AskUser
    \/ OpenDropped
    \/ Answered
    \/ ErrorRead
    \/ EndRequest
    \/ ExitRequest

Spec == Init /\ [][Next]_vars

\* The thread and the dispatcher run; nothing makes the user answer.
FairSpec == Spec /\ WF_vars(Window) /\ WF_vars(Backend)

------------------------------------------------------------------------------
(* Properties.                                                               *)

\* No task is lost, handled twice or overtaken between the queue and the two tasks that
\* the loop holds, and one task stands for several only if they are of one kind.
EventsInOrder ==
    LET held == IF first = NoTask THEN <<>>
                ELSE IF second = NoTask THEN <<first>> ELSE <<first, second>>
        pending == held \o tasks
        before(i) == IF i = 1 THEN handled ELSE pending[i - 1].to
    IN  /\ \A i \in DOMAIN pending :
             /\ pending[i].from = before(i) + 1
             /\ pending[i].from < pending[i].to =>
                  pending[i].of = {pending[i].kind} /\ pending[i].kind \in CombinedKinds
        /\ pushed = before(Len(pending) + 1)

\* A dialog is shown alone and over a window that takes no commands, although a request
\* that left the window enabled may be waiting before one that disabled it.
DialogIsModal ==
    /\ window.dialog # None => window.modal
    /\ window.dialog # None /\ messages # <<>> =>
         Head(messages) \notin Requests \cup Errors

\* The backend never uses the model in a modal state that forbids it, which throws and
\* terminates the application, and is modal exactly while it waits for an answer.
NeverThrows ==
    /\ ~session.threw
    /\ session.request # None <=> backend \in {"step", "wait"} /\ session.step \in Requests

\* Whenever another circuit is loaded, or the window closed, the circuit that goes is in
\* a file, or was never edited, or was given up by the user in this request, or the user
\* was told that its file could not be saved.
Kept(s, circuit, file) ==
    \/ \E f \in Files : s.disk[f] = circuit
    \/ circuit \in {NewCircuit, Example}
    \/ file \in s.failed

CircuitNeverLost ==
    [][ \/ session'.circuit # session.circuit /\ ~HandleInput
        \/ window'.destroyed # window.destroyed
        => discarded' \/ Kept(session', session.circuit, session.file) ]_vars

\* A window that takes no commands shows a dialog or takes commands again in the end,
\* unless it closes: no request leaves it disabled for ever.
CommandEnds ==
    window.modal ~> ~window.modal \/ window.dialog # None \/ window.destroyed
==============================================================================
