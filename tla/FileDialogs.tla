----------------------------- MODULE FileDialogs -----------------------------
(***************************************************************************)
(* New, open, save, save as, exit and the examples: the part of            *)
(* CircuitUIModel that decides which dialog comes next, loads and saves    *)
(* (file_action and submit_modal_result of circuit_ui_model.cpp), and the  *)
(* files it writes (file.cpp).                                             *)
(*                                                                         *)
(* A session is a record.  Circuits are compared and never looked into, so *)
(* they are members of a set.  Every operator returns the session that the *)
(* function of this name leaves; next_step, which the code returns, and    *)
(* current_action are fields of it.                                        *)
(***************************************************************************)
EXTENDS Naturals

CONSTANTS
    Circuits,      \* what a user may draw
    NewCircuit,    \* the empty one, and that of an example
    Example,
    Files,         \* names of files
    Edited         \* circuits are edited to these

ASSUME FileAssumption ==
    /\ {NewCircuit, Example} \cup Edited \subseteq Circuits
    /\ "absent" \notin Circuits /\ "torn" \notin Circuits
    /\ Files \cap {"unsaved", "none", "yes", "no", "cancel"} = {}

Unsaved == "unsaved"
None == "none"
Requests == {"save_current", "open_file", "save_file"}
Errors == {"open_error", "save_error"}
Actions == {"new_file", "open_file", "save_file", "save_as_file",
            "exit_application", "load_example"}
NoAction == [action |-> None, file |-> Unsaved]

NewSession(disk) ==
    [circuit    |-> NewCircuit,
     file       |-> Unsaved,      \* save_information: the name
     serialized |-> NewCircuit,   \* save_information: the content
     request    |-> None,         \* modal_: what is asked
     action     |-> None,         \* modal_: for which action
     step       |-> None,         \* a request, an error, or "exit"
     current    |-> NoAction,
     disk       |-> disk,         \* of every file a circuit, "absent" or "torn"
     failed     |-> {},           \* history variable: files reported as not saved
     threw      |-> FALSE]

IsModified(s) == s.circuit # s.serialized

\* Fault: the examples are forgotten.
RequiresSavePromptNoExample(action) ==
    action \in {"new_file", "open_file", "exit_application"}
RequiresSavePrompt(action) == action \notin {"save_file", "save_as_file"}

\* What a user does to the circuit throws while a dialog is open.
Edit(s, circuit) ==
    IF s.request # None THEN [s EXCEPT !.threw = TRUE]
    ELSE [s EXCEPT !.circuit = circuit]

\* Loading sets configurations, which throws while a dialog is open.
Load(s, circuit, file) ==
    IF s.request # None THEN [s EXCEPT !.threw = TRUE]
    ELSE [s EXCEPT !.circuit = circuit, !.serialized = circuit, !.file = file]

\* The circuit is cleared to save memory, and restored if the file is not valid.
OpenFromFile(s, file) ==
    IF s.disk[file] \in Circuits THEN Load(s, s.disk[file], file)
    ELSE [s EXCEPT !.step = "open_error"]

\* A file that can be opened is truncated before the circuit is written to it.
Outcomes == {"written", "not_opened", "torn"}
SaveToFile(s, file, outcome) ==
    CASE outcome = "written" ->
           [s EXCEPT !.disk[file] = s.circuit, !.failed = @ \ {file},
                     !.file = file, !.serialized = s.circuit]
      [] outcome = "not_opened" -> [s EXCEPT !.step = "save_error"]
      [] outcome = "torn" ->
           [s EXCEPT !.disk[file] = "torn", !.failed = @ \cup {file},
                     !.step = "save_error"]

NextModalAction(s, action) ==
    CASE s.step # None -> s
      [] s.step = None /\ action = "open_file" -> [s EXCEPT !.step = "open_file"]
      [] s.step = None /\ action = "exit_application" -> [s EXCEPT !.step = "exit"]
      [] s.step = None /\ \/ action = "save_as_file"
                          \/ action = "save_file" /\ s.file = Unsaved ->
           [s EXCEPT !.step = "save_file"]
      [] s.step = None /\ action = "save_file" /\ s.file # Unsaved ->
           [s EXCEPT !.current = [action |-> action, file |-> s.file]]
      [] s.step = None /\ action \in {"new_file", "load_example"} ->
           [s EXCEPT !.current = [action |-> action, file |-> Unsaved]]

\* An error of the action before prevents this one.
DoModalAction(s, outcome) ==
    LET done == [s EXCEPT !.current = NoAction]
        action == s.current.action
        file == s.current.file
    IN  CASE s.current = NoAction \/ s.step \in Errors -> done
          [] s.step \notin Errors /\ action = "new_file" ->
               Load(done, NewCircuit, Unsaved)
          [] s.step \notin Errors /\ action = "load_example" ->
               Load(done, Example, Unsaved)
          [] s.step \notin Errors /\ action = "open_file" -> OpenFromFile(done, file)
          [] s.step \notin Errors /\ action = "save_file" ->
               SaveToFile(done, file, outcome)

FileAction(session, action, outcome) ==
    LET s == [session EXCEPT !.step = None]
        asked == IF RequiresSavePrompt(action) /\ IsModified(s)
                 THEN [s EXCEPT !.step = "save_current"] ELSE s
        next == NextModalAction(asked, action)
        modal == IF next.step \in Requests
                 THEN [next EXCEPT !.request = next.step, !.action = action] ELSE next
    IN  IF s.request # None THEN [s EXCEPT !.threw = TRUE]
        ELSE DoModalAction(modal, outcome)

\* What an answer leads to: "yes", "no", "cancel" or a file.
AfterAnswer(session, answer, outcome) ==
    LET s == [session EXCEPT !.step = None]
        saveTo == [s EXCEPT !.current = [action |-> "save_file", file |-> answer]]
        saveCurrent == NextModalAction(s, "save_file")
    IN  CASE answer = "cancel" -> s
          [] answer = "no" -> NextModalAction(s, s.action)
          [] answer = "yes" -> NextModalAction(DoModalAction(saveCurrent, outcome), s.action)
          [] answer \in Files /\ s.request = "open_file" ->
               [s EXCEPT !.current = [action |-> s.action, file |-> answer]]
          [] answer \in Files /\ s.request = "save_file" ->
               IF RequiresSavePrompt(s.action)
               THEN NextModalAction(DoModalAction(saveTo, outcome), s.action)
               ELSE saveTo

CloseModal(s) ==
    IF s.step \in Requests THEN [s EXCEPT !.request = s.step]
    ELSE [s EXCEPT !.request = None, !.action = None]

Answers(request) ==
    CASE request = "save_current" -> {"yes", "no", "cancel"}
      [] request \in {"open_file", "save_file"} -> Files \cup {"cancel"}

\* Fault: the action runs before the model has left its modal state.
SubmitModalResultModal(session, answer, outcome) ==
    IF session.request = None THEN [session EXCEPT !.threw = TRUE]
    ELSE CloseModal(DoModalAction(AfterAnswer(session, answer, outcome), outcome))
SubmitModalResult(session, answer, outcome) ==
    IF session.request = None THEN [session EXCEPT !.threw = TRUE]
    ELSE DoModalAction(CloseModal(AfterAnswer(session, answer, outcome)), outcome)
==============================================================================
