----------------------------- MODULE WindowProofs -----------------------------
(***************************************************************************)
(* The safety properties of the window and the backend thread, for any     *)
(* files, circuits and numbers of tasks.                                   *)
(*                                                                         *)
(* First what single operations of FileDialogs leave.  Then three          *)
(* invariants, one per thing that the two threads share, that hold         *)
(* together: the tasks that are on their way (QueueInv), the circuit and   *)
(* its dialogs (SessionInv), and the messages between the two              *)
(* (MessageInv).                                                           *)
(***************************************************************************)
EXTENDS WindowThreads, SequenceTheorems, TLAPS

-----------------------------------------------------------------------------
(***************************************************************************)
(* What file_action and submit_modal_result leave: they do not throw, they *)
(* ask again or are done, and the circuit that is replaced is kept unless  *)
(* the user gave it up.                                                    *)
(***************************************************************************)

Names == Files \cup {Unsaved}
Session ==
    [circuit    : Circuits,
     file       : Names,
     serialized : Circuits,
     request    : Requests \cup {None},
     action     : Actions \cup {None},
     step       : Requests \cup Errors \cup {None, "exit"},
     current    : [action : Actions \cup {None}, file : Names],
     disk       : [Files -> Circuits \cup {"absent", "torn"}],
     failed     : SUBSET Files,
     threw      : BOOLEAN]

\* The content of save_information is in its file, or was never edited, or the user was
\* told that it could not be saved.
Safe(s) ==
    IF s.file \in Files THEN s.disk[s.file] = s.serialized \/ s.file \in s.failed
                        ELSE s.serialized \in {NewCircuit, Example}

Sound(s) == s \in Session /\ ~s.threw /\ Safe(s)

\* The circuit s.circuit can be replaced.
Spare(s) == ~IsModified(s)
IsKept(s, circuit, file) ==
    \/ \E f \in Files : s.disk[f] = circuit
    \/ circuit \in {NewCircuit, Example}
    \/ file \in s.failed

\* What an operation may leave: nothing to do, and a request that knows its action.
Asks(s) ==
    /\ s.current = NoAction
    /\ s.request # None <=> s.step \in Requests
    /\ s.request # None => s.request = s.step /\ s.action \in Actions
    /\ s.request = "open_file" => s.action = "open_file"

\* A circuit that is as it was saved is kept.
LEMMA SpareIsKept ==
    ASSUME NEW s, Sound(s), Spare(s)
    PROVE  IsKept(s, s.circuit, s.file)
  BY DEF Sound, Safe, Spare, IsModified, IsKept, Session, Names, Unsaved

\* Load replaces the circuit, and leaves one that is as it was saved.
LEMMA LoadIsSound ==
    ASSUME NEW s, Sound(s), s.request = None,
           NEW c \in Circuits, NEW f \in Names,
           f \in Files => s.disk[f] = c,
           f = Unsaved => c \in {NewCircuit, Example}
    PROVE  LET t == Load(s, c, f)
           IN  /\ Sound(t) /\ Spare(t)
               /\ t.request = s.request /\ t.action = s.action /\ t.step = s.step
               /\ t.current = s.current /\ t.disk = s.disk /\ t.failed = s.failed
<1> DEFINE t == Load(s, c, f)
<1>1. t = [s EXCEPT !.circuit = c, !.serialized = c, !.file = f]
  BY DEF Load
<1>2. s \in Session
  BY DEF Sound
<1>3. t \in Session
  BY <1>1, <1>2 DEF Session
<1>4. /\ t.circuit = c /\ t.serialized = c /\ t.file = f
      /\ t.request = s.request /\ t.action = s.action /\ t.step = s.step
      /\ t.current = s.current /\ t.disk = s.disk /\ t.failed = s.failed
      /\ t.threw = s.threw
  BY <1>1, <1>2 DEF Session
<1>5. Safe(t)
  BY <1>4 DEF Safe, Names, Unsaved
<1> QED
  BY <1>3, <1>4, <1>5 DEF Sound, Spare, IsModified

\* Saving keeps the circuit in its file, or reports the failure.
LEMMA SaveIsSound ==
    ASSUME NEW s, Sound(s), NEW f \in Files, NEW outcome \in Outcomes
    PROVE  LET t == SaveToFile(s, f, outcome)
           IN  /\ Sound(t)
               /\ t.circuit = s.circuit
               /\ t.request = s.request /\ t.action = s.action
               /\ t.current = s.current
               /\ t.step \in {s.step, "save_error"}
               /\ Spare(t) => IsKept(t, s.circuit, s.file)
               /\ outcome = "written" => Spare(t)
               /\ outcome # "written" => t.step = "save_error"
<1> DEFINE t == SaveToFile(s, f, outcome)
<1>1. s \in Session /\ ~s.threw /\ Safe(s)
  BY DEF Sound
<1>2. CASE outcome = "written"
  <2>1. t = [s EXCEPT !.disk[f] = s.circuit, !.failed = @ \ {f},
                      !.file = f, !.serialized = s.circuit]
    BY <1>2 DEF SaveToFile
  <2>2. /\ t.circuit = s.circuit /\ t.serialized = s.circuit /\ t.file = f
        /\ t.request = s.request /\ t.action = s.action /\ t.step = s.step
        /\ t.current = s.current /\ t.threw = s.threw
        /\ t.disk = [s.disk EXCEPT ![f] = s.circuit]
    BY <2>1, <1>1 DEF Session
  <2>3. t \in Session
    <3>1. s.disk \in [Files -> Circuits \cup {"absent", "torn"}] /\ s.circuit \in Circuits
      BY <1>1 DEF Session
    <3>2. [s.disk EXCEPT ![f] = s.circuit] \in [Files -> Circuits \cup {"absent", "torn"}]
      BY <3>1
    <3>3. s.failed \ {f} \in SUBSET Files /\ f \in Names
      BY <1>1 DEF Session, Names
    <3> QED
      BY <2>1, <1>1, <3>1, <3>2, <3>3 DEF Session
  <2>4. t.disk[f] = s.circuit
    BY <2>2, <1>1 DEF Session
  <2> QED
    BY <1>1, <1>2, <2>2, <2>3, <2>4 DEF Sound, Safe, Spare, IsModified, IsKept
<1>3. CASE outcome = "not_opened"
  <2>1. t = [s EXCEPT !.step = "save_error"]
    BY <1>3 DEF SaveToFile
  <2>2. /\ Sound(t) /\ t.circuit = s.circuit /\ t.file = s.file
        /\ t.request = s.request /\ t.action = s.action /\ t.current = s.current
        /\ t.step = "save_error"
    BY <1>1, <1>3, <2>1 DEF Sound, Safe, Session, Errors
  <2> QED
    BY <1>3, <2>2, SpareIsKept
<1>4. CASE outcome = "torn"
  <2>1. t = [s EXCEPT !.disk[f] = "torn", !.failed = @ \cup {f},
                      !.step = "save_error"]
    BY <1>4 DEF SaveToFile
  <2>2. /\ t.circuit = s.circuit /\ t.serialized = s.serialized /\ t.file = s.file
        /\ t.request = s.request /\ t.action = s.action /\ t.step = "save_error"
        /\ t.current = s.current /\ t.threw = s.threw
        /\ t.disk = [s.disk EXCEPT ![f] = "torn"] /\ t.failed = s.failed \cup {f}
    BY <2>1, <1>1 DEF Session
  <2>3. t \in Session
    <3>1. s.disk \in [Files -> Circuits \cup {"absent", "torn"}] /\ s.failed \in SUBSET Files
      BY <1>1 DEF Session
    <3>2. /\ [s.disk EXCEPT ![f] = "torn"] \in [Files -> Circuits \cup {"absent", "torn"}]
          /\ s.failed \cup {f} \in SUBSET Files
      BY <3>1
    <3> QED
      BY <2>1, <1>1, <3>2 DEF Session, Errors
  <2>4. Safe(t)
    BY <1>1, <2>2 DEF Safe, Session
  <2>5. Sound(t)
    BY <1>1, <2>2, <2>3, <2>4 DEF Sound
  <2> QED
    BY <1>4, <2>2, <2>5, SpareIsKept
<1> QED
  BY <1>2, <1>3, <1>4 DEF Outcomes

------------------------------------------------------------------------------
\* What an action may be left to do by the decision on it.
PlannedActions(s) ==
    {NoAction}
    \cup {[action |-> a, file |-> f] : a \in {"save_file", "open_file"}, f \in Files}
    \cup {[action |-> a, file |-> Unsaved] : a \in {"new_file", "load_example"}}

SameFiles(s, t) ==
    /\ t.circuit = s.circuit /\ t.file = s.file /\ t.serialized = s.serialized
    /\ t.disk = s.disk /\ t.failed = s.failed

\* The next action asks, ends, or is planned, and does nothing yet.
LEMMA NextActionIsSound ==
    ASSUME NEW s, Sound(s), s.current = NoAction, NEW action \in Actions
    PROVE  LET t == NextModalAction(s, action)
           IN  /\ Sound(t) /\ SameFiles(s, t)
               /\ t.request = s.request /\ t.action = s.action
               /\ \/ t = s /\ s.step # None
                  \/ /\ s.step = None /\ t.current = NoAction
                     /\ \/ t.step = "open_file" /\ action = "open_file"
                        \/ t.step = "exit" /\ action = "exit_application"
                        \/ t.step = "save_file" /\ action \in {"save_file", "save_as_file"}
                  \/ /\ s.step = None /\ t.step = None
                     /\ t.current \in PlannedActions(s) \ {NoAction}
                     /\ t.current.action = action
                     /\ action \in {"save_file", "new_file", "load_example"}
<1> DEFINE t == NextModalAction(s, action)
<1>1. s \in Session /\ ~s.threw /\ Safe(s)
  BY DEF Sound
<1>0. \/ action = "open_file"
      \/ action = "exit_application"
      \/ action = "save_as_file" \/ (action = "save_file" /\ s.file = Unsaved)
      \/ action = "save_file" /\ s.file # Unsaved
      \/ action \in {"new_file", "load_example"}
  BY DEF Actions
<1>2. CASE s.step # None
  <2>1. t = s
    BY <1>2 DEF NextModalAction
  <2> QED
    BY <1>2, <2>1 DEF SameFiles
<1>3. CASE s.step = None /\ \E step \in {"open_file", "exit", "save_file"} :
                              t = [s EXCEPT !.step = step]
  <2>1. PICK step \in {"open_file", "exit", "save_file"} : t = [s EXCEPT !.step = step]
    BY <1>3
  <2>2. /\ SameFiles(s, t) /\ t.request = s.request /\ t.action = s.action
        /\ t.current = s.current /\ t.threw = s.threw /\ t.step = step
    BY <1>1, <2>1 DEF Session, SameFiles
  <2>3. t \in Session
    BY <1>1, <2>1 DEF Session, Requests
  <2>4. Sound(t)
    BY <1>1, <2>2, <2>3 DEF Sound, Safe, SameFiles
  <2>5. \/ t.step = "open_file" /\ action = "open_file"
        \/ t.step = "exit" /\ action = "exit_application"
        \/ t.step = "save_file" /\ action \in {"save_file", "save_as_file"}
    <3>1. CASE action = "open_file"
      BY <1>1, <1>3, <3>1 DEF NextModalAction, None, Session
    <3>2. CASE action = "exit_application"
      BY <1>1, <1>3, <3>2 DEF NextModalAction, None, Session
    <3>3. CASE action = "save_as_file" \/ (action = "save_file" /\ s.file = Unsaved)
      BY <1>1, <1>3, <3>3 DEF NextModalAction, None, Session
    <3>4. CASE action = "save_file" /\ s.file # Unsaved
      <4>1. t = [s EXCEPT !.current = [action |-> action, file |-> s.file]]
        BY <1>3, <3>4 DEF NextModalAction
      <4>2. t.step = s.step
        BY <1>1, <4>1 DEF Session
      <4> QED
        BY <1>3, <2>2, <4>2 DEF None
    <3>5. CASE action \in {"new_file", "load_example"}
      <4>1. t = [s EXCEPT !.current = [action |-> action, file |-> Unsaved]]
        BY <1>3, <3>5 DEF NextModalAction
      <4>2. t.step = s.step
        BY <1>1, <4>1 DEF Session
      <4> QED
        BY <1>3, <2>2, <4>2 DEF None
    <3> QED
      BY <1>0, <3>1, <3>2, <3>3, <3>4, <3>5
  <2> QED
    BY <1>3, <2>2, <2>4, <2>5
<1>4. CASE s.step = None /\ \E f \in Names :
                              /\ t = [s EXCEPT !.current = [action |-> action, file |-> f]]
                              /\ \/ action = "save_file" /\ f \in Files
                                 \/ action \in {"new_file", "load_example"} /\ f = Unsaved
  <2>1. PICK f \in Names : /\ t = [s EXCEPT !.current = [action |-> action, file |-> f]]
                           /\ \/ action = "save_file" /\ f \in Files
                              \/ action \in {"new_file", "load_example"} /\ f = Unsaved
    BY <1>4
  <2>2. /\ SameFiles(s, t) /\ t.request = s.request /\ t.action = s.action
        /\ t.current = [action |-> action, file |-> f] /\ t.threw = s.threw
        /\ t.step = None
    BY <1>1, <1>4, <2>1 DEF Session, SameFiles
  <2>3. t \in Session
    BY <1>1, <2>1 DEF Session
  <2>4. Sound(t)
    BY <1>1, <2>2, <2>3 DEF Sound, Safe, SameFiles
  <2>5. t.current # NoAction
    BY <2>1, <2>2 DEF NoAction, None
  <2>6. t.current \in PlannedActions(s)
    BY <2>1, <2>2 DEF PlannedActions
  <2> QED
    BY <1>4, <2>1, <2>2, <2>4, <2>5, <2>6
<1>5. s.step = None => \/ \E step \in {"open_file", "exit", "save_file"} :
                             t = [s EXCEPT !.step = step]
                       \/ \E f \in Names :
                             /\ t = [s EXCEPT !.current = [action |-> action, file |-> f]]
                             /\ \/ action = "save_file" /\ f \in Files
                                \/ action \in {"new_file", "load_example"} /\ f = Unsaved
  <2>1. SUFFICES ASSUME s.step = None
                 PROVE  \/ \E step \in {"open_file", "exit", "save_file"} :
                             t = [s EXCEPT !.step = step]
                        \/ \E f \in Names :
                             /\ t = [s EXCEPT !.current = [action |-> action, file |-> f]]
                             /\ \/ action = "save_file" /\ f \in Files
                                \/ action \in {"new_file", "load_example"} /\ f = Unsaved
    OBVIOUS
  <2>2. CASE action = "open_file"
    <3>1. t = [s EXCEPT !.step = "open_file"]
      BY <2>1, <2>2 DEF NextModalAction
    <3> QED BY <3>1
  <2>3. CASE action = "exit_application"
    <3>1. t = [s EXCEPT !.step = "exit"]
      BY <2>1, <2>3 DEF NextModalAction
    <3> QED BY <3>1
  <2>4. CASE action = "save_as_file" \/ (action = "save_file" /\ s.file = Unsaved)
    <3>1. t = [s EXCEPT !.step = "save_file"]
      BY <2>1, <2>4 DEF NextModalAction
    <3> QED BY <3>1
  <2>5. CASE action = "save_file" /\ s.file # Unsaved
    <3>1. t = [s EXCEPT !.current = [action |-> action, file |-> s.file]]
      BY <2>1, <2>5 DEF NextModalAction
    <3>2. s.file \in Files /\ s.file \in Names
      BY <1>1, <2>5 DEF Session, Names
    <3> QED BY <2>5, <3>1, <3>2
  <2>6. CASE action \in {"new_file", "load_example"}
    <3>1. t = [s EXCEPT !.current = [action |-> action, file |-> Unsaved]]
      BY <2>1, <2>6 DEF NextModalAction
    <3> QED BY <2>6, <3>1 DEF Names
  <2> QED
    BY <1>0, <2>2, <2>3, <2>4, <2>5, <2>6
<1> QED
  BY <1>2, <1>3, <1>4, <1>5

\* Performing the planned action: a circuit is replaced by Load only, and what was saved
\* is spare.
Performed(s, t) ==
    /\ Sound(t)
    /\ t.current = NoAction /\ t.request = s.request /\ t.action = s.action
    /\ t.step \in {s.step} \cup Errors
    /\ \/ SameFiles(s, t)
       \/ Spare(t) /\ t.disk = s.disk /\ t.failed = s.failed
       \/ s.current.action = "save_file"
    /\ s.current = NoAction => SameFiles(s, t) /\ t.step = s.step
    /\ s.current.action = "save_file" =>
          /\ t.circuit = s.circuit
          /\ Spare(t) => IsKept(t, s.circuit, s.file)
          /\ t.step \notin Errors => Spare(t)

LEMMA PerformIsSound ==
    ASSUME NEW s, Sound(s), s.current \in PlannedActions(s),
           s.current.action \in {"new_file", "load_example", "open_file"} =>
               s.request = None,
           NEW outcome \in Outcomes
    PROVE  Performed(s, DoModalAction(s, outcome))
<1> DEFINE t == DoModalAction(s, outcome)
           done == [s EXCEPT !.current = NoAction]
<1>1. s \in Session /\ ~s.threw /\ Safe(s)
  BY DEF Sound
<1>2. NoAction \in [action : Actions \cup {None}, file : Names]
  BY DEF NoAction, Names
<1>3. /\ done \in Session /\ SameFiles(s, done) /\ done.current = NoAction
      /\ done.request = s.request /\ done.action = s.action /\ done.step = s.step
      /\ done.threw = s.threw
  BY <1>1, <1>2 DEF Session, SameFiles
<1>4. Sound(done)
  BY <1>1, <1>3 DEF Sound, Safe, SameFiles
<1> SUFFICES Performed(s, t)
  OBVIOUS
<1> HIDE DEF done, t
<1>5. CASE s.current = NoAction \/ s.step \in Errors
  <2>1. s.current = NoAction => s.current.action = None
    BY DEF NoAction
  <2>2. t = done
    BY <1>5, <2>1 DEF t, done, DoModalAction, None
  <2>3. Spare(t) => IsKept(t, s.circuit, s.file)
    BY <1>3, <1>4, <2>2, SpareIsKept DEF SameFiles
  <2> QED
    BY <1>3, <1>4, <1>5, <2>1, <2>2, <2>3 DEF None, SameFiles, Performed
<1>6. CASE /\ s.current # NoAction /\ s.step \notin Errors
           /\ s.current.action \in {"new_file", "load_example"}
  <2>1. done.request = None
    BY <1>3, <1>6
  <2>2. PICK c \in {NewCircuit, Example} : t = Load(done, c, Unsaved)
    <3>1. CASE s.current.action = "new_file"
      <4>1. t = Load(done, NewCircuit, Unsaved)
        BY <1>6, <3>1 DEF t, done, DoModalAction
      <4> QED BY <4>1
    <3>2. CASE s.current.action = "load_example"
      <4>1. t = Load(done, Example, Unsaved)
        BY <1>6, <3>2 DEF t, done, DoModalAction
      <4> QED BY <4>1
    <3> QED
      BY <1>6, <3>1, <3>2
  <2>3. c \in Circuits /\ Unsaved \in Names /\ Unsaved \notin Files
    BY FileAssumption DEF Names, Unsaved
  <2>4. /\ Sound(t) /\ Spare(t)
        /\ t.request = done.request /\ t.action = done.action /\ t.step = done.step
        /\ t.current = done.current /\ t.disk = done.disk /\ t.failed = done.failed
    BY <1>4, <2>1, <2>2, <2>3, LoadIsSound
  <2> QED
    BY <1>3, <1>6, <2>4 DEF SameFiles, Performed
<1>7. CASE /\ s.current # NoAction /\ s.step \notin Errors
           /\ s.current.action = "open_file"
  <2> DEFINE f == s.current.file
  <2>1. f \in Files /\ f \in Names /\ f # Unsaved
    BY <1>7, FileAssumption DEF PlannedActions, Names, Unsaved
  <2>2. t = OpenFromFile(done, f)
    BY <1>7 DEF t, done, DoModalAction
  <2>3. CASE done.disk[f] \in Circuits
    <3>1. t = Load(done, done.disk[f], f)
      BY <2>2, <2>3 DEF OpenFromFile
    <3>2. done.request = None
      BY <1>3, <1>7
    <3>3. /\ Sound(t) /\ Spare(t)
          /\ t.request = done.request /\ t.action = done.action /\ t.step = done.step
          /\ t.current = done.current /\ t.disk = done.disk /\ t.failed = done.failed
      BY <1>4, <2>1, <2>3, <3>1, <3>2, LoadIsSound
    <3> QED
      BY <1>3, <1>7, <3>3 DEF SameFiles, Performed
  <2>4. CASE done.disk[f] \notin Circuits
    <3>1. t = [done EXCEPT !.step = "open_error"]
      BY <2>2, <2>4 DEF OpenFromFile
    <3>2. /\ SameFiles(done, t) /\ t.request = done.request /\ t.action = done.action
          /\ t.current = done.current /\ t.threw = done.threw /\ t.step = "open_error"
      BY <1>3, <3>1 DEF Session, SameFiles
    <3>3. t \in Session
      BY <1>3, <3>1 DEF Session, Errors
    <3>4. Sound(t)
      BY <1>4, <3>2, <3>3 DEF Sound, Safe, SameFiles
    <3> QED
      BY <1>3, <1>7, <3>2, <3>4 DEF SameFiles, Errors, Performed
  <2> QED
    BY <2>3, <2>4
<1>8. CASE /\ s.current # NoAction /\ s.step \notin Errors
           /\ s.current.action = "save_file"
  <2> DEFINE f == s.current.file
  <2>1. f \in Files
    BY <1>8 DEF PlannedActions
  <2>2. t = SaveToFile(done, f, outcome)
    BY <1>8 DEF t, done, DoModalAction
  <2>3. /\ Sound(t) /\ t.circuit = done.circuit
        /\ t.request = done.request /\ t.action = done.action
        /\ t.current = done.current
        /\ t.step \in {done.step, "save_error"}
        /\ Spare(t) => IsKept(t, done.circuit, done.file)
        /\ outcome = "written" => Spare(t)
        /\ outcome # "written" => t.step = "save_error"
    BY <1>4, <2>1, <2>2, SaveIsSound
  <2> QED
    BY <1>3, <1>8, <2>3 DEF SameFiles, Errors, Performed
<1> QED
  <2>1. s.current # NoAction =>
          s.current.action \in {"new_file", "load_example", "open_file", "save_file"}
    BY DEF PlannedActions
  <2> QED
    BY <1>5, <1>6, <1>7, <1>8, <2>1

------------------------------------------------------------------------------
\* What a whole operation leaves.  The circuit is replaced only if it is kept or given
\* up, and a question or an exit that leads to its replacement comes only then.
Keeps(s, t, given) ==
    /\ t.circuit # s.circuit => given \/ IsKept(t, s.circuit, s.file)
    /\ t.step \in {"open_file", "exit"} => given \/ Spare(t)

\* An action that replaces the circuit is planned only if the circuit may go.
Loading == {"new_file", "load_example", "open_file"}
Ready(c, given) ==
    c.step \in {"open_file", "exit"} \/ c.current.action \in Loading => given \/ Spare(c)

\* Performing what was planned, in a session c that holds the circuit of s.
LEMMA PlannedIsPerformed ==
    ASSUME NEW s, NEW c, Sound(c), c.current \in PlannedActions(c),
           c.request = None \/ c.current = NoAction,
           c.request # None <=> c.step \in Requests,
           c.request # None => c.request = c.step /\ c.action \in Actions,
           c.request = "open_file" => c.action = "open_file",
           NEW given \in BOOLEAN, Ready(c, given),
           c.circuit = s.circuit,
           Spare(c) => IsKept(c, s.circuit, s.file),
           NEW outcome \in Outcomes
    PROVE  LET t == DoModalAction(c, outcome)
           IN  Sound(t) /\ Asks(t) /\ Keeps(s, t, given)
<1> DEFINE t == DoModalAction(c, outcome)
<1> SUFFICES Sound(t) /\ Asks(t) /\ Keeps(s, t, given)
  OBVIOUS
<1>0. c.current = NoAction => c.current.action = None
  BY DEF NoAction
<1>1. Performed(c, t)
  <2>1. c.current.action \in {"new_file", "load_example", "open_file"} => c.request = None
    BY <1>0 DEF None
  <2> QED
    BY <2>1, PerformIsSound
<1> HIDE DEF t
<1>2. Asks(t)
  <2>1. Errors \cap Requests = {} /\ None \notin Requests
    BY DEF Errors, Requests, None
  <2>2. CASE c.current = NoAction
    BY <1>1, <2>2 DEF Asks, Performed
  <2>3. CASE c.request = None
    BY <1>1, <2>1, <2>3 DEF Asks, None, Performed
  <2> QED
    BY <2>2, <2>3
<1>3. t.circuit # s.circuit => given \/ IsKept(t, s.circuit, s.file)
  <2>1. SUFFICES ASSUME t.circuit # s.circuit, ~given PROVE IsKept(t, s.circuit, s.file)
    OBVIOUS
  <2>2. /\ c.current.action # "save_file" /\ c.current # NoAction
        /\ t.disk = c.disk /\ t.failed = c.failed
    BY <1>1, <2>1 DEF Performed, SameFiles
  <2>3. c.current.action \in Loading
    BY <2>2 DEF PlannedActions, Loading
  <2>4. IsKept(c, s.circuit, s.file)
    BY <2>1, <2>3 DEF Ready
  <2> QED
    BY <2>2, <2>4 DEF IsKept
<1>4. t.step \in {"open_file", "exit"} => given \/ Spare(t)
  <2>1. SUFFICES ASSUME t.step \in {"open_file", "exit"}, ~given PROVE Spare(t)
    OBVIOUS
  <2>2. t.step \notin Errors /\ t.step = c.step
    BY <1>1, <2>1 DEF Errors, Performed
  <2>3. Spare(c)
    BY <2>1, <2>2 DEF Ready
  <2> QED
    BY <1>1, <2>2, <2>3 DEF Performed, SameFiles, Spare, IsModified
<1> QED
  BY <1>1, <1>2, <1>3, <1>4 DEF Keeps, Performed

------------------------------------------------------------------------------
\* A file action in a circuit that waits for nothing.
LEMMA FileActionIsSound ==
    ASSUME NEW old, Sound(old), old.current = NoAction, old.request = None,
           NEW action \in Actions, NEW outcome \in Outcomes
    PROVE  LET t == FileAction(old, action, outcome)
           IN  Sound(t) /\ Asks(t) /\ Keeps(old, t, FALSE)
<1> DEFINE s == [old EXCEPT !.step = None]
           asked == IF RequiresSavePrompt(action) /\ IsModified(s)
                    THEN [s EXCEPT !.step = "save_current"] ELSE s
           next == NextModalAction(asked, action)
           modal == IF next.step \in Requests
                    THEN [next EXCEPT !.request = next.step, !.action = action] ELSE next
           t == FileAction(old, action, outcome)
<1>1. /\ s \in Session /\ SameFiles(old, s) /\ s.current = NoAction
      /\ s.request = None /\ s.step = None /\ s.threw = old.threw
  BY DEF Sound, Session, SameFiles
<1>2. Sound(s)
  BY <1>1 DEF Sound, Safe, SameFiles
<1>3. t = DoModalAction(modal, outcome)
  BY <1>1 DEF FileAction
<1> SUFFICES Sound(t) /\ Asks(t) /\ Keeps(old, t, FALSE)
  OBVIOUS
<1> HIDE DEF s, t
<1>4. /\ Sound(asked) /\ SameFiles(old, asked) /\ asked.current = NoAction
      /\ asked.request = None
      /\ \/ asked.step = "save_current"
         \/ asked.step = None /\ (RequiresSavePrompt(action) => Spare(old))
  <2>1. CASE RequiresSavePrompt(action) /\ IsModified(s)
    <3>1. asked = [s EXCEPT !.step = "save_current"]
      BY <2>1
    <3> HIDE DEF asked
    <3>2. /\ asked \in Session /\ SameFiles(s, asked) /\ asked.current = NoAction
          /\ asked.request = None /\ asked.step = "save_current" /\ asked.threw = s.threw
      BY <1>1, <3>1 DEF Session, SameFiles, Requests
    <3> QED
      BY <1>1, <1>2, <3>2 DEF Sound, Safe, SameFiles
  <2>2. CASE ~(RequiresSavePrompt(action) /\ IsModified(s))
    <3>1. asked = s
      BY <2>2
    <3>2. RequiresSavePrompt(action) => Spare(old)
      BY <1>1, <2>2 DEF Spare, IsModified, SameFiles
    <3> HIDE DEF asked
    <3> QED
      BY <1>1, <1>2, <3>1, <3>2
  <2> QED
    BY <2>1, <2>2
<1> HIDE DEF asked
<1>5. /\ Sound(next) /\ SameFiles(asked, next) /\ next.request = None
      /\ \/ next = asked /\ asked.step # None
         \/ /\ asked.step = None /\ next.current = NoAction
            /\ \/ next.step = "open_file" /\ action = "open_file"
               \/ next.step = "exit" /\ action = "exit_application"
               \/ next.step = "save_file" /\ action \in {"save_file", "save_as_file"}
         \/ /\ asked.step = None /\ next.step = None
            /\ next.current \in PlannedActions(asked) \ {NoAction}
            /\ next.current.action = action
            /\ action \in {"save_file", "new_file", "load_example"}
  BY <1>4, NextActionIsSound
<1> HIDE DEF next
<1>6. next.step \in Requests => next.current = NoAction
  BY <1>4, <1>5 DEF Requests, None
<1>7. /\ Sound(modal) /\ SameFiles(next, modal) /\ modal.step = next.step
      /\ modal.current = next.current
      /\ IF next.step \in Requests THEN modal.request = next.step /\ modal.action = action
                                  ELSE modal.request = None
  <2>1. CASE next.step \in Requests
    <3>1. modal = [next EXCEPT !.request = next.step, !.action = action]
      BY <2>1
    <3> HIDE DEF modal
    <3>2. /\ modal \in Session /\ SameFiles(next, modal) /\ modal.step = next.step
          /\ modal.current = next.current /\ modal.request = next.step
          /\ modal.action = action /\ modal.threw = next.threw
      BY <1>5, <2>1, <3>1 DEF Sound, Session, SameFiles
    <3> QED
      BY <1>5, <2>1, <3>2 DEF Sound, Safe, SameFiles
  <2>2. CASE next.step \notin Requests
    <3>1. modal = next
      BY <2>2
    <3> HIDE DEF modal
    <3> QED
      BY <1>5, <2>2, <3>1 DEF SameFiles
  <2> QED
    BY <2>1, <2>2
<1> HIDE DEF modal
<1>8. SameFiles(old, modal)
  BY <1>4, <1>5, <1>7 DEF SameFiles
<1>9. Spare(modal) => IsKept(modal, old.circuit, old.file)
  BY <1>7, <1>8, SpareIsKept DEF SameFiles
<1>10. Ready(modal, FALSE)
  <2>1. SUFFICES ASSUME modal.step \in {"open_file", "exit"}
                        \/ modal.current.action \in Loading
                 PROVE  Spare(modal)
    BY DEF Ready
  <2>2. NoAction.action = None
    BY DEF NoAction
  <2>3. RequiresSavePrompt(action) /\ asked.step = None
    BY <1>4, <1>5, <1>7, <2>1, <2>2 DEF Loading, None, RequiresSavePrompt
  <2>4. Spare(old)
    BY <1>4, <2>3 DEF None
  <2> QED
    BY <1>8, <2>4 DEF Spare, IsModified, SameFiles
<1>11. /\ modal.current \in PlannedActions(modal)
       /\ modal.request = None \/ modal.current = NoAction
       /\ modal.request # None <=> modal.step \in Requests
       /\ modal.request # None => modal.request = modal.step /\ modal.action \in Actions
       /\ modal.request = "open_file" => modal.action = "open_file"
  <2>1. None \notin Requests /\ None # "open_file"
    BY DEF Requests, None
  <2>2. modal.request = "open_file" => action = "open_file"
    BY <1>4, <1>5, <1>7, <2>1 DEF None
  <2>3. modal.current \in PlannedActions(modal)
    BY <1>4, <1>5, <1>7 DEF PlannedActions
  <2> QED
    BY <1>6, <1>7, <2>1, <2>2, <2>3
<1> QED
  BY <1>3, <1>7, <1>8, <1>9, <1>10, <1>11, PlannedIsPerformed DEF SameFiles

------------------------------------------------------------------------------
\* What an answer leads to before the dialog is closed: r holds the circuit of s.
Decided(s, r, given) ==
    /\ Sound(r) /\ r.current \in PlannedActions(r)
    /\ r.request = s.request /\ r.action = s.action
    /\ r.current = NoAction \/ r.step \notin Requests
    /\ r.step = "open_file" => s.action = "open_file"
    /\ Ready(r, given)
    /\ r.circuit = s.circuit
    /\ Spare(r) => IsKept(r, s.circuit, s.file)

\* The next action after another one, in a session p that holds the circuit of s.
LEMMA NextIsDecided ==
    ASSUME NEW s, NEW p, Sound(p), p.current = NoAction,
           p.request = s.request, p.action = s.action, s.action \in Actions,
           p.step \in {None, "save_file"} \cup Errors,
           p.circuit = s.circuit,
           NEW given \in BOOLEAN,
           p.step = None => given \/ Spare(p),
           Spare(p) => IsKept(p, s.circuit, s.file)
    PROVE  Decided(s, NextModalAction(p, s.action), given)
<1> DEFINE r == NextModalAction(p, s.action)
<1>1. /\ Sound(r) /\ SameFiles(p, r) /\ r.request = p.request /\ r.action = p.action
      /\ \/ r = p /\ p.step # None
         \/ /\ p.step = None /\ r.current = NoAction
            /\ \/ r.step = "open_file" /\ s.action = "open_file"
               \/ r.step = "exit" /\ s.action = "exit_application"
               \/ r.step = "save_file" /\ s.action \in {"save_file", "save_as_file"}
         \/ /\ p.step = None /\ r.step = None
            /\ r.current \in PlannedActions(p) \ {NoAction}
            /\ r.current.action = s.action
            /\ s.action \in {"save_file", "new_file", "load_example"}
  BY NextActionIsSound
<1> SUFFICES Decided(s, r, given)
  OBVIOUS
<1> HIDE DEF r
<1>2. NoAction.action = None /\ None \notin Requests /\ Errors \cap Requests = {}
  BY DEF NoAction, None, Requests, Errors
<1>3. r.current \in PlannedActions(r)
  BY <1>1 DEF PlannedActions
<1>4. r.current = NoAction \/ r.step \notin Requests
  BY <1>1, <1>2
<1>5. r.step = "open_file" => s.action = "open_file"
  BY <1>1 DEF Errors, None
<1>6. Ready(r, given)
  BY <1>1, <1>2 DEF Ready, Loading, None, Errors, SameFiles, Spare, IsModified
<1>7. Spare(r) => IsKept(r, s.circuit, s.file)
  BY <1>1 DEF SameFiles, Spare, IsModified, IsKept
<1> QED
  BY <1>1, <1>3, <1>4, <1>5, <1>6, <1>7 DEF Decided, SameFiles

LEMMA AnswerIsDecided ==
    ASSUME NEW old, Sound(old), old.current = NoAction,
           old.request \in Requests, old.action \in Actions,
           old.request = "open_file" => old.action = "open_file",
           NEW reply \in Answers(old.request), NEW outcome \in Outcomes,
           NEW given \in BOOLEAN, reply = "no" => given,
           old.request = "open_file" => given \/ Spare(old)
    PROVE  Decided(old, AfterAnswer(old, reply, outcome), given)
<1> DEFINE s == [old EXCEPT !.step = None]
           saveTo == [s EXCEPT !.current = [action |-> "save_file", file |-> reply]]
           saveCurrent == NextModalAction(s, "save_file")
           r == AfterAnswer(old, reply, outcome)
<1>1. /\ s \in Session /\ SameFiles(old, s) /\ s.current = NoAction
      /\ s.request = old.request /\ s.step = None /\ s.threw = old.threw
      /\ s.action = old.action
  BY DEF Sound, Session, SameFiles
<1>2. Sound(s)
  BY <1>1 DEF Sound, Safe, SameFiles
<1>3. Spare(s) => IsKept(s, old.circuit, old.file)
  BY <1>1, <1>2, SpareIsKept DEF SameFiles
<1>4. Spare(old) => Spare(s)
  BY <1>1 DEF SameFiles, Spare, IsModified
<1>5. /\ reply \notin Files => reply \in {"yes", "no", "cancel"}
      /\ reply \in Files => reply \notin {"yes", "no", "cancel"}
      /\ reply \in Files => old.request \in {"open_file", "save_file"}
  BY FileAssumption DEF Answers, Requests
<1>6. NoAction.action = None /\ None \notin Requests /\ Errors \cap Requests = {}
      /\ None \notin Errors
  BY DEF NoAction, None, Requests, Errors
<1> SUFFICES Decided(old, r, given)
  OBVIOUS
<1>7. CASE reply = "cancel"
  <2>1. r = s
    BY <1>5, <1>7 DEF AfterAnswer
  <2> HIDE DEF r, s
  <2> QED
    BY <1>1, <1>2, <1>3, <1>6, <2>1
    DEF Decided, PlannedActions, Ready, Loading, None, SameFiles
<1>8. CASE reply = "no"
  <2>1. r = NextModalAction(s, old.action)
    BY <1>1, <1>5, <1>8 DEF AfterAnswer
  <2> HIDE DEF r, s
  <2> QED
    BY <1>1, <1>2, <1>3, <1>8, <2>1, NextIsDecided DEF SameFiles
<1>9. CASE reply = "yes"
  <2> DEFINE p == DoModalAction(saveCurrent, outcome)
  <2>1. r = NextModalAction(p, old.action)
    BY <1>1, <1>5, <1>9 DEF AfterAnswer
  <2> HIDE DEF r, s
  <2>2. /\ Sound(saveCurrent) /\ SameFiles(s, saveCurrent)
        /\ saveCurrent.request = s.request /\ saveCurrent.action = s.action
        /\ \/ saveCurrent.current = NoAction /\ saveCurrent.step = "save_file"
           \/ /\ saveCurrent.step = None
              /\ saveCurrent.current \in PlannedActions(s) \ {NoAction}
              /\ saveCurrent.current.action = "save_file"
    <3>1. "save_file" \in Actions
      BY DEF Actions
    <3> QED
      BY <1>1, <1>2, <3>1, NextActionIsSound
  <2> HIDE DEF saveCurrent
  <2>3. Performed(saveCurrent, p)
    <3>1. saveCurrent.current \in PlannedActions(saveCurrent)
      BY <2>2 DEF PlannedActions
    <3>2. saveCurrent.current.action \notin {"new_file", "load_example", "open_file"}
      BY <1>6, <2>2 DEF None
    <3> QED
      BY <2>2, <3>1, <3>2, PerformIsSound
  <2> HIDE DEF p
  <2>4. /\ Sound(p) /\ p.current = NoAction
        /\ p.request = old.request /\ p.action = old.action
        /\ p.step \in {None, "save_file"} \cup Errors
        /\ p.circuit = old.circuit
    BY <1>1, <2>2, <2>3 DEF Performed, SameFiles
  <2>5. p.step = None => Spare(p)
    <3>1. saveCurrent.current = NoAction => p.step = "save_file"
      BY <2>2, <2>3, <1>6 DEF Performed, None
    <3> QED
      BY <1>6, <2>2, <2>3, <3>1 DEF Performed, None
  <2>6. Spare(p) => IsKept(p, old.circuit, old.file)
    <3>1. CASE saveCurrent.current = NoAction
      <4>1. SameFiles(old, p)
        BY <1>1, <2>2, <2>3, <3>1 DEF Performed, SameFiles
      <4> QED
        BY <2>4, <4>1, SpareIsKept DEF SameFiles
    <3>2. CASE saveCurrent.current.action = "save_file"
      BY <1>1, <2>2, <2>3, <3>2 DEF Performed, SameFiles
    <3> QED
      BY <2>2, <3>1, <3>2
  <2> QED
    BY <2>1, <2>4, <2>5, <2>6, NextIsDecided
<1>10. CASE reply \in Files /\ old.request = "open_file"
  <2>1. r = [s EXCEPT !.current = [action |-> "open_file", file |-> reply]]
    BY <1>1, <1>5, <1>10 DEF AfterAnswer
  <2> HIDE DEF r, s
  <2>2. /\ SameFiles(s, r) /\ r.current = [action |-> "open_file", file |-> reply]
        /\ r.request = s.request /\ r.action = s.action /\ r.step = None
        /\ r.threw = s.threw /\ r \in Session
    BY <1>1, <1>10, <2>1 DEF Session, SameFiles, Actions, Names
  <2>3. Sound(r)
    BY <1>2, <2>2 DEF Sound, Safe, SameFiles
  <2>4. r.current \in PlannedActions(r)
    BY <1>10, <2>2 DEF PlannedActions
  <2>5. (given \/ Spare(r)) /\ (Spare(r) => IsKept(r, old.circuit, old.file))
    BY <1>1, <1>3, <1>4, <1>10, <2>2 DEF SameFiles, Spare, IsModified, IsKept
  <2> QED
    BY <1>1, <1>6, <2>2, <2>3, <2>4, <2>5 DEF Decided, Ready, None, SameFiles
<1>11. CASE reply \in Files /\ old.request = "save_file"
  <2>1. r = IF RequiresSavePrompt(old.action)
            THEN NextModalAction(DoModalAction(saveTo, outcome), old.action)
            ELSE saveTo
    BY <1>1, <1>5, <1>11 DEF AfterAnswer
  <2> HIDE DEF r
  <2>2. /\ SameFiles(s, saveTo) /\ saveTo.current = [action |-> "save_file", file |-> reply]
        /\ saveTo.request = s.request /\ saveTo.action = s.action /\ saveTo.step = None
        /\ saveTo.threw = s.threw /\ saveTo \in Session
    <3> HIDE DEF s
    <3> QED
      BY <1>1, <1>11 DEF Session, SameFiles, Actions, Names
  <2> HIDE DEF s, saveTo
  <2>3. Sound(saveTo)
    BY <1>2, <2>2 DEF Sound, Safe, SameFiles
  <2>4. saveTo.current \in PlannedActions(saveTo) /\ saveTo.current.action = "save_file"
    BY <1>11, <2>2 DEF PlannedActions
  <2>5. CASE RequiresSavePrompt(old.action)
    <3> DEFINE p == DoModalAction(saveTo, outcome)
    <3>1. Performed(saveTo, p)
      BY <2>3, <2>4, PerformIsSound
    <3> HIDE DEF p
    <3>2. r = NextModalAction(p, old.action)
      BY <2>1, <2>5 DEF p
    <3>3. /\ Sound(p) /\ p.current = NoAction
          /\ p.request = old.request /\ p.action = old.action
          /\ p.step \in {None, "save_file"} \cup Errors
          /\ p.circuit = old.circuit
      BY <1>1, <2>2, <2>4, <3>1 DEF Performed, SameFiles
    <3>4. p.step = None => Spare(p)
      BY <1>6, <2>4, <3>1 DEF Performed
    <3>5. Spare(p) => IsKept(p, old.circuit, old.file)
      BY <1>1, <2>2, <2>4, <3>1 DEF Performed, SameFiles
    <3> QED
      BY <3>2, <3>3, <3>4, <3>5, NextIsDecided
  <2>6. CASE ~RequiresSavePrompt(old.action)
    <3>1. r = saveTo
      BY <2>1, <2>6
    <3>2. Spare(r) => IsKept(r, old.circuit, old.file)
      BY <1>1, <1>3, <2>2, <3>1 DEF SameFiles, Spare, IsModified, IsKept
    <3> QED
      BY <1>1, <1>6, <2>2, <2>3, <2>4, <3>1, <3>2
      DEF Decided, Ready, Loading, None, SameFiles
  <2> QED
    BY <2>5, <2>6
<1> QED
  BY <1>5, <1>7, <1>8, <1>9, <1>10, <1>11

\* The answer of a dialog.
LEMMA SubmitIsSound ==
    ASSUME NEW old, Sound(old), Asks(old), old.request # None,
           NEW reply \in Answers(old.request), NEW outcome \in Outcomes,
           NEW given \in BOOLEAN, reply = "no" => given,
           old.request = "open_file" => given \/ Spare(old)
    PROVE  LET t == SubmitModalResult(old, reply, outcome)
           IN  Sound(t) /\ Asks(t) /\ Keeps(old, t, given)
<1> DEFINE r == AfterAnswer(old, reply, outcome)
           c == CloseModal(r)
           t == SubmitModalResult(old, reply, outcome)
<1>1. t = DoModalAction(c, outcome)
  BY DEF SubmitModalResult
<1>2. /\ old.current = NoAction /\ old.request \in Requests
      /\ old.action \in Actions
      /\ old.request = "open_file" => old.action = "open_file"
  BY DEF Asks, Sound, Session
<1>3. Decided(old, r, given)
  BY <1>2, AnswerIsDecided
<1> SUFFICES Sound(t) /\ Asks(t) /\ Keeps(old, t, given)
  OBVIOUS
<1> HIDE DEF r, t
<1>4. /\ Sound(c) /\ SameFiles(r, c) /\ c.current = r.current /\ c.step = r.step
      /\ IF r.step \in Requests THEN c.request = r.step /\ c.action = r.action
                               ELSE c.request = None
  <2>1. r \in Session
    BY <1>3 DEF Decided, Sound
  <2>2. CASE r.step \in Requests
    <3>1. c = [r EXCEPT !.request = r.step]
      BY <2>2 DEF CloseModal
    <3> HIDE DEF c
    <3>2. /\ c \in Session /\ SameFiles(r, c) /\ c.current = r.current /\ c.step = r.step
          /\ c.request = r.step /\ c.action = r.action /\ c.threw = r.threw
      BY <2>1, <2>2, <3>1 DEF Session, SameFiles
    <3> QED
      BY <1>3, <2>2, <3>2 DEF Decided, Sound, Safe, SameFiles
  <2>3. CASE r.step \notin Requests
    <3>1. c = [r EXCEPT !.request = None, !.action = None]
      BY <2>3 DEF CloseModal
    <3> HIDE DEF c
    <3>2. /\ c \in Session /\ SameFiles(r, c) /\ c.current = r.current /\ c.step = r.step
          /\ c.request = None /\ c.threw = r.threw
      BY <2>1, <3>1 DEF Session, SameFiles
    <3> QED
      BY <1>3, <2>3, <3>2 DEF Decided, Sound, Safe, SameFiles
  <2> QED
    BY <2>2, <2>3
<1> HIDE DEF c
<1>5. None \notin Requests
  BY DEF None, Requests
<1>6. /\ c.current \in PlannedActions(c)
      /\ c.request = None \/ c.current = NoAction
      /\ c.request # None <=> c.step \in Requests
      /\ c.request # None => c.request = c.step /\ c.action \in Actions
      /\ c.request = "open_file" => c.action = "open_file"
  BY <1>2, <1>3, <1>4, <1>5 DEF Decided, PlannedActions, None
<1>7. Ready(c, given)
  BY <1>3, <1>4 DEF Decided, Ready, SameFiles, Spare, IsModified
<1>8. Spare(c) => IsKept(c, old.circuit, old.file)
  BY <1>3, <1>4 DEF Decided, SameFiles, Spare, IsModified, IsKept
<1>9. c.circuit = old.circuit
  BY <1>3, <1>4 DEF Decided, SameFiles
<1> QED
  BY <1>1, <1>4, <1>6, <1>7, <1>8, <1>9, PlannedIsPerformed

-----------------------------------------------------------------------------
(***************************************************************************)
(* The window and the backend thread.                                      *)
(***************************************************************************)

Kinds == InputKinds \cup Actions

\* A task stands for tasks of one kind, and for several only if they may be combined.
TaskSet ==
    {t \in [kind : Kinds, file : Files \cup {None}, from : Nat \ {0}, to : Nat,
            of : SUBSET Kinds] :
        /\ t.from <= t.to
        /\ t.of = {t.kind}
        /\ t.from < t.to => t.kind \in CombinedKinds}

\* The number of the last task up to the first, and up to the second, that is held.
AfterFirst == IF first = NoTask THEN handled ELSE first.to
AfterSecond == IF second = NoTask THEN AfterFirst ELSE second.to

\* Tasks that wait follow that number one by one.
Waiting(queue, n) ==
    \A i \in 1..Len(queue) : queue[i].from = n + i /\ queue[i].to = n + i

QueueInv ==
    /\ handled \in Nat /\ pushed \in Nat
    /\ tasks \in Seq(TaskSet)
    /\ first \in TaskSet \cup {NoTask} /\ second \in TaskSet \cup {NoTask}
    /\ backend \in {"pop", "peek", "handle", "step", "wait", "ended"}
    /\ first = NoTask <=> backend = "pop"
    /\ backend = "peek" => second = NoTask
    /\ backend = "pop" => second = NoTask
    /\ first # NoTask => first.from = handled + 1
    /\ second # NoTask => second.from = AfterFirst + 1
    /\ Waiting(tasks, AfterSecond)
    /\ pushed = AfterSecond + Len(tasks)

SessionInv ==
    /\ Sound(session)
    /\ session.current = NoAction
    /\ discarded \in BOOLEAN
    /\ backend \in {"pop", "peek", "handle", "ended"} => session.request = None
    /\ backend \in {"step", "wait"} => Asks(session)
    /\ backend \in {"step", "wait", "ended"} /\ session.step \in {"open_file", "exit"} =>
          discarded \/ Spare(session)
    /\ backend = "wait" => session.step \in Requests \cup Errors

\* All messages but the newest ended requests.
Words == Requests \cup Errors \cup {"end_modal", "exit"}
Earlier(queue) == \A i \in 1..(Len(queue) - 1) : queue[i] = "end_modal"
Newest(queue) == queue[Len(queue)]

WindowTypes ==
    /\ messages \in Seq(Words)
    /\ window \in [modal : BOOLEAN, destroyed : BOOLEAN, dialog : Requests \cup Errors \cup {None}]

\* A question is on its way or shown while the backend thread waits, and at no other time.
Asking == backend = "wait" /\ answer = None
Shown == window.dialog = session.step /\ messages = <<>>
Sent == window.dialog = None /\ messages # <<>> /\ Newest(messages) = session.step
Closing == {"end_modal"} \cup (IF backend = "ended" THEN {"exit"} ELSE {})
Quiet == window.dialog = None /\ (messages # <<>> => Newest(messages) \in Closing)

AnswerInv ==
    /\ backend # "wait" => answer = None
    /\ backend = "ended" => session.step = "exit"
    /\ backend = "wait" /\ answer # None /\ session.step \in Requests =>
          answer \in Answers(session.step)

MessageInv ==
    /\ WindowTypes
    /\ window.dialog # None => window.modal
    /\ Earlier(messages)
    /\ IF Asking THEN Shown \/ Sent ELSE Quiet
    /\ AnswerInv

WindowInv == QueueInv /\ SessionInv /\ MessageInv

------------------------------------------------------------------------------
(* Queues, and the parts of the steps that are written down once.            *)

\* What is put into a queue comes last.
LEMMA AppendFacts ==
    ASSUME NEW S, NEW s \in Seq(S), NEW e \in S
    PROVE  /\ Append(s, e) \in Seq(S) /\ Append(s, e) # <<>>
           /\ Len(Append(s, e)) = Len(s) + 1
           /\ \A i \in 1..Len(s) : Append(s, e)[i] = s[i]
           /\ Append(s, e)[Len(s) + 1] = e
  OBVIOUS

\* What is taken out of a queue was first.
LEMMA TailFacts ==
    ASSUME NEW S, NEW s \in Seq(S), s # <<>>
    PROVE  /\ Len(s) \in Nat \ {0} /\ Head(s) = s[1] /\ Head(s) \in S
           /\ Tail(s) \in Seq(S) /\ Len(Tail(s)) = Len(s) - 1
           /\ \A i \in 1..(Len(s) - 1) : Tail(s)[i] = s[i + 1]
  OBVIOUS

\* A task is never the empty task.
LEMMA TaskIsNoTask == NoTask \notin TaskSet
  BY DEF NoTask, TaskSet

\* A task that was just pushed stands for itself.
LEMMA PushedTask ==
    ASSUME NEW kind \in Kinds, NEW file \in Files \cup {None}, NEW n \in Nat \ {0}
    PROVE  /\ Task(kind, file, n) \in TaskSet
           /\ Task(kind, file, n).from = n /\ Task(kind, file, n).to = n
  BY DEF Task, TaskSet

\* The first of the tasks that wait is the next one, and the others follow it.
LEMMA TakenTask ==
    ASSUME NEW q \in Seq(TaskSet), q # <<>>, NEW n \in Nat, Waiting(q, n)
    PROVE  /\ Head(q) \in TaskSet /\ Head(q).from = n + 1 /\ Head(q).to = n + 1
           /\ Tail(q) \in Seq(TaskSet) /\ Waiting(Tail(q), n + 1)
           /\ n + 1 + Len(Tail(q)) = n + Len(q)
<1>1. /\ Len(q) \in Nat \ {0} /\ Head(q) = q[1] /\ Head(q) \in TaskSet
      /\ Tail(q) \in Seq(TaskSet) /\ Len(Tail(q)) = Len(q) - 1
      /\ \A i \in 1..(Len(q) - 1) : Tail(q)[i] = q[i + 1]
  BY TailFacts
<1>2. Head(q).from = n + 1 /\ Head(q).to = n + 1
  BY <1>1 DEF Waiting
<1>3. ASSUME NEW i \in 1..Len(Tail(q))
      PROVE  Tail(q)[i].from = n + 1 + i /\ Tail(q)[i].to = n + 1 + i
  <2>1. i + 1 \in 1..Len(q) /\ Tail(q)[i] = q[i + 1]
    BY <1>1
  <2>2. q[i + 1].from = n + (i + 1) /\ q[i + 1].to = n + (i + 1)
    BY <2>1 DEF Waiting
  <2> QED
    BY <1>1, <2>1, <2>2
<1> QED
  BY <1>1, <1>2, <1>3 DEF Waiting

\* The tasks are in order when one of them is pushed.
LEMMA PushKeepsOrder ==
    ASSUME QueueInv, NEW kind \in Kinds, NEW file \in Files \cup {None}, Push(kind, file)
    PROVE  QueueInv'
<1> DEFINE t == Task(kind, file, pushed + 1)
<1>0. /\ pushed + 1 \in Nat \ {0} /\ Len(tasks) \in Nat
      /\ pushed = AfterSecond + Len(tasks)
  BY DEF QueueInv
<1>1. /\ t \in TaskSet /\ t.from = pushed + 1 /\ t.to = pushed + 1
  BY <1>0, PushedTask
<1> HIDE DEF t
<1>2. /\ tasks' = Append(tasks, t) /\ pushed' = pushed + 1
      /\ UNCHANGED <<first, second, handled, backend>>
  BY DEF Push, own, t
<1>3. /\ tasks' \in Seq(TaskSet) /\ Len(tasks') = Len(tasks) + 1
      /\ \A i \in 1..Len(tasks) : tasks'[i] = tasks[i]
      /\ tasks'[Len(tasks) + 1] = t
  BY <1>1, <1>2, AppendFacts DEF QueueInv
<1>4. AfterFirst' = AfterFirst /\ AfterSecond' = AfterSecond /\ AfterSecond \in Nat
  BY <1>2 DEF AfterFirst, AfterSecond, QueueInv, TaskSet
<1>5. pushed' = AfterSecond' + Len(tasks')
  BY <1>0, <1>2, <1>3, <1>4
<1>6. Waiting(tasks', AfterSecond)
  <2>1. Waiting(tasks, AfterSecond)
    BY DEF QueueInv
  <2> QED
    <3>1. \A i \in 1..Len(tasks') : i \in 1..Len(tasks) \/ i = Len(tasks) + 1
      BY <1>0, <1>3
    <3>2. \A i \in 1..Len(tasks) :
            tasks[i].from = AfterSecond + i /\ tasks[i].to = AfterSecond + i
      BY <2>1 DEF Waiting
    <3>3. t.from = AfterSecond + (Len(tasks) + 1) /\ t.to = AfterSecond + (Len(tasks) + 1)
      BY <1>0, <1>1, <1>4
    <3>4. \A i \in 1..Len(tasks') :
            tasks'[i].from = AfterSecond + i /\ tasks'[i].to = AfterSecond + i
      BY <1>3, <3>1, <3>2, <3>3
    <3> QED
      BY <3>4 DEF Waiting
<1>7. Waiting(tasks', AfterSecond')
  BY <1>4, <1>6
<1> QED
  BY <1>2, <1>3, <1>4, <1>5, <1>7 DEF QueueInv

\* The tasks are in order when the first one is done.
LEMMA DoneKeepsOrder ==
    ASSUME QueueInv, backend # "pop", TaskDone, UNCHANGED <<tasks, pushed>>
    PROVE  QueueInv'
<1>1. /\ handled' = first.to /\ first' = second /\ second' = NoTask
      /\ backend' = IF second = NoTask THEN "pop" ELSE "peek"
      /\ tasks' = tasks /\ pushed' = pushed
  BY DEF TaskDone
<1>2. first \in TaskSet /\ first.to \in Nat
  BY DEF QueueInv, TaskSet
<1>3. AfterFirst = first.to /\ AfterSecond' = AfterSecond
  BY <1>1, <1>2, TaskIsNoTask DEF AfterFirst, AfterSecond
<1> QED
  BY <1>1, <1>2, <1>3 DEF QueueInv

\* The tasks are in order after every step.
LEMMA QueueStep == QueueInv /\ [Next]_vars => QueueInv'
<1> SUFFICES ASSUME QueueInv, [Next]_vars PROVE QueueInv'
  OBVIOUS
<1>1. CASE UNCHANGED <<tasks, pushed, backend, first, second, handled>>
  BY <1>1 DEF QueueInv, AfterFirst, AfterSecond
<1>2. ASSUME NEW kind \in Kinds, NEW file \in Files \cup {None}, Push(kind, file)
      PROVE  QueueInv'
  BY <1>2, PushKeepsOrder
<1>3. CASE PopFirst
  <2>1. /\ backend = "pop" /\ tasks # <<>> /\ first' = Head(tasks) /\ tasks' = Tail(tasks)
        /\ backend' = "peek" /\ UNCHANGED <<pushed, second, handled>>
    BY <1>3 DEF PopFirst
  <2>2. first = NoTask /\ second = NoTask /\ AfterSecond = handled
    BY <2>1 DEF QueueInv, AfterFirst, AfterSecond
  <2>3. tasks \in Seq(TaskSet) /\ handled \in Nat /\ Waiting(tasks, handled)
    BY <2>2 DEF QueueInv
  <2>4. /\ first' \in TaskSet /\ first'.from = handled + 1 /\ first'.to = handled + 1
        /\ tasks' \in Seq(TaskSet) /\ Waiting(tasks', handled + 1)
        /\ handled + 1 + Len(tasks') = handled + Len(tasks)
    BY <2>1, <2>3, TakenTask
  <2>5. AfterSecond' = handled + 1
    BY <2>1, <2>2, <2>4, TaskIsNoTask DEF AfterFirst, AfterSecond
  <2>6. Waiting(tasks', AfterSecond') /\ pushed' = AfterSecond' + Len(tasks')
    <3>1. pushed = handled + Len(tasks)
      BY <2>2 DEF QueueInv
    <3> QED
      BY <2>1, <2>4, <2>5, <3>1
  <2> QED
    BY <2>1, <2>2, <2>4, <2>6, TaskIsNoTask DEF QueueInv
<1>4. CASE CombineTasks
  <2> DEFINE head == Head(tasks)
  <2>1. /\ backend = "peek" /\ tasks # <<>> /\ Combinable(first, head)
        /\ first' = [head EXCEPT !.from = first.from, !.of = @ \cup first.of]
        /\ tasks' = Tail(tasks)
        /\ UNCHANGED <<pushed, second, handled, backend>>
    BY <1>4 DEF CombineTasks
  <2>2. /\ first \in TaskSet /\ second = NoTask /\ first.to \in Nat
        /\ AfterSecond = first.to /\ first.from = handled + 1
    BY <2>1, TaskIsNoTask DEF QueueInv, AfterFirst, AfterSecond, TaskSet
  <2>3. tasks \in Seq(TaskSet) /\ Waiting(tasks, first.to)
    BY <2>2 DEF QueueInv
  <2>4. /\ head \in TaskSet /\ head.from = first.to + 1 /\ head.to = first.to + 1
        /\ tasks' \in Seq(TaskSet) /\ Waiting(tasks', first.to + 1)
        /\ first.to + 1 + Len(tasks') = first.to + Len(tasks)
    BY <2>1, <2>2, <2>3, TakenTask
  <2> HIDE DEF head
  <2>5. first' \in TaskSet /\ first'.from = handled + 1 /\ first'.to = first.to + 1
    <3>1. /\ first.kind = head.kind /\ head.kind \in CombinedKinds
          /\ head.of = {head.kind} /\ first.of = {first.kind}
          /\ first.from \in Nat \ {0} /\ first.from <= first.to
      BY <2>1, <2>2, <2>4 DEF Combinable, TaskSet
    <3>2. head.of \cup first.of = {head.kind} /\ {head.kind} \in SUBSET Kinds
      BY <3>1, <2>4 DEF TaskSet
    <3>3. /\ first'.kind = head.kind /\ first'.file = head.file
          /\ first'.from = first.from /\ first'.to = head.to
          /\ first'.of = head.of \cup first.of
      BY <2>1, <2>4 DEF TaskSet
    <3>4. first' \in [kind : Kinds, file : Files \cup {None}, from : Nat \ {0}, to : Nat,
                      of : SUBSET Kinds]
      <4>1. head.of \cup first.of \in SUBSET Kinds
        BY <3>2
      <4> QED
        BY <2>1, <2>4, <3>1, <4>1 DEF TaskSet
    <3> QED
      BY <2>2, <2>4, <3>1, <3>2, <3>3, <3>4 DEF TaskSet
  <2>6. AfterSecond' = first.to + 1
    BY <2>1, <2>2, <2>5, TaskIsNoTask DEF AfterFirst, AfterSecond
  <2>7. Waiting(tasks', AfterSecond') /\ pushed' = AfterSecond' + Len(tasks')
    <3>1. pushed = first.to + Len(tasks)
      BY <2>2 DEF QueueInv
    <3> QED
      BY <2>1, <2>4, <2>6, <3>1
  <2> QED
    BY <2>1, <2>2, <2>4, <2>5, <2>7, TaskIsNoTask DEF QueueInv
<1>5. CASE PopSecond
  <2>0. backend = "peek" /\ backend' = "handle" /\ UNCHANGED <<pushed, first, handled>>
    BY <1>5 DEF PopSecond
  <2>1. CASE tasks = <<>> /\ UNCHANGED <<second, tasks>>
    BY <2>0, <2>1 DEF QueueInv, AfterFirst, AfterSecond
  <2>2. CASE tasks # <<>> /\ second' = Head(tasks) /\ tasks' = Tail(tasks)
    <3>1. /\ second = NoTask /\ AfterSecond = AfterFirst /\ AfterFirst \in Nat
          /\ AfterFirst' = AfterFirst
      BY <2>0 DEF QueueInv, AfterFirst, AfterSecond, TaskSet
    <3>2. tasks \in Seq(TaskSet) /\ Waiting(tasks, AfterFirst)
      BY <3>1 DEF QueueInv
    <3>3. /\ second' \in TaskSet /\ second'.from = AfterFirst + 1
          /\ second'.to = AfterFirst + 1
          /\ tasks' \in Seq(TaskSet) /\ Waiting(tasks', AfterFirst + 1)
          /\ AfterFirst + 1 + Len(tasks') = AfterFirst + Len(tasks)
      BY <2>2, <3>1, <3>2, TakenTask
    <3>4. AfterSecond' = AfterFirst + 1
      BY <3>3, TaskIsNoTask DEF AfterSecond
    <3>5. Waiting(tasks', AfterSecond') /\ pushed' = AfterSecond' + Len(tasks')
      <4>1. pushed = AfterFirst + Len(tasks)
        BY <3>1 DEF QueueInv
      <4> QED
        BY <2>0, <3>3, <3>4, <4>1
    <3> QED
      BY <2>0, <3>1, <3>3, <3>5, TaskIsNoTask DEF QueueInv
  <2> QED
    BY <1>5, <2>1, <2>2 DEF PopSecond
<1>6. CASE HandleInput \/ EndRequest
  BY <1>6, DoneKeepsOrder DEF HandleInput, EndRequest, gui
<1>7. CASE HandleFileAction \/ AskUser \/ OpenDropped \/ Answered \/ ErrorRead \/ ExitRequest
  BY <1>7 DEF HandleFileAction, AskUser, OpenDropped, Answered, ErrorRead, ExitRequest,
              gui, QueueInv, AfterFirst, AfterSecond
<1>8. CASE ShowDialog \/ EndModalState \/ ExitApplication \/ AnswerDialog
  BY <1>1, <1>8 DEF ShowDialog, EndModalState, ExitApplication, AnswerDialog, own
<1>9. CASE \E kind \in InputKinds : Input(kind)
  BY <1>2, <1>9 DEF Input, Kinds
<1>10. CASE LoadExample
  BY <1>2, <1>10 DEF LoadExample, Kinds, Actions
<1>11. CASE \E action \in Actions \ {"load_example"} : Command(action)
  BY <1>2, <1>11 DEF Command, Kinds
<1>12. CASE \E f \in Files : DropFile(f)
  BY <1>2, <1>12 DEF DropFile, Kinds, Actions
<1>13. CASE UNCHANGED vars
  BY <1>1, <1>13 DEF vars
<1> QED
  BY <1>3, <1>4, <1>5, <1>6, <1>7, <1>8, <1>9, <1>10, <1>11, <1>12, <1>13 DEF Next

------------------------------------------------------------------------------
\* An operation on the circuit that may replace it leaves it sound, asks or is done, and
\* has kept what it replaced.
LEMMA OperationIsSound ==
    ASSUME QueueInv, SessionInv, MessageInv, HandleFileAction \/ OpenDropped \/ Answered
    PROVE  /\ Sound(session') /\ Asks(session') /\ discarded' \in BOOLEAN
           /\ Keeps(session, session', discarded')
<1>1. CASE HandleFileAction
  <2>1. /\ backend = "handle" /\ first.kind \in Actions /\ discarded' = FALSE
    BY <1>1 DEF HandleFileAction
  <2>2. PICK outcome \in Outcomes : session' = FileAction(session, first.kind, outcome)
    BY <1>1 DEF HandleFileAction
  <2>3. Sound(session) /\ session.current = NoAction /\ session.request = None
    BY <2>1 DEF SessionInv
  <2> QED
    BY <2>1, <2>2, <2>3, FileActionIsSound
<1>2. CASE OpenDropped
  <2>1. /\ backend = "step" /\ session.step = "open_file" /\ first.file \in Files
        /\ discarded' = discarded
    BY <1>2 DEF OpenDropped, IsDropped
  <2>2. PICK outcome \in Outcomes :
          session' = SubmitModalResult(session, first.file, outcome)
    BY <1>2 DEF OpenDropped
  <2>3. /\ Sound(session) /\ Asks(session) /\ discarded \in BOOLEAN
        /\ discarded \/ Spare(session)
    BY <2>1 DEF SessionInv
  <2>4. session.request = "open_file" /\ session.request # None
    BY <2>1, <2>3 DEF Asks, Requests, None
  <2>5. first.file \in Answers(session.request) /\ first.file # "no"
    BY <2>1, <2>4, FileAssumption DEF Answers
  <2> QED
    BY <2>1, <2>2, <2>3, <2>4, <2>5, SubmitIsSound
<1>3. CASE Answered
  <2>1. /\ backend = "wait" /\ answer # None /\ session.step \in Requests
        /\ discarded' = (discarded \/ answer = "no")
    BY <1>3 DEF Answered
  <2>2. PICK outcome \in Outcomes : session' = SubmitModalResult(session, answer, outcome)
    BY <1>3 DEF Answered
  <2>3. /\ Sound(session) /\ Asks(session) /\ discarded \in BOOLEAN
        /\ session.step = "open_file" => discarded \/ Spare(session)
    BY <2>1 DEF SessionInv
  <2>4. session.request = session.step /\ session.request # None
    BY <2>1, <2>3 DEF Asks
  <2>5. answer \in Answers(session.request)
    <3>1. answer \in Answers(session.step)
      BY <2>1 DEF MessageInv, AnswerInv
    <3> QED
      BY <2>4, <3>1
  <2>6. /\ discarded' \in BOOLEAN
        /\ answer = "no" => discarded'
        /\ session.request = "open_file" => discarded' \/ Spare(session)
    BY <2>1, <2>3, <2>4
  <2> QED
    BY <2>2, <2>3, <2>4, <2>5, <2>6, SubmitIsSound
<1> QED
  BY <1>1, <1>2, <1>3

\* The circuit is sound after every step, and modal when the backend thread asks.
LEMMA SessionStep == WindowInv /\ [Next]_vars => SessionInv'
<1> SUFFICES ASSUME WindowInv, [Next]_vars PROVE SessionInv'
  OBVIOUS
<1>0. QueueInv /\ SessionInv /\ MessageInv
  BY DEF WindowInv
<1>1. CASE UNCHANGED <<backend, session, discarded>>
  BY <1>0, <1>1 DEF SessionInv
<1>2. CASE PopFirst \/ CombineTasks \/ PopSecond
  BY <1>0, <1>2 DEF PopFirst, CombineTasks, PopSecond, SessionInv
<1>3. CASE HandleInput
  <2>1. /\ backend = "handle" /\ backend' \in {"pop", "peek"} /\ discarded' = discarded
        /\ session.request = None
    BY <1>0, <1>3 DEF HandleInput, TaskDone, SessionInv
  <2>2. session' = session \/ \E c \in Edited : session' = [session EXCEPT !.circuit = c]
    BY <1>3, <2>1 DEF HandleInput, Edit
  <2>3. Sound(session') /\ session'.current = NoAction /\ session'.request = None
    <3>1. CASE session' = session
      BY <1>0, <2>1, <3>1 DEF SessionInv
    <3>2. ASSUME NEW c \in Edited, session' = [session EXCEPT !.circuit = c]
          PROVE  Sound(session') /\ session'.current = NoAction /\ session'.request = None
      <4>1. session \in Session /\ ~session.threw /\ Safe(session)
        BY <1>0 DEF SessionInv, Sound
      <4>2. c \in Circuits
        BY FileAssumption
      <4>3. /\ session' \in Session /\ session'.current = session.current
            /\ session'.request = session.request /\ session'.threw = session.threw
            /\ session'.file = session.file /\ session'.disk = session.disk
            /\ session'.failed = session.failed
            /\ session'.serialized = session.serialized
        BY <3>2, <4>1, <4>2 DEF Session
      <4>4. Safe(session')
        BY <4>1, <4>3 DEF Safe
      <4> QED
        BY <1>0, <2>1, <4>1, <4>3, <4>4 DEF Sound, SessionInv
    <3> QED
      BY <2>2, <3>1, <3>2
  <2> QED
    BY <1>0, <2>1, <2>3 DEF SessionInv
<1>4. CASE HandleFileAction \/ OpenDropped \/ Answered
  <2>1. /\ Sound(session') /\ Asks(session') /\ discarded' \in BOOLEAN
        /\ Keeps(session, session', discarded')
    BY <1>0, <1>4, OperationIsSound
  <2>2. backend' = "step"
    BY <1>4 DEF HandleFileAction, OpenDropped, Answered
  <2> QED
    BY <2>1, <2>2 DEF SessionInv, Asks, Keeps
<1>5. CASE AskUser
  BY <1>0, <1>5 DEF AskUser, SessionInv
<1>6. CASE ErrorRead
  <2>1. /\ backend = "wait" /\ backend' = "step" /\ session.step \in Errors
        /\ session' = [session EXCEPT !.step = None] /\ discarded' = discarded
    BY <1>6 DEF ErrorRead
  <2>2. /\ session \in Session /\ ~session.threw /\ Safe(session) /\ Asks(session)
        /\ session.request = None /\ session.current = NoAction
        /\ discarded \in BOOLEAN
    BY <1>0, <2>1 DEF SessionInv, Sound, Asks, Errors, Requests, None
  <2>3. /\ session' \in Session /\ session'.current = session.current
        /\ session'.request = session.request /\ session'.threw = session.threw
        /\ session'.file = session.file /\ session'.disk = session.disk
        /\ session'.failed = session.failed /\ session'.step = None
        /\ session'.serialized = session.serialized
    BY <2>1, <2>2 DEF Session
  <2>4. Sound(session')
    BY <2>2, <2>3 DEF Sound, Safe
  <2>5. Asks(session')
    BY <2>2, <2>3 DEF Asks, Requests, None
  <2> QED
    BY <2>1, <2>2, <2>3, <2>4, <2>5 DEF SessionInv, None
<1>7. CASE EndRequest
  <2>1. /\ backend = "step" /\ session.step = None /\ backend' \in {"pop", "peek"}
        /\ session' = session /\ discarded' = discarded
    BY <1>7 DEF EndRequest, TaskDone
  <2>2. session.request = None
    BY <1>0, <2>1 DEF SessionInv, Asks, Requests, None
  <2> QED
    BY <1>0, <2>1, <2>2 DEF SessionInv
<1>8. CASE ExitRequest
  <2>1. /\ backend = "step" /\ session.step = "exit" /\ backend' = "ended"
        /\ session' = session /\ discarded' = discarded
    BY <1>8 DEF ExitRequest
  <2>2. session.request = None
    BY <1>0, <2>1 DEF SessionInv, Asks, Requests, None
  <2> QED
    BY <1>0, <2>1, <2>2 DEF SessionInv
<1>9. CASE ShowDialog \/ EndModalState \/ ExitApplication \/ AnswerDialog
  BY <1>1, <1>9 DEF ShowDialog, EndModalState, ExitApplication, AnswerDialog, own
<1>10. CASE \/ \E kind \in InputKinds : Input(kind)
            \/ LoadExample
            \/ \E action \in Actions \ {"load_example"} : Command(action)
            \/ \E f \in Files : DropFile(f)
  BY <1>1, <1>10 DEF Input, LoadExample, Command, DropFile, Push, own
<1>11. CASE UNCHANGED vars
  BY <1>1, <1>11 DEF vars
<1> QED
  BY <1>2, <1>3, <1>4, <1>5, <1>6, <1>7, <1>8, <1>9, <1>10, <1>11 DEF Next

------------------------------------------------------------------------------
\* The last message is the new one when a message is sent and the others ended requests.
LEMMA SentMessage ==
    ASSUME NEW q \in Seq(Words), Earlier(q), q # <<>> => Newest(q) = "end_modal",
           NEW w \in Words
    PROVE  /\ Append(q, w) \in Seq(Words) /\ Append(q, w) # <<>>
           /\ Earlier(Append(q, w)) /\ Newest(Append(q, w)) = w
<1> DEFINE r == Append(q, w)
<1>1. /\ r \in Seq(Words) /\ r # <<>> /\ Len(r) = Len(q) + 1 /\ Len(q) \in Nat
      /\ \A i \in 1..Len(q) : r[i] = q[i]
      /\ r[Len(q) + 1] = w
  BY AppendFacts
<1>2. Len(q) # 0 => q # <<>>
  OBVIOUS
<1> HIDE DEF r
<1>3. ASSUME NEW i \in 1..Len(q) PROVE r[i] = "end_modal"
  <2>1. CASE i = Len(q)
    BY <1>1, <1>2, <2>1 DEF Newest
  <2>2. CASE i # Len(q)
    BY <1>1, <2>2 DEF Earlier
  <2> QED
    BY <2>1, <2>2
<1>4. Earlier(r) /\ Newest(r) = w
  BY <1>1, <1>3 DEF Earlier, Newest
<1> QED
  BY <1>1, <1>4 DEF r

\* The message that is received is the last one, or ended a request.
LEMMA ReceivedMessage ==
    ASSUME NEW q \in Seq(Words), q # <<>>, Earlier(q)
    PROVE  /\ Head(q) \in Words /\ Tail(q) \in Seq(Words) /\ Earlier(Tail(q))
           /\ \/ Tail(q) = <<>> /\ Head(q) = Newest(q)
              \/ Tail(q) # <<>> /\ Head(q) = "end_modal" /\ Newest(Tail(q)) = Newest(q)
<1> DEFINE r == Tail(q)
<1>1. /\ Len(q) \in Nat \ {0} /\ Head(q) = q[1] /\ Head(q) \in Words
      /\ r \in Seq(Words) /\ Len(r) = Len(q) - 1
      /\ \A i \in 1..(Len(q) - 1) : r[i] = q[i + 1]
  BY TailFacts
<1>2. Len(r) = 0 <=> r = <<>>
  BY <1>1, EmptySeq
<1> SUFFICES /\ Head(q) \in Words /\ r \in Seq(Words) /\ Earlier(r)
             /\ \/ r = <<>> /\ Head(q) = Newest(q)
                \/ r # <<>> /\ Head(q) = "end_modal" /\ Newest(r) = Newest(q)
  OBVIOUS
<1> HIDE DEF r
<1>3. \A i \in 1..(Len(q) - 1) : q[i] = "end_modal"
  BY DEF Earlier
<1>4. ASSUME NEW i \in 1..(Len(r) - 1) PROVE r[i] = "end_modal"
  <2>1. i + 1 \in 1..(Len(q) - 1) /\ i \in 1..(Len(q) - 1)
    BY <1>1
  <2> QED
    BY <1>1, <1>3, <2>1
<1>5. CASE Len(q) = 1
  <2>1. r = <<>>
    BY <1>1, <1>2, <1>5
  <2>2. Head(q) = Newest(q)
    BY <1>1, <1>5 DEF Newest
  <2>3. Earlier(r)
    BY <1>4 DEF Earlier
  <2> QED
    BY <1>1, <2>1, <2>2, <2>3
<1>6. CASE Len(q) # 1
  <2>1. 1 \in 1..(Len(q) - 1) /\ Len(q) - 1 \in 1..(Len(q) - 1) /\ Len(r) # 0
    BY <1>1, <1>6
  <2>2. r # <<>> /\ Head(q) = "end_modal"
    BY <1>1, <1>2, <1>3, <2>1
  <2>3. Newest(r) = Newest(q)
    BY <1>1, <2>1 DEF Newest
  <2> QED
    BY <1>1, <1>4, <2>2, <2>3 DEF Earlier
<1> QED
  BY <1>5, <1>6

\* What the backend thread and the window know of a question is consistent after every
\* step.
LEMMA MessageStep == WindowInv /\ [Next]_vars => MessageInv'
<1> SUFFICES ASSUME WindowInv, [Next]_vars PROVE MessageInv'
  OBVIOUS
<1>0. QueueInv /\ SessionInv /\ MessageInv
  BY DEF WindowInv
<1> USE DEF MessageInv, WindowTypes, Asking, Shown, Sent, Quiet, Closing
<1>1. CASE UNCHANGED <<messages, window, backend, session, answer>>
  BY <1>0, <1>1 DEF AnswerInv
<1>2. CASE \E kind \in InputKinds : Input(kind)
  BY <1>1, <1>2 DEF Input, Push, own
<1>3. CASE LoadExample
  BY <1>1, <1>3 DEF LoadExample, Push, own
<1>4. CASE \/ \E action \in Actions \ {"load_example"} : Command(action)
           \/ \E f \in Files : DropFile(f)
  <2>1. /\ UNCHANGED <<messages, backend, session, answer>>
        /\ window' = [window EXCEPT !.modal = TRUE]
    BY <1>4 DEF Command, DropFile, Push, own
  <2>2. /\ window' \in [modal : BOOLEAN, destroyed : BOOLEAN,
                        dialog : Requests \cup Errors \cup {None}]
        /\ window'.modal /\ window'.dialog = window.dialog
    BY <1>0, <2>1
  <2>3. AnswerInv'
    BY <1>0, <2>1 DEF AnswerInv
  <2> QED
    BY <1>0, <2>1, <2>2, <2>3
\* A message is received.
<1>5. ASSUME messages # <<>>, messages' = Tail(messages),
             UNCHANGED <<backend, session, answer>>
      PROVE  /\ Head(messages) \in Words /\ messages' \in Seq(Words)
             /\ Earlier(messages') /\ AnswerInv' /\ window.dialog = None
             /\ \/ messages' = <<>> /\ Head(messages) = Newest(messages)
                \/ messages' # <<>> /\ Head(messages) = "end_modal"
                   /\ Newest(messages') = Newest(messages)
             /\ Head(messages) \in Requests \cup Errors =>
                  Asking /\ Head(messages) = session.step
             /\ Asking => Newest(messages) \in Requests \cup Errors
  <2>1. /\ Head(messages) \in Words /\ messages' \in Seq(Words) /\ Earlier(messages')
        /\ \/ messages' = <<>> /\ Head(messages) = Newest(messages)
           \/ messages' # <<>> /\ Head(messages) = "end_modal"
              /\ Newest(messages') = Newest(messages)
    BY <1>0, <1>5, ReceivedMessage
  <2>2. AnswerInv'
    BY <1>0, <1>5 DEF AnswerInv
  <2>3. "end_modal" \notin Requests \cup Errors /\ "exit" \notin Requests \cup Errors
    BY DEF Requests, Errors
  <2>4. Asking => Sent
    BY <1>0, <1>5
  <2>5. Asking => session.step \in Requests \cup Errors
    BY <1>0 DEF SessionInv
  <2> QED
    BY <1>0, <1>5, <2>1, <2>2, <2>3, <2>4, <2>5
<1>6. CASE ShowDialog
  <2>1. /\ messages # <<>> /\ messages' = Tail(messages)
        /\ UNCHANGED <<backend, session, answer>>
        /\ Head(messages) \in Requests \cup Errors
        /\ window' = [window EXCEPT !.dialog = Head(messages), !.modal = TRUE]
    BY <1>6 DEF ShowDialog, ReceiveMessage, own
  <2>2. window' \in [modal : BOOLEAN, destroyed : BOOLEAN,
                     dialog : Requests \cup Errors \cup {None}]
        /\ window'.modal /\ window'.dialog = Head(messages)
    BY <1>0, <2>1
  <2>3. "end_modal" \notin Requests \cup Errors
    BY DEF Requests, Errors
  <2> QED
    BY <1>5, <2>1, <2>2, <2>3
<1>7. CASE EndModalState
  <2>1. /\ messages # <<>> /\ messages' = Tail(messages)
        /\ UNCHANGED <<backend, session, answer>>
        /\ Head(messages) = "end_modal"
        /\ window' = [window EXCEPT !.modal = FALSE]
    BY <1>7 DEF EndModalState, ReceiveMessage, own
  <2>2. window' \in [modal : BOOLEAN, destroyed : BOOLEAN,
                     dialog : Requests \cup Errors \cup {None}]
        /\ window'.dialog = window.dialog
    BY <1>0, <2>1
  <2>3. "end_modal" \notin Requests \cup Errors
    BY DEF Requests, Errors
  <2> QED
    BY <1>0, <1>5, <2>1, <2>2, <2>3
<1>8. CASE ExitApplication
  <2>1. /\ messages # <<>> /\ messages' = Tail(messages)
        /\ UNCHANGED <<backend, session, answer>>
        /\ Head(messages) = "exit"
        /\ window' = [window EXCEPT !.destroyed = TRUE]
    BY <1>8 DEF ExitApplication, ReceiveMessage, own
  <2>2. window' \in [modal : BOOLEAN, destroyed : BOOLEAN,
                     dialog : Requests \cup Errors \cup {None}]
        /\ window'.dialog = window.dialog
    BY <1>0, <2>1
  <2>3. "exit" \notin Requests \cup Errors
    BY DEF Requests, Errors
  <2> QED
    BY <1>0, <1>5, <2>1, <2>2, <2>3
<1>9. CASE AnswerDialog
  <2>1. /\ window.dialog # None
        /\ answer' \in IF window.dialog \in Requests THEN Answers(window.dialog) ELSE {"ok"}
        /\ window' = [window EXCEPT !.dialog = None]
        /\ UNCHANGED <<messages, backend, session>>
    BY <1>9 DEF AnswerDialog, own
  <2>2. Asking /\ Shown
    BY <1>0, <2>1
  <2>3. answer' # None
    BY <2>1, FileAssumption DEF Answers, None, Requests
  <2>4. window' \in [modal : BOOLEAN, destroyed : BOOLEAN,
                     dialog : Requests \cup Errors \cup {None}]
        /\ window'.dialog = None
    BY <1>0, <2>1
  <2>5. AnswerInv'
    BY <2>1, <2>2 DEF AnswerInv
  <2> QED
    BY <1>0, <2>1, <2>2, <2>3, <2>4, <2>5
\* The backend thread does not wait, and sends nothing.
<1>10. ASSUME UNCHANGED <<messages, window>>, answer' = None, ~Asking,
              backend # "ended", backend' \notin {"wait", "ended"}
       PROVE  MessageInv'
  BY <1>0, <1>10 DEF AnswerInv
<1>11. CASE PopFirst \/ CombineTasks \/ PopSecond \/ HandleInput \/ HandleFileAction
  BY <1>0, <1>10, <1>11
  DEF PopFirst, CombineTasks, PopSecond, HandleInput, HandleFileAction, gui, TaskDone,
      AnswerInv
<1>12. CASE OpenDropped
  BY <1>0, <1>10, <1>12 DEF OpenDropped, gui, AnswerInv
<1>13. CASE Answered \/ ErrorRead
  BY <1>0, <1>10, <1>13 DEF Answered, ErrorRead, gui
\* It sends a message when it did not wait.
<1>14. ASSUME NEW w \in Words, backend \notin {"wait", "ended"},
              messages' = Append(messages, w)
       PROVE  /\ messages' \in Seq(Words) /\ messages' # <<>>
              /\ Earlier(messages') /\ Newest(messages') = w
  <2>1. messages # <<>> => Newest(messages) = "end_modal"
    BY <1>0, <1>14
  <2> QED
    BY <1>0, <1>14, <2>1, SentMessage
<1>15. CASE AskUser
  <2>1. /\ backend = "step" /\ backend' = "wait" /\ session.step \in Requests \cup Errors
        /\ messages' = Append(messages, session.step)
        /\ UNCHANGED <<window, session, answer>>
    BY <1>15 DEF AskUser, Send, gui
  <2>2. session.step \in Words /\ answer = None
    BY <1>0, <2>1 DEF Words, AnswerInv
  <2>3. /\ messages' \in Seq(Words) /\ messages' # <<>>
        /\ Earlier(messages') /\ Newest(messages') = session.step
    BY <1>14, <2>1, <2>2
  <2> QED
    BY <1>0, <2>1, <2>2, <2>3 DEF AnswerInv
<1>16. CASE EndRequest
  <2>1. /\ backend = "step" /\ backend' \in {"pop", "peek"}
        /\ messages' = Append(messages, "end_modal")
        /\ UNCHANGED <<window, session, answer>>
    BY <1>16 DEF EndRequest, Send, gui, TaskDone
  <2>2. answer = None
    BY <1>0, <2>1 DEF AnswerInv
  <2>3. /\ messages' \in Seq(Words) /\ messages' # <<>>
        /\ Earlier(messages') /\ Newest(messages') = "end_modal"
    BY <1>14, <2>1 DEF Words
  <2> QED
    BY <1>0, <2>1, <2>2, <2>3 DEF AnswerInv
<1>17. CASE ExitRequest
  <2>1. /\ backend = "step" /\ backend' = "ended" /\ session.step = "exit"
        /\ messages' = Append(messages, "exit")
        /\ UNCHANGED <<window, session, answer>>
    BY <1>17 DEF ExitRequest, Send, gui
  <2>2. answer = None
    BY <1>0, <2>1 DEF AnswerInv
  <2>3. /\ messages' \in Seq(Words) /\ messages' # <<>>
        /\ Earlier(messages') /\ Newest(messages') = "exit"
    BY <1>14, <2>1 DEF Words
  <2> QED
    BY <1>0, <2>1, <2>2, <2>3 DEF AnswerInv
<1>18. CASE UNCHANGED vars
  BY <1>1, <1>18 DEF vars
<1> QED
  BY <1>2, <1>3, <1>4, <1>6, <1>7, <1>8, <1>9, <1>11, <1>12, <1>13, <1>15, <1>16, <1>17,
     <1>18 DEF Next

------------------------------------------------------------------------------
\* The three invariants hold together, whatever the window and the thread do.
THEOREM WindowInvariant == Spec => []WindowInv
<1>1. Init => WindowInv
  <2> SUFFICES ASSUME Init PROVE WindowInv
    OBVIOUS
  <2>0. /\ backend = "pop" /\ first = NoTask /\ second = NoTask /\ handled = 0
        /\ pushed = Len(tasks) /\ messages = <<>> /\ answer = None
        /\ session = NewSession(InitialDisk) /\ discarded = FALSE
    BY DEF Init
  <2>1. QueueInv
    <3>1. AfterSecond = 0
      BY <2>0 DEF AfterFirst, AfterSecond
    <3>2. tasks \in Seq(TaskSet) /\ Waiting(tasks, 0)
      <4>1. CASE tasks = <<>>
        BY <4>1 DEF Waiting
      <4>2. ASSUME NEW f \in Files, tasks = <<Task("open_file", f, 1)>>
            PROVE  tasks \in Seq(TaskSet) /\ Waiting(tasks, 0)
        <5> DEFINE t == Task("open_file", f, 1)
        <5>1. t \in TaskSet /\ t.from = 1 /\ t.to = 1
          BY PushedTask DEF Kinds, Actions
        <5> HIDE DEF t
        <5> QED
          BY <4>2, <5>1 DEF Waiting, t
      <4> QED
        BY <4>1, <4>2 DEF Init
    <3> QED
      BY <2>0, <3>1, <3>2 DEF QueueInv
  <2>2. SessionInv
    <3>1. /\ session \in Session /\ ~session.threw /\ session.file = Unsaved
          /\ session.serialized = NewCircuit /\ session.current = NoAction
          /\ session.request = None /\ session.step = None
      BY <2>0, FileAssumption, WindowAssumption
      DEF NewSession, Session, Names, NoAction, Requests, Errors
    <3>2. Unsaved \notin Files
      BY FileAssumption DEF Unsaved
    <3> QED
      BY <2>0, <3>1, <3>2 DEF SessionInv, Sound, Safe, None
  <2>3. MessageInv
    <3>1. /\ window \in [modal : BOOLEAN, destroyed : BOOLEAN,
                         dialog : Requests \cup Errors \cup {None}]
          /\ window.dialog = None
      BY DEF Init
    <3>2. Earlier(messages) /\ messages \in Seq(Words)
      BY <2>0 DEF Earlier
    <3> QED
      BY <2>0, <3>1, <3>2 DEF MessageInv, WindowTypes, AnswerInv, Asking, Quiet
  <2> QED
    BY <2>1, <2>2, <2>3 DEF WindowInv
<1>2. WindowInv /\ [Next]_vars => WindowInv'
  BY QueueStep, SessionStep, MessageStep DEF WindowInv
<1> QED
  BY <1>1, <1>2, PTL DEF Spec

\* Every task of p continues where the one before it, or n, ended.
Before(p, n, i) == IF i = 1 THEN n ELSE p[i - 1].to
Linked(p, n) ==
    \A i \in 1..Len(p) :
        /\ p[i].from = Before(p, n, i) + 1
        /\ p[i].from < p[i].to => p[i].of = {p[i].kind} /\ p[i].kind \in CombinedKinds

\* Tasks that wait are linked.
LEMMA WaitingIsLinked ==
    ASSUME NEW q \in Seq(TaskSet), NEW n \in Nat, Waiting(q, n)
    PROVE  Linked(q, n) /\ Before(q, n, Len(q) + 1) = n + Len(q)
<1>1. Len(q) \in Nat /\ \A i \in 1..Len(q) : q[i] \in TaskSet
  OBVIOUS
<1>2. \A i \in 1..Len(q) : q[i].from = n + i /\ q[i].to = n + i
  BY DEF Waiting
<1>3. ASSUME NEW i \in 1..Len(q)
      PROVE  /\ q[i].from = Before(q, n, i) + 1
             /\ ~(q[i].from < q[i].to)
  <2>1. CASE i = 1
    BY <1>1, <1>2, <2>1 DEF Before
  <2>2. CASE i # 1
    <3>1. i - 1 \in 1..Len(q)
      BY <1>1, <2>2
    <3>2. q[i - 1].to = n + (i - 1) /\ q[i].from = n + i /\ q[i].to = n + i
      BY <1>2, <3>1
    <3> QED
      BY <2>2, <3>2 DEF Before
  <2> QED
    BY <2>1, <2>2
<1>4. Before(q, n, Len(q) + 1) = n + Len(q)
  <2>1. CASE Len(q) = 0
    BY <2>1 DEF Before
  <2>2. CASE Len(q) # 0
    <3>1. Len(q) \in 1..Len(q) /\ Len(q) + 1 # 1 /\ (Len(q) + 1) - 1 = Len(q)
      BY <1>1, <2>2
    <3> QED
      BY <1>2, <3>1 DEF Before
  <2> QED
    BY <2>1, <2>2
<1> QED
  BY <1>3, <1>4 DEF Linked

\* They stay linked when the task before them is added.
LEMMA LinkedWithFirst ==
    ASSUME NEW q \in Seq(TaskSet), NEW n \in Nat, NEW t \in TaskSet, t.from = n + 1,
           Linked(q, t.to)
    PROVE  LET p == <<t>> \o q
           IN  /\ p \in Seq(TaskSet) /\ Linked(p, n)
               /\ Before(p, n, Len(p) + 1) = Before(q, t.to, Len(q) + 1)
<1> DEFINE p == <<t>> \o q
<1>1. /\ p \in Seq(TaskSet) /\ Len(p) = 1 + Len(q) /\ Len(q) \in Nat
      /\ p[1] = t
      /\ \A i \in 1..Len(q) : p[i + 1] = q[i]
  OBVIOUS
<1> SUFFICES /\ p \in Seq(TaskSet) /\ Linked(p, n)
             /\ Before(p, n, Len(p) + 1) = Before(q, t.to, Len(q) + 1)
  OBVIOUS
<1> HIDE DEF p
<1>2. ASSUME NEW i \in 1..(Len(q) + 1)
      PROVE  Before(p, n, i + 1) = Before(q, t.to, i)
  <2>1. CASE i = 1
    BY <1>1, <2>1 DEF Before
  <2>2. CASE i # 1
    <3>1. /\ i - 1 \in 1..Len(q) /\ (i + 1) - 1 = i /\ i + 1 # 1 /\ (i - 1) + 1 = i
      BY <1>1, <2>2
    <3>2. p[i] = q[i - 1]
      BY <1>1, <3>1
    <3> QED
      BY <2>2, <3>1, <3>2 DEF Before
  <2> QED
    BY <2>1, <2>2
<1>3. ASSUME NEW i \in 1..Len(p)
      PROVE  /\ p[i].from = Before(p, n, i) + 1
             /\ p[i].from < p[i].to => p[i].of = {p[i].kind} /\ p[i].kind \in CombinedKinds
  <2>1. CASE i = 1
    BY <1>1, <2>1 DEF Before, TaskSet
  <2>2. CASE i # 1
    <3>1. PICK j \in 1..Len(q) : i = j + 1
      <4>1. i - 1 \in 1..Len(q) /\ i = (i - 1) + 1
        BY <1>1, <2>2
      <4> QED
        BY <4>1
    <3>2. p[i] = q[j] /\ Before(p, n, i) = Before(q, t.to, j)
      BY <1>1, <1>2, <3>1
    <3> QED
      BY <3>2 DEF Linked
  <2> QED
    BY <2>1, <2>2
<1>4. Before(p, n, Len(p) + 1) = Before(q, t.to, Len(q) + 1)
  <2>1. Len(q) + 1 \in 1..(Len(q) + 1) /\ Len(p) + 1 = (Len(q) + 1) + 1
    BY <1>1
  <2> QED
    BY <1>2, <2>1
<1> QED
  BY <1>1, <1>3, <1>4 DEF Linked

\* No task that the window pushed is lost, repeated or overtaken on its way through the
\* queue and the two tasks that the backend loop holds and combines.
THEOREM TasksInOrder == Spec => []EventsInOrder
<1>1. WindowInv => EventsInOrder
  <2> SUFFICES ASSUME QueueInv PROVE EventsInOrder
    BY DEF WindowInv
  <2> DEFINE held == IF first = NoTask THEN <<>>
                     ELSE IF second = NoTask THEN <<first>> ELSE <<first, second>>
             pending == held \o tasks
  <2>1. tasks \in Seq(TaskSet) /\ handled \in Nat /\ pushed = AfterSecond + Len(tasks)
    BY DEF QueueInv
  <2>2. AfterSecond \in Nat /\ AfterFirst \in Nat
    BY DEF QueueInv, AfterFirst, AfterSecond, TaskSet
  <2>3. /\ Linked(tasks, AfterSecond)
        /\ Before(tasks, AfterSecond, Len(tasks) + 1) = pushed
    BY <2>1, <2>2, WaitingIsLinked DEF QueueInv
  <2>4. /\ pending \in Seq(TaskSet) /\ Linked(pending, handled)
        /\ Before(pending, handled, Len(pending) + 1) = pushed
    <3>1. CASE first = NoTask
      <4>1. second = NoTask /\ AfterSecond = handled /\ pending = tasks
        BY <2>1, <3>1 DEF QueueInv, AfterFirst, AfterSecond
      <4> QED
        BY <2>1, <2>3, <4>1
    <3>2. CASE first # NoTask /\ second = NoTask
      <4>1. /\ AfterSecond = first.to /\ pending = <<first>> \o tasks
            /\ first \in TaskSet /\ first.from = handled + 1
        BY <3>2 DEF QueueInv, AfterFirst, AfterSecond
      <4> QED
        BY <2>1, <2>3, <4>1, LinkedWithFirst
    <3>3. CASE first # NoTask /\ second # NoTask
      <4>1. /\ AfterFirst = first.to /\ AfterSecond = second.to
            /\ first \in TaskSet /\ first.from = handled + 1
            /\ second \in TaskSet /\ second.from = AfterFirst + 1
        BY <3>3 DEF QueueInv, AfterFirst, AfterSecond
      <4> DEFINE rest == <<second>> \o tasks
      <4>2. /\ rest \in Seq(TaskSet) /\ Linked(rest, first.to)
            /\ Before(rest, first.to, Len(rest) + 1) = pushed
        BY <2>1, <2>2, <2>3, <4>1, LinkedWithFirst
      <4>3. pending = <<first>> \o rest
        <5>1. pending = <<first, second>> \o tasks
          BY <3>3
        <5>2. <<first, second>> = <<first>> \o <<second>>
          <6> DEFINE a == <<first, second>>
                     b == <<first>> \o <<second>>
          <6>1. /\ a \in Seq(TaskSet) /\ b \in Seq(TaskSet) /\ Len(a) = 2 /\ Len(b) = 2
                /\ a[1] = first /\ a[2] = second /\ b[1] = first /\ b[2] = second
            BY <4>1
          <6> HIDE DEF a, b
          <6>2. \A i \in 1..Len(a) : a[i] = b[i]
            BY <6>1
          <6>3. a = b
            BY <6>1, <6>2, SeqEqual
          <6> QED
            BY <6>3 DEF a, b
        <5>3. <<first>> \in Seq(TaskSet) /\ <<second>> \in Seq(TaskSet)
          BY <4>1
        <5> HIDE DEF pending
        <5>4. (<<first>> \o <<second>>) \o tasks = <<first>> \o (<<second>> \o tasks)
          BY <2>1, <5>3, ConcatAssociative
        <5> QED
          BY <5>1, <5>2, <5>4
      <4> HIDE DEF rest, pending
      <4> QED
        BY <2>1, <4>1, <4>2, <4>3, LinkedWithFirst
    <3> QED
      BY <3>1, <3>2, <3>3
  <2>5. DOMAIN pending = 1..Len(pending)
    BY <2>4, LenProperties
  <2> QED
    BY <2>4, <2>5 DEF EventsInOrder, Linked, Before
<1> QED
  BY <1>1, WindowInvariant, PTL

\* A dialog is never shown over another one or over a window that takes commands.
THEOREM DialogsAreModal == Spec => []DialogIsModal
<1>1. WindowInv => DialogIsModal
  BY DEF WindowInv, MessageInv, Asking, Shown, Sent, Quiet, DialogIsModal
<1> QED
  BY <1>1, WindowInvariant, PTL

\* The backend thread never uses the model against its modal state.
THEOREM BackendNeverThrows == Spec => []NeverThrows
<1>1. WindowInv => NeverThrows
  <2> SUFFICES ASSUME QueueInv, SessionInv PROVE NeverThrows
    BY DEF WindowInv
  <2>1. ~session.threw
    BY DEF SessionInv, Sound
  <2>2. session.request # None <=> backend \in {"step", "wait"} /\ session.step \in Requests
    BY DEF QueueInv, SessionInv, Asks
  <2> QED
    BY <2>1, <2>2 DEF NeverThrows
<1> QED
  BY <1>1, WindowInvariant, PTL

\* No circuit disappears, by whatever sequence of questions, answers and failed writes,
\* unless it is in a file, the user gave it up, or was told that it is not saved.
THEOREM CircuitsAreKept == Spec => CircuitNeverLost
<1>1. ASSUME WindowInv, [Next]_vars
      PROVE  [ \/ session'.circuit # session.circuit /\ ~HandleInput
               \/ window'.destroyed # window.destroyed
               => discarded' \/ Kept(session', session.circuit, session.file) ]_vars
  <2>0. QueueInv /\ SessionInv /\ MessageInv
    BY <1>1 DEF WindowInv
  <2>1. CASE HandleFileAction \/ OpenDropped \/ Answered
    <3>1. Keeps(session, session', discarded') /\ window' = window
      BY <2>0, <2>1, OperationIsSound DEF HandleFileAction, OpenDropped, Answered, gui
    <3> QED
      BY <3>1 DEF Keeps, IsKept, Kept
  <2>2. CASE ExitApplication
    <3>1. /\ messages # <<>> /\ Head(messages) = "exit"
          /\ session' = session /\ discarded' = discarded
      BY <2>2 DEF ExitApplication, ReceiveMessage, own
    <3>2. Newest(messages) = "exit"
      BY <2>0, <3>1, ReceivedMessage DEF MessageInv, WindowTypes
    <3>3. backend = "ended" /\ session.step = "exit"
      BY <2>0, <3>1, <3>2
      DEF MessageInv, AnswerInv, Asking, Shown, Sent, Quiet, Closing, SessionInv, Requests,
          Errors
    <3>4. Sound(session) /\ (discarded \/ Spare(session))
      BY <2>0, <3>3 DEF SessionInv
    <3> QED
      BY <3>1, <3>4, SpareIsKept DEF IsKept, Kept
  <2>3. CASE session'.circuit = session.circuit /\ window'.destroyed = window.destroyed
    BY <2>3
  <2>4. CASE ErrorRead
    <3>1. session' = [session EXCEPT !.step = None] /\ window' = window
      BY <2>4 DEF ErrorRead, gui
    <3>2. session'.circuit = session.circuit
      BY <2>0, <3>1 DEF SessionInv, Sound, Session
    <3> QED
      BY <2>3, <3>1, <3>2
  <2>5. CASE HandleInput
    BY <2>5 DEF HandleInput, gui
  <2>6. CASE \/ PopFirst \/ CombineTasks \/ PopSecond
             \/ AskUser \/ EndRequest \/ ExitRequest
             \/ \E kind \in InputKinds : Input(kind)
             \/ LoadExample
    BY <2>3, <2>6
    DEF PopFirst, CombineTasks, PopSecond, AskUser, EndRequest, ExitRequest, Input,
        LoadExample, Push, gui, own
  <2>7. CASE \/ ShowDialog \/ EndModalState \/ AnswerDialog
             \/ \E action \in Actions \ {"load_example"} : Command(action)
             \/ \E f \in Files : DropFile(f)
    <3>1. session' = session
      BY <2>7 DEF ShowDialog, EndModalState, AnswerDialog, Command, DropFile, Push, own
    <3>2. window'.destroyed = window.destroyed
      <4>1. window \in [modal : BOOLEAN, destroyed : BOOLEAN,
                        dialog : Requests \cup Errors \cup {None}]
        BY <2>0 DEF MessageInv, WindowTypes
      <4> QED
        BY <2>7, <4>1 DEF ShowDialog, EndModalState, AnswerDialog, Command, DropFile
    <3> QED
      BY <2>3, <3>1, <3>2
  <2>8. CASE UNCHANGED vars
    BY <2>8 DEF vars
  <2> QED
    BY <1>1, <2>1, <2>2, <2>4, <2>5, <2>6, <2>7, <2>8 DEF Next
<1> QED
  BY <1>1, WindowInvariant, PTL DEF Spec, CircuitNeverLost
==============================================================================
