------------------------- MODULE RenderBuffersProofs -------------------------
(***************************************************************************)
(* Theorems about the frame buffers, for any number of buffers, any sizes  *)
(* of the window and any number of repaints and failures.                  *)
(***************************************************************************)
EXTENDS RenderBuffers, TLAPS

------------------------------------------------------------------------------
(* What the queue operations do to the buffers that are queued.              *)

\* Popping removes the first buffer, and only it.
LEMMA PopQueued ==
    ASSUME NEW S, NEW q \in Seq(S), q # <<>>, Distinct(q), NEW b
    PROVE  /\ Head(q) \in S
           /\ Queued(q, Head(q))
           /\ Tail(q) \in Seq(S)
           /\ Distinct(Tail(q))
           /\ Queued(Tail(q), b) <=> Queued(q, b) /\ b # Head(q)
<1>1. Tail(q) \in Seq(S) /\ Len(Tail(q)) = Len(q) - 1 /\ Len(q) \in Nat \ {0}
      /\ Head(q) = q[1] /\ q[1] \in S
  OBVIOUS
<1>2. \A i \in 1..Len(q) - 1 : Tail(q)[i] = q[i + 1]
  OBVIOUS
<1>3. DOMAIN q = 1..Len(q) /\ DOMAIN Tail(q) = 1..Len(q) - 1
  BY <1>1
<1>4. Distinct(Tail(q))
  BY <1>1, <1>2, <1>3 DEF Distinct
<1>5. Queued(Tail(q), b) => Queued(q, b) /\ b # Head(q)
  <2>1. SUFFICES ASSUME NEW i \in 1..Len(q) - 1, Tail(q)[i] = b
                 PROVE  Queued(q, b) /\ b # Head(q)
    BY <1>3 DEF Queued
  <2>2. i + 1 \in DOMAIN q /\ q[i + 1] = b /\ i + 1 # 1
    BY <1>1, <1>2, <1>3, <2>1
  <2>. QED
    BY <1>1, <1>3, <2>2 DEF Queued, Distinct
<1>6. Queued(q, b) /\ b # Head(q) => Queued(Tail(q), b)
  <2>1. SUFFICES ASSUME NEW i \in 1..Len(q), q[i] = b, b # Head(q)
                 PROVE  Queued(Tail(q), b)
    BY <1>3 DEF Queued
  <2>2. i - 1 \in 1..Len(q) - 1 /\ Tail(q)[i - 1] = q[i]
    BY <1>1, <1>2, <2>1
  <2>. QED
    BY <1>3, <2>1, <2>2 DEF Queued
<1>7. Queued(q, Head(q))
  BY <1>1, <1>3 DEF Queued
<1>. QED
  BY <1>1, <1>4, <1>5, <1>6, <1>7

\* Pushing adds one buffer at the end.
LEMMA PushQueued ==
    ASSUME NEW S, NEW q \in Seq(S), NEW x \in S, Distinct(q), ~Queued(q, x), NEW b
    PROVE  /\ Append(q, x) \in Seq(S)
           /\ Distinct(Append(q, x))
           /\ Queued(Append(q, x), b) <=> Queued(q, b) \/ b = x
<1>1. Append(q, x) \in Seq(S) /\ Len(Append(q, x)) = Len(q) + 1 /\ Len(q) \in Nat
  OBVIOUS
<1>2. DOMAIN q = 1..Len(q) /\ DOMAIN Append(q, x) = 1..Len(q) + 1
  BY <1>1
<1>3. /\ \A i \in 1..Len(q) : Append(q, x)[i] = q[i]
      /\ Append(q, x)[Len(q) + 1] = x
  OBVIOUS
<1>4. Distinct(Append(q, x))
  BY <1>1, <1>2, <1>3 DEF Distinct, Queued
<1>5. Queued(Append(q, x), b) <=> Queued(q, b) \/ b = x
  <2>1. Queued(Append(q, x), b) => Queued(q, b) \/ b = x
    BY <1>1, <1>2, <1>3 DEF Queued
  <2>2. Queued(q, b) => Queued(Append(q, x), b)
    BY <1>1, <1>2, <1>3 DEF Queued
  <2>3. Queued(Append(q, x), x)
    BY <1>1, <1>2, <1>3 DEF Queued
  <2>. QED
    BY <2>1, <2>2, <2>3
<1>. QED
  BY <1>1, <1>4, <1>5

\* Pushing to the front adds one buffer before all others.
LEMMA PushFrontQueued ==
    ASSUME NEW S, NEW q \in Seq(S), NEW x \in S, Distinct(q), ~Queued(q, x), NEW b
    PROVE  /\ <<x>> \o q \in Seq(S)
           /\ Distinct(<<x>> \o q)
           /\ Queued(<<x>> \o q, b) <=> Queued(q, b) \/ b = x
<1>. DEFINE r == <<x>> \o q
<1>1. r \in Seq(S) /\ Len(r) = Len(q) + 1 /\ Len(q) \in Nat
  OBVIOUS
<1>2. DOMAIN q = 1..Len(q) /\ DOMAIN r = 1..Len(q) + 1
  BY <1>1
<1>3. r[1] = x /\ \A i \in 2..Len(q) + 1 : r[i] = q[i - 1]
  OBVIOUS
<1>4. \A i \in 1..Len(q) : r[i + 1] = q[i]
  BY <1>1, <1>3
<1>. HIDE DEF r
<1>5. Distinct(r)
  <2>1. SUFFICES ASSUME NEW i \in 1..Len(q) + 1, NEW j \in 1..Len(q) + 1, r[i] = r[j]
                 PROVE  i = j
    BY <1>2 DEF Distinct
  <2>2. CASE i = 1 \/ j = 1
    BY <1>1, <1>2, <1>3, <2>1, <2>2 DEF Queued
  <2>3. CASE i # 1 /\ j # 1
    <3>1. i - 1 \in DOMAIN q /\ j - 1 \in DOMAIN q /\ q[i - 1] = q[j - 1]
      BY <1>1, <1>2, <1>3, <2>1, <2>3
    <3>. QED
      BY <3>1, <1>1 DEF Distinct
  <2>. QED
    BY <2>2, <2>3
<1>6. Queued(r, b) <=> Queued(q, b) \/ b = x
  <2>1. Queued(r, b) => Queued(q, b) \/ b = x
    <3>1. SUFFICES ASSUME NEW i \in 1..Len(q) + 1, r[i] = b, b # x
                   PROVE  Queued(q, b)
      BY <1>2 DEF Queued
    <3>2. i - 1 \in DOMAIN q /\ q[i - 1] = b
      BY <1>1, <1>2, <1>3, <3>1
    <3>. QED
      BY <3>2 DEF Queued
  <2>2. Queued(q, b) => Queued(r, b)
    <3>1. SUFFICES ASSUME NEW i \in 1..Len(q), q[i] = b
                   PROVE  Queued(r, b)
      BY <1>2 DEF Queued
    <3>2. i + 1 \in DOMAIN r /\ r[i + 1] = b
      BY <1>1, <1>2, <1>4, <3>1
    <3>. QED
      BY <3>2 DEF Queued
  <2>3. Queued(r, x)
    BY <1>1, <1>2, <1>3 DEF Queued
  <2>. QED
    BY <2>1, <2>2, <2>3
<1>. QED
  BY <1>1, <1>5, <1>6 DEF r

------------------------------------------------------------------------------
(* Types, and where a buffer is held.                                        *)

LEMMA InitIInv == Init => IInv
<1>. SUFFICES ASSUME Init PROVE IInv
  OBVIOUS
<1>1. TypeOK
  BY BufferAssumption
  DEF Init, TypeOK, Buffers, NoBuffer, Frames
<1>2. OneOwner
  BY BufferAssumption
  DEF Init, OneOwner, SingleOwner, Distinct, Queued, Buffers, NoBuffer
<1>3. Held /\ Ascending
  BY BufferAssumption
  DEF Init, Held, Ascending, Buffers, NoBuffer, Version
<1>. QED
  BY <1>1, <1>2, <1>3 DEF IInv

LEMMA TypeStep ==
    ASSUME TypeOK, Held, [Next]_vars
    PROVE  TypeOK'
<1>. USE DEF TypeOK, NoBuffer
<1>1. ASSUME NEW p \in Params, AskRepaint(p) PROVE TypeOK'
  BY <1>1 DEF AskRepaint, sink
<1>2. CASE RepeatRepaint
  BY <1>2 DEF RepeatRepaint, sink
<1>3. CASE PopToFill
  <2>1. Head(readyToFill) \in Buffers /\ Tail(readyToFill) \in Seq(Buffers)
    BY <1>3 DEF PopToFill
  <2>. QED
    BY <1>3, <2>1 DEF PopToFill, sink
<1>4. CASE RenderToBuffer
  <2>1. sourceBuffer \in Buffers
    BY <1>4 DEF RenderToBuffer, Held
  <2>2. frame' \in [Buffers -> Frames]
    BY <1>4, <2>1 DEF RenderToBuffer, Frames
  <2>3. readyToPresent' \in Seq(Buffers)
    BY <1>4, <2>1 DEF RenderToBuffer
  <2>. QED
    BY <1>4, <2>2, <2>3 DEF RenderToBuffer, sink
<1>5. CASE EndSource
  BY <1>5 DEF EndSource, sink
<1>6. CASE PopToPresent
  <2>1. Head(readyToPresent) \in Buffers /\ Tail(readyToPresent) \in Seq(Buffers)
    BY <1>6 DEF PopToPresent
  <2>. QED
    BY <1>6, <2>1 DEF PopToPresent, source
<1>7. CASE DrawBuffer
  <2>1. sinkBuffer \in Buffers
    BY <1>7 DEF DrawBuffer, Held
  <2>2. readyToFill' \in Seq(Buffers) /\ bitmap' \in Nat
    BY <1>7, <2>1 DEF DrawBuffer, Frames
  <2>. QED
    BY <1>7, <2>2 DEF DrawBuffer, source
<1>8. CASE KeepBuffer
  <2>1. sinkBuffer \in Buffers
    BY <1>8 DEF KeepBuffer, Held
  <2>2. readyToPresent' \in Seq(Buffers) /\ failures' \in Nat
    BY <1>8, <2>1 DEF KeepBuffer
  <2>. QED
    BY <1>8, <2>2 DEF KeepBuffer, source
<1>9. CASE PresentFrame
  BY <1>9 DEF PresentFrame, source
<1>10. CASE LoseFrame
  BY <1>10 DEF LoseFrame, source
<1>11. CASE EndSink
  BY <1>11 DEF EndSink, source
<1>12. CASE ShutdownTasks \/ ShutdownFill \/ ShutdownPresent
  BY <1>12 DEF ShutdownTasks, ShutdownFill, ShutdownPresent, Shutdown, source, sink
<1>13. CASE UNCHANGED vars
  BY <1>13 DEF vars, source, sink
<1>. QED
  BY <1>1, <1>2, <1>3, <1>4, <1>5, <1>6, <1>7, <1>8, <1>9, <1>10, <1>11, <1>12, <1>13
  DEF Next

LEMMA HeldStep ==
    ASSUME TypeOK, Held, [Next]_vars
    PROVE  Held'
<1>. USE DEF Held
<1>1. NoBuffer \notin Buffers
  BY BufferAssumption DEF NoBuffer, Buffers
<1>2. Buffers' = Buffers
  BY DEF Buffers
<1>3. CASE Next
  <2>1. ASSUME NEW p \in Params, AskRepaint(p) PROVE Held'
    BY <2>1 DEF AskRepaint, sink
  <2>2. CASE RepeatRepaint \/ EndSource
    BY <2>2 DEF RepeatRepaint, EndSource, sink
  <2>3. CASE PopToFill
    BY <2>3 DEF PopToFill, TypeOK, sink
  <2>4. CASE RenderToBuffer
    BY <2>4, <1>1 DEF RenderToBuffer, sink
  <2>5. CASE PopToPresent
    BY <2>5 DEF PopToPresent, TypeOK, source
  <2>6. CASE DrawBuffer \/ KeepBuffer
    BY <2>6, <1>1 DEF DrawBuffer, KeepBuffer, source
  <2>7. CASE PresentFrame \/ LoseFrame \/ EndSink
    BY <2>7 DEF PresentFrame, LoseFrame, EndSink, source
  <2>8. CASE ShutdownTasks \/ ShutdownFill \/ ShutdownPresent
    BY <2>8 DEF ShutdownTasks, ShutdownFill, ShutdownPresent, Shutdown, source, sink
  <2>. QED
    BY <1>3, <2>1, <2>2, <2>3, <2>4, <2>5, <2>6, <2>7, <2>8 DEF Next
<1>4. CASE UNCHANGED vars
  BY <1>4 DEF vars, source, sink
<1>. QED
  BY <1>3, <1>4

------------------------------------------------------------------------------
(* Every buffer has one owner.                                               *)

LEMMA OneOwnerStep ==
    ASSUME TypeOK, Held, OneOwner, [Next]_vars
    PROVE  OneOwner'
<1>. USE DEF OneOwner, SingleOwner
<1>1. NoBuffer \notin Buffers /\ Buffers' = Buffers
  BY BufferAssumption DEF NoBuffer, Buffers
<1>2. readyToFill \in Seq(Buffers) /\ readyToPresent \in Seq(Buffers)
  BY DEF TypeOK
<1>3. CASE PopToFill
  <2>1. /\ Distinct(Tail(readyToFill))
        /\ Head(readyToFill) \in Buffers
        /\ Queued(readyToFill, Head(readyToFill))
        /\ \A b : Queued(Tail(readyToFill), b)
                    <=> Queued(readyToFill, b) /\ b # Head(readyToFill)
    BY <1>2, <1>3, PopQueued DEF PopToFill
  <2>2. sourceBuffer \notin Buffers
    BY <1>3 DEF PopToFill, Held
  <2>. QED
    BY <1>1, <1>3, <2>1, <2>2 DEF PopToFill, sink
<1>4. CASE RenderToBuffer
  <2>1. sourceBuffer \in Buffers
    BY <1>4 DEF RenderToBuffer, Held
  <2>2. /\ Distinct(Append(readyToPresent, sourceBuffer))
        /\ \A b : Queued(Append(readyToPresent, sourceBuffer), b)
                    <=> Queued(readyToPresent, b) \/ b = sourceBuffer
    BY <1>2, <2>1, PushQueued
  <2>. QED
    BY <1>1, <1>4, <2>1, <2>2 DEF RenderToBuffer, sink
<1>5. CASE PopToPresent
  <2>1. /\ Distinct(Tail(readyToPresent))
        /\ Head(readyToPresent) \in Buffers
        /\ Queued(readyToPresent, Head(readyToPresent))
        /\ \A b : Queued(Tail(readyToPresent), b)
                    <=> Queued(readyToPresent, b) /\ b # Head(readyToPresent)
    BY <1>2, <1>5, PopQueued DEF PopToPresent
  <2>2. sinkBuffer \notin Buffers
    BY <1>5 DEF PopToPresent, Held
  <2>. QED
    BY <1>1, <1>5, <2>1, <2>2 DEF PopToPresent, source
<1>6. CASE DrawBuffer
  <2>1. sinkBuffer \in Buffers
    BY <1>6 DEF DrawBuffer, Held
  <2>2. /\ Distinct(Append(readyToFill, sinkBuffer))
        /\ \A b : Queued(Append(readyToFill, sinkBuffer), b)
                    <=> Queued(readyToFill, b) \/ b = sinkBuffer
    BY <1>2, <2>1, PushQueued
  <2>. QED
    BY <1>1, <1>6, <2>1, <2>2 DEF DrawBuffer, source
<1>7. CASE KeepBuffer
  <2>1. sinkBuffer \in Buffers
    BY <1>7 DEF KeepBuffer, Held
  <2>2. /\ Distinct(<<sinkBuffer>> \o readyToPresent)
        /\ \A b : Queued(<<sinkBuffer>> \o readyToPresent, b)
                    <=> Queued(readyToPresent, b) \/ b = sinkBuffer
    BY <1>2, <2>1, PushFrontQueued
  <2>. QED
    BY <1>1, <1>7, <2>1, <2>2 DEF KeepBuffer, source
<1>8. ASSUME UNCHANGED <<readyToFill, readyToPresent, sourceBuffer, sinkBuffer>>
      PROVE  OneOwner'
  BY <1>1, <1>8 DEF Distinct, Queued
<1>9. ASSUME NEW p \in Params, AskRepaint(p) PROVE OneOwner'
  BY <1>8, <1>9 DEF AskRepaint, sink
<1>10. CASE RepeatRepaint \/ EndSource
  BY <1>8, <1>10 DEF RepeatRepaint, EndSource, sink
<1>11. CASE PresentFrame \/ LoseFrame \/ EndSink
  BY <1>8, <1>11 DEF PresentFrame, LoseFrame, EndSink, source
<1>12. CASE ShutdownTasks \/ ShutdownFill \/ ShutdownPresent
  BY <1>8, <1>12
  DEF ShutdownTasks, ShutdownFill, ShutdownPresent, Shutdown, source, sink
<1>13. CASE UNCHANGED vars
  BY <1>8, <1>13 DEF vars, source, sink
<1>. QED
  BY <1>3, <1>4, <1>5, <1>6, <1>7, <1>9, <1>10, <1>11, <1>12, <1>13 DEF Next

------------------------------------------------------------------------------
(* The frames grow older from the end of the queue to the window.            *)

LEMMA AscendingStep ==
    ASSUME TypeOK, Held, OneOwner, Ascending, [Next]_vars
    PROVE  Ascending'
<1>. DEFINE q == readyToPresent
<1>. USE DEF Ascending, Version
<1>1. NoBuffer \notin Buffers /\ Buffers' = Buffers
  BY BufferAssumption DEF NoBuffer, Buffers
<1>2. /\ q \in Seq(Buffers) /\ Len(q) \in Nat /\ DOMAIN q = 1..Len(q)
      /\ \A i \in DOMAIN q : q[i] \in Buffers
      /\ \A b \in Buffers : frame[b].version \in Nat
      /\ shown \in Nat /\ bitmap \in Nat /\ version \in Nat
  BY DEF TypeOK, Frames
<1>n. PICK n \in Nat : n = Len(q)
  BY <1>2
<1>a. \A i \in 1..n : /\ Version(i) \in Nat /\ Version(i) <= version
                           /\ shown <= Version(i) /\ bitmap <= Version(i)
                           /\ sinkBuffer \in Buffers
                                => frame[sinkBuffer].version <= Version(i)
  BY <1>2, <1>n
<1>b. \A i, j \in 1..n : i <= j => Version(i) <= Version(j)
  BY <1>2, <1>n
<1>3. CASE RenderToBuffer
  <2>1. sourceBuffer \in Buffers /\ sourceBuffer # sinkBuffer
        /\ \A i \in DOMAIN q : q[i] # sourceBuffer
    BY <1>3 DEF RenderToBuffer, Held, OneOwner, SingleOwner, Queued
  <2>2. /\ frame'[sourceBuffer].version = version
        /\ \A b \in Buffers : b # sourceBuffer => frame'[b] = frame[b]
    BY <1>3, <2>1 DEF RenderToBuffer, TypeOK
  <2>3. /\ DOMAIN q' = 1..n + 1
        /\ \A i \in 1..n : q'[i] = q[i]
        /\ q'[n + 1] = sourceBuffer
    BY <1>2, <1>n, <1>3 DEF RenderToBuffer
  <2>4. /\ \A i \in 1..n : Version(i)' = Version(i)
        /\ Version(n + 1)' = version
    <3>1. \A i \in 1..n : q[i] \in Buffers /\ q[i] # sourceBuffer
      BY <1>2, <1>n, <2>1
    <3>2. n + 1 \in Nat
      BY <1>2, <1>n
    <3>. QED
      BY <2>2, <2>3, <3>1, <3>2
  <2>5. /\ version' = version /\ shown' = shown /\ bitmap' = bitmap
        /\ sinkBuffer' = sinkBuffer
        /\ sinkBuffer \in Buffers => frame'[sinkBuffer] = frame[sinkBuffer]
    BY <1>3, <2>1, <2>2 DEF RenderToBuffer, sink
  <2>6. \A i, j \in DOMAIN q' : i <= j => Version(i)' <= Version(j)'
    <3>1. SUFFICES ASSUME NEW i \in 1..n + 1, NEW j \in 1..n + 1, i <= j
                   PROVE  Version(i)' <= Version(j)'
      BY <2>3
    <3>2. CASE i = n + 1
      <4>1. j = n + 1
        BY <1>2, <1>n, <3>1, <3>2
      <4>. QED
        BY <1>2, <1>n, <2>4, <3>2, <4>1
    <3>3. CASE i \in 1..n /\ j = n + 1
      BY <1>n, <1>a, <2>4, <3>3
    <3>4. CASE i \in 1..n /\ j \in 1..n
      BY <1>n, <1>b, <2>4, <3>1, <3>4
    <3>5. i \in 1..n \/ i = n + 1
      BY <1>2, <1>n, <3>1
    <3>6. j \in 1..n \/ j = n + 1
      BY <1>2, <1>n, <3>1
    <3>. QED
      BY <3>2, <3>3, <3>4, <3>5, <3>6
  <2>7. \A i \in DOMAIN q' : /\ Version(i)' <= version /\ shown <= Version(i)'
                             /\ bitmap <= Version(i)'
                             /\ sinkBuffer \in Buffers
                                  => frame[sinkBuffer].version <= Version(i)'
    <3>1. SUFFICES ASSUME NEW i \in 1..n + 1
                   PROVE  /\ Version(i)' <= version /\ shown <= Version(i)'
                          /\ bitmap <= Version(i)'
                          /\ sinkBuffer \in Buffers
                               => frame[sinkBuffer].version <= Version(i)'
      BY <2>3
    <3>2. CASE i \in 1..n
      BY <1>n, <1>a, <2>4, <3>2
    <3>3. CASE i = n + 1
      BY <1>2, <1>n, <2>4, <3>3
    <3>. QED
      BY <1>2, <1>n, <3>1, <3>2, <3>3
  <2>. QED
    BY <1>1, <2>5, <2>6, <2>7
<1>4. CASE PopToPresent
  <2>1. /\ q # <<>> /\ q' = Tail(q) /\ sinkBuffer' = q[1]
        /\ UNCHANGED <<frame, version, shown, bitmap>>
    BY <1>2, <1>n, <1>4 DEF PopToPresent
  <2>2. /\ DOMAIN q' = 1..n - 1
        /\ \A i \in 1..n - 1 : q'[i] = q[i + 1] /\ i + 1 \in DOMAIN q
        /\ 1 \in DOMAIN q
    BY <1>2, <1>n, <2>1
  <2>3. \A i \in 1..n - 1 : Version(i)' = Version(i + 1)
    BY <2>1, <2>2
  <2>4. frame'[sinkBuffer'].version = Version(1)
    BY <2>1
  <2>5. \A i, j \in DOMAIN q' : i <= j => Version(i)' <= Version(j)'
    <3>1. SUFFICES ASSUME NEW i \in 1..n - 1, NEW j \in 1..n - 1, i <= j
                   PROVE  Version(i)' <= Version(j)'
      BY <2>2
    <3>2. i + 1 \in 1..n /\ j + 1 \in 1..n /\ i + 1 <= j + 1
      BY <1>2, <1>n, <3>1
    <3>. QED
      BY <1>n, <1>b, <2>3, <3>2
  <2>6. \A i \in DOMAIN q' : /\ Version(i)' <= version /\ shown <= Version(i)'
                             /\ bitmap <= Version(i)' /\ Version(1) <= Version(i)'
    <3>1. SUFFICES ASSUME NEW i \in 1..n - 1
                   PROVE  /\ Version(i)' <= version /\ shown <= Version(i)'
                          /\ bitmap <= Version(i)' /\ Version(1) <= Version(i)'
      BY <2>2
    <3>2. i + 1 \in 1..n /\ 1 \in 1..n /\ 1 <= i + 1
      BY <1>2, <1>n, <3>1
    <3>. QED
      BY <1>n, <1>a, <1>b, <2>3, <3>2
  <2>7. Version(1) <= version /\ shown <= Version(1) /\ bitmap <= Version(1)
    BY <2>2
  <2>. QED
    BY <2>1, <2>4, <2>5, <2>6, <2>7
<1>5. CASE DrawBuffer
  <2>1. sinkBuffer \in Buffers /\ sinkBuffer' = NoBuffer
    BY <1>5 DEF DrawBuffer, Held
  <2>2. bitmap' = 0 \/ bitmap' = frame[sinkBuffer].version
    BY <1>5 DEF DrawBuffer
  <2>3. UNCHANGED <<readyToPresent, frame, version, shown>>
    BY <1>5 DEF DrawBuffer
  <2>. QED
    BY <1>1, <1>2, <2>1, <2>2, <2>3
<1>6. CASE KeepBuffer
  <2>1. sinkBuffer \in Buffers /\ sinkBuffer' = NoBuffer /\ bitmap' = 0
        /\ UNCHANGED <<frame, version, shown>>
    BY <1>6 DEF KeepBuffer, Held
  <2>2. /\ DOMAIN q' = 1..n + 1
        /\ q'[1] = sinkBuffer
        /\ \A i \in 2..n + 1 : q'[i] = q[i - 1] /\ i - 1 \in DOMAIN q
    BY <1>2, <1>n, <1>6, <2>1 DEF KeepBuffer
  <2>3. /\ Version(1)' = frame[sinkBuffer].version
        /\ \A i \in 2..n + 1 : Version(i)' = Version(i - 1)
    BY <2>1, <2>2
  <2>4. \A i, j \in DOMAIN q' : i <= j => Version(i)' <= Version(j)'
    <3>1. SUFFICES ASSUME NEW i \in 1..n + 1, NEW j \in 1..n + 1, i <= j
                   PROVE  Version(i)' <= Version(j)'
      BY <2>2
    <3>2. CASE i = 1 /\ j = 1
      BY <1>2, <1>n, <2>1, <2>3, <3>2
    <3>3. CASE i = 1 /\ j # 1
      <4>1. j \in 2..n + 1 /\ j - 1 \in 1..n
        BY <1>n, <3>1, <3>3
      <4>2. Version(j)' = Version(j - 1)
        BY <2>3, <4>1
      <4>3. frame[sinkBuffer].version <= Version(j - 1)
        <5>1. PICK k \in 1..n : k = j - 1
          BY <4>1
        <5>. QED
          BY <1>n, <1>a, <2>1, <5>1
      <4>. QED
        BY <2>3, <3>3, <4>2, <4>3
    <3>4. CASE i # 1
      <4>1. j # 1 /\ i - 1 \in DOMAIN q /\ j - 1 \in DOMAIN q /\ i - 1 <= j - 1
        BY <1>2, <1>n, <3>1, <3>4
      <4>. QED
        BY <2>3, <3>1, <3>4, <4>1
    <3>. QED
      BY <3>2, <3>3, <3>4
  <2>5. \A i \in DOMAIN q' : /\ Version(i)' <= version /\ shown <= Version(i)'
                             /\ 0 <= Version(i)'
    <3>1. SUFFICES ASSUME NEW i \in 1..n + 1
                   PROVE  /\ Version(i)' <= version /\ shown <= Version(i)'
                          /\ 0 <= Version(i)'
      BY <2>2
    <3>2. CASE i = 1
      BY <1>2, <1>n, <2>1, <2>3, <3>2
    <3>3. CASE i # 1
      <4>1. i \in 2..n + 1 /\ i - 1 \in 1..n
        BY <1>n, <3>1, <3>3
      <4>2. Version(i)' = Version(i - 1)
        BY <2>3, <4>1
      <4>3. i - 1 \in DOMAIN q
        BY <2>2, <4>1
      <4>4. Version(i - 1) <= version /\ shown <= Version(i - 1)
        BY <4>3
      <4>5. 0 <= Version(i - 1)
        BY <1>2, <4>3
      <4>. QED
        BY <4>2, <4>4, <4>5
    <3>. QED
      BY <3>2, <3>3
  <2>. QED
    BY <1>1, <1>2, <2>1, <2>4, <2>5
<1>7. CASE PresentFrame
  <2>1. UNCHANGED <<readyToPresent, frame, version, sinkBuffer, bitmap>>
        /\ shown' = IF bitmap = 0 THEN shown ELSE bitmap
    BY <1>7 DEF PresentFrame
  <2>. QED
    BY <1>1, <1>2, <2>1
<1>8. CASE LoseFrame
  <2>1. UNCHANGED <<readyToPresent, frame, version, sinkBuffer, shown>> /\ bitmap' = 0
    BY <1>8 DEF LoseFrame
  <2>. QED
    BY <1>1, <1>2, <2>1
<1>9. ASSUME NEW p \in Params, AskRepaint(p) PROVE Ascending'
  <2>1. UNCHANGED <<readyToPresent, frame, sinkBuffer, bitmap, shown>>
        /\ version' = version + 1
    BY <1>9 DEF AskRepaint, sink
  <2>. QED
    BY <1>1, <1>2, <2>1
<1>10. ASSUME UNCHANGED <<readyToPresent, frame, version, sinkBuffer, bitmap, shown>>
       PROVE  Ascending'
  BY <1>1, <1>10
<1>11. CASE RepeatRepaint \/ PopToFill \/ EndSource
  BY <1>10, <1>11 DEF RepeatRepaint, PopToFill, EndSource, sink
<1>12. CASE EndSink \/ ShutdownTasks \/ ShutdownFill \/ ShutdownPresent
  BY <1>10, <1>12
  DEF EndSink, ShutdownTasks, ShutdownFill, ShutdownPresent, Shutdown, source, sink
<1>13. CASE UNCHANGED vars
  BY <1>10, <1>13 DEF vars, source, sink
<1>. QED
  BY <1>3, <1>4, <1>5, <1>6, <1>7, <1>8, <1>9, <1>11, <1>12, <1>13 DEF Next

LEMMA IInvStep == IInv /\ [Next]_vars => IInv'
  BY TypeStep, HeldStep, OneOwnerStep, AscendingStep DEF IInv

LEMMA InductiveInvariant == Spec => []IInv
  BY InitIInv, IInvStep, PTL DEF Spec

------------------------------------------------------------------------------
(* Theorems.                                                                 *)

\* Queues, buffers and frames stay what the code declares them to be.
THEOREM TypeCorrect == Spec => []TypeOK
<1>1. IInv => TypeOK
  BY DEF IInv
<1>. QED
  BY <1>1, InductiveInvariant, PTL

\* With any number of buffers each has exactly one owner at any time: the two threads
\* never touch the same pixels, and no failure loses a buffer.
THEOREM BuffersHaveOneOwner == Spec => []OneOwner
<1>1. IInv => OneOwner
  BY DEF IInv
<1>. QED
  BY <1>1, InductiveInvariant, PTL

\* The window never goes back to an older frame, however often frames are retried.
THEOREM WindowNeverGoesBack == Spec => FramesInOrder
<1>1. ASSUME IInv, [Next]_vars PROVE [shown' >= shown]_vars
  <2>1. bitmap \in Nat /\ shown \in Nat /\ (bitmap # 0 => shown <= bitmap)
    BY <1>1 DEF IInv, TypeOK, Ascending
  <2>2. CASE PresentFrame
    BY <2>1, <2>2 DEF PresentFrame
  <2>3. ASSUME shown' = shown PROVE shown' >= shown
    BY <2>1, <2>3
  <2>4. ASSUME NEW p \in Params, AskRepaint(p) PROVE shown' >= shown
    BY <2>3, <2>4 DEF AskRepaint, sink
  <2>5. CASE RepeatRepaint \/ PopToFill \/ RenderToBuffer \/ EndSource
    BY <2>3, <2>5 DEF RepeatRepaint, PopToFill, RenderToBuffer, EndSource, sink
  <2>6. CASE PopToPresent \/ DrawBuffer \/ KeepBuffer \/ LoseFrame \/ EndSink
    BY <2>3, <2>6 DEF PopToPresent, DrawBuffer, KeepBuffer, LoseFrame, EndSink
  <2>7. CASE ShutdownTasks \/ ShutdownFill \/ ShutdownPresent
    BY <2>3, <2>7 DEF ShutdownTasks, ShutdownFill, ShutdownPresent, Shutdown, sink
  <2>. QED
    BY <1>1, <2>2, <2>4, <2>5, <2>6, <2>7 DEF Next
<1>. QED
  BY <1>1, InductiveInvariant, PTL DEF Spec, FramesInOrder
==============================================================================
