--------------------------- MODULE KeyboardProofs ---------------------------
(***************************************************************************)
(* For a ring of any size and any keyboard: the types of Keyboard, and     *)
(* that the ring implements KeyQueue, a bounded queue, for its one reader. *)
(* And, for any word and rate of ticks, that a sleep ends at its tick.     *)
(***************************************************************************)
EXTENDS Keyboard, Sleep, SequenceTheorems, TLAPS

-----------------------------------------------------------------------------
(* Arithmetic of the ring.                                                 *)

LEMMA AfterIn == ASSUME NEW i \in Index PROVE After(i) \in Index
    BY SizeAssumption, SMT DEF Index, After

\* How many keys wait, and how that changes when either end moves.
LEMMA DistIn == ASSUME NEW h \in Index, NEW t \in Index
                PROVE /\ (h - t) % Size \in Index
                      /\ (h - t) % Size = 0 <=> h = t
    BY SizeAssumption, SMT DEF Index

LEMMA DistPush == ASSUME NEW h \in Index, NEW t \in Index, After(h) # t
                  PROVE /\ (After(h) - t) % Size = ((h - t) % Size) + 1
                        /\ (h - t) % Size < Size - 1
    BY SizeAssumption, SMT DEF Index, After

LEMMA DistPop == ASSUME NEW h \in Index, NEW t \in Index, h # t
                 PROVE (h - After(t)) % Size = ((h - t) % Size) - 1
    BY SizeAssumption, SMT DEF Index, After

\* The slots of the waiting keys are in the ring and none is the one at the
\* head; the slot behind the last waiting key is.
LEMMA SlotIn == ASSUME NEW t \in Index, NEW i \in 1..Size
                PROVE (t + i - 1) % Size \in Index
    BY SizeAssumption, SMT DEF Index

LEMMA SlotFree == ASSUME NEW h \in Index, NEW t \in Index,
                         NEW i \in 1..((h - t) % Size)
                  PROVE (t + i - 1) % Size # h
    BY SizeAssumption, SMT DEF Index

LEMMA SlotHead == ASSUME NEW h \in Index, NEW t \in Index
                  PROVE (t + ((h - t) % Size)) % Size = h
    BY SizeAssumption, SMT DEF Index

LEMMA SlotNext == ASSUME NEW t \in Index, NEW i \in 1..Size
                  PROVE (After(t) + i - 1) % Size = (t + i) % Size
    BY SizeAssumption, SMT DEF Index, After

LEMMA SlotFirst == ASSUME NEW t \in Index PROVE t % Size = t
    BY SizeAssumption, SMT DEF Index

-----------------------------------------------------------------------------
(* Types.                                                                  *)

Bytes == 0..255
Kept  == Chars \cup {"none"}

\* What a key sends when it goes down and when it goes up are bytes.
LEMMA WireTypes ==
    ASSUME NEW k \in Board
    PROVE  /\ k \in Seq(Bytes)
           /\ [k EXCEPT ![Len(k)] = @ + SC_RELEASE_MASK] \in Seq(Bytes)
<1>1. PICK code \in 1..127 : k = <<code>> \/ k = <<SC_EXTENDED_PREFIX, code>>
  BY BoardAssumption
<1>2. CASE k = <<code>>
  <2>1. [k EXCEPT ![Len(k)] = @ + SC_RELEASE_MASK] = <<code + 128>>
    BY <1>2 DEF SC_RELEASE_MASK
  <2> QED BY <1>2, <2>1 DEF Bytes
<1>3. CASE k = <<SC_EXTENDED_PREFIX, code>>
  <2>1. [k EXCEPT ![Len(k)] = @ + SC_RELEASE_MASK] = <<224, code + 128>>
    BY <1>3 DEF SC_RELEASE_MASK, SC_EXTENDED_PREFIX
  <2> QED BY <1>3, <2>1 DEF Bytes, SC_EXTENDED_PREFIX
<1> QED BY <1>1, <1>2, <1>3

\* The tables hold nothing but keys and "none".
LEMMA TableTypes ==
    ASSUME NEW code
    PROVE  scancode_to_ascii(code) \in Kept /\ extended_to_key(code) \in Kept
    BY DEF scancode_to_ascii, ascii, ascii_shift, extended_to_key, Kept, Chars

\* What becomes of the ring's filling end: nothing, or a key where there is room.
Still     == UNCHANGED <<key_buffer, buf_head>>
Pushes(k) == /\ After(buf_head) # buf_tail
             /\ key_buffer' = [key_buffer EXCEPT ![buf_head] = k]
             /\ buf_head' = After(buf_head)

LEMMA PushEffect == ASSUME NEW k \in Kept, PushKey(k)
                    PROVE  Still \/ \E char \in Chars : Pushes(char)
    BY DEF PushKey, buffer_push, Still, Pushes, Kept

LEMMA HandlerRing == ASSUME keyboard_handler_c
                     PROVE  Still \/ \E char \in Chars : Pushes(char)
<1> DEFINE code == Head(wire) % SC_RELEASE_MASK
           released == Head(wire) >= SC_RELEASE_MASK
<1>1. \/ Still
      \/ handle_extended(code, released)
      \/ handle_character(code)
  BY DEF keyboard_handler_c, handle_modifier, Still
<1>2. ASSUME handle_extended(code, released)
      PROVE  Still \/ \E char \in Chars : Pushes(char)
  <2>1. PICK k \in Kept : PushKey(k)
    BY <1>2, TableTypes DEF handle_extended, Kept
  <2> QED BY <2>1, PushEffect
<1>3. ASSUME handle_character(code)
      PROVE  Still \/ \E char \in Chars : Pushes(char)
  <2>1. Still \/ PushKey(scancode_to_ascii(code))
    BY <1>3 DEF handle_character, Still
  <2> QED BY <2>1, TableTypes, PushEffect
<1> QED BY <1>1, <1>2, <1>3

\* A handler that stores a key ends no program, so the reader keeps what it has.
LEMMA PushKeepsGot == ASSUME keyboard_handler_c, ~Still PROVE got' = got
<1> DEFINE code == Head(wire) % SC_RELEASE_MASK
           abort == ~extended /\ CtrlC(code)
<1>1. CASE abort
  <2>1. Still
    BY <1>1 DEF keyboard_handler_c, handle_modifier, handle_character, Still
  <2> QED BY <2>1
<1>2. CASE ~abort
  BY <1>2 DEF keyboard_handler_c
<1> QED BY <1>1, <1>2

\* A handler either goes back or ends the program.
LEMMA HandlerEnds == ASSUME keyboard_handler_c
                     PROVE  \/ app_abort
                            \/ Wake /\ UNCHANGED <<app_running, got>>
    BY DEF keyboard_handler_c

\* The handler's other effects.
LEMMA HandlerRest ==
    ASSUME TypeOK, keyboard_handler_c
    PROVE  /\ wire' \in Seq(Bytes) /\ UNCHANGED <<held, buf_tail, c>>
           /\ shift_pressed' \in BOOLEAN /\ caps_lock' \in BOOLEAN
           /\ ctrl_pressed' \in BOOLEAN /\ extended' \in BOOLEAN
           /\ app_running' \in BOOLEAN
           /\ \/ pc' = pc /\ got' = got
              \/ pc' \in {"loop", "hlt"} /\ got' \in {got, "none"}
<1>1. wire' \in Seq(Bytes) /\ UNCHANGED <<held, buf_tail, c>>
  <2>1. wire \in Seq(Bytes) /\ wire # <<>> /\ wire' = Tail(wire)
    BY DEF TypeOK, keyboard_handler_c, Bytes
  <2>2. Tail(wire) \in Seq(Bytes)
    BY <2>1, HeadTailProperties
  <2> QED BY <2>1, <2>2 DEF keyboard_handler_c
<1>2. extended' \in BOOLEAN
  BY DEF keyboard_handler_c
<1>3. shift_pressed' \in BOOLEAN /\ caps_lock' \in BOOLEAN /\ ctrl_pressed' \in BOOLEAN
  BY DEF TypeOK, keyboard_handler_c, handle_extended, handle_modifier, handle_character
<1>4. /\ app_running' \in BOOLEAN
      /\ \/ pc' = pc /\ got' = got
         \/ pc' \in {"loop", "hlt"} /\ got' \in {got, "none"}
  BY HandlerEnds DEF TypeOK, Wake, app_abort
<1> QED BY <1>1, <1>2, <1>3, <1>4

LEMMA TypeInit == Init => TypeOK
<1> SUFFICES ASSUME Init PROVE TypeOK
  OBVIOUS
<1>1. 0 \in Index
  BY SizeAssumption DEF Index
<1>2. key_buffer \in [Index -> Chars \cup {"none"}]
  BY DEF Init
<1> QED BY <1>1, <1>2 DEF Init, TypeOK

LEMMA TypeStep == TypeOK /\ [Next]_vars => TypeOK'
<1> SUFFICES ASSUME TypeOK, [Next]_vars PROVE TypeOK'
  OBVIOUS
<1> USE DEF keys, ring, flags, thread
<1>1. ASSUME NEW k \in Board, KeyDown(k) PROVE TypeOK'
  BY <1>1, WireTypes DEF KeyDown, TypeOK, Bytes
<1>2. ASSUME NEW k \in Board, KeyUp(k) PROVE TypeOK'
  BY <1>2, WireTypes DEF KeyUp, TypeOK, Bytes
<1>3. CASE keyboard_handler_c
  <2>1. /\ key_buffer' \in [Index -> Chars \cup {"none"}] /\ buf_head' \in Index
    <3>1. CASE Still
      BY <3>1 DEF Still, TypeOK
    <3>2. ASSUME NEW char \in Chars, Pushes(char)
          PROVE  key_buffer' \in [Index -> Chars \cup {"none"}] /\ buf_head' \in Index
      BY <3>2, AfterIn DEF Pushes, TypeOK
    <3> QED BY <1>3, <3>1, <3>2, HandlerRing
  <2> QED BY <1>3, <2>1, HandlerRest DEF TypeOK, Bytes
<1>4. CASE TimerIrq
  BY <1>4 DEF TimerIrq, Wake, TypeOK
<1>5. CASE Poll
  BY <1>5 DEF Poll, TypeOK
<1>6. CASE ReadSlot
  BY <1>6 DEF ReadSlot, TypeOK
<1>7. CASE MoveTail
  BY <1>7, AfterIn DEF MoveTail, TypeOK
<1>8. CASE handle_key
  BY <1>8 DEF handle_key, TypeOK
<1>9. CASE getch
  BY <1>9 DEF getch, TypeOK
<1>10. CASE ProgramEnds
  BY <1>10 DEF ProgramEnds, TypeOK
<1>11. CASE UNCHANGED vars
  BY <1>11 DEF vars, TypeOK
<1> QED BY <1>1, <1>2, <1>3, <1>4, <1>5, <1>6, <1>7, <1>8, <1>9, <1>10, <1>11
        DEF Next, Thread

\* Every variable keeps its type, the ring's indices among them: no wrap of
\* buffer_push or keyboard_read_char leaves the array, whatever its size.
THEOREM TypeCorrect == Spec => []TypeOK
<1> QED BY TypeInit, TypeStep, PTL DEF Spec

-----------------------------------------------------------------------------
(* What the reader has looked at.                                          *)

LEMMA StaysInit == Init => KeyStaysPut
    BY DEF Init, KeyStaysPut

LEMMA StaysStep == TypeOK /\ KeyStaysPut /\ [Next]_vars => KeyStaysPut'
<1> SUFFICES ASSUME TypeOK, KeyStaysPut, [Next]_vars PROVE KeyStaysPut'
  OBVIOUS
<1> USE DEF keys, ring, flags, thread, KeyStaysPut
<1>1. ASSUME NEW k \in Board, KeyDown(k) \/ KeyUp(k) PROVE KeyStaysPut'
  BY <1>1 DEF KeyDown, KeyUp
<1>2. CASE keyboard_handler_c
  <2> SUFFICES ASSUME pc' = "move"
               PROVE  buf_head' # buf_tail' /\ c' = key_buffer'[buf_tail']
    OBVIOUS
  <2>1. pc = "move" /\ UNCHANGED <<buf_tail, c>>
    BY <1>2, HandlerRest
  <2>2. CASE Still
    BY <2>1, <2>2 DEF Still
  <2>3. ASSUME NEW char \in Chars, Pushes(char)
        PROVE  buf_head' # buf_tail' /\ c' = key_buffer'[buf_tail']
    BY <2>1, <2>3 DEF Pushes, TypeOK
  <2> QED BY <1>2, <2>2, <2>3, HandlerRing
<1>3. CASE TimerIrq
  BY <1>3 DEF TimerIrq, Wake
<1>4. CASE ReadSlot
  BY <1>4 DEF ReadSlot
<1>5. CASE Poll \/ MoveTail \/ handle_key \/ getch \/ ProgramEnds
  BY <1>5 DEF Poll, MoveTail, handle_key, getch, ProgramEnds
<1>6. CASE UNCHANGED vars
  BY <1>6 DEF vars
<1> QED BY <1>1, <1>2, <1>3, <1>4, <1>5, <1>6 DEF Next, Thread

\* The handler never touches the slot that keyboard_read_char is about to
\* give up, however many keys come between its two accesses.
THEOREM ReadIsSafe == Spec => []KeyStaysPut
<1> QED BY StaysInit, StaysStep, TypeInit, TypeStep, PTL DEF Spec

-----------------------------------------------------------------------------
(* The ring is a queue.                                                    *)

\* Pending of a given ring, so that its value before and after a step can be
\* compared.
Content(b, h, t) == [i \in 1..((h - t) % Size) |-> b[(t + i - 1) % Size]]

LEMMA ContentIs ==
    ASSUME NEW b \in [Index -> Kept], NEW h \in Index, NEW t \in Index
    PROVE  /\ Content(b, h, t) \in Seq(Kept)
           /\ Len(Content(b, h, t)) = (h - t) % Size
           /\ \A i \in 1..((h - t) % Size) :
                  Content(b, h, t)[i] = b[(t + i - 1) % Size]
<1> DEFINE n == (h - t) % Size
           s == Content(b, h, t)
<1>1. n \in Index /\ n \in Nat
  BY DistIn, SizeAssumption DEF Index
<1>2. ASSUME NEW i \in 1..n PROVE b[(t + i - 1) % Size] \in Kept
  <2>1. i \in 1..Size
    BY <1>1, SizeAssumption DEF Index
  <2> QED BY <2>1, SlotIn
<1>3. s \in [1..n -> Kept]
  BY <1>2 DEF Content
<1>4. s \in Seq(Kept)
  BY <1>1, <1>3, SeqDef
<1>5. Len(s) = n
  <2>1. DOMAIN s = 1..n /\ DOMAIN s = 1..Len(s) /\ Len(s) \in Nat
    BY <1>3, <1>4, LenProperties
  <2> HIDE DEF n, s
  <2> QED BY <1>1, <2>1
<1> QED BY <1>4, <1>5 DEF Content

\* A key stored at the head is the last in the queue.
LEMMA ContentPush ==
    ASSUME NEW b \in [Index -> Kept], NEW h \in Index, NEW t \in Index,
           NEW k \in Chars, After(h) # t
    PROVE  /\ Content([b EXCEPT ![h] = k], After(h), t) = Append(Content(b, h, t), k)
           /\ Len(Content(b, h, t)) < Size - 1
<1> DEFINE b1 == [b EXCEPT ![h] = k]
           n  == (h - t) % Size
           s  == Content(b, h, t)
           s1 == Content(b1, After(h), t)
<1>1. b1 \in [Index -> Kept] /\ k \in Kept
  BY DEF Kept
<1>2. After(h) \in Index /\ (After(h) - t) % Size = n + 1 /\ n < Size - 1
  BY AfterIn, DistPush
<1>3. /\ s \in Seq(Kept) /\ Len(s) = n
      /\ \A i \in 1..n : s[i] = b[(t + i - 1) % Size]
  BY ContentIs
<1>4. /\ s1 \in Seq(Kept) /\ Len(s1) = n + 1
      /\ \A i \in 1..(n + 1) : s1[i] = b1[(t + i - 1) % Size]
  <2> DEFINE m == (After(h) - t) % Size
  <2>1. /\ s1 \in Seq(Kept) /\ Len(s1) = m
        /\ \A i \in 1..m : s1[i] = b1[(t + i - 1) % Size]
    <3> HIDE DEF b1
    <3> QED BY <1>1, <1>2, ContentIs
  <2>2. m = n + 1
    BY <1>2
  <2> HIDE DEF b1, n, s1, m
  <2> QED BY <2>1, <2>2
<1>5. ASSUME NEW i \in 1..n PROVE s1[i] = s[i]
  <2>1. n \in Nat /\ i \in 1..Size /\ i \in 1..(n + 1)
    BY <1>2, DistIn, SizeAssumption DEF Index
  <2>2. (t + i - 1) % Size # h /\ (t + i - 1) % Size \in Index
    BY <2>1, SlotFree, SlotIn
  <2> QED BY <1>3, <1>4, <2>1, <2>2
<1>6. s1[n + 1] = k
  <2>1. n \in Nat /\ n + 1 \in 1..(n + 1) /\ t + (n + 1) - 1 = t + n
    BY DistIn, SizeAssumption DEF Index
  <2>2. s1[n + 1] = b1[(t + n) % Size]
    BY <1>4, <2>1
  <2> QED BY <2>2, SlotHead
<1>7. s1 = Append(s, k)
  <2> n \in Nat
    BY DistIn DEF Index
  <2> HIDE DEF n, s, s1
  <2>1. /\ Append(s, k) \in Seq(Kept) /\ Len(Append(s, k)) = n + 1
        /\ \A i \in 1..(n + 1) : Append(s, k)[i] = IF i <= n THEN s[i] ELSE k
    BY <1>1, <1>3, AppendProperties
  <2>2. \A i \in 1..(n + 1) : s1[i] = Append(s, k)[i]
    BY <1>5, <1>6, <2>1
  <2> QED BY <1>4, <2>1, <2>2, SeqEqual
<1> QED BY <1>2, <1>3, <1>7

\* Moving the tail takes the first key away.
LEMMA ContentPop ==
    ASSUME NEW b \in [Index -> Kept], NEW h \in Index, NEW t \in Index, h # t
    PROVE  /\ Content(b, h, t) # <<>>
           /\ Head(Content(b, h, t)) = b[t]
           /\ Tail(Content(b, h, t)) = Content(b, h, After(t))
<1> DEFINE n  == (h - t) % Size
           s  == Content(b, h, t)
           s1 == Content(b, h, After(t))
<1>1. After(t) \in Index /\ (h - After(t)) % Size = n - 1 /\ n \in Index /\ n # 0
  BY AfterIn, DistPop, DistIn
<1>2. n \in Nat /\ n < Size /\ n >= 1
  BY <1>1, SizeAssumption DEF Index
<1>3. /\ s \in Seq(Kept) /\ Len(s) = n
      /\ \A i \in 1..n : s[i] = b[(t + i - 1) % Size]
  BY ContentIs
<1>4. /\ s1 \in Seq(Kept) /\ Len(s1) = n - 1
      /\ \A i \in 1..(n - 1) : s1[i] = b[(After(t) + i - 1) % Size]
  <2> DEFINE m == (h - After(t)) % Size
  <2>1. /\ s1 \in Seq(Kept) /\ Len(s1) = m
        /\ \A i \in 1..m : s1[i] = b[(After(t) + i - 1) % Size]
    BY <1>1, ContentIs
  <2>2. m = n - 1
    BY <1>1
  <2> HIDE DEF n, s1, m
  <2> QED BY <2>1, <2>2
<1>5. s # <<>>
  BY <1>2, <1>3, EmptySeq
<1>6. Head(s) = b[t]
  <2>1. 1 \in 1..n /\ t + 1 - 1 = t
    BY <1>2, SizeAssumption DEF Index
  <2>2. s[1] = b[t]
    BY <1>3, <2>1, SlotFirst
  <2> QED BY <1>3, <1>5, <2>2
<1>7. Tail(s) = s1
  <2>1. ASSUME NEW i \in 1..(n - 1) PROVE s1[i] = s[i + 1]
    <3>1. i \in 1..Size /\ i + 1 \in 1..n /\ t + (i + 1) - 1 = t + i
      BY <1>2, SizeAssumption DEF Index
    <3> QED BY <1>3, <1>4, <3>1, SlotNext
  <2> HIDE DEF n, s, s1
  <2>2. /\ Tail(s) \in Seq(Kept) /\ Len(Tail(s)) = n - 1
        /\ \A i \in 1..(n - 1) : Tail(s)[i] = s[i + 1]
    BY <1>3, <1>5, HeadTailProperties
  <2> QED BY <1>4, <2>1, <2>2, SeqEqual
<1> QED BY <1>5, <1>6, <1>7

\* What KeyQueue's reader holds, for a value of got.
Taken(g) == IF g = "zero" THEN "none" ELSE g

Unseen == UNCHANGED <<Pending, Taken(got)>>

LEMMA PendingIs == Pending = Content(key_buffer, buf_head, buf_tail)
    BY DEF Pending, Waiting, Content

LEMMA RefinesInit == Init => Queue!Init
<1> SUFFICES ASSUME Init PROVE Queue!Init
  OBVIOUS
<1>1. TypeOK
  BY TypeInit
<1>2. Pending \in Seq(Kept) /\ Len(Pending) = (buf_head - buf_tail) % Size
  BY <1>1, PendingIs, ContentIs DEF TypeOK, Kept
<1>3. (buf_head - buf_tail) % Size = 0
  BY <1>1, DistIn DEF Init, TypeOK
<1>4. Pending = <<>>
  BY <1>2, <1>3, EmptySeq
<1> QED BY <1>4 DEF Init, Queue!Init

\* One step per action: Accept, Take, Forget, or nothing that KeyQueue sees.
LEMMA RefinesStep ==
    TypeOK /\ KeyStaysPut /\ [Next]_vars => [Queue!Next]_<<Pending, Taken(got)>>
<1> SUFFICES ASSUME TypeOK, KeyStaysPut, [Next]_vars
             PROVE  [Queue!Next]_<<Pending, Taken(got)>>
  OBVIOUS
<1> USE DEF keys, ring, flags, thread
<1>0. /\ key_buffer \in [Index -> Kept]
      /\ buf_head \in Index /\ buf_tail \in Index
  BY DEF TypeOK, Kept
<1>1. ASSUME UNCHANGED ring PROVE UNCHANGED Pending
  BY <1>1 DEF Pending, Waiting
<1>2. ASSUME UNCHANGED ring, UNCHANGED got PROVE Unseen
  BY <1>1, <1>2 DEF Unseen, Taken
<1>3. ASSUME UNCHANGED ring, got' = "none" PROVE Queue!Next
  BY <1>1, <1>3 DEF Queue!Next, Queue!Forget
<1>4. ASSUME NEW k \in Board, KeyDown(k) \/ KeyUp(k) PROVE Unseen
  BY <1>2, <1>4 DEF KeyDown, KeyUp
<1>5. CASE keyboard_handler_c
  <2>1. UNCHANGED buf_tail /\ (got' = got \/ got' = "none")
    BY <1>5, HandlerRest
  <2>2. CASE Still
    BY <1>2, <1>3, <2>1, <2>2 DEF Still, Unseen
  <2>3. ASSUME NEW char \in Chars, Pushes(char), ~Still
        PROVE  Queue!Accept(char)
    <3>1. After(buf_head) # buf_tail
      BY <2>3 DEF Pushes
    <3>2. Pending' = Append(Pending, char) /\ Len(Pending) < Size - 1
      <4>1. Pending' = Content(key_buffer', buf_head', buf_tail')
        BY DEF Pending, Waiting, Content
      <4>2. Content(key_buffer', buf_head', buf_tail')
              = Content([key_buffer EXCEPT ![buf_head] = char], After(buf_head), buf_tail)
        BY <2>1, <2>3 DEF Pushes, Content
      <4> QED BY <1>0, <3>1, <4>1, <4>2, PendingIs, ContentPush
    <3>3. got' = got
      BY <1>5, <2>3, PushKeepsGot
    <3> QED BY <3>2, <3>3 DEF Queue!Accept
  <2> QED BY <1>5, <2>2, <2>3, HandlerRing DEF Queue!Next, Unseen
<1>6. CASE TimerIrq \/ Poll
  BY <1>2, <1>6 DEF TimerIrq, Poll, Unseen
<1>7. CASE ReadSlot
  <2>1. CASE got' = got
    BY <1>2, <1>7, <2>1 DEF ReadSlot, Unseen
  <2>2. CASE got' = "zero"
    BY <1>1, <1>7, <2>2 DEF ReadSlot, Queue!Next, Queue!Forget
  <2> QED BY <1>7, <2>1, <2>2 DEF ReadSlot, Unseen
<1>8. CASE MoveTail
  <2>1. buf_head # buf_tail /\ c = key_buffer[buf_tail] /\ c # "zero"
    BY <1>8 DEF MoveTail, KeyStaysPut, TypeOK, Chars
  <2>2. Pending' = Content(key_buffer, buf_head, After(buf_tail))
    <3>1. Pending' = Content(key_buffer', buf_head', buf_tail')
      BY DEF Pending, Waiting, Content
    <3> QED BY <1>8, <3>1 DEF MoveTail, Content
  <2>3. Pending # <<>> /\ Head(Pending) = c /\ Tail(Pending) = Pending'
    BY <1>0, <2>1, <2>2, PendingIs, ContentPop
  <2> QED BY <1>8, <2>1, <2>3 DEF MoveTail, Queue!Next, Queue!Take
<1>9. CASE handle_key \/ getch \/ ProgramEnds
  BY <1>3, <1>9 DEF handle_key, getch, ProgramEnds
<1>10. CASE UNCHANGED vars
  BY <1>2, <1>10 DEF vars, Unseen
<1> QED BY <1>4, <1>5, <1>6, <1>7, <1>8, <1>9, <1>10 DEF Next, Thread, Unseen

\* The ring implements a bounded queue of Size - 1 keys, for every size, with
\* the handler between any two accesses of the reader and Ctrl-C in a read.
THEOREM RingIsQueue == Spec => RefinesKeyQueue
<1>1. Spec => [](TypeOK /\ KeyStaysPut)
  BY TypeInit, TypeStep, StaysInit, StaysStep, PTL DEF Spec
<1>2. TypeOK /\ KeyStaysPut /\ [Next]_vars => [Queue!Next]_<<Pending, Taken(got)>>
  BY RefinesStep
<1>3. Spec => Queue!Init /\ [][Queue!Next]_<<Pending, Taken(got)>>
  BY <1>1, <1>2, RefinesInit, PTL DEF Spec
<1> QED BY <1>3 DEF RefinesKeyQueue, Queue!Spec, Taken

-----------------------------------------------------------------------------
(* The shell's two looks at the ring.                                      *)

\* Every key that waits is one.
Filled == Pending \in Seq(Chars)

\* app_running is set exactly while the thread is in a program, and a read that
\* the shell has begun finds a key.
ReadsSure ==
    /\ pc = "app" => app_running
    /\ pc \in {"loop", "hlt", "handle"} => ~app_running
    /\ pc = "read" /\ ~app_running => buf_head # buf_tail
    /\ pc = "move" => c \in Chars
    /\ ShellGetsKey

\* What every step of the ring does to what waits.
LEMMA PendingSteps ==
    ASSUME TypeOK, KeyStaysPut, [Next]_vars
    PROVE  \/ UNCHANGED Pending
           \/ \E k \in Chars : Pending' = Append(Pending, k)
           \/ Pending # <<>> /\ Pending' = Tail(Pending)
    BY RefinesStep DEF Queue!Next, Queue!Accept, Queue!Take, Queue!Forget

LEMMA FilledInit == Init => Filled
<1> SUFFICES ASSUME Init PROVE Filled
  OBVIOUS
<1>1. Pending = <<>>
  BY RefinesInit DEF Queue!Init
<1> QED BY <1>1, EmptySeq DEF Filled

LEMMA FilledStep == TypeOK /\ KeyStaysPut /\ Filled /\ [Next]_vars => Filled'
<1> SUFFICES ASSUME TypeOK, KeyStaysPut, Filled, [Next]_vars PROVE Pending' \in Seq(Chars)
  BY DEF Filled
<1>1. Pending \in Seq(Chars)
  BY DEF Filled
<1>2. ASSUME NEW k \in Chars, Pending' = Append(Pending, k) PROVE Pending' \in Seq(Chars)
  BY <1>1, <1>2, AppendProperties
<1>3. ASSUME Pending # <<>>, Pending' = Tail(Pending) PROVE Pending' \in Seq(Chars)
  BY <1>1, <1>3, HeadTailProperties
<1> QED BY <1>1, <1>2, <1>3, PendingSteps

\* The slot at the tail holds a key unless the ring is empty.
LEMMA TailIsKey == ASSUME TypeOK, Filled, buf_head # buf_tail
                   PROVE  key_buffer[buf_tail] \in Chars
<1>1. Pending # <<>> /\ Head(Pending) = key_buffer[buf_tail]
  BY PendingIs, ContentPop DEF TypeOK, Kept
<1> QED BY <1>1, HeadTailProperties DEF Filled

LEMMA SureStep ==
    TypeOK /\ KeyStaysPut /\ Filled /\ ReadsSure /\ [Next]_vars => ReadsSure'
<1> SUFFICES ASSUME TypeOK, KeyStaysPut, Filled, ReadsSure, [Next]_vars
             PROVE  ReadsSure'
  OBVIOUS
<1> USE DEF keys, ring, flags, thread, ReadsSure, ShellGetsKey
<1>1. ASSUME NEW k \in Board, KeyDown(k) \/ KeyUp(k) PROVE ReadsSure'
  BY <1>1 DEF KeyDown, KeyUp
<1>2. CASE keyboard_handler_c
  <2>1. UNCHANGED <<buf_tail, c>>
    BY <1>2, HandlerRest
  <2>2. CASE app_running' = FALSE /\ pc' = "hlt"
    BY <2>2
  <2>3. CASE Wake /\ UNCHANGED <<app_running, got>>
    <3>1. buf_head # buf_tail => buf_head' # buf_tail'
      BY <1>2, <2>1, HandlerRing DEF Still, Pushes
    <3> QED BY <2>1, <2>3, <3>1 DEF Wake
  <2> QED BY <1>2, <2>2, <2>3, HandlerEnds DEF app_abort
<1>3. CASE TimerIrq
  BY <1>3 DEF TimerIrq, Wake
<1>4. CASE Poll
  BY <1>4 DEF Poll, keyboard_has_input
<1>5. CASE ReadSlot
  BY <1>5, TailIsKey DEF ReadSlot
<1>6. CASE MoveTail
  BY <1>6 DEF MoveTail
<1>7. CASE handle_key
  BY <1>7 DEF handle_key
<1>8. CASE getch \/ ProgramEnds
  BY <1>8 DEF getch, ProgramEnds
<1>9. CASE UNCHANGED vars
  BY <1>9 DEF vars
<1> QED BY <1>1, <1>2, <1>3, <1>4, <1>5, <1>6, <1>7, <1>8, <1>9 DEF Next, Thread

\* keyboard_has_input and keyboard_read_char look at the ring one after the
\* other: what the shell saw in the first is still there in the second, because
\* only the thread itself takes keys.
THEOREM ShellReadsKey == Spec => []ShellGetsKey
<1>1. Init => ReadsSure
  BY DEF Init, ReadsSure, ShellGetsKey
<1>2. Spec => [](TypeOK /\ KeyStaysPut /\ Filled /\ ReadsSure)
  BY <1>1, TypeInit, TypeStep, StaysInit, StaysStep, FilledInit, FilledStep, SureStep,
     PTL DEF Spec
<1>3. ReadsSure => ShellGetsKey
  BY DEF ReadsSure
<1> QED BY <1>2, <1>3, PTL

-----------------------------------------------------------------------------
(* The modifiers.                                                          *)

Codes     == 1..127 \ {SC_EXTENDED_PREFIX - SC_RELEASE_MASK}
ShiftKeys == {<<SC_LEFT_SHIFT>>, <<SC_RIGHT_SHIFT>>}
CtrlKeys  == {<<SC_LEFT_CTRL>>, <<SC_EXTENDED_PREFIX, SC_LEFT_CTRL>>}

\* The flags, if these keys are down.
Follow(down) == /\ shift_pressed => down \cap ShiftKeys # {}
                /\ ctrl_pressed  => down \cap CtrlKeys # {}

\* What the handler has not read yet of key k, with the mask of a release or
\* without: all, or the byte after the prefix.
Unread(k, code, mask) ==
    \/ k = <<code>> /\ ~extended /\ wire = <<code + mask>>
    \/ k = <<SC_EXTENDED_PREFIX, code>> /\ ~extended /\ wire = <<SC_EXTENDED_PREFIX, code + mask>>
    \/ k = <<SC_EXTENDED_PREFIX, code>> /\ extended /\ wire = <<code + mask>>

Silent    == wire = <<>> /\ ~extended /\ Follow(held)
Pressed(k, code)  == k \in held /\ Follow(held) /\ Unread(k, code, 0)
Released(k, code) == Follow(held \cup {k}) /\ Unread(k, code, SC_RELEASE_MASK)

\* The bytes of one key at most are on the way, and until the last is read the
\* flags may be behind by that key.
ModInv == Silent \/ \E k \in Board, code \in Codes : Pressed(k, code) \/ Released(k, code)

\* What the last byte of a key does to the flags.
LEMMA LastByte ==
    ASSUME NEW code \in Codes, NEW mask \in {0, SC_RELEASE_MASK},
           wire = <<code + mask>>, keyboard_handler_c,
           shift_pressed \in BOOLEAN, ctrl_pressed \in BOOLEAN
    PROVE  /\ wire' = <<>> /\ ~extended' /\ UNCHANGED held
           /\ ctrl_pressed' = IF code = SC_LEFT_CTRL THEN mask = 0 ELSE ctrl_pressed
           /\ shift_pressed' = IF ~extended /\ code \in {SC_LEFT_SHIFT, SC_RIGHT_SHIFT}
                               THEN mask = 0 ELSE shift_pressed
<1> DEFINE scancode == code + mask
<1>1. /\ Head(wire) = scancode /\ Tail(wire) = <<>>
      /\ scancode # SC_EXTENDED_PREFIX
      /\ scancode % SC_RELEASE_MASK = code
      /\ (scancode >= SC_RELEASE_MASK) <=> mask # 0
  BY DEF Codes, SC_EXTENDED_PREFIX, SC_RELEASE_MASK
<1> HIDE DEF scancode
<1>2. wire' = <<>> /\ extended' = FALSE /\ UNCHANGED held
  BY <1>1 DEF keyboard_handler_c
<1>3. \/ extended /\ handle_extended(code, mask # 0)
      \/ ~extended /\ IsModifier(code) /\ handle_modifier(code, mask # 0)
      \/ ~extended /\ ~IsModifier(code) /\ UNCHANGED <<shift_pressed, ctrl_pressed>>
  <2> DEFINE released == scancode >= SC_RELEASE_MASK
  <2>1. released = (mask # 0) /\ scancode % SC_RELEASE_MASK = code
    BY <1>1
  <2>2. \/ extended /\ handle_extended(code, released)
        \/ ~extended /\ IsModifier(code) /\ handle_modifier(code, released)
        \/ ~extended /\ ~IsModifier(code) /\ UNCHANGED <<shift_pressed, ctrl_pressed>>
    BY <1>1, <2>1, Zenon DEF keyboard_handler_c, handle_character
  <2> HIDE DEF released
  <2> QED BY <2>1, <2>2
<1>4. CASE extended
  BY <1>2, <1>3, <1>4 DEF handle_extended
<1>5. CASE ~extended /\ IsModifier(code)
  BY <1>2, <1>3, <1>5 DEF handle_modifier
<1>6. CASE ~extended /\ ~IsModifier(code)
  BY <1>2, <1>3, <1>6 DEF IsModifier
<1> QED BY <1>4, <1>5, <1>6

\* The handler reads a byte.
LEMMA ModHandler == TypeOK /\ ModInv /\ keyboard_handler_c => ModInv'
<1> SUFFICES ASSUME TypeOK, ModInv, keyboard_handler_c PROVE ModInv'
  OBVIOUS
<1>1. wire # <<>>
  BY DEF keyboard_handler_c
<1>2. PICK k \in Board, code \in Codes, mask \in {0, SC_RELEASE_MASK} :
         /\ Unread(k, code, mask)
         /\ mask = 0 => k \in held /\ Follow(held)
         /\ mask # 0 => Follow(held \cup {k})
  <2>1. PICK k \in Board, code \in Codes : Pressed(k, code) \/ Released(k, code)
    BY <1>1 DEF ModInv, Silent
  <2>2. CASE Pressed(k, code)
    <3> WITNESS k \in Board, code \in Codes, 0 \in {0, SC_RELEASE_MASK}
    <3> QED BY <2>2 DEF Pressed
  <2>3. CASE Released(k, code)
    <3>1. SC_RELEASE_MASK # 0
      BY DEF SC_RELEASE_MASK
    <3> WITNESS k \in Board, code \in Codes, SC_RELEASE_MASK \in {0, SC_RELEASE_MASK}
    <3> QED BY <2>3, <3>1 DEF Released
  <2> QED BY <2>1, <2>2, <2>3
<1>3. CASE ~extended /\ wire = <<SC_EXTENDED_PREFIX, code + mask>>
           /\ k = <<SC_EXTENDED_PREFIX, code>>
  <2>1. Head(wire) = SC_EXTENDED_PREFIX /\ Tail(wire) = <<code + mask>>
    BY <1>3
  <2>2. /\ extended' /\ wire' = <<code + mask>>
        /\ UNCHANGED <<held, shift_pressed, ctrl_pressed>>
    BY <2>1 DEF keyboard_handler_c
  <2>3. Unread(k, code, mask)'
    BY <1>3, <2>2 DEF Unread
  <2>4. /\ mask = 0 => (k \in held)' /\ Follow(held)'
        /\ mask # 0 => Follow(held \cup {k})'
    BY <1>2, <2>2 DEF Follow
  <2> QED BY <2>3, <2>4 DEF ModInv, Pressed, Released
<1>4. CASE wire = <<code + mask>> /\ k = IF extended THEN <<SC_EXTENDED_PREFIX, code>> ELSE <<code>>
  <2>1. /\ wire' = <<>> /\ ~extended' /\ UNCHANGED held
        /\ ctrl_pressed' = IF code = SC_LEFT_CTRL THEN mask = 0 ELSE ctrl_pressed
        /\ shift_pressed' = IF ~extended /\ code \in {SC_LEFT_SHIFT, SC_RIGHT_SHIFT}
                            THEN mask = 0 ELSE shift_pressed
    BY <1>4, LastByte DEF TypeOK
  <2>2. code = SC_LEFT_CTRL <=> k \in CtrlKeys
    BY <1>4 DEF CtrlKeys, Codes, SC_LEFT_CTRL, SC_EXTENDED_PREFIX
  <2>3. (~extended /\ code \in {SC_LEFT_SHIFT, SC_RIGHT_SHIFT}) <=> k \in ShiftKeys
    BY <1>4 DEF ShiftKeys, Codes, SC_LEFT_SHIFT, SC_RIGHT_SHIFT, SC_EXTENDED_PREFIX
  <2>4. ctrl_pressed' => held \cap CtrlKeys # {}
    BY <1>2, <2>1, <2>2 DEF Follow
  <2>5. shift_pressed' => held \cap ShiftKeys # {}
    BY <1>2, <2>1, <2>3 DEF Follow
  <2> QED BY <2>1, <2>4, <2>5 DEF ModInv, Silent, Follow
<1> QED BY <1>2, <1>3, <1>4 DEF Unread

LEMMA ModStep == TypeOK /\ ModInv /\ [Next]_vars => ModInv'
<1> SUFFICES ASSUME TypeOK, ModInv, [Next]_vars PROVE ModInv'
  OBVIOUS
<1> USE DEF keys, ring, flags, thread
<1>1. ASSUME NEW k \in Board, KeyDown(k) PROVE ModInv'
  <2>1. wire = <<>> /\ wire' = k /\ held' = held \cup {k} /\ UNCHANGED flags
    BY <1>1 DEF KeyDown
  <2>2. Silent
    BY <2>1 DEF ModInv, Unread, Pressed, Released
  <2>3. PICK code \in Codes : k = <<code>> \/ k = <<SC_EXTENDED_PREFIX, code>>
    BY BoardAssumption DEF Codes
  <2>4. code + 0 = code
    BY DEF Codes
  <2>5. Pressed(k, code)'
    BY <2>1, <2>2, <2>3, <2>4 DEF Pressed, Silent, Follow, Unread
  <2> QED BY <2>5 DEF ModInv
<1>2. ASSUME NEW k \in Board, KeyUp(k) PROVE ModInv'
  <2>1. /\ wire = <<>> /\ wire' = [k EXCEPT ![Len(k)] = @ + SC_RELEASE_MASK]
        /\ held' = held \ {k} /\ k \in held /\ UNCHANGED flags
    BY <1>2 DEF KeyUp
  <2>2. Silent
    BY <2>1 DEF ModInv, Unread, Pressed, Released
  <2>3. PICK code \in Codes : k = <<code>> \/ k = <<SC_EXTENDED_PREFIX, code>>
    BY BoardAssumption DEF Codes
  <2>4. \/ k = <<code>> /\ wire' = <<code + SC_RELEASE_MASK>>
        \/ /\ k = <<SC_EXTENDED_PREFIX, code>>
           /\ wire' = <<SC_EXTENDED_PREFIX, code + SC_RELEASE_MASK>>
    <3>1. CASE k = <<code>>
      <4>1. [k EXCEPT ![Len(k)] = @ + SC_RELEASE_MASK] = <<code + SC_RELEASE_MASK>>
        BY <3>1
      <4> QED BY <2>1, <3>1, <4>1
    <3>2. CASE k = <<SC_EXTENDED_PREFIX, code>>
      <4>1. [k EXCEPT ![Len(k)] = @ + SC_RELEASE_MASK]
               = <<SC_EXTENDED_PREFIX, code + SC_RELEASE_MASK>>
        BY <3>2 DEF SC_EXTENDED_PREFIX
      <4> QED BY <2>1, <3>2, <4>1
    <3> QED BY <2>3, <3>1, <3>2
  <2>5. held' \cup {k} = held
    BY <2>1
  <2>6. Released(k, code)'
    BY <2>1, <2>2, <2>4, <2>5 DEF Released, Silent, Follow, Unread
  <2> QED BY <2>6 DEF ModInv
<1>3. CASE keyboard_handler_c
  BY <1>3, ModHandler
<1>4. CASE TimerIrq \/ Thread \/ getch \/ ProgramEnds \/ UNCHANGED vars
  <2>1. UNCHANGED <<keys, flags>>
    BY <1>4 DEF TimerIrq, Thread, Poll, ReadSlot, MoveTail, handle_key, getch, ProgramEnds, vars
  <2> QED BY <2>1 DEF ModInv, Silent, Pressed, Released, Unread, Follow
<1> QED BY <1>1, <1>2, <1>3, <1>4 DEF Next

\* Whatever keys go down, repeat and come up, in whatever order, left and right,
\* a Shift or Ctrl flag is set only while a key of its kind is down.
THEOREM NoModifierStuck == Spec => []ModifiersFollowKeys
<1>1. Init => ModInv
  BY DEF Init, ModInv, Silent, Follow
<1>2. ModInv => ModifiersFollowKeys
  BY DEF ModInv, Silent, Pressed, Released, Unread, Follow, ModifiersFollowKeys,
         ShiftKeys, CtrlKeys
<1> QED BY <1>1, <1>2, ModStep, TypeInit, TypeStep, PTL DEF Spec

-----------------------------------------------------------------------------
(* Sleep: how long it waits.                                               *)

\* Remainders repeat.
LEMMA ModAgain ==
    ASSUME NEW n \in Nat \ {0}, NEW a \in Int
    PROVE  a \in 0 .. n - 1 => a % n = a /\ (a + n) % n = a /\ (a - n) % n = a
BY SMT

\* One row of n and a place in it, for a number.
LEMMA InRow ==
    ASSUME NEW n \in Nat \ {0}, NEW x \in Nat
    PROVE  /\ x \div n \in Nat /\ x % n \in 0 .. n - 1
           /\ x = (x \div n) * n + (x % n)
BY SMT

\* And back: the place is the remainder.
LEMMA PlaceInRow ==
    ASSUME NEW n \in Nat \ {0}, NEW q \in Nat, NEW a \in 0 .. n - 1
    PROVE  (q * n + a) % n = a
<1> DEFINE x == q * n + a
           p == x \div n
           b == x % n
<1>1. x \in Nat  BY SMT
<1>2. p \in Nat /\ b \in 0 .. n - 1 /\ x = p * n + b  BY <1>1, InRow
<1> HIDE DEF p, b
<1>3. CASE p = q  BY <1>2, <1>3, SMT
<1>4. CASE p < q
  <2>1. PICK d \in Nat : q = p + 1 + d  BY <1>2, <1>4
  <2>2. q * n = p * n + n + d * n /\ d * n \in Nat /\ p * n \in Nat  BY <2>1, <1>2, SMT
  <2> QED BY <2>2, <1>2
<1>5. CASE q < p
  <2>1. PICK d \in Nat : p = q + 1 + d  BY <1>2, <1>5
  <2>2. p * n = q * n + n + d * n /\ d * n \in Nat /\ q * n \in Nat  BY <2>1, <1>2, SMT
  <2> QED BY <2>2, <1>2
<1> QED BY <1>2, <1>3, <1>4, <1>5

\* Adding one before or after a remainder is the same.
LEMMA ModNext ==
    ASSUME NEW n \in Nat \ {0, 1}, NEW x \in Nat
    PROVE  (x + 1) % n = ((x % n) + 1) % n
<1> DEFINE q == x \div n
           a == x % n
<1>1. q \in Nat /\ a \in 0 .. n - 1 /\ x = q * n + a  BY InRow
<1> HIDE DEF q, a
<1>2. CASE a + 1 < n
  <2>1. x + 1 = q * n + (a + 1) /\ a + 1 \in 0 .. n - 1  BY <1>1, <1>2, SMT
  <2>2. (q * n + (a + 1)) % n = a + 1  BY <2>1, <1>1, PlaceInRow
  <2> QED BY <2>1, <2>2, ModAgain DEF a
<1>3. CASE a + 1 = n
  <2>1. x + 1 = (q + 1) * n + 0 /\ 0 \in 0 .. n - 1 /\ q + 1 \in Nat  BY <1>1, <1>3, SMT
  <2>2. ((q + 1) * n + 0) % n = 0  BY <2>1, PlaceInRow
  <2>3. (0 + n) % n = 0  BY <2>1, ModAgain
  <2>4. (x + 1) % n = 0  BY <2>1, <2>2
  <2>5. (a + 1) % n = 0
    <3>1. a + 1 = 0 + n  BY <1>3
    <3> QED BY <3>1, <2>3
  <2> QED BY <2>4, <2>5 DEF a
<1> QED BY <1>1, <1>2, <1>3

\* Ticks is what the handler makes of the counter, one tick after the other.
THEOREM HandlerTicks ==
    ASSUME NEW s \in 0 .. TickWord - 1, NEW k \in Nat
    PROVE  Ticks(s, 0) = s /\ Ticks(s, k + 1) = timer_handler_c(Ticks(s, k))
<1>1. Ticks(s, 0) = s  BY ModAgain, TimerAssumption DEF Ticks
<1>2. s + k \in Nat /\ (s + k) + 1 = s + (k + 1)  BY TimerAssumption
<1>3. Ticks(s, k + 1) = (Ticks(s, k) + 1) % TickWord
  <2>1. TickWord \in Nat \ {0, 1}  BY TimerAssumption
  <2>2. ((s + k) + 1) % TickWord = (((s + k) % TickWord) + 1) % TickWord
    BY <1>2, <2>1, ModNext
  <2> QED BY <2>2, <1>2 DEF Ticks
<1> QED BY <1>1, <1>3 DEF timer_handler_c

\* A sleep ends at the tick that it counts out, and at none before.
THEOREM SleepsItsTicks ==
    ASSUME NEW ms \in 0 .. TickWord - 1, NEW s \in 0 .. TickWord - 1, NEW k \in 0 .. TickWord - 1
    PROVE  EndsOnTime(ms, s, k)
<1>1. (Ticks(s, k) - s) % TickWord = k
  <2>1. CASE s + k < TickWord
    <3>1. Ticks(s, k) = s + k  BY <2>1, ModAgain, TimerAssumption DEF Ticks
    <3> QED BY <3>1, ModAgain, TimerAssumption
  <2>2. CASE s + k >= TickWord
    <3>1. (s + k) - TickWord \in 0 .. TickWord - 1  BY <2>2, TimerAssumption
    <3>2. Ticks(s, k) = (s + k) - TickWord
      BY <3>1, ModAgain, TimerAssumption DEF Ticks
    <3> QED BY <3>2, ModAgain, TimerAssumption
  <2> QED BY <2>1, <2>2, TimerAssumption
<1> QED BY <1>1 DEF EndsOnTime, SleepEnds

\* What is counted out is the time asked for, in whole ticks.
THEOREM SleepFits == ASSUME NEW ms \in 0 .. TickWord - 1 PROVE FitsTheTime(ms)
<1> DEFINE p == ms * TIMER_FREQUENCY
           t == p \div 1000
<1>1. p \in Nat  BY TimerAssumption, SMT
<1> SUFFICES ASSUME p < TickWord
             PROVE  /\ p < (ticks_to_wait(ms) + 1) * 1000
                    /\ ticks_to_wait(ms) = 1 \/ ticks_to_wait(ms) * 1000 <= p
  BY DEF FitsTheTime
<1>2. p % TickWord = p  BY <1>1, ModAgain, TimerAssumption
<1>3. ticks_to_wait(ms) = IF t = 0 THEN 1 ELSE t  BY <1>2 DEF ticks_to_wait
<1> HIDE DEF p
<1>4. t \in Nat /\ t * 1000 <= p /\ p < (t + 1) * 1000  BY <1>1, SMT
<1> HIDE DEF t
<1>5. CASE t = 0  BY <1>1, <1>3, <1>4, <1>5
<1>6. CASE t # 0  BY <1>1, <1>3, <1>4, <1>6
<1> QED BY <1>5, <1>6
=============================================================================
