------------------------------ MODULE Keyboard ------------------------------
(***************************************************************************)
(* The keyboard driver src/src/keyboard.c: the interrupt handler fills a   *)
(* ring that the thread empties, in the shell's loop (shell.c) or, while a *)
(* program runs, through the getch system call.                            *)
(*                                                                         *)
(* The handler runs with interrupts off and is one action per scancode.    *)
(* The thread is taken apart at its accesses to the ring: a handler may    *)
(* fall between any two, and Ctrl-C may end a program in the middle of a   *)
(* read.  Two printing keys stand for all of them; what the handler makes  *)
(* of a code it does not know is what it makes of one with no character.   *)
(* The keyboard sends the bytes of a key when those of the last are read,  *)
(* and at the prompt the console is not suspended (AppRun says when).      *)
(***************************************************************************)
EXTENDS Integers, Sequences

CONSTANTS Size,   \* KEYBOARD_BUFFER_SIZE
          Board   \* the keys of the keyboard, each as the bytes it sends

SC_EXTENDED_PREFIX == 224
SC_RELEASE_MASK    == 128
SC_LEFT_CTRL   == 29
SC_LEFT_SHIFT  == 42
SC_RIGHT_SHIFT == 54
SC_CAPS_LOCK   == 58
SC_1           == 2
SC_C           == 46
SC_EXT_UP      == 72

\* A key sends its code, some after the prefix.  No key has the code whose
\* release would be the prefix.
ASSUME SizeAssumption  == Size \in Nat /\ Size > 1
ASSUME BoardAssumption ==
    \A k \in Board : \E code \in 1..127 \ {SC_EXTENDED_PREFIX - SC_RELEASE_MASK} :
                         k = <<code>> \/ k = <<SC_EXTENDED_PREFIX, code>>

Index == 0..(Size - 1)
Chars == {"1", "!", "c", "C", "up"}

\* The tables ascii and ascii_shift; "none" is the character 0.
ascii(code)       == CASE code = SC_1 -> "1" [] code = SC_C -> "c" [] OTHER -> "none"
ascii_shift(code) == CASE code = SC_1 -> "!" [] code = SC_C -> "C" [] OTHER -> "none"
extended_to_key(code) == IF code = SC_EXT_UP THEN "up" ELSE "none"

VARIABLES
    held,    \* keys that are down
    wire,    \* bytes the keyboard has sent and the handler has not read
    key_buffer, buf_head, buf_tail,
    shift_pressed, caps_lock, ctrl_pressed, extended,
    app_running,
    pc,      \* where the thread stands
    c,       \* keyboard_read_char's local
    got      \* what it returned: a key, "zero", or "none" when that is used up

keys  == <<held, wire>>
ring  == <<key_buffer, buf_head, buf_tail>>
flags == <<shift_pressed, caps_lock, ctrl_pressed, extended>>
thread == <<app_running, pc, c, got>>
vars == <<held, wire, key_buffer, buf_head, buf_tail, shift_pressed, caps_lock,
          ctrl_pressed, extended, app_running, pc, c, got>>

Init == /\ held = {} /\ wire = <<>>
        /\ key_buffer = [i \in Index |-> "none"] /\ buf_head = 0 /\ buf_tail = 0
        /\ shift_pressed = FALSE /\ caps_lock = FALSE
        /\ ctrl_pressed = FALSE /\ extended = FALSE
        /\ app_running = FALSE /\ pc = "loop" /\ c = "none" /\ got = "none"

-----------------------------------------------------------------------------
(* The user and the keyboard.                                              *)

\* A key goes down, or repeats.
KeyDown(k) == /\ wire = <<>> /\ wire' = k
              /\ held' = held \cup {k}
              /\ UNCHANGED <<ring, flags, thread>>

KeyUp(k) == /\ wire = <<>> /\ k \in held
            /\ wire' = [k EXCEPT ![Len(k)] = @ + SC_RELEASE_MASK]
            /\ held' = held \ {k}
            /\ UNCHANGED <<ring, flags, thread>>

-----------------------------------------------------------------------------
(* The handler.                                                            *)

\* Fault: the index is not wrapped.
AfterNoWrap(i) == i + 1

After(i) == (i + 1) % Size

\* Fault: a key is stored whether or not there is room for it.
PushAlways(k) ==
    key_buffer' = [key_buffer EXCEPT ![buf_head] = k] /\ buf_head' = After(buf_head)

buffer_push(k) ==
    IF After(buf_head) # buf_tail
    THEN key_buffer' = [key_buffer EXCEPT ![buf_head] = k] /\ buf_head' = After(buf_head)
    ELSE UNCHANGED <<key_buffer, buf_head>>

PushKey(k) == IF k = "none" THEN UNCHANGED <<key_buffer, buf_head>> ELSE buffer_push(k)

scancode_to_ascii(code) ==
    LET is_letter == code = SC_C
        use_shift == IF is_letter /\ caps_lock THEN ~shift_pressed ELSE shift_pressed
    IN IF use_shift THEN ascii_shift(code) ELSE ascii(code)

\* Fault: the release of the right Ctrl key is ignored with all the others.
ExtendedPressOnly(code, released) ==
    /\ ctrl_pressed' = (ctrl_pressed \/ (code = SC_LEFT_CTRL /\ ~released))
    /\ PushKey(IF released THEN "none" ELSE extended_to_key(code))
    /\ UNCHANGED <<shift_pressed, caps_lock>>

handle_extended(code, released) ==
    /\ ctrl_pressed' = IF code = SC_LEFT_CTRL THEN ~released ELSE ctrl_pressed
    /\ PushKey(IF released THEN "none" ELSE extended_to_key(code))
    /\ UNCHANGED <<shift_pressed, caps_lock>>

IsModifier(code) == code \in {SC_LEFT_CTRL, SC_LEFT_SHIFT, SC_RIGHT_SHIFT, SC_CAPS_LOCK}

handle_modifier(code, released) ==
    /\ ctrl_pressed'  = IF code = SC_LEFT_CTRL THEN ~released ELSE ctrl_pressed
    /\ shift_pressed' = IF code \in {SC_LEFT_SHIFT, SC_RIGHT_SHIFT} THEN ~released
                        ELSE shift_pressed
    /\ caps_lock'     = IF code = SC_CAPS_LOCK /\ ~released THEN ~caps_lock ELSE caps_lock
    /\ UNCHANGED <<key_buffer, buf_head>>

\* Ctrl-C ends the program and is no key for anyone.
CtrlC(code) == ctrl_pressed /\ code = SC_C

handle_character(code) ==
    /\ IF CtrlC(code) THEN UNCHANGED <<key_buffer, buf_head>>
                      ELSE PushKey(scancode_to_ascii(code))
    /\ UNCHANGED <<shift_pressed, caps_lock, ctrl_pressed>>

\* Any interrupt ends a halt, and goes back to where the thread was if not.
Wake == pc' = IF pc = "hlt" THEN "loop" ELSE pc

\* app_abort: exec_program ends, and with it the command the shell was in.
app_abort == /\ app_running' = FALSE /\ pc' = "hlt" /\ got' = "none"

keyboard_handler_c ==
    /\ wire # <<>> /\ wire' = Tail(wire)
    /\ LET scancode == Head(wire)
           released == scancode >= SC_RELEASE_MASK
           code     == scancode % SC_RELEASE_MASK
           abort_app == ~extended /\ ~released /\ CtrlC(code) /\ app_running
       IN \/ /\ scancode = SC_EXTENDED_PREFIX
             /\ extended' = TRUE
             /\ Wake
             /\ UNCHANGED <<key_buffer, buf_head, shift_pressed, caps_lock, ctrl_pressed,
                            app_running, got>>
          \/ /\ scancode # SC_EXTENDED_PREFIX
             /\ extended' = FALSE
             /\ \/ extended /\ handle_extended(code, released)
                \/ ~extended /\ IsModifier(code) /\ handle_modifier(code, released)
                \/ ~extended /\ ~IsModifier(code) /\ ~released /\ handle_character(code)
                \/ /\ ~extended /\ ~IsModifier(code) /\ released
                   /\ UNCHANGED <<key_buffer, buf_head, shift_pressed, caps_lock, ctrl_pressed>>
             /\ IF abort_app THEN app_abort ELSE Wake /\ UNCHANGED <<app_running, got>>
    /\ UNCHANGED <<held, buf_tail, c>>

\* Fault: the timer's line stays masked.
TimerMasked == FALSE /\ UNCHANGED vars

\* timer_handler_c: for this module only the end of a halt.
TimerIrq == /\ pc = "hlt" /\ Wake
            /\ UNCHANGED <<keys, ring, flags, app_running, c, got>>

-----------------------------------------------------------------------------
(* The thread.                                                             *)

keyboard_has_input == buf_head # buf_tail

\* Fault: the shell reads without looking.
PollBlind == /\ pc = "loop" /\ pc' = "read"
             /\ UNCHANGED <<keys, ring, flags, app_running, c, got>>

\* The shell's loop: a key, or hlt.
Poll == /\ pc = "loop"
        /\ pc' = IF keyboard_has_input THEN "read" ELSE "hlt"
        /\ UNCHANGED <<keys, ring, flags, app_running, c, got>>

\* keyboard_read_char up to its return or its write of buf_tail.
ReadSlot == /\ pc = "read"
            /\ IF buf_head = buf_tail
               THEN /\ got' = "zero" /\ UNCHANGED c
                    /\ pc' = IF app_running THEN "app" ELSE "handle"
               ELSE /\ c' = key_buffer[buf_tail] /\ UNCHANGED got
                    /\ pc' = "move"
            /\ UNCHANGED <<keys, ring, flags, app_running>>

MoveTail == /\ pc = "move"
            /\ buf_tail' = After(buf_tail) /\ got' = c
            /\ pc' = IF app_running THEN "app" ELSE "handle"
            /\ UNCHANGED <<keys, key_buffer, buf_head, flags, app_running, c>>

\* handle_key: the key is used up, and may have been the end of a run command.
handle_key == /\ pc = "handle" /\ got' = "none"
              /\ \/ pc' = "hlt" /\ UNCHANGED app_running
                 \/ pc' = "app" /\ app_running' = TRUE
              /\ UNCHANGED <<keys, ring, flags, c>>

\* The program calls getch, or ends.
getch == /\ pc = "app" /\ pc' = "read" /\ got' = "none"
         /\ UNCHANGED <<keys, ring, flags, app_running, c>>

ProgramEnds == /\ pc = "app" /\ pc' = "hlt"
               /\ app_running' = FALSE /\ got' = "none"
               /\ UNCHANGED <<keys, ring, flags, c>>

-----------------------------------------------------------------------------
Thread == Poll \/ ReadSlot \/ MoveTail \/ handle_key
Next == \/ \E k \in Board : KeyDown(k) \/ KeyUp(k)
        \/ keyboard_handler_c \/ TimerIrq
        \/ Thread \/ getch \/ ProgramEnds

Spec == Init /\ [][Next]_vars

\* The processor runs on, and the timer (init_timer, 100 Hz) never stops.
FairSpec == Spec /\ WF_vars(Thread) /\ WF_vars(TimerIrq)

-----------------------------------------------------------------------------
\* Types, the ring's indices among them.
TypeOK ==
    /\ held \subseteq Board /\ wire \in Seq(0..255)
    /\ key_buffer \in [Index -> Chars \cup {"none"}]
    /\ buf_head \in Index /\ buf_tail \in Index
    /\ shift_pressed \in BOOLEAN /\ caps_lock \in BOOLEAN
    /\ ctrl_pressed \in BOOLEAN /\ extended \in BOOLEAN
    /\ app_running \in BOOLEAN
    /\ pc \in {"loop", "read", "move", "handle", "hlt", "app"}
    /\ c \in Chars \cup {"none"} /\ got \in Chars \cup {"none", "zero"}

\* The keys in the ring, the next one first.
Waiting == (buf_head - buf_tail) % Size
Pending == [i \in 1..Waiting |-> key_buffer[(buf_tail + i - 1) % Size]]

Queue == INSTANCE KeyQueue WITH
    Keys     <- Chars,
    Capacity <- Size - 1,
    queue    <- Pending,
    taken    <- IF got = "zero" THEN "none" ELSE got

\* The ring is a queue for its one reader, whenever the handler comes and
\* wherever Ctrl-C ends a read.
RefinesKeyQueue == Queue!Spec

\* No modifier is stuck: once the bytes are read, a flag is set only while a
\* key of its kind is down, left or right, repeated or not.
ModifiersFollowKeys ==
    wire = <<>> =>
        /\ ~extended
        /\ shift_pressed => held \cap {<<SC_LEFT_SHIFT>>, <<SC_RIGHT_SHIFT>>} # {}
        /\ ctrl_pressed  => held \cap {<<SC_LEFT_CTRL>>,
                                       <<SC_EXTENDED_PREFIX, SC_LEFT_CTRL>>} # {}

\* The key that a read has looked at stays in its slot until the tail moves
\* over it, though the handler may fill the ring up in between.
KeyStaysPut == pc = "move" => buf_head # buf_tail /\ c = key_buffer[buf_tail]

\* The shell's test and its read are two looks at the ring; the key seen by the
\* first is there for the second.
ShellGetsKey == pc = "handle" => got \in Chars

\* A key that waits while no program runs is taken, also one that came between
\* the loop's test and its hlt.
KeysHandled == (buf_head # buf_tail /\ ~app_running) ~> got \in Chars
=============================================================================
