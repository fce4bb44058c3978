----------------------------- MODULE Interrupts -----------------------------
(***************************************************************************)
(* The interrupts of the machine: init_idt and pic_remap (src/src/idt.c),  *)
(* the stubs of entry.asm, the two handlers as far as they talk to the     *)
(* interrupt controller (time.c, keyboard.c), and every place where the    *)
(* kernel turns interrupts on or off (stdlib.c, loader.c).                 *)
(*                                                                         *)
(* The other modules take it for granted that a handler is one step, that  *)
(* it never falls into the allocator, and that ticks and keys go on        *)
(* coming, also after Ctrl-C has left a handler by longjmp.  Here it is    *)
(* shown.                                                                  *)
(*                                                                         *)
(* The controller is edge triggered, line 0 (timer) has priority over line *)
(* 1 (keyboard); pic_remap masks all others.  An interrupt goes before the *)
(* thread's next instruction, hence Thread's guard.                        *)
(***************************************************************************)
EXTENDS Integers, Sequences, FiniteSetsExt

VARIABLES
    iflag,       \* the processor's interrupt flag
    idt_loaded,  \* lidt has been executed
    remapped,    \* the controller uses the vectors from 32 on
    irr, isr,    \* the controller's lines requested and in service
    port,        \* the keyboard's byte: "empty", "key", or C with Ctrl held
    pc,          \* where the processor is
    frames,      \* where it was, for each interrupt that has not returned
    ret,         \* where kmalloc or kfree returns
    app_running, abort_app,
    ticked,      \* a tick was counted since sleep began
    early        \* history: a byte lay in the port while pic_remap ran

pic  == <<irr, isr, remapped>>
boot == <<idt_loaded, early>>
app  == <<ret, app_running, abort_app>>
vars == <<iflag, idt_loaded, remapped, irr, isr, port, pc, frames, ret,
          app_running, abort_app, ticked, early>>

Timer    == 0
Keyboard == 1

TimerHandler    == {"timer", "timer_eoi", "timer_iret"}
KeyboardHandler == {"keyboard", "keyboard_eoi", "app_abort", "keyboard_iret"}
Handlers        == TimerHandler \union KeyboardHandler

Init == /\ iflag = FALSE /\ idt_loaded = FALSE /\ remapped = FALSE
        /\ irr = {} /\ isr = {} /\ port = "empty"
        /\ pc = "init_idt" /\ frames = <<>> /\ ret = "program"
        /\ app_running = FALSE /\ abort_app = FALSE /\ ticked = FALSE /\ early = FALSE

-----------------------------------------------------------------------------
(* The devices.                                                            *)

\* A byte comes when the last one has been read, and pulls the line up.
KeyArrives == /\ port = "empty"
              /\ port' \in {"key", "ctrl_c"}
              /\ irr' = irr \union {Keyboard}
              /\ UNCHANGED <<iflag, boot, remapped, isr, pc, frames, app, ticked>>

\* Ten milliseconds are far longer than the timer's handler.  An edge on a line
\* that is requested already is lost.
TimerEdge == /\ pc \notin TimerHandler
             /\ irr' = irr \union {Timer}
             /\ UNCHANGED <<iflag, boot, remapped, isr, port, pc, frames, app, ticked>>

-----------------------------------------------------------------------------
(* The processor takes an interrupt.                                       *)

Pending == {i \in irr : \A j \in isr : i < j}

Ready == iflag /\ Pending # {}

\* Gates for 32 and 33 are all there is; the vectors the BIOS uses are others.
Vector(i) == IF ~idt_loaded \/ ~remapped THEN "astray"
             ELSE IF i = Timer THEN "timer" ELSE "keyboard"

\* A hlt is over with the first interrupt.
Resume(p) == IF p = "halt" THEN "loop" ELSE p

\* Through a gate of type 0x8E (set_idt_gate), which turns interrupts off.
Deliver(i) == /\ Ready /\ i = Min(Pending)
              /\ irr' = irr \ {i} /\ isr' = isr \union {i}
              /\ frames' = Append(frames, Resume(pc))
              /\ pc' = Vector(i)
              /\ iflag' = FALSE
              /\ UNCHANGED <<boot, remapped, port, app, ticked>>

-----------------------------------------------------------------------------
(* The handlers.                                                           *)

timer_handler_c == /\ pc = "timer" /\ pc' = "timer_eoi"
                   /\ ticked' = TRUE
                   /\ UNCHANGED <<iflag, boot, pic, port, frames, app>>

\* What the code means is Keyboard's matter.
keyboard_handler_c == /\ pc = "keyboard" /\ pc' = "keyboard_eoi"
                      /\ abort_app' = (port = "ctrl_c" /\ app_running)
                      /\ port' = "empty"
                      /\ UNCHANGED <<iflag, boot, pic, frames, ret, app_running, ticked>>

\* Fault: the handler leaves for app_abort first.
SendEoiLate == /\ pc \in {"timer_eoi", "keyboard_eoi"}
               /\ isr' = IF pc = "keyboard_eoi" /\ abort_app THEN isr ELSE isr \ {Min(isr)}
               /\ pc' = IF pc = "timer_eoi" THEN "timer_iret"
                        ELSE IF abort_app THEN "app_abort" ELSE "keyboard_iret"
               /\ UNCHANGED <<iflag, boot, irr, remapped, port, frames, app, ticked>>

\* The highest line in service is done.
SendEoi == /\ pc \in {"timer_eoi", "keyboard_eoi"}
           /\ isr' = isr \ {Min(isr)}
           /\ pc' = IF pc = "timer_eoi" THEN "timer_iret"
                    ELSE IF abort_app THEN "app_abort" ELSE "keyboard_iret"
           /\ UNCHANGED <<iflag, boot, irr, remapped, port, frames, app, ticked>>

\* The longjmp drops all that is on the stack above exec_program's frame.
app_abort == /\ pc = "app_abort" /\ pc' = "aborted"
             /\ app_running' = FALSE
             /\ frames' = <<>>
             /\ UNCHANGED <<iflag, boot, pic, port, ret, abort_app, ticked>>

\* The flags come back as they were: only with the flag set was there an interrupt.
Iret == /\ pc \in {"timer_iret", "keyboard_iret"}
        /\ pc' = frames[Len(frames)]
        /\ frames' = SubSeq(frames, 1, Len(frames) - 1)
        /\ iflag' = TRUE
        /\ UNCHANGED <<boot, pic, port, app, ticked>>

Handle == timer_handler_c \/ keyboard_handler_c \/ SendEoi \/ app_abort \/ Iret

-----------------------------------------------------------------------------
(* The thread.                                                             *)

\* From p to q, with the interrupt flag as given.
Step(p, q, flag) == /\ ~Ready
                    /\ pc = p /\ pc' = q /\ iflag' = flag
                    /\ UNCHANGED <<port, frames>>

\* The controller starts afresh: a line that is up already is no edge.
pic_remap == /\ Step("init_idt", "remapped", FALSE)
             /\ remapped' = TRUE /\ irr' = {} /\ isr' = {}
             /\ early' = (port # "empty")
             /\ UNCHANGED <<idt_loaded, app, ticked>>

Lidt == /\ Step("remapped", "loaded", FALSE)
        /\ idt_loaded' = TRUE
        /\ UNCHANGED <<early, pic, app, ticked>>

\* The last step of init_idt.
Sti == Step("loaded", "loop", TRUE) /\ UNCHANGED <<boot, pic, app, ticked>>

\* shell_main: whatever the key, the loop comes to its hlt.
Loop == Step("loop", "halt", TRUE) /\ UNCHANGED <<boot, pic, app, ticked>>

\* exec_program as far as the program's first instruction.
exec_program == /\ Step("loop", "program", TRUE)
                /\ app_running' = TRUE
                /\ UNCHANGED <<boot, pic, ret, abort_app, ticked>>

\* Fault: the lists are changed with interrupts on.
AllocOpen(p) == /\ Step(p, "heap", TRUE)
                /\ ret' = p
                /\ UNCHANGED <<boot, pic, app_running, abort_app, ticked>>

\* kmalloc and kfree up to their cli, called from p.
Alloc(p) == /\ Step(p, "heap", FALSE)
            /\ ret' = p
            /\ UNCHANGED <<boot, pic, app_running, abort_app, ticked>>

\* The sti at the end of kmalloc and kfree.
AllocEnd == Step("heap", ret, TRUE) /\ UNCHANGED <<boot, pic, app, ticked>>

sleep == /\ Step("program", "sleep", TRUE)
         /\ ticked' = FALSE
         /\ UNCHANGED <<boot, pic, app>>

SleepOver == ticked /\ Step("sleep", "program", TRUE) /\ UNCHANGED <<boot, pic, app, ticked>>

ProgramReturns == /\ Step("program", "close", TRUE)
                  /\ app_running' = FALSE
                  /\ UNCHANGED <<boot, pic, ret, abort_app, ticked>>

\* A processor exception goes through a gate as well.
Exception == Step("program", "hung", FALSE) /\ UNCHANGED <<boot, pic, app, ticked>>

\* Its handler is a loop.
isr_handler_c == pc = "hung" /\ UNCHANGED vars

\* Fault: exec_program goes on as the handler has left it.
AbortedOff == Step("aborted", "close", FALSE) /\ UNCHANGED <<boot, pic, app, ticked>>

\* Behind setjmp, after the longjmp.
Aborted == Step("aborted", "close", TRUE) /\ UNCHANGED <<boot, pic, app, ticked>>

\* The display is closed or was not open; in the end the loop's hlt.
CommandOver == Step("close", "halt", iflag) /\ UNCHANGED <<boot, pic, app, ticked>>

Thread == \/ pic_remap \/ Lidt \/ Sti
          \/ Loop \/ exec_program
          \/ Alloc("program") \/ Alloc("close") \/ AllocEnd
          \/ sleep \/ SleepOver \/ ProgramReturns \/ Exception \/ isr_handler_c
          \/ Aborted \/ CommandOver

-----------------------------------------------------------------------------
Cpu  == Deliver(Timer) \/ Deliver(Keyboard) \/ Handle \/ Thread
Next == KeyArrives \/ TimerEdge \/ Cpu

Spec == Init /\ [][Next]_vars

\* The thread is at work and no interrupt waits.
Quiet == frames = <<>> /\ ~Ready

\* Handlers take microseconds, ticks and keys are milliseconds apart: between
\* interrupts it gets quiet, and the thread gets its turn.
Fairness == /\ WF_vars(Cpu) /\ WF_vars(TimerEdge)
            /\ SF_vars(Thread) /\ []<>Quiet

FairSpec == Spec /\ Fairness

-----------------------------------------------------------------------------
\* Whatever is interrupted is interrupted by one handler of the kernel, which
\* runs alone to its end: no second one on top of it, none before the table is
\* loaded, and none between the cli and the sti of the allocator, so that
\* Ctrl-C never leaves the list of blocks half changed.
HandlersAlone ==
    frames # <<>> =>
        /\ Len(frames) = 1 /\ ~iflag /\ pc \in Handlers
        /\ frames[1] \notin {"heap", "init_idt", "remapped", "loaded"}

\* In the thread no line is in service: a handler that leaves by longjmp has
\* told the controller that it is done, or no key would come any more.
NothingInService == frames = <<>> => isr = {}

Sleeping == pc = "sleep" \/ (frames # <<>> /\ frames[1] = "sleep")

\* Every byte of the keyboard is read and every sleep sees its tick: wherever
\* Ctrl-C struck, interrupts come back on.  Not after an exception, which ends
\* in a loop; and a key pressed while pic_remap runs may never be read, nor the
\* keys after it.
KeysAndTicks ==
    /\ port # "empty" ~> port = "empty" \/ early \/ pc = "hung"
    /\ Sleeping ~> ~Sleeping
=============================================================================
