------------------------------- MODULE AppRun -------------------------------
(***************************************************************************)
(* A program's run: the shell's run command (src/src/shell.c), the loader  *)
(* (loader.c) and what the program does with the display, with Ctrl-C      *)
(* between any two assignments to what they share.                         *)
(*                                                                         *)
(* app_abort runs in the keyboard interrupt and longjmps to exec_program,  *)
(* out of whatever the program was in, the kernel's own functions          *)
(* included.  kmalloc and kfree run with interrupts off and are one step.  *)
(*                                                                         *)
(* A jump buffer that was never set leads nowhere: the processor goes      *)
(* astray ("lost").  One left by an earlier program leads to a frame of    *)
(* exec_program in the same place of the stack, because every run comes    *)
(* through the same calls of shell_main, and works.                        *)
(***************************************************************************)
EXTENDS Display

VARIABLES
    app_running, \* the flag the keyboard handler looks at
    app_jmp,     \* the jump buffer: "unset", "dead" (of an earlier run), "live"
    cut          \* history: the windows Ctrl-C has fallen into

program == <<app_running, app_jmp, cut>>
appVars == <<displayVars, program>>

shared == <<opening, picture, display, console_suspended>>

Init == /\ pc = "shell" /\ DisplayInit
        /\ app_running = FALSE /\ app_jmp = "unset" /\ cut = {}

-----------------------------------------------------------------------------
(* shell.c: the loop, the run command.                                     *)

\* The loop reads keys only while the console is not suspended.
cmd_run == /\ ~console_suspended
           /\ Goto("shell", "exec")
           /\ UNCHANGED <<shared, program>>

\* The display is closed whatever exec_program says.
AfterExec == CloseDisplay("after", "prompt") /\ UNCHANGED program

\* The command is done, and the prompt is printed.
Prompt == Goto("prompt", "shell") /\ UNCHANGED <<shared, program>>

\* hlt; a processor that is lost does nothing of interest either.
Halt == pc \in {"shell", "lost"} /\ UNCHANGED appVars

-----------------------------------------------------------------------------
(* loader.c                                                                *)

\* No such file, too large, or not read in full.
ExecFails == Goto("exec", "after") /\ UNCHANGED <<shared, program>>

ExecStart == /\ Goto("exec", "set_jmp")
             /\ app_running' = TRUE
             /\ UNCHANGED <<shared, app_jmp, cut>>

SetJmp == /\ Goto("set_jmp", "program")
          /\ app_jmp' = "live"
          /\ UNCHANGED <<shared, app_running, cut>>

ProgramReturns == Goto("program", "exit") /\ UNCHANGED <<shared, program>>

\* Fault: the flag is left set.
ExitRunning == /\ Goto("exit", "after")
               /\ app_jmp' = "dead"
               /\ UNCHANGED <<shared, app_running, cut>>

\* The frame that app_jmp leads to is gone with the return.
Exit == /\ Goto("exit", "after")
        /\ app_running' = FALSE /\ app_jmp' = "dead"
        /\ UNCHANGED <<shared, cut>>

\* In display_close, behind its last look at active; in display_open, with a
\* buffer that is nowhere stored.
Window == IF pc = "resume" /\ was_active THEN {"close"}
          ELSE IF new.back # NULL /\ display.back # new.back THEN {"open"}
          ELSE {}

\* keyboard_handler_c finds Ctrl-C while app_running.
app_abort == /\ app_running
             /\ app_running' = FALSE
             /\ pc' = IF app_jmp = "unset" THEN "lost" ELSE "aborted"
             /\ ret' = <<>> /\ new' = NoCall
             /\ cut' = cut \union Window
             /\ UNCHANGED <<heap, was_active, picture, display, console_suspended, app_jmp>>

\* Fault: the run ends with the display as it is.
AbortedOpen == Goto("aborted", "prompt") /\ UNCHANGED <<shared, program>>

\* After the longjmp: interrupts on, the display closed, "^C".
Aborted == CloseDisplay("aborted", "caught") /\ UNCHANGED program

Caught == /\ Goto("caught", "after")
          /\ app_jmp' = "dead"
          /\ UNCHANGED <<shared, app_running, cut>>

Loading == ExecFails \/ ExecStart \/ SetJmp \/ ProgramReturns \/ Exit

AppStep == \/ cmd_run \/ AfterExec \/ Prompt \/ Loading
           \/ app_abort \/ Aborted \/ Caught
           \/ DisplayStep /\ UNCHANGED program

Spec == Init /\ [][AppStep \/ Halt]_appVars

-----------------------------------------------------------------------------
\* When the prompt is back, the program's graphics are gone, whatever Ctrl-C
\* cut short; keys are taken, unless it fell into display_close after the
\* display was marked closed and before the console was resumed.
PromptHasScreen ==
    pc = "shell" => /\ display = Closed
                    /\ console_suspended => "close" \in cut

\* The words of a buffer.
Words(p) == p .. p + display.width * display.height - 1

\* A program that draws finds both buffers in the heap, apart from each other,
\* and apart from the headers of the allocator's list, although kfree joins
\* blocks that are in use and an open takes the new buffers before it gives up
\* the old ones.
BuffersApart ==
    pc = "program" /\ display.active =>
        LET b == Words(display.back)
            f == Words(display.front)
        IN  /\ display.back # NULL /\ display.front # NULL
            /\ b \intersect f = {} /\ b \union f \subseteq 0 .. HeapWords - 1
            /\ \A i \in DOMAIN heap :
                   {heap[i].at, heap[i].at + 1} \intersect (b \union f) = {}

\* When display_open fails after its first kmalloc, the header that kmalloc
\* wrote did not land in the buffers the program goes on to draw with.
FailedOpenKeepsBuffers ==
    [][pc = "alloc_front" /\ pc' = "program" /\ display.active =>
           \A i \in DOMAIN heap : heap[i].at \notin Words(display.back) \union Words(display.front)]_appVars

\* At the prompt all memory is free again, unless Ctrl-C fell into display_open
\* before the buffers were stored.
MemoryComesBack == pc = "shell" => heap = heap_init \/ "open" \in cut

\* While a program runs, the console is suspended exactly when its display is
\* open: several opens or closes in a row do not get it out of step.
SuspendedWithDisplay ==
    pc = "program" /\ "close" \notin cut => (console_suspended <=> display.active)

\* Every visible row is on the screen as it was drawn, or will be copied by the
\* next display_present, or the kernel has printed on it.
NoRowMissed ==
    pc = "program" /\ display.active /\ ~display.full =>
        \A y \in Visible : y < display.height =>
            \/ screen[y] \in {back[y], "text"}
            \/ display.dirty_top <= y /\ y < display.dirty_bottom

\* Once setjmp has run, Ctrl-C never jumps into a frame that has returned: the
\* flag is down before the frame is gone, also after an abort.
AbortLandsInExec == app_running => app_jmp = "live" \/ pc = "set_jmp"

\* gfx_close gives the text mode back: at the prompt keys are taken.
ConsoleUsable == pc = "shell" => ~console_suspended
=============================================================================
