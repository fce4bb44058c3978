---------------------------- MODULE AppRunProofs ----------------------------
(***************************************************************************)
(* Proofs about AppRun, for a heap, a limit and a screen of any size and   *)
(* any number of runs, opens and Ctrl-Cs: where Ctrl-C may jump, what of   *)
(* the program is left at the prompt, and that buffers are never mixed up. *)
(*                                                                         *)
(* The invariants come in four layers, each with the ones before it: where *)
(* the thread may stand (Standing), what the display is there (Shaped),    *)
(* what is in the pictures (Drawn), and what is on the heap (Heaped).      *)
(*                                                                         *)
(* The last part is about FrameBuffer, for a screen of any size: the bytes *)
(* that pixels and characters are written to stay inside it and apart.     *)
(***************************************************************************)
EXTENDS AppRun, FrameBuffer, WellFoundedInduction, SequenceTheorems, TLAPS

-----------------------------------------------------------------------------
(* Where the thread stands.                                                *)

Opens   == {"alloc_back", "alloc_front", "zeroed", "set_back", "set_front", "set_active", "suspend"}
Alone   == Opens \cup {"shell", "exec", "set_jmp", "program", "exit", "after", "prompt",
                       "aborted", "caught", "lost"}
Closes  == {"close", "inactive", "resume"}
Frees   == {"free_back", "free_front", "forget_back", "forget_front"}
Callers == {"program", "caught", "prompt"}

\* Who called display_close; in display_open, free_buffers returns to set_back.
OpenFrees  == pc \in Frees /\ ret = <<"set_back">>
CloseFrees == pc \in Frees /\ \E r \in Callers : ret = <<"inactive", r>>
ClosesFor(r) == \/ pc \in Closes /\ ret = <<r>>
                \/ pc \in Frees /\ ret = <<"inactive", r>>

Standing == \/ pc \in Alone /\ ret = <<>>
          \/ OpenFrees
          \/ \E r \in Callers : ClosesFor(r)

\* The program is on the stack.
InProgram == pc \in Opens \cup {"program"} \/ OpenFrees \/ ClosesFor("program")

Jumps == /\ InProgram \/ pc = "exit" => app_jmp = "live"
         /\ app_running => InProgram \/ pc \in {"set_jmp", "exit"}
         /\ app_running \in BOOLEAN

Control == Standing /\ Jumps


LEMMA ControlInit == Init => Control
BY DEF Init, DisplayInit, Control, Standing, Jumps, InProgram, OpenFrees, ClosesFor,
       Alone, Opens, Frees, Closes, Callers

\* A call on top of none, and of one.
LEMMA Stacked == ASSUME NEW r, NEW q PROVE <<r>> \o <<>> = <<r>> /\ <<r>> \o <<q>> = <<r, q>>
<1>1. <<r>> \in Seq({r, q}) /\ <<q>> \in Seq({r, q}) /\ <<r, q>> \in Seq({r, q})
  OBVIOUS
<1>2. <<r>> \o <<>> = <<r>>
  BY <1>1, ConcatEmptySeq
<1>3. /\ <<r>> \o <<q>> \in Seq({r, q}) /\ Len(<<r>> \o <<q>>) = 2
      /\ (<<r>> \o <<q>>)[1] = r /\ (<<r>> \o <<q>>)[2] = q
  BY <1>1, ConcatProperties
<1>4. <<r>> \o <<q>> = <<r, q>>
  <2> DEFINE s == <<r>> \o <<q>>
             t == <<r, q>>
  <2>1. t \in Seq({r, q}) /\ Len(t) = 2 /\ t[1] = r /\ t[2] = q
    OBVIOUS
  <2>2. s \in Seq({r, q}) /\ Len(s) = 2 /\ s[1] = r /\ s[2] = q
    BY <1>3
  <2>3. s = t
    <3> HIDE DEF s, t
    <3>1. \A i \in 1 .. Len(s) : s[i] = t[i]
      BY <2>1, <2>2
    <3> QED BY <2>1, <2>2, <3>1, SeqEqual
  <2> QED BY <2>3
<1> QED BY <1>2, <1>4

LEMMA StandsAlone == ASSUME Standing, pc \in Alone PROVE ret = <<>>
BY DEF Standing, OpenFrees, ClosesFor, Alone, Opens, Frees, Closes

\* A step of a thread that stays in its function, and where it stands alone.
LEMMA ControlLoading ==
    ASSUME Control,
           cmd_run \/ AfterExec \/ Prompt \/ Loading \/ Aborted \/ Caught
    PROVE  Control'
<1>0. pc \in Alone => ret = <<>>
  BY StandsAlone DEF Control
<1>1. CASE cmd_run \/ Prompt \/ ExecFails \/ ExecStart \/ SetJmp \/ ProgramReturns \/ Exit \/ Caught
  <2>1. ASSUME NEW p \in Alone, NEW q \in Alone, Goto(p, q),
               q \in {"program", "exit"} => app_jmp' = "live",
               app_running' => q \in {"set_jmp", "program", "exit"},
               app_running' \in BOOLEAN, q \notin Opens
        PROVE  Control'
    BY <1>0, <2>1 DEF Goto, Control, Standing, Jumps, InProgram, OpenFrees, ClosesFor, Opens, Alone,
                      Frees, Closes
  <2>2. app_running \in BOOLEAN
    BY DEF Control, Jumps
  <2>3. pc \in {"shell", "prompt", "exec", "after", "caught"} => ~app_running
    BY <1>0 DEF Control, Jumps, InProgram, OpenFrees, ClosesFor, Opens, Frees, Closes
  <2>4. pc = "program" => app_jmp = "live"
    BY DEF Control, Jumps, InProgram
  <2>5. CASE cmd_run
    BY <2>1, <2>2, <2>3, <2>5 DEF cmd_run, program, Goto, Alone, Opens
  <2>6. CASE Prompt
    BY <2>1, <2>2, <2>3, <2>6 DEF Prompt, program, Goto, Alone, Opens
  <2>7. CASE ExecFails
    BY <2>1, <2>2, <2>3, <2>7 DEF ExecFails, program, Goto, Alone, Opens
  <2>8. CASE ExecStart \/ SetJmp
    BY <2>1, <2>2, <2>8 DEF ExecStart, SetJmp, Alone, Opens
  <2>9. CASE ProgramReturns
    BY <2>1, <2>2, <2>4, <2>9 DEF ProgramReturns, program, Goto, Alone, Opens
  <2>10. CASE Exit
    BY <2>1, <2>10 DEF Exit, Alone, Opens
  <2>11. CASE Caught
    BY <2>1, <2>2, <2>3, <2>11 DEF Caught, Goto, Alone, Opens
  <2> QED BY <1>1, <2>5, <2>6, <2>7, <2>8, <2>9, <2>10, <2>11
<1>3. CASE AfterExec \/ Aborted
  <2>1. PICK r \in {"prompt", "caught"} : pc \in {"after", "aborted"} /\ pc' = "close" /\ ret' = <<r>> \o ret
    BY <1>3 DEF AfterExec, Aborted, CloseDisplay, Gosub
  <2>2. ret = <<>> /\ ret' = <<r>>
    BY <1>0, <2>1, Stacked DEF Alone
  <2>3. UNCHANGED <<app_running, app_jmp>>
    BY <1>3 DEF AfterExec, Aborted, program
  <2>4. ~app_running /\ app_running \in BOOLEAN
    BY <2>1, <2>2 DEF Control, Jumps, InProgram, OpenFrees, ClosesFor, Opens, Frees, Closes
  <2>5. Standing'
    BY <2>1, <2>2 DEF Standing, ClosesFor, Closes, Callers
  <2>6. ~InProgram' /\ pc' # "exit"
    BY <2>1, <2>2 DEF InProgram, OpenFrees, ClosesFor, Opens, Frees, Closes
  <2> QED BY <2>3, <2>4, <2>5, <2>6 DEF Control, Jumps
<1> QED BY <1>1, <1>3 DEF Loading

LEMMA ControlAbort == ASSUME Control, app_abort PROVE Control'
BY DEF app_abort, Control, Standing, Jumps, InProgram, OpenFrees, ClosesFor,
       Alone, Opens, Frees, Closes, Callers

\* The display's functions neither end the program nor begin one.
LEMMA ControlDisplay ==
    ASSUME Control, DisplayStep, UNCHANGED program
    PROVE  Control' /\ (InProgram' <=> InProgram)
<1> USE DEF Control, Standing, Jumps, InProgram, OpenFrees, ClosesFor,
            Alone, Opens, Frees, Closes, Callers
<1>0. UNCHANGED <<app_running, app_jmp>>
  BY DEF program
<1>1. CASE display_open \/ AllocBack \/ AllocFront \/ OpenFails
  BY <1>0, <1>1 DEF display_open, AllocBack, AllocFront, Alloc, OpenFails, Goto
<1>2. CASE SetBack \/ SetFront \/ SetActive \/ console_suspend
  BY <1>0, <1>2 DEF SetBack, SetFront, Store, SetActive, console_suspend, Goto
<1>3. CASE OpenAllocated
  <2>1. pc = "zeroed" /\ pc' = "free_back" /\ ret' = <<"set_back">> \o ret
    BY <1>3 DEF OpenAllocated, Gosub
  <2>2. ret' = <<"set_back">>
    BY <2>1
  <2> QED BY <1>0, <2>1, <2>2
<1>4. CASE display_close
  <2>1. pc = "program" /\ pc' = "close" /\ ret' = <<"program">> \o ret
    BY <1>4 DEF display_close, CloseDisplay, Gosub
  <2>2. ret' = <<"program">>
    BY <2>1
  <2> QED BY <1>0, <2>1, <2>2
<1>5. CASE CloseStarts
  <2>1. pc = "close" /\ pc' = "free_back" /\ ret' = <<"inactive">> \o ret
    BY <1>5 DEF CloseStarts, Gosub
  <2>2. PICK r \in Callers : ret = <<r>>
    BY <2>1
  <2>3. ret' = <<"inactive", r>>
    BY <2>1, <2>2, Stacked
  <2>4. Standing'
    BY <2>1, <2>2, <2>3 DEF Standing, ClosesFor
  <2>5. InProgram' <=> InProgram
    <3>0. Len(ret') = 2 /\ ret'[2] = r /\ ret' # <<"set_back">>
      BY <2>3
    <3>1. InProgram' <=> r = "program"
      <4>1. InProgram' <=> ret' = <<"inactive", "program">>
        BY <2>1, <3>0
      <4>2. ret' = <<"inactive", "program">> <=> r = "program"
        <5>1. ret' = <<"inactive", "program">> => ret'[2] = "program"
          OBVIOUS
        <5> QED BY <2>3, <3>0, <5>1
      <4> QED BY <4>1, <4>2
    <3>2. InProgram <=> r = "program"
      BY <2>1, <2>2
    <3> QED BY <3>1, <3>2
  <2> QED BY <1>0, <2>1, <2>4, <2>5 DEF Jumps
<1>6. CASE SetInactive \/ FreeBack \/ FreeFront \/ ForgetBack
  BY <1>0, <1>6 DEF SetInactive, FreeBack, FreeFront, Free, ForgetBack, Goto
<1>7. CASE console_resume
  <2>1. pc = "resume" /\ pc' = Head(ret) /\ ret' = Tail(ret)
    BY <1>7 DEF console_resume, Return
  <2>2. PICK r \in Callers : ret = <<r>>
    BY <2>1
  <2>3. pc' = r /\ ret' = <<>>
    BY <2>1, <2>2
  <2> QED BY <1>0, <2>1, <2>2, <2>3
<1>8. CASE ForgetFront
  <2>1. pc = "forget_front" /\ pc' = Head(ret) /\ ret' = Tail(ret)
    BY <1>8 DEF ForgetFront, Return
  <2>2. CASE ret = <<"set_back">>
    <3>1. pc' = "set_back" /\ ret' = <<>>
      BY <2>1, <2>2
    <3> QED BY <1>0, <2>1, <2>2, <3>1
  <2>3. ASSUME NEW r \in Callers, ret = <<"inactive", r>>
        PROVE  Control' /\ (InProgram' <=> InProgram)
    <3>1. pc' = "inactive" /\ ret' = <<r>>
      BY <2>1, <2>3
    <3> QED BY <1>0, <2>1, <2>3, <3>1
  <2> QED BY <2>1, <2>2, <2>3
<1>9. CASE Drawing
  BY <1>0, <1>9 DEF Drawing, display_pixel, display_fill, display_present, Prints, Draw, calls
<1> QED BY <1>1, <1>2, <1>3, <1>4, <1>5, <1>6, <1>7, <1>8, <1>9
        DEF DisplayStep, Opening, Closing, Freeing

LEMMA ControlStep == Control /\ [AppStep \/ Halt]_appVars => Control'
<1> SUFFICES ASSUME Control, AppStep \/ UNCHANGED appVars PROVE Control'
  BY DEF Halt
<1>1. CASE UNCHANGED appVars
  BY <1>1 DEF appVars, displayVars, calls, program, Control, Standing, Jumps, InProgram,
              OpenFrees, CloseFrees, ClosesFor
<1> QED BY <1>1, ControlLoading, ControlAbort, ControlDisplay DEF AppStep

\* Ctrl-C jumps into a frame of exec_program that is there, in every run and
\* wherever it falls, but between ExecStart and setjmp.
THEOREM AbortLands == Spec => []AbortLandsInExec
<1>1. Control => AbortLandsInExec
  BY DEF Control, Jumps, AbortLandsInExec
<1> QED BY <1>1, ControlInit, ControlStep, PTL DEF Spec

-----------------------------------------------------------------------------
(* The display, and the console.                                           *)

Records ==
    /\ display = [active |-> display.active, full |-> display.full,
                  width |-> display.width, height |-> display.height,
                  back |-> display.back, front |-> display.front,
                  dirty_top |-> display.dirty_top, dirty_bottom |-> display.dirty_bottom]
    /\ new = [width |-> new.width, height |-> new.height, back |-> new.back, front |-> new.front]
    /\ display.active \in BOOLEAN /\ was_active \in BOOLEAN /\ console_suspended \in BOOLEAN

\* No buffer is stored, or the second only.
Emptied ==
    /\ pc = "forget_front" => display.back = NULL
    /\ pc \in {"inactive", "set_back"} => display.back = NULL /\ display.front = NULL
    /\ pc \in {"resume", "prompt", "shell", "exec", "set_jmp"} => display = Closed

\* Between the look at active and its change.
Changing == pc \in Frees \cup {"set_back", "set_front", "set_active", "inactive"}

\* The display, or what remembers it when it has just been opened or closed.
Shown == IF pc \in {"suspend", "resume"} THEN was_active ELSE display.active

\* The console is suspended at most while the display is open, and in the
\* program just then.
Suspended ==
    "close" \notin cut =>
        /\ console_suspended => IF pc = "resume" THEN was_active ELSE display.active
        /\ InProgram => (console_suspended <=> Shown)

Shaped ==
    /\ Records /\ Emptied /\ Suspended
    /\ ~display.active => display = [Closed EXCEPT !.back = display.back, !.front = display.front]
    /\ pc = "suspend" => display.active
    /\ Changing => (was_active <=> display.active)

Screened == Control /\ Shaped


LEMMA ShapedInit == Init => Shaped
<1> SUFFICES ASSUME Init PROVE Shaped
  OBVIOUS
<1>1. /\ pc = "shell" /\ display = Closed /\ new = NoCall
      /\ was_active = FALSE /\ console_suspended = FALSE
  BY DEF Init, DisplayInit
<1>2. ~InProgram
  BY <1>1 DEF InProgram, OpenFrees, ClosesFor, Opens, Frees, Closes
<1>3. Records /\ display = [Closed EXCEPT !.back = display.back, !.front = display.front]
  BY <1>1 DEF Records, Closed, NoCall
<1> QED BY <1>1, <1>2, <1>3 DEF Shaped, Emptied, Changing, Suspended, Frees

\* A thread that stands alone, in the program or not.
LEMMA StandsIn ==
    ASSUME Standing, pc \in Alone
    PROVE  InProgram <=> pc \in Opens \cup {"program"}
BY StandsAlone DEF InProgram, OpenFrees, ClosesFor, Alone, Opens, Frees, Closes

LEMMA ShapedLoading ==
    ASSUME Screened, Control', cmd_run \/ AfterExec \/ Prompt \/ Loading \/ Aborted \/ Caught
    PROVE  Shaped'
<1> USE DEF Screened
<1>1. UNCHANGED <<new, was_active, display, console_suspended, cut>>
  BY DEF cmd_run, AfterExec, Prompt, Loading, ExecFails, ExecStart, SetJmp, ProgramReturns, Exit,
         Aborted, Caught, CloseDisplay, shared, opening, program
<1>2. CASE AfterExec \/ Aborted
  <2>1. PICK r \in {"prompt", "caught"} : pc' = "close" /\ ret' = <<r>> \o ret
    BY <1>2 DEF AfterExec, Aborted, CloseDisplay, Gosub
  <2>2. pc \in Alone /\ pc # "resume"
    BY <1>2 DEF AfterExec, Aborted, CloseDisplay, Gosub, Alone
  <2>3. ret' = <<r>>
    BY <2>1, <2>2, StandsAlone, Stacked DEF Control
  <2>4. ~InProgram'
    <3>1. ret'[1] = r /\ r # "program"
      BY <2>3
    <3>2. InProgram' => ret' = <<"program">>
      BY <2>1 DEF InProgram, OpenFrees, ClosesFor, Opens, Frees, Closes
    <3>3. ret' = <<"program">> => ret'[1] = "program"
      OBVIOUS
    <3> QED BY <3>1, <3>2, <3>3
  <2> QED BY <1>1, <2>1, <2>2, <2>4
          DEF Shaped, Records, Emptied, Changing, Suspended, Frees
<1>3. CASE ~(AfterExec \/ Aborted)
  <2>1. \/ pc = "shell" /\ pc' = "exec"
        \/ pc = "prompt" /\ pc' = "shell"
        \/ pc = "exec" /\ pc' \in {"after", "set_jmp"}
        \/ pc = "set_jmp" /\ pc' = "program"
        \/ pc = "program" /\ pc' = "exit"
        \/ pc \in {"exit", "caught"} /\ pc' = "after"
    <3>1. cmd_run \/ Prompt \/ Loading \/ Caught
      BY <1>3
    <3>2. CASE cmd_run
      BY <3>2 DEF cmd_run, Goto
    <3>3. CASE Prompt
      BY <3>3 DEF Prompt, Goto
    <3>4. CASE Caught
      BY <3>4 DEF Caught, Goto
    <3>5. CASE Loading
      BY <3>5 DEF Loading, ExecFails, ExecStart, SetJmp, ProgramReturns, Exit, Goto
    <3> QED BY <3>1, <3>2, <3>3, <3>4, <3>5
  <2>2. InProgram' => pc' = "program" /\ display = Closed
    <3>1. pc' \in Alone
      BY <2>1 DEF Alone
    <3> QED BY <2>1, <3>1, StandsIn DEF Control, Standing, InProgram, OpenFrees, ClosesFor,
                Opens, Frees, Closes, Callers, Shaped, Emptied
  <2> QED BY <1>1, <2>1, <2>2
          DEF Shaped, Records, Emptied, Changing, Suspended, Shown, Frees, Closed
<1> QED BY <1>2, <1>3

\* Ctrl-C leaves the display as it is, and remembers that it fell into the end
\* of display_close.
LEMMA ShapedAbort == ASSUME Screened, app_abort PROVE Shaped'
<1>1. /\ UNCHANGED <<was_active, display, console_suspended>> /\ new' = NoCall
      /\ pc' \in {"lost", "aborted"} /\ cut' = cut \cup Window /\ ret' = <<>>
  BY DEF app_abort
<1>2. ~InProgram'
  BY <1>1 DEF InProgram, OpenFrees, ClosesFor, Opens, Frees, Closes
<1>3. Suspended'
  <2> SUFFICES ASSUME "close" \notin cut', console_suspended PROVE display.active
    BY <1>1, <1>2 DEF Suspended
  <2>1. "close" \notin cut /\ ~(pc = "resume" /\ was_active)
    BY <1>1 DEF Window
  <2> QED BY <2>1 DEF Screened, Shaped, Suspended
<1> QED BY <1>1, <1>2, <1>3 DEF Screened, Shaped, Records, Emptied, Changing, Frees, NoCall

LEMMA ShapedOpening == ASSUME Screened, Opening, UNCHANGED program, Control', InProgram' <=> InProgram
                       PROVE  Shaped'
<1>0. UNCHANGED cut
  BY DEF program
<1> USE DEF Screened
<1>1. CASE display_open \/ AllocBack \/ AllocFront \/ OpenFails
  <2>1. /\ UNCHANGED <<was_active, display, console_suspended>>
        /\ pc \in {"program", "alloc_back", "alloc_front"}
        /\ pc' \in {"program", "alloc_back", "alloc_front", "zeroed"}
    BY <1>1 DEF display_open, AllocBack, AllocFront, Alloc, OpenFails, Goto
  <2>2. new' = [width |-> new'.width, height |-> new'.height, back |-> new'.back,
                front |-> new'.front]
    <3>1. CASE display_open \/ OpenFails
      BY <3>1 DEF display_open, OpenFails, NoCall
    <3>2. CASE AllocBack \/ AllocFront
      <4>1. PICK f \in {"back", "front"} : \E p : new' = [new EXCEPT ![f] = p]
        BY <3>2 DEF AllocBack, AllocFront, Alloc
      <4> QED BY <4>1 DEF Shaped, Records
    <3> QED BY <1>1, <3>1, <3>2
  <2> QED BY <1>0, <2>1, <2>2
          DEF Shaped, Records, Emptied, Changing, Suspended, Shown, Frees
<1>2. CASE OpenAllocated
  <2>1. /\ pc = "zeroed" /\ pc' = "free_back" /\ was_active' = display.active
        /\ UNCHANGED <<display, new, console_suspended>>
    BY <1>2 DEF OpenAllocated, Gosub
  <2> QED BY <1>0, <2>1
          DEF Shaped, Records, Emptied, Changing, Suspended, Shown, Frees
<1>3. CASE SetBack
  <2>1. /\ pc = "set_back" /\ pc' = "set_front" /\ display' = [display EXCEPT !.back = new.back]
        /\ UNCHANGED <<new, was_active, console_suspended>>
    BY <1>3 DEF SetBack, Store, Goto, opening
  <2> QED BY <1>0, <2>1
          DEF Shaped, Records, Emptied, Changing, Suspended, Shown, Frees, Closed
<1>4. CASE SetFront
  <2>1. /\ pc = "set_front" /\ pc' = "set_active" /\ display' = [display EXCEPT !.front = new.front]
        /\ UNCHANGED <<new, was_active, console_suspended>>
    BY <1>4 DEF SetFront, Store, Goto, opening
  <2> QED BY <1>0, <2>1
          DEF Shaped, Records, Emptied, Changing, Suspended, Shown, Frees, Closed
<1>5. CASE SetActive
  <2>1. /\ pc = "set_active" /\ pc' = "suspend"
        /\ display' = [display EXCEPT !.width = new.width, !.height = new.height,
                                      !.full = TRUE, !.active = TRUE,
                                      !.dirty_top = 0, !.dirty_bottom = new.height]
        /\ new' = NoCall /\ UNCHANGED <<was_active, console_suspended>>
    BY <1>5 DEF SetActive, Goto
  <2>2. Records' /\ display'.active
    BY <2>1 DEF Shaped, Records, NoCall
  <2> QED BY <1>0, <2>1, <2>2
          DEF Shaped, Records, Emptied, Changing, Suspended, Shown, Frees
<1>6. CASE console_suspend
  <2>1. /\ pc = "suspend" /\ pc' = "program"
        /\ console_suspended' = (~was_active \/ console_suspended)
        /\ UNCHANGED <<display, new, was_active>>
    BY <1>6 DEF console_suspend, Goto, opening
  <2>2. InProgram
    BY <2>1 DEF InProgram, Opens
  <2>3. Records'
    BY <2>1 DEF Shaped, Records
  <2>4. "close" \notin cut => (console_suspended' <=> display.active)
    BY <2>1, <2>2 DEF Shaped, Records, Suspended, Shown
  <2> QED BY <1>0, <2>1, <2>3, <2>4
          DEF Shaped, Records, Emptied, Changing, Suspended, Shown, Frees
<1> QED BY <1>1, <1>2, <1>3, <1>4, <1>5, <1>6 DEF Opening

LEMMA ShapedClosing ==
    ASSUME Screened, Closing \/ Freeing, UNCHANGED program, Control', InProgram' <=> InProgram
    PROVE  Shaped'
<1>0. UNCHANGED cut
  BY DEF program
<1> USE DEF Screened
<1>1. CASE display_close
  <2>1. pc = "program" /\ pc' = "close" /\ UNCHANGED <<new, was_active, display, console_suspended>>
    BY <1>1 DEF display_close, CloseDisplay, Gosub, opening
  <2> QED BY <1>0, <2>1
          DEF Shaped, Records, Emptied, Changing, Suspended, Shown, Frees
<1>2. CASE CloseStarts
  <2>1. /\ pc = "close" /\ pc' = "free_back" /\ was_active' = display.active
        /\ UNCHANGED <<new, display, console_suspended>>
    BY <1>2 DEF CloseStarts, Gosub
  <2> QED BY <1>0, <2>1
          DEF Shaped, Records, Emptied, Changing, Suspended, Shown, Frees
<1>3. CASE SetInactive
  <2>1. /\ pc = "inactive" /\ pc' = "resume"
        /\ display' = [Closed EXCEPT !.back = display.back, !.front = display.front]
        /\ UNCHANGED <<new, was_active, console_suspended>>
    BY <1>3 DEF SetInactive, Goto, opening
  <2>2. display' = Closed
    BY <2>1 DEF Shaped, Emptied, Closed
  <2> QED BY <1>0, <2>1, <2>2
          DEF Shaped, Records, Emptied, Changing, Suspended, Shown, Frees, Closed
<1>4. CASE console_resume
  <2>1. /\ pc = "resume" /\ pc' = Head(ret)
        /\ console_suspended' = (console_suspended /\ ~was_active)
        /\ UNCHANGED <<new, was_active, display>>
    BY <1>4 DEF console_resume, Return, opening
  <2>2. pc' \in Callers
    <3>1. PICK r \in Callers : ret = <<r>>
      BY <2>1 DEF Control, Standing, OpenFrees, ClosesFor, Alone, Opens, Frees, Closes
    <3> QED BY <2>1, <3>1
  <2>3. display = Closed
    BY <2>1 DEF Shaped, Emptied
  <2>4. console_suspended' \in BOOLEAN
    BY <2>1 DEF Shaped, Records
  <2>5. "close" \notin cut => ~console_suspended'
    BY <2>1 DEF Shaped, Suspended
  <2> QED BY <1>0, <2>1, <2>2, <2>3, <2>4, <2>5
          DEF Shaped, Records, Emptied, Changing, Suspended, Shown, Frees, Closed, Callers
<1>5. CASE FreeBack \/ FreeFront
  <2>1. /\ pc \in {"free_back", "free_front"} /\ pc' \in {"free_front", "forget_back"}
        /\ UNCHANGED <<new, was_active, display, console_suspended>>
    BY <1>5 DEF FreeBack, FreeFront, Free, Goto
  <2> QED BY <1>0, <2>1
          DEF Shaped, Records, Emptied, Changing, Suspended, Shown, Frees
<1>6. CASE ForgetBack
  <2>1. /\ pc = "forget_back" /\ pc' = "forget_front" /\ display' = [display EXCEPT !.back = NULL]
        /\ UNCHANGED <<new, was_active, console_suspended>>
    BY <1>6 DEF ForgetBack, Goto, opening
  <2> QED BY <1>0, <2>1
          DEF Shaped, Records, Emptied, Changing, Suspended, Shown, Frees, Closed
<1>7. CASE ForgetFront
  <2>1. /\ pc = "forget_front" /\ pc' = Head(ret) /\ display' = [display EXCEPT !.front = NULL]
        /\ UNCHANGED <<new, was_active, console_suspended>>
    BY <1>7 DEF ForgetFront, Return, opening
  <2>2. pc' \in {"set_back", "inactive"}
    <3>1. ret = <<"set_back">> \/ \E r \in Callers : ret = <<"inactive", r>>
      BY <2>1 DEF Control, Standing, OpenFrees, ClosesFor, Alone, Opens, Frees, Closes
    <3>2. ASSUME NEW r PROVE Head(<<"inactive", r>>) = "inactive" /\ Head(<<"set_back">>) = "set_back"
      OBVIOUS
    <3> QED BY <2>1, <3>1, <3>2
  <2> QED BY <1>0, <2>1, <2>2
          DEF Shaped, Records, Emptied, Changing, Suspended, Shown, Frees, Closed
<1> QED BY <1>1, <1>2, <1>3, <1>4, <1>5, <1>6, <1>7 DEF Closing, Freeing

\* Drawing needs a display that is open, and leaves it open.
LEMMA ShapedDrawing ==
    ASSUME Screened, Drawing, UNCHANGED program, InProgram' <=> InProgram
    PROVE  Shaped'
<1>1. /\ pc = "program" /\ UNCHANGED <<pc, new, was_active, console_suspended, cut>>
  BY DEF Drawing, display_pixel, display_fill, display_present, Prints, Draw, calls, opening, program
<1>2. CASE UNCHANGED display
  BY <1>1, <1>2 DEF Screened, Shaped, Records, Emptied, Changing, Suspended, Shown
<1>3. ASSUME display.active, display'.active,
             display' = [active |-> display'.active, full |-> display'.full,
                         width |-> display'.width, height |-> display'.height,
                         back |-> display'.back, front |-> display'.front,
                         dirty_top |-> display'.dirty_top, dirty_bottom |-> display'.dirty_bottom]
      PROVE  Shaped'
  BY <1>1, <1>3 DEF Screened, Shaped, Records, Emptied, Changing, Suspended, Shown, Frees
<1>4. ASSUME NEW t, NEW b, display' = mark_dirty(t, b), display.active PROVE Shaped'
  <2>1. PICK t1 : \E b1 : display' = [display EXCEPT !.dirty_top = t1, !.dirty_bottom = b1]
    BY <1>4 DEF mark_dirty
  <2> QED BY <1>3, <1>4, <2>1 DEF Screened, Shaped, Records
<1>5. CASE display_pixel
  BY <1>4, <1>5 DEF display_pixel, Draw
<1>6. CASE display_fill
  BY <1>4, <1>6 DEF display_fill, Draw
<1>7. CASE display_present
  <2>1. display.active
        /\ display' = [display EXCEPT !.full = FALSE, !.dirty_top = 0, !.dirty_bottom = 0]
    BY <1>7 DEF display_present
  <2> QED BY <1>3, <2>1 DEF Screened, Shaped, Records
<1>8. CASE Prints
  BY <1>2, <1>8 DEF Prints
<1> QED BY <1>5, <1>6, <1>7, <1>8 DEF Drawing

LEMMA ShapedStep == Screened /\ [AppStep \/ Halt]_appVars => Screened'
<1> SUFFICES ASSUME Screened, AppStep \/ UNCHANGED appVars PROVE Screened'
  BY DEF Halt
<1>1. Control'
  BY ControlStep DEF Screened
<1>2. CASE UNCHANGED appVars
  BY <1>1, <1>2 DEF appVars, displayVars, calls, opening, program, Screened, Shaped, Records, Emptied,
              Changing, Suspended, Shown, InProgram, OpenFrees, ClosesFor
<1>3. CASE DisplayStep /\ UNCHANGED program
  <2>1. InProgram' <=> InProgram
    BY <1>3, ControlDisplay DEF Screened
  <2> QED BY <1>1, <1>3, <2>1, ShapedOpening, ShapedClosing, ShapedDrawing DEF DisplayStep, Screened
<1>4. CASE app_abort
  BY <1>1, <1>4, ShapedAbort DEF Screened
<1>5. CASE cmd_run \/ AfterExec \/ Prompt \/ Loading \/ Aborted \/ Caught
  BY <1>1, <1>5, ShapedLoading DEF Screened
<1> QED BY <1>2, <1>3, <1>4, <1>5 DEF AppStep

LEMMA ScreenedInit == Init => Screened
BY ControlInit, ShapedInit DEF Screened

\* At the prompt the display is closed, whatever Ctrl-C cut short, and the
\* console is not suspended unless it fell into the end of display_close.
THEOREM PromptIsBack == Spec => []PromptHasScreen
<1>1. Screened => PromptHasScreen
  BY DEF Screened, Shaped, Emptied, Suspended, PromptHasScreen, Closed
<1> QED BY <1>1, ScreenedInit, ShapedStep, PTL DEF Spec

\* However often a program opens and closes the display, while it runs the
\* console is suspended exactly when it is open (unless a close was cut short).
THEOREM ConsoleFollowsDisplay == Spec => []SuspendedWithDisplay
<1>1. Screened => SuspendedWithDisplay
  BY DEF Screened, Shaped, Suspended, Shown, InProgram, SuspendedWithDisplay
<1> QED BY <1>1, ScreenedInit, ShapedStep, PTL DEF Spec

-----------------------------------------------------------------------------
(* What is drawn, and what is on the screen.                               *)

\* The size display_open was asked for, until it is stored.
InOpening == pc \in Opens \ {"suspend"} \/ OpenFrees

Asked == InOpening => /\ new.width \in Nat \ {0} /\ new.height \in Nat \ {0}
                      /\ new.width * new.height \in 1 .. MaxPixels

Rows == 0 .. display.height - 1

Dirty(y) == display.dirty_top <= y /\ y < display.dirty_bottom

Pictures ==
    /\ screen \in [Visible -> Colors \cup {"text"}]
    /\ display.active =>
           /\ display.width \in Nat \ {0} /\ display.height \in Nat \ {0}
           /\ display.width * display.height \in 1 .. MaxPixels
           /\ display.dirty_top \in Nat /\ display.dirty_bottom \in Nat
           /\ back \in [Rows -> Colors] /\ front \in [Rows -> Colors]

\* The front buffer is what was last copied: where it differs from the back
\* buffer the row is dirty, and what the screen shows of it is as it says.
FrontShown ==
    display.active /\ ~display.full =>
        /\ \A y \in Rows : back[y] = front[y] \/ Dirty(y)
        /\ \A y \in Visible : y < display.height => screen[y] \in {front[y], "text"}

Drawn == Asked /\ Pictures /\ FrontShown

\* The limit of the size is one of the product.
LEMMA Pixels == ASSUME NEW w \in Nat, NEW h \in Nat, Accepted(w, h) PROVE w * h \in 1 .. MaxPixels
<1> DEFINE q == MaxPixels \div h
<1>1. w >= 1 /\ h >= 1 /\ w <= q /\ MaxPixels \in Nat
  BY ModesAssumption DEF Accepted
<1>2. q \in Nat /\ q * h <= MaxPixels
  BY <1>1
<1> HIDE DEF q
<1>3. w * h <= q * h /\ w * h >= 1 /\ w * h \in Nat
  BY <1>1, <1>2
<1> QED BY <1>1, <1>2, <1>3

LEMMA DrawnInit == Init => Drawn
<1> SUFFICES ASSUME Init PROVE Drawn
  OBVIOUS
<1>1. pc = "shell" /\ display = Closed /\ screen = [y \in Visible |-> "text"]
  BY DEF Init, DisplayInit
<1> QED BY <1>1 DEF Drawn, Asked, InOpening, OpenFrees, Opens, Frees, Pictures, FrontShown, Closed

\* A step that leaves the pictures alone.
LEMMA DrawnKept ==
    ASSUME Drawn, UNCHANGED <<display, picture>>,
           InOpening' => InOpening /\ new'.width = new.width /\ new'.height = new.height
    PROVE  Drawn'
BY DEF Drawn, Asked, Pictures, FrontShown, Rows, Dirty, picture

\* The pointers are not part of them.
LEMMA DrawnBuffers ==
    ASSUME Screened, Drawn, UNCHANGED picture, NEW f \in {"back", "front"}, NEW p,
           display' = [display EXCEPT ![f] = p],
           InOpening' => InOpening /\ UNCHANGED new
    PROVE  Drawn'
<1>1. /\ (display'.active <=> display.active) /\ display'.full = display.full
      /\ display'.width = display.width /\ display'.height = display.height
      /\ display'.dirty_top = display.dirty_top /\ display'.dirty_bottom = display.dirty_bottom
  BY DEF Screened, Shaped, Records
<1> QED BY <1>1 DEF Drawn, Asked, Pictures, FrontShown, Rows, Dirty, picture

LEMMA DrawnOutside ==
    ASSUME Screened, Drawn, cmd_run \/ AfterExec \/ Prompt \/ Loading \/ Aborted \/ Caught \/ app_abort
    PROVE  Drawn'
<1>1. UNCHANGED <<display, picture>>
  BY DEF cmd_run, AfterExec, Prompt, Loading, ExecFails, ExecStart, SetJmp, ProgramReturns, Exit,
         Aborted, Caught, app_abort, CloseDisplay, shared
<1>2. pc' \notin Opens \cup Frees
  BY DEF cmd_run, AfterExec, Prompt, Loading, ExecFails, ExecStart, SetJmp, ProgramReturns, Exit,
         Aborted, Caught, app_abort, CloseDisplay, Gosub, Goto, Opens, Frees
<1> QED BY <1>1, <1>2, DrawnKept DEF InOpening, OpenFrees

LEMMA DrawnOpening == ASSUME Screened, Drawn, Opening PROVE Drawn'
<1> USE DEF InOpening, OpenFrees, Opens, Frees
<1>1. CASE display_open
  <2>1. PICK m \in Modes : /\ Accepted(m[1], m[2])
                           /\ new' = [NoCall EXCEPT !.width = m[1], !.height = m[2]]
    BY <1>1 DEF display_open
  <2>2. /\ m[1] \in Nat /\ m[2] \in Nat /\ m[1] > 0 /\ m[2] > 0
        /\ new'.width = m[1] /\ new'.height = m[2]
    BY <2>1, ModesAssumption DEF NoCall, Accepted
  <2>3. m[1] * m[2] \in 1 .. MaxPixels
    BY <2>1, <2>2, Pixels
  <2>4. UNCHANGED <<display, picture>>
    BY <1>1 DEF display_open
  <2> QED BY <2>2, <2>3, <2>4 DEF Drawn, Asked, Pictures, FrontShown, Rows, Dirty, picture
<1>2. CASE AllocBack \/ AllocFront
  <2>1. UNCHANGED <<display, picture>> /\ pc \in {"alloc_back", "alloc_front"}
    BY <1>2 DEF AllocBack, AllocFront, Alloc, Goto
  <2>2. new'.width = new.width /\ new'.height = new.height
    <3>1. PICK f \in {"back", "front"} : \E p : new' = [new EXCEPT ![f] = p]
      BY <1>2 DEF AllocBack, AllocFront, Alloc
    <3> QED BY <3>1 DEF Screened, Shaped, Records
  <2> QED BY <2>1, <2>2, DrawnKept
<1>3. CASE OpenFails
  BY <1>3, DrawnKept DEF OpenFails, Goto
<1>4. CASE OpenAllocated
  BY <1>4, DrawnKept DEF OpenAllocated, Gosub
<1>5. CASE SetBack \/ SetFront
  <2>1. pc \in {"set_back", "set_front"} /\ UNCHANGED <<opening, picture>>
    BY <1>5 DEF SetBack, SetFront, Store, Goto
  <2>2. PICK f \in {"back", "front"} : display' = [display EXCEPT ![f] = new[f]]
    BY <1>5 DEF SetBack, SetFront, Store
  <2> QED BY <2>1, <2>2, DrawnBuffers DEF opening
<1>6. CASE SetActive
  <2>1. /\ pc = "set_active" /\ pc' = "suspend" /\ UNCHANGED screen
        /\ display' = [display EXCEPT !.width = new.width, !.height = new.height,
                                      !.full = TRUE, !.active = TRUE,
                                      !.dirty_top = 0, !.dirty_bottom = new.height]
        /\ back' = Black(new.height) /\ front' = Black(new.height)
    BY <1>6 DEF SetActive, Goto
  <2>2. /\ display'.width = new.width /\ display'.height = new.height /\ display'.full
        /\ display'.dirty_top = 0 /\ display'.dirty_bottom = new.height
    BY <2>1 DEF Screened, Shaped, Records
  <2>3. new.width \in Nat \ {0} /\ new.height \in Nat \ {0} /\ new.width * new.height \in 1 .. MaxPixels
    BY <2>1 DEF Drawn, Asked
  <2> QED BY <2>1, <2>2, <2>3 DEF Drawn, Asked, Pictures, FrontShown, Rows, Black, Colors
<1>7. CASE console_suspend
  BY <1>7, DrawnKept DEF console_suspend, Goto
<1> QED BY <1>1, <1>2, <1>3, <1>4, <1>5, <1>6, <1>7 DEF Opening

\* A display that is closed is not looked at; what is on the screen stays.
LEMMA DrawnClosed ==
    ASSUME Drawn, ~display'.active, screen' \in [Visible -> Colors \cup {"text"}],
           InOpening' => InOpening /\ UNCHANGED new
    PROVE  Drawn'
BY DEF Drawn, Asked, Pictures, FrontShown

LEMMA DrawnClosing == ASSUME Screened, Drawn, Closing \/ Freeing PROVE Drawn'
<1> USE DEF InOpening, OpenFrees, Opens, Frees
<1>1. CASE display_close
  BY <1>1, DrawnKept DEF display_close, CloseDisplay, Gosub
<1>2. CASE CloseStarts
  <2>1. pc = "close" /\ pc' = "free_back" /\ ret' = <<"inactive">> \o ret /\ UNCHANGED <<display, picture>>
    BY <1>2 DEF CloseStarts, Gosub
  <2>2. PICK r \in Callers : ret = <<r>>
    BY <2>1 DEF Screened, Control, Standing, ClosesFor, Alone, Closes
  <2>3. ret' = <<"inactive", r>>
    BY <2>1, <2>2, Stacked
  <2>4. ret' # <<"set_back">>
    BY <2>3
  <2> QED BY <2>1, <2>4, DrawnKept
<1>3. CASE SetInactive
  <2>1. /\ pc' = "resume" /\ UNCHANGED screen
        /\ display' = [Closed EXCEPT !.back = display.back, !.front = display.front]
    BY <1>3 DEF SetInactive, Goto
  <2>2. ~display'.active /\ screen' \in [Visible -> Colors \cup {"text"}]
    BY <2>1 DEF Closed, Drawn, Pictures
  <2> QED BY <2>1, <2>2, DrawnClosed
<1>4. CASE console_resume
  <2>1. /\ pc = "resume" /\ pc' = Head(ret) /\ UNCHANGED display
        /\ screen' = IF was_active THEN [y \in Visible |-> "text"] ELSE screen
    BY <1>4 DEF console_resume, Return
  <2>2. pc' \in Callers
    <3>1. PICK r \in Callers : ret = <<r>>
      BY <2>1 DEF Screened, Control, Standing, ClosesFor, Alone, Closes
    <3> QED BY <2>1, <3>1
  <2>3. ~display'.active /\ screen' \in [Visible -> Colors \cup {"text"}]
    BY <2>1 DEF Screened, Shaped, Emptied, Closed, Drawn, Pictures
  <2> QED BY <2>1, <2>2, <2>3, DrawnClosed DEF Callers
<1>5. CASE FreeBack \/ FreeFront
  BY <1>5, DrawnKept DEF FreeBack, FreeFront, Free, Goto
<1>6. CASE ForgetBack
  BY <1>6, DrawnBuffers DEF ForgetBack, Goto, opening
<1>7. CASE ForgetFront
  <2>1. /\ pc = "forget_front" /\ pc' = Head(ret) /\ UNCHANGED <<new, picture>>
        /\ display' = [display EXCEPT !.front = NULL]
    BY <1>7 DEF ForgetFront, Return, opening
  <2>2. CASE ret = <<"set_back">>
    BY <2>1, <2>2, DrawnBuffers
  <2>3. ASSUME NEW r \in Callers, ret = <<"inactive", r>> PROVE Drawn'
    <3>1. pc' = "inactive"
      BY <2>1, <2>3
    <3> QED BY <2>1, <3>1, DrawnBuffers
  <2> QED BY <2>1, <2>2, <2>3 DEF Screened, Control, Standing, ClosesFor, Alone, Closes
<1> QED BY <1>1, <1>2, <1>3, <1>4, <1>5, <1>6, <1>7 DEF Closing, Freeing

\* The rows that were dirty stay so, and those drawn become so.
LEMMA Marked ==
    ASSUME Screened, NEW t \in Nat, NEW b \in Nat, t < b, display' = mark_dirty(t, b),
           display.dirty_top \in Nat, display.dirty_bottom \in Nat
    PROVE  /\ \A y \in Nat : Dirty(y) \/ (t <= y /\ y < b) => Dirty(y)'
           /\ display'.dirty_top \in Nat /\ display'.dirty_bottom \in Nat
           /\ (display'.active <=> display.active) /\ display'.full = display.full
           /\ display'.width = display.width /\ display'.height = display.height
BY DEF Screened, Shaped, Records, mark_dirty, Dirty

LEMMA DrawnDrawing == ASSUME Screened, Drawn, Drawing PROVE Drawn'
<1>1. pc = "program" /\ UNCHANGED calls
  BY DEF Drawing, display_pixel, display_fill, display_present, Prints, Draw
<1>2. ~InOpening /\ ~InOpening' /\ Asked'
  BY <1>1 DEF Asked, InOpening, OpenFrees, Opens, Frees, calls
<1>3. ASSUME NEW t \in Rows, NEW b \in t + 1 .. display.height, Draw, display' = mark_dirty(t, b),
             back' \in [Rows -> Colors], \A y \in Rows \ (t .. b - 1) : back'[y] = back[y]
      PROVE  Drawn'
  <2>1. display.active /\ UNCHANGED <<front, screen>>
    BY <1>3 DEF Draw
  <2>2. /\ display.height \in Nat \ {0} /\ display.dirty_top \in Nat /\ display.dirty_bottom \in Nat
        /\ t \in Nat /\ b \in Nat /\ t < b
    BY <1>3, <2>1 DEF Drawn, Pictures, Rows
  <2>3. /\ \A y \in Nat : Dirty(y) \/ (t <= y /\ y < b) => Dirty(y)'
        /\ display'.dirty_top \in Nat /\ display'.dirty_bottom \in Nat
        /\ (display'.active <=> display.active) /\ display'.full = display.full
        /\ display'.width = display.width /\ display'.height = display.height
    BY <1>3, <2>2, Marked
  <2>4. Rows' = Rows /\ Rows \subseteq Nat
    BY <2>2, <2>3 DEF Rows
  <2>5. Pictures'
    BY <1>3, <2>1, <2>3, <2>4 DEF Drawn, Pictures
  <2>6. ASSUME ~display.full, NEW y \in Rows PROVE back'[y] = front'[y] \/ Dirty(y)'
    <3>1. y \in Nat /\ (back[y] = front[y] \/ Dirty(y))
      BY <2>1, <2>4, <2>6 DEF Drawn, FrontShown
    <3>2. CASE t <= y /\ y < b
      BY <2>3, <3>1, <3>2
    <3>3. CASE ~(t <= y /\ y < b)
      <4>1. back'[y] = back[y]
        BY <1>3, <2>2, <3>1, <3>3
      <4> QED BY <2>1, <2>3, <3>1, <4>1
    <3> QED BY <3>2, <3>3
  <2>7. FrontShown'
    BY <2>1, <2>3, <2>4, <2>6 DEF Drawn, FrontShown
  <2> QED BY <1>2, <2>5, <2>7 DEF Drawn
<1>4. CASE display_pixel
  <2>1. PICK y \in Rows, row \in Colors : /\ Draw /\ back' = [back EXCEPT ![y] = row]
                                          /\ display' = mark_dirty(y, y + 1)
    BY <1>4 DEF display_pixel, Rows
  <2>2. display.height \in Nat /\ back \in [Rows -> Colors]
    BY <2>1 DEF Draw, Drawn, Pictures
  <2>3. y + 1 \in y + 1 .. display.height
    BY <2>2 DEF Rows
  <2>4. back' \in [Rows -> Colors] /\ \A z \in Rows \ (y .. y + 1 - 1) : back'[z] = back[z]
    BY <2>1, <2>2 DEF Rows
  <2> QED BY <1>3, <2>1, <2>3, <2>4
<1>5. CASE display_fill
  <2>1. PICK y \in Rows : \E b \in y + 1 .. display.height : \E rows \in [y .. b - 1 -> Colors] :
            /\ Draw /\ display' = mark_dirty(y, b)
            /\ back' = [z \in DOMAIN back |-> IF z \in DOMAIN rows THEN rows[z] ELSE back[z]]
    BY <1>5 DEF display_fill, Rows
  <2>2. PICK b \in y + 1 .. display.height : \E rows \in [y .. b - 1 -> Colors] :
            /\ Draw /\ display' = mark_dirty(y, b)
            /\ back' = [z \in DOMAIN back |-> IF z \in DOMAIN rows THEN rows[z] ELSE back[z]]
    BY <2>1
  <2>3. PICK rows \in [y .. b - 1 -> Colors] :
            back' = [z \in DOMAIN back |-> IF z \in DOMAIN rows THEN rows[z] ELSE back[z]]
    BY <2>2
  <2>4. back \in [Rows -> Colors]
    BY <2>2 DEF Draw, Drawn, Pictures
  <2>5. back' \in [Rows -> Colors]
    BY <2>3, <2>4
  <2>6. \A z \in Rows \ (y .. b - 1) : back'[z] = back[z]
    BY <2>3, <2>4
  <2> QED BY <1>3, <2>2, <2>5, <2>6
<1>6. CASE display_present
  <2> DEFINE copied == Presented(display.full)
  <2>1. /\ display.active /\ UNCHANGED back
        /\ front' = [y \in DOMAIN front |-> IF y \in copied THEN back[y] ELSE front[y]]
        /\ screen' = [y \in Visible |-> IF y \in copied THEN back[y] ELSE screen[y]]
        /\ display' = [display EXCEPT !.full = FALSE, !.dirty_top = 0, !.dirty_bottom = 0]
    BY <1>6 DEF display_present
  <2>2. /\ display'.active /\ display'.width = display.width /\ display'.height = display.height
        /\ display'.dirty_top = 0 /\ display'.dirty_bottom = 0 /\ ~display'.full
    BY <2>1 DEF Screened, Shaped, Records
  <2>3. Rows' = Rows /\ copied \subseteq Rows
    BY <2>2 DEF Rows, Presented
  <2>4. back \in [Rows -> Colors] /\ front \in [Rows -> Colors]
        /\ screen \in [Visible -> Colors \cup {"text"}]
        /\ display.height \in Nat \ {0} /\ Rows \subseteq Nat
    BY <2>1 DEF Drawn, Pictures, Rows
  <2>5. Pictures'
    BY <2>1, <2>2, <2>3, <2>4 DEF Drawn, Pictures
  <2>6. ASSUME NEW y \in Rows PROVE front'[y] = back[y]
    <3>1. y \in copied \/ back[y] = front[y]
      BY <2>1 DEF Drawn, FrontShown, Dirty, Presented, Rows
    <3> QED BY <2>1, <2>4, <3>1
  <2>7. ASSUME NEW y \in Visible, y < display.height PROVE screen'[y] \in {back[y], "text"}
    <3>1. CASE y \in copied
      BY <2>1, <3>1
    <3>2. CASE y \notin copied
      <4>1. y \in Rows
        BY <2>4, <2>7 DEF Rows, Visible
      <4>2. back[y] = front[y] /\ ~display.full
        BY <2>1, <3>2, <4>1 DEF Drawn, FrontShown, Dirty, Presented, Rows
      <4>3. screen'[y] = screen[y] /\ screen[y] \in {front[y], "text"}
        BY <2>1, <2>7, <3>2, <4>2 DEF Drawn, FrontShown
      <4> QED BY <4>2, <4>3
    <3> QED BY <3>1, <3>2
  <2>8. FrontShown'
    <3>1. \A y \in Visible : y < display.height => y \in Rows
      BY <2>4 DEF Rows, Visible
    <3> QED BY <2>1, <2>2, <2>3, <2>6, <2>7, <3>1 DEF FrontShown
  <2> QED BY <1>2, <2>5, <2>8 DEF Drawn
<1>7. CASE Prints
  <2>1. PICK y \in Visible : screen' = [screen EXCEPT ![y] = "text"]
    BY <1>7 DEF Prints
  <2>2. UNCHANGED <<display, back, front>>
    BY <1>7 DEF Prints
  <2> QED BY <1>2, <2>1, <2>2 DEF Drawn, Pictures, FrontShown, Rows, Dirty
<1> QED BY <1>4, <1>5, <1>6, <1>7 DEF Drawing

LEMMA DrawnStep == Screened /\ Drawn /\ [AppStep \/ Halt]_appVars => Drawn'
<1> SUFFICES ASSUME Screened, Drawn, AppStep \/ UNCHANGED appVars PROVE Drawn'
  BY DEF Halt
<1>1. CASE UNCHANGED appVars
  BY <1>1, DrawnKept DEF appVars, displayVars, calls, opening, InOpening, OpenFrees
<1>2. CASE DisplayStep
  BY <1>2, DrawnOpening, DrawnClosing, DrawnDrawing DEF DisplayStep
<1>3. CASE cmd_run \/ AfterExec \/ Prompt \/ Loading \/ Aborted \/ Caught \/ app_abort
  BY <1>3, DrawnOutside
<1> QED BY <1>1, <1>2, <1>3 DEF AppStep

\* No row that was drawn is forgotten, for pictures and screens of any size.
THEOREM RowsReachTheScreen == Spec => []NoRowMissed
<1>1. Screened /\ Drawn => NoRowMissed
  <2> SUFFICES ASSUME Screened, Drawn, display.active, ~display.full,
                      NEW y \in Visible, y < display.height
               PROVE  screen[y] \in {back[y], "text"} \/ Dirty(y)
    BY DEF NoRowMissed, Dirty
  <2>1. y \in Rows
    BY DEF Drawn, Pictures, Rows, Visible
  <2> QED BY <2>1 DEF Drawn, FrontShown
<1>2. Init => Screened /\ Drawn
  BY ScreenedInit, DrawnInit
<1>3. Screened /\ Drawn /\ [AppStep \/ Halt]_appVars => (Screened /\ Drawn)'
  BY ShapedStep, DrawnStep
<1> QED BY <1>1, <1>2, <1>3, PTL DEF Spec

-----------------------------------------------------------------------------
(* The heap.                                                               *)

HeapBlock == [at: Nat, size: Nat, used: BOOLEAN]

\* The blocks lie one behind the other and cover the heap; only the last may be
\* free, because whatever is given back makes all of it one free block.
Grown(h) ==
    /\ h \in Seq(HeapBlock) /\ Len(h) > 0 /\ h[1].at = 0 /\ End(h[Len(h)]) = HeapWords
    /\ \A i \in 1 .. Len(h) : i < Len(h) => h[i].used /\ h[i + 1].at = End(h[i])
    /\ \A i, j \in 1 .. Len(h) : i < j => End(h[i]) <= h[j].at

\* A buffer of n words that is one of the blocks.
Held(h, p, n) == \E i \in 1 .. Len(h) : h[i].used /\ Payload(h[i]) = p /\ n <= h[i].size

\* Two buffers of n words in the heap, apart from each other and from its start.
Fit(b, f, n) == /\ b \in Nat /\ f \in Nat /\ b >= Header /\ f >= Header
                /\ b + n <= HeapWords /\ f + n <= HeapWords
                /\ b + n <= f \/ f + n <= b

\* Both are blocks, or all of the heap is one block again.
Kept(h, b, f, n) == h = heap_init \/ (Held(h, b, n) /\ Held(h, f, n))

Size  == display.width * display.height
Asks  == new.width * new.height
Taken == pc \in {"zeroed", "set_back", "set_front", "set_active"} \/ OpenFrees

\* The buffers a program draws with.
Drawable == display.active /\ pc \in {"program", "alloc_back", "alloc_front", "suspend"} =>
    /\ Fit(display.back, display.front, Size)
    /\ IF pc = "alloc_front"
       THEN Fits(heap, Asks) # {} \/ (Held(heap, display.back, Size) /\ Held(heap, display.front, Size))
       ELSE Kept(heap, display.back, display.front, Size)

\* The buffers of the display that is being opened.
Allocated ==
    /\ ~InOpening => new = NoCall
    /\ pc = "alloc_front" => Held(heap, new.back, Asks)
    /\ Taken => Fit(new.back, new.front, Asks) /\ Kept(heap, new.back, new.front, Asks)
    /\ pc \in {"set_front", "set_active"} => display.back = new.back
    /\ pc = "set_active" => display.front = new.front

\* What is not free is known to the display or to display_open.
Remembered ==
    /\ "open" \notin cut => heap = heap_init \/ display.back # NULL \/ new.back # NULL
    /\ pc \in {"free_front", "forget_back"} /\ display.back # NULL => heap = heap_init

\* The list, which is never one block that is in use.
Ordered == Grown(heap) /\ (Len(heap) = 1 => heap = heap_init)

Heaped == Ordered /\ Drawable /\ Allocated /\ Remembered

\* A set of numbers that is not empty has a least member.
LEMMA LeastNumber ==
    ASSUME NEW S, S \subseteq Nat, S # {}
    PROVE  \E m \in S : \A k \in S : m <= k
<1> DEFINE R == OpToRel(<, Nat)
<1>1. IsWellFoundedOn(R, Nat)
  BY NatLessThanWellFounded
<1> HIDE DEF R
<1>2. PICK m \in S : \A k \in S : ~ (<<k, m>> \in R)
  BY <1>1, WFMin
<1>3. \A k \in S : ~ (k < m)
  BY <1>2 DEF R, OpToRel
<1> QED BY <1>3

\* The list of an empty heap.
LEMMA EmptyHeap ==
    /\ Grown(heap_init) /\ Len(heap_init) = 1 /\ ~heap_init[1].used
    /\ heap_init[1].at = 0 /\ heap_init[1].size = HeapWords - Header
<1> DEFINE b == [at |-> 0, size |-> HeapWords - Header, used |-> FALSE]
<1>1. b \in HeapBlock /\ heap_init = <<b>> /\ End(b) = HeapWords
  BY HeapAssumption DEF HeapBlock, heap_init, End, Header
<1> HIDE DEF b
<1>2. heap_init \in Seq(HeapBlock) /\ Len(heap_init) = 1 /\ heap_init[1] = b
  BY <1>1
<1>3. b.at = 0 /\ b.size = HeapWords - Header /\ ~b.used
  BY DEF b
<1> QED BY <1>1, <1>2, <1>3 DEF Grown

\* Only the last block can be taken.
LEMMA LastFits ==
    ASSUME NEW h, Grown(h), NEW n \in Nat, Fits(h, n) # {}
    PROVE  Fits(h, n) = {Len(h)} /\ FirstFit(h, n) = Len(h)
<1>1. DOMAIN h = 1 .. Len(h) /\ Len(h) \in Nat
  BY DEF Grown
<1>2. \A i \in Fits(h, n) : i = Len(h)
  BY <1>1 DEF Fits, Grown
<1>3. Fits(h, n) = {Len(h)}
  BY <1>2
<1>4. FirstFit(h, n) = Len(h)
  BY <1>1, <1>3 DEF FirstFit
<1> QED BY <1>3, <1>4

\* What kmalloc leaves: the last block is taken, and what it has too much, when
\* that is enough for a block, is a free block behind it.
TakenFrom(h, n, last, g, p) ==
    /\ last \in Nat /\ last > 0 /\ ~h[last].used /\ n <= h[last].size
    /\ h[last] \in HeapBlock /\ End(h[last]) = HeapWords /\ p = Payload(h[last])
    /\ g \in Seq(HeapBlock) /\ \A j \in 1 .. last - 1 : g[j] = h[j]
    /\ g[last].at = h[last].at /\ g[last].used
    /\ IF h[last].size >= n + Header + 1
       THEN /\ Len(g) = last + 1 /\ g[last].size = n
            /\ g[last + 1] = [at |-> h[last].at + Header + n,
                              size |-> h[last].size - n - Header, used |-> FALSE]
       ELSE Len(g) = last /\ g[last].size = h[last].size

LEMMA Given ==
    ASSUME NEW h, Grown(h), NEW n \in Nat, Fits(h, n) # {}
    PROVE  TakenFrom(h, n, Len(h), kmalloc(h, n).heap, kmalloc(h, n).p)
<1> DEFINE last == Len(h)
           g == kmalloc(h, n).heap
<1> SUFFICES TakenFrom(h, n, last, g, kmalloc(h, n).p)
  OBVIOUS
<1> DEFINE b == h[last]
           t == Split(b, n)
<1>1. last \in Nat /\ last > 0 /\ last \in 1 .. Len(h) /\ h \in Seq(HeapBlock)
  BY DEF Grown
<1>2. b \in HeapBlock /\ End(b) = HeapWords
  BY <1>1 DEF Grown
<1>3. ~b.used /\ n <= b.size
  BY LastFits DEF Fits
<1>4. kmalloc(h, n).p = Payload(b)
      /\ g = SubSeq(h, 1, last - 1) \o t \o SubSeq(h, last + 1, Len(h))
  BY LastFits DEF kmalloc
<1> DEFINE big == b.size >= n + Header + 1
           used == [b EXCEPT !.size = n, !.used = TRUE]
           rest == [at |-> b.at + Header + n, size |-> b.size - n - Header, used |-> FALSE]
           all  == [b EXCEPT !.used = TRUE]
<1>5. used \in HeapBlock /\ used.at = b.at /\ used.size = n /\ used.used
  BY <1>2 DEF HeapBlock
<1>6. all \in HeapBlock /\ all.at = b.at /\ all.size = b.size /\ all.used
  BY <1>2 DEF HeapBlock
<1>7. big => rest \in HeapBlock
  BY <1>2 DEF HeapBlock, Header
<1>8. t = IF big THEN <<used, rest>> ELSE <<all>>
  BY DEF Split
<1> HIDE DEF b, t, big, used, rest, all
<1>9. t \in Seq(HeapBlock) /\ Len(t) = (IF big THEN 2 ELSE 1)
      /\ t[1] = (IF big THEN used ELSE all) /\ (big => t[2] = rest)
  <2>1. CASE big
    <3>1. t = <<used, rest>>
      BY <1>8, <2>1
    <3> QED BY <1>5, <1>7, <2>1, <3>1
  <2>2. CASE ~big
    <3>1. t = <<all>>
      BY <1>8, <2>2
    <3> QED BY <1>6, <2>2, <3>1
  <2> QED BY <2>1, <2>2
<1>10. /\ g \in Seq(HeapBlock) /\ Len(g) = last - 1 + Len(t)
       /\ \A j \in 1 .. last - 1 : g[j] = h[j]
       /\ \A j \in 1 .. Len(t) : g[last - 1 + j] = t[j]
  <2> DEFINE a == SubSeq(h, 1, last - 1)
             k == last - 1
             m == Len(t)
  <2>1. k \in Nat /\ m \in Nat
    BY <1>1, <1>9
  <2>2. a \in Seq(HeapBlock) /\ Len(a) = k /\ \A j \in 1 .. k : a[j] = h[j]
    <3>1. \A j \in 1 .. k : h[j] \in HeapBlock
      BY <1>1
    <3>2. /\ a \in Seq(HeapBlock) /\ Len(a) = IF 1 <= k THEN k - 1 + 1 ELSE 0
          /\ \A j \in 1 .. k - 1 + 1 : a[j] = h[1 + j - 1]
      BY <2>1, <3>1, SubSeqProperties
    <3>3. k - 1 + 1 = k /\ \A j \in 1 .. k : 1 + j - 1 = j
      BY <2>1
    <3> QED BY <2>1, <3>2, <3>3
  <2>3. SubSeq(h, last + 1, Len(h)) = <<>>
    BY <1>1, SubSeqEmpty
  <2> HIDE DEF a
  <2>4. /\ a \o t \in Seq(HeapBlock) /\ Len(a \o t) = k + m
        /\ \A j \in 1 .. k + m : (a \o t)[j] = IF j <= k THEN a[j] ELSE t[j - k]
    <3> HIDE DEF k, m
    <3>1. /\ a \o t \in Seq(HeapBlock) /\ Len(a \o t) = Len(a) + Len(t)
          /\ \A j \in 1 .. Len(a) + Len(t) : (a \o t)[j] = IF j <= Len(a) THEN a[j] ELSE t[j - Len(a)]
      BY <1>9, <2>2, ConcatProperties
    <3>2. Len(a) = k /\ Len(t) = m
      BY <2>2 DEF m
    <3> QED BY <3>1, <3>2
  <2>5. g = a \o t
    BY <1>4, <2>3, <2>4, ConcatEmptySeq DEF a
  <2>6. \A j \in 1 .. k : g[j] = h[j]
    BY <2>1, <2>2, <2>4, <2>5
  <2>7. \A j \in 1 .. m : k + j \in 1 .. k + m /\ ~(k + j <= k) /\ (k + j) - k = j
    BY <2>1
  <2>8. \A j \in 1 .. m : g[k + j] = t[j]
    BY <2>4, <2>5, <2>7
  <2> QED BY <2>4, <2>5, <2>6, <2>8
<1>11. g[last] = t[1]
  BY <1>1, <1>9, <1>10
<1>12. big => g[last + 1] = t[2] /\ Len(g) = last + 1
  <2>1. big => 2 \in 1 .. Len(t) /\ (last - 1) + 2 = last + 1
    BY <1>1, <1>9
  <2> QED BY <1>1, <1>9, <1>10, <2>1
<1>13. ~big => Len(g) = last
  BY <1>1, <1>9, <1>10
<1>14. CASE big
  BY <1>1, <1>2, <1>3, <1>4, <1>5, <1>9, <1>10, <1>11, <1>12, <1>14 DEF b, big, rest, TakenFrom
<1>15. CASE ~big
  BY <1>1, <1>2, <1>3, <1>4, <1>6, <1>9, <1>10, <1>11, <1>13, <1>15 DEF b, big, TakenFrom
<1> QED BY <1>14, <1>15

\* Where a block ends.
LEMMA Ends == ASSUME NEW b \in HeapBlock
              PROVE  End(b) \in Nat /\ End(b) = b.at + b.size + Header /\ Payload(b) = b.at + Header
                     /\ b.at \in Nat /\ b.size \in Nat /\ b.used \in BOOLEAN
BY DEF End, HeapBlock, Payload, Header

\* A block lies in the heap.
LEMMA Inside == ASSUME NEW h, Grown(h), NEW i \in 1 .. Len(h)
                PROVE  h[i] \in HeapBlock /\ End(h[i]) <= HeapWords
<1>1. Len(h) \in 1 .. Len(h) /\ \A j \in 1 .. Len(h) : h[j] \in HeapBlock
  BY DEF Grown
<1>2. CASE i = Len(h)
  BY <1>1, <1>2, HeapAssumption DEF Grown
<1>3. CASE i # Len(h)
  <2>1. i < Len(h)
    BY <1>1, <1>3
  <2>2. End(h[i]) <= h[Len(h)].at /\ End(h[Len(h)]) = HeapWords
    BY <1>1, <2>1 DEF Grown
  <2> QED BY <1>1, <2>2, Ends DEF Header
<1> QED BY <1>2, <1>3

\* kmalloc keeps the heap in order, and what was given before.
LEMMA GivenGrown ==
    ASSUME NEW h, Grown(h), NEW n \in Nat, Fits(h, n) # {}, NEW g, g = kmalloc(h, n).heap
    PROVE  /\ Grown(g)
           /\ \A p, m : Held(h, p, m) => Held(g, p, m)
           /\ Held(g, kmalloc(h, n).p, n)
<1> DEFINE last == Len(h)
           p0 == kmalloc(h, n).p
           rest == [at |-> h[last].at + Header + n, size |-> h[last].size - n - Header, used |-> FALSE]
<1>0. TakenFrom(h, n, last, g, p0)
  BY Given
<1> HIDE DEF last, p0
<1>1. /\ last \in Nat /\ last > 0 /\ ~h[last].used /\ n <= h[last].size
      /\ h[last] \in HeapBlock /\ End(h[last]) = HeapWords /\ p0 = Payload(h[last])
      /\ g \in Seq(HeapBlock) /\ \A j \in 1 .. last - 1 : g[j] = h[j]
      /\ g[last].at = h[last].at /\ g[last].used
      /\ IF h[last].size >= n + Header + 1
         THEN Len(g) = last + 1 /\ g[last].size = n /\ g[last + 1] = rest
         ELSE Len(g) = last /\ g[last].size = h[last].size
  BY <1>0 DEF TakenFrom
<1> HIDE DEF rest
<1>2. /\ h \in Seq(HeapBlock) /\ Len(h) = last /\ h[1].at = 0
      /\ \A i \in 1 .. last : i < last => h[i].used /\ h[i + 1].at = End(h[i])
      /\ \A i, j \in 1 .. last : i < j => End(h[i]) <= h[j].at
  BY DEF Grown, last
<1>3. Held(g, p0, n)
  <2>1. last \in 1 .. Len(g) /\ n <= g[last].size /\ Payload(g[last]) = p0
    BY <1>1 DEF Payload
  <2> QED BY <1>1, <2>1 DEF Held
<1>4. ASSUME NEW p, NEW m, Held(h, p, m) PROVE Held(g, p, m)
  <2>1. PICK i \in 1 .. last : h[i].used /\ Payload(h[i]) = p /\ m <= h[i].size
    BY <1>2, <1>4 DEF Held
  <2>2. i \in 1 .. last - 1 /\ i \in 1 .. Len(g)
    BY <1>1, <2>1
  <2> QED BY <1>1, <2>1, <2>2 DEF Held
<1>5. \A j \in 1 .. last : g[j] \in HeapBlock /\ g[j].at = h[j].at /\ (j < last => g[j] = h[j] /\ g[j].used)
  <2>1. \A j \in 1 .. last : j < last => j \in 1 .. last - 1
    BY <1>1
  <2>2. \A j \in 1 .. last : j \in 1 .. Len(g)
    BY <1>1
  <2>3. \A j \in 1 .. last : j < last => h[j].used
    BY <1>2
  <2> QED BY <1>1, <2>1, <2>2, <2>3
<1>6. \A i, j \in 1 .. last : i < j => End(g[i]) <= g[j].at
  <2>1. \A i, j \in 1 .. last : i < j => i < last
    BY <1>1
  <2> QED BY <1>2, <1>5, <2>1
<1>7. \A i \in 1 .. last : i < last => g[i].used /\ g[i + 1].at = End(g[i])
  <2>1. \A i \in 1 .. last : i < last => i + 1 \in 1 .. last
    BY <1>1
  <2> QED BY <1>2, <1>5, <2>1
<1>8. g[1].at = 0
  BY <1>1, <1>2, <1>5
<1>9. CASE h[last].size >= n + Header + 1
  <2>1. /\ Len(g) = last + 1 /\ g[last].size = n /\ g[last + 1] = rest
        /\ last + 1 \in 1 .. Len(g) /\ last \in 1 .. last
    BY <1>1, <1>9
  <2>2. g[last] \in HeapBlock /\ rest \in HeapBlock
    BY <1>1, <2>1, <1>5
  <2>3. /\ rest.at = End(g[last]) /\ End(rest) = HeapWords
    <3>1. rest.at = h[last].at + Header + n /\ rest.size = h[last].size - n - Header
      BY DEF rest
    <3>2. /\ End(g[last]) = g[last].at + g[last].size + Header
          /\ End(rest) = rest.at + rest.size + Header
          /\ End(h[last]) = h[last].at + h[last].size + Header
          /\ h[last].at \in Nat /\ h[last].size \in Nat
      BY <1>1, <2>2, Ends
    <3>3. g[last].at = h[last].at /\ g[last].size = n /\ End(h[last]) = HeapWords
      BY <1>1, <2>1
    <3>4. rest.at = End(g[last])
      BY <3>1, <3>2, <3>3 DEF Header
    <3>5. End(rest) = HeapWords
      BY <3>1, <3>2, <3>3 DEF Header
    <3> QED BY <3>4, <3>5
  <2>4. ASSUME NEW i \in 1 .. Len(g), NEW j \in 1 .. Len(g), i < j PROVE End(g[i]) <= g[j].at
    <3>1. CASE j \in 1 .. last
      <4>1. i \in 1 .. last
        BY <1>1, <2>4, <3>1
      <4>2. End(g[i]) <= g[j].at
        BY <1>6, <2>4, <3>1, <4>1
      <4> QED BY <4>2
    <3>2. CASE j = last + 1
      <4>1. i \in 1 .. last
        BY <1>1, <2>4, <3>2
      <4>2. g[j] = rest /\ g[i] \in HeapBlock
        BY <2>1, <3>2, <4>1, <1>5
      <4>3. CASE i = last
        BY <2>2, <2>3, <4>2, <4>3, Ends
      <4>4. CASE i # last
        <5>1. End(g[i]) <= g[last].at
          <6>1. i < last /\ last \in 1 .. last
            BY <1>1, <4>1, <4>4
          <6> QED BY <1>6, <4>1, <6>1
        <5>2. /\ End(g[last]) = g[last].at + g[last].size + Header
              /\ g[last].at \in Nat /\ g[last].size \in Nat /\ End(g[i]) \in Nat
          BY <2>2, <4>2, Ends
        <5> QED BY <2>3, <4>2, <5>1, <5>2 DEF Header
      <4> QED BY <4>3, <4>4
    <3> QED BY <1>1, <2>1, <2>4, <3>1, <3>2
  <2>5. ASSUME NEW i \in 1 .. Len(g), i < Len(g) PROVE g[i].used /\ g[i + 1].at = End(g[i])
    <3>1. CASE i < last
      <4>1. i \in 1 .. last
        BY <1>1, <2>5, <3>1
      <4> QED BY <1>7, <3>1, <4>1
    <3>2. CASE i = last
      BY <1>1, <2>1, <2>3, <3>2
    <3> QED BY <1>1, <2>1, <2>5, <3>1, <3>2
  <2>6. Grown(g)
    <3>1. g \in Seq(HeapBlock) /\ Len(g) > 0 /\ End(g[Len(g)]) = HeapWords
      BY <1>1, <2>1, <2>3
    <3> QED BY <1>8, <2>4, <2>5, <3>1 DEF Grown
  <2> QED BY <1>3, <1>4, <2>6 DEF p0
<1>10. CASE ~(h[last].size >= n + Header + 1)
  <2>1. Len(g) = last /\ g[last].size = h[last].size
    BY <1>1, <1>10
  <2>2. End(g[last]) = HeapWords
    BY <1>1, <2>1 DEF End
  <2>3. Grown(g)
    <3>1. g \in Seq(HeapBlock) /\ Len(g) > 0 /\ End(g[Len(g)]) = HeapWords
      BY <1>1, <2>1, <2>2
    <3> QED BY <1>6, <1>7, <1>8, <2>1, <3>1 DEF Grown
  <2> QED BY <1>3, <1>4, <2>3 DEF p0
<1> QED BY <1>9, <1>10

\* A buffer that is a block is in the heap.
LEMMA HeldInside ==
    ASSUME NEW h, Grown(h), NEW n \in Nat, NEW p, Held(h, p, n)
    PROVE  p \in Nat /\ p >= Header /\ p + n <= HeapWords
<1>1. PICK i \in 1 .. Len(h) : h[i].used /\ Payload(h[i]) = p /\ n <= h[i].size
  BY DEF Held
<1>2. h[i] \in HeapBlock /\ End(h[i]) <= HeapWords
  BY Inside
<1> QED BY <1>1, <1>2, Ends, HeapAssumption DEF Header

\* A second buffer is apart from the first.
LEMMA SecondFits ==
    ASSUME NEW h, Grown(h), NEW n \in Nat, NEW b, Held(h, b, n), Fits(h, n) # {}
    PROVE  Fit(b, kmalloc(h, n).p, n)
<1> DEFINE g == kmalloc(h, n).heap
           f == kmalloc(h, n).p
           last == Len(h)
<1>1. Grown(g) /\ Held(g, f, n) /\ Held(g, b, n)
  BY GivenGrown
<1>2. /\ b \in Nat /\ b >= Header /\ b + n <= HeapWords
      /\ f \in Nat /\ f >= Header /\ f + n <= HeapWords
  BY <1>1, HeldInside
<1>3. PICK i \in 1 .. last : h[i].used /\ Payload(h[i]) = b /\ n <= h[i].size
  BY DEF Held
<1>4. f = Payload(h[last]) /\ ~h[last].used /\ last \in 1 .. last
  <2> HIDE DEF f, g, last
  <2>1. TakenFrom(h, n, last, g, f)
    BY Given DEF last, g, f
  <2> QED BY <2>1 DEF TakenFrom
<1>5. i < last
  BY <1>3, <1>4
<1>6. End(h[i]) <= h[last].at
  BY <1>3, <1>4, <1>5 DEF Grown
<1>7. h[i] \in HeapBlock /\ h[last] \in HeapBlock
  BY <1>3, <1>4, Inside
<1>8. b + n <= f
  <2>1. /\ End(h[i]) = h[i].at + h[i].size + Header /\ Payload(h[i]) = h[i].at + Header
        /\ Payload(h[last]) = h[last].at + Header
        /\ h[i].at \in Nat /\ h[i].size \in Nat /\ h[last].at \in Nat
    BY <1>7, Ends
  <2> QED BY <1>3, <1>4, <1>6, <2>1 DEF Header
<1> QED BY <1>2, <1>8 DEF Fit

\* In an empty heap there is room for a buffer of every size, and for another.
LEMMA RoomForTwo ==
    ASSUME NEW n \in 1 .. MaxPixels, NEW g, g = kmalloc(heap_init, n).heap
    PROVE  Fits(heap_init, n) # {} /\ Len(g) = 2 /\ Fits(g, n) # {}
<1>1. /\ MaxPixels \in Nat /\ HeapWords \in Nat /\ n \in Nat /\ n >= 1
      /\ HeapWords >= n + n + Header + Header
  BY RoomAssumption, ModesAssumption, HeapAssumption DEF Header
<1>2. /\ Grown(heap_init) /\ Len(heap_init) = 1 /\ ~heap_init[1].used
      /\ heap_init[1].at = 0 /\ heap_init[1].size = HeapWords - Header
  BY EmptyHeap
<1>3. DOMAIN heap_init = 1 .. 1
  BY <1>2 DEF Grown
<1>4. 1 \in Fits(heap_init, n)
  BY <1>1, <1>2, <1>3 DEF Fits, Header
<1>5. TakenFrom(heap_init, n, 1, g, kmalloc(heap_init, n).p)
  BY <1>1, <1>2, <1>4, Given
<1> HIDE DEF heap_init
<1>6. heap_init[1].size >= n + Header + 1
  BY <1>1, <1>2 DEF Header
<1>7. /\ g \in Seq(HeapBlock) /\ Len(g) = 2
      /\ g[2] = [at |-> heap_init[1].at + Header + n, size |-> heap_init[1].size - n - Header, used |-> FALSE]
  BY <1>5, <1>6 DEF TakenFrom
<1>8. g[2].size >= n /\ ~g[2].used
  BY <1>1, <1>2, <1>7 DEF Header
<1>9. 2 \in DOMAIN g
  BY <1>7
<1> QED BY <1>4, <1>7, <1>8, <1>9 DEF Fits

\* kmalloc never takes all of the heap at once.
LEMMA NeverOne ==
    ASSUME NEW h, Grown(h), Len(h) = 1 => h = heap_init, NEW n \in 1 .. MaxPixels,
           Fits(h, n) # {}, NEW g, g = kmalloc(h, n).heap
    PROVE  Len(g) # 1
<1>1. CASE Len(h) = 1
  BY <1>1, RoomForTwo
<1>2. CASE Len(h) # 1
  <2>1. n \in Nat
    BY ModesAssumption
  <2>2. TakenFrom(h, n, Len(h), g, kmalloc(h, n).p)
    BY <2>1, Given
  <2> QED BY <1>2, <2>2 DEF TakenFrom
<1> QED BY <1>1, <1>2

\* kfree joins a list without gaps to one free block, whatever is in use.
LEMMA FreedIs ==
    ASSUME NEW h, Grown(h), Len(h) = 1 => h = heap_init, NEW p, p # NULL
    PROVE  kfree(h, p) = heap_init
<1> DEFINE n == Len(h)
           l == Released(h, p)
           all(i) == [at |-> 0, size |-> End(l[i]) - Header, used |-> IF i = 1 THEN l[1].used ELSE FALSE]
           g == [i \in 0 .. n |-> IF i = 0 THEN <<>> ELSE << all(i) >>]
<1>1. n \in Nat /\ n >= 1 /\ (n = 1 => ~h[1].used)
  BY EmptyHeap DEF Grown
<1>2. l \in Seq(HeapBlock) /\ Len(l) = n
      /\ \A i \in 1 .. n : /\ l[i] \in HeapBlock /\ l[i].at = h[i].at /\ l[i].size = h[i].size
                           /\ (l[i].used => h[i].used)
  <2>1. DOMAIN h = 1 .. n /\ \A i \in 1 .. n : h[i] \in HeapBlock
    BY DEF Grown
  <2>2. l = [i \in 1 .. n |-> IF Payload(h[i]) = p THEN [h[i] EXCEPT !.used = FALSE] ELSE h[i]]
    BY <2>1 DEF Released
  <2> DEFINE free(i) == [h[i] EXCEPT !.used = FALSE]
  <2>3. ASSUME NEW i \in 1 .. n
        PROVE  /\ l[i] \in HeapBlock /\ l[i].at = h[i].at /\ l[i].size = h[i].size
               /\ (l[i].used => h[i].used)
    <3>1. h[i] \in HeapBlock
      BY <2>1
    <3>2. free(i) \in HeapBlock /\ free(i).at = h[i].at /\ free(i).size = h[i].size /\ ~free(i).used
      BY <3>1 DEF HeapBlock
    <3>3. l[i] = free(i) \/ l[i] = h[i]
      BY <2>2
    <3> QED BY <3>1, <3>2, <3>3
  <2> QED BY <1>1, <2>2, <2>3
<1>3. /\ l[1].at = 0 /\ End(l[n]) = HeapWords
      /\ \A i \in 2 .. n : l[i].at = End(l[i - 1])
  <2>1. \A i \in 1 .. n : End(l[i]) = End(h[i])
    BY <1>2 DEF End
  <2>2. \A i \in 2 .. n : i - 1 \in 1 .. n /\ i - 1 < n /\ (i - 1) + 1 = i /\ i \in 1 .. n
    BY <1>1
  <2>3. \A i \in 2 .. n : h[i].at = End(h[i - 1])
    BY <2>2 DEF Grown
  <2>4. 1 \in 1 .. n /\ n \in 1 .. n
    BY <1>1
  <2>5. h[1].at = 0 /\ End(h[n]) = HeapWords
    BY DEF Grown
  <2> QED BY <1>2, <2>1, <2>2, <2>3, <2>4, <2>5
<1> HIDE DEF l
<1>4. ASSUME NEW i \in 1 .. n PROVE Join(g[i - 1], l[i]) = << all(i) >>
  <2>1. CASE i = 1
    <3>1. g[i - 1] = <<>>
      BY <1>1, <2>1
    <3>2. Join(<<>>, l[1]) = << l[1] >>
      BY DEF Join
    <3>3. all(1) = l[1]
      <4>1. l[1] \in HeapBlock
        BY <1>1, <1>2
      <4>2. End(l[1]) - Header = l[1].size /\ l[1].at = 0
        BY <1>3, <4>1, Ends DEF Header
      <4> QED BY <4>1, <4>2 DEF HeapBlock
    <3> QED BY <2>1, <3>1, <3>2, <3>3
  <2>2. CASE i # 1
    <3> DEFINE b == all(i - 1)
    <3>1. i - 1 \in 1 .. n /\ i - 1 \in 0 .. n /\ i - 1 # 0 /\ i \in 2 .. n
      BY <1>1, <2>2
    <3>2. g[i - 1] = << b >>
      BY <3>1
    <3>3. b.at = 0 /\ b.size = End(l[i - 1]) - Header
      OBVIOUS
    <3>4. /\ End(l[i - 1]) \in Nat /\ End(l[i]) = l[i].at + l[i].size + Header
          /\ l[i].at \in Nat /\ l[i].size \in Nat
      BY <1>2, <3>1, Ends
    <3>5. l[i].at = End(l[i - 1])
      BY <1>3, <3>1
    <3> HIDE DEF b
    <3>6. End(b) = l[i].at
      BY <3>3, <3>4, <3>5 DEF End, Header
    <3>7. b.size + Header + l[i].size = End(l[i]) - Header
      BY <3>3, <3>4, <3>5 DEF Header
    <3>8. Last(<<b>>) = b /\ Front(<<b>>) = <<>> /\ <<b>> # <<>>
      BY DEF Last, Front
    <3>9. Join(<<b>>, l[i]) = Append(<<>>, [at |-> 0, size |-> End(l[i]) - Header, used |-> FALSE])
      BY <3>3, <3>6, <3>7, <3>8 DEF Join
    <3>10. Append(<<>>, all(i)) = << all(i) >>
      OBVIOUS
    <3> QED BY <2>2, <3>2, <3>9, <3>10
  <2> QED BY <2>1, <2>2
<1> DEFINE F(f) == [i \in 0 .. n |-> IF i = 0 THEN <<>> ELSE Join(f[i - 1], l[i])]
           u == CHOOSE f : f = F(f)
<1>5. g = F(g)
  <2> DEFINE e(i) == << all(i) >>
             j(i) == Join(g[i - 1], l[i])
  <2>1. \A i \in 1 .. n : e(i) = j(i)
    BY <1>4
  <2>2. \A i \in 0 .. n : i # 0 => i \in 1 .. n
    BY <1>1
  <2> HIDE DEF e, j
  <2>3. [i \in 0 .. n |-> IF i = 0 THEN <<>> ELSE e(i)] = [i \in 0 .. n |-> IF i = 0 THEN <<>> ELSE j(i)]
    BY <2>1, <2>2
  <2> QED BY <2>3 DEF e, j
<1> HIDE DEF g
<1>6. u = F(u)
  <2> HIDE DEF F
  <2> QED BY <1>5
<1>7. Joined(l) = u[n]
  BY <1>2 DEF Joined
<1> HIDE DEF u
<1>8. \A i \in 0 .. n : u[i] = g[i]
  <2> DEFINE Bad == {i \in 0 .. n : u[i] # g[i]}
  <2> SUFFICES ASSUME Bad # {} PROVE FALSE
    OBVIOUS
  <2>1. Bad \subseteq Nat
    OBVIOUS
  <2>2. PICK m \in Bad : \A k \in Bad : m <= k
    <3> HIDE DEF Bad
    <3> QED BY <2>1, LeastNumber
  <2>3. m \in 0 .. n /\ u[m] # g[m]
    OBVIOUS
  <2>4. u[0] = <<>> /\ g[0] = <<>>
    BY <1>1, <1>6 DEF g
  <2>5. m - 1 \in 0 .. n /\ m \in 1 .. n /\ ~(m <= m - 1)
    BY <1>1, <2>3, <2>4
  <2>6. u[m - 1] = g[m - 1]
    BY <2>2, <2>5
  <2>7. u[m] = Join(u[m - 1], l[m])
    BY <1>6, <2>5
  <2>8. g[m] = Join(g[m - 1], l[m])
    BY <1>5, <2>5
  <2> QED BY <2>3, <2>6, <2>7, <2>8
<1>9. u[n] = << all(n) >>
  <2>1. n \in 0 .. n /\ n # 0
    BY <1>1
  <2>2. g[n] = << all(n) >>
    BY <2>1 DEF g
  <2> QED BY <1>8, <2>1, <2>2
<1>10. all(n) = [at |-> 0, size |-> HeapWords - Header, used |-> FALSE]
  <2>1. n = 1 => l[1].used = FALSE
    BY <1>1, <1>2 DEF HeapBlock
  <2> QED BY <1>3, <2>1
<1> QED BY <1>7, <1>9, <1>10 DEF kfree, heap_init, l

\* What kfree leaves: the list as it is, for no block, or an empty heap.
LEMMA FreeLeaves ==
    ASSUME Ordered, NEW p
    PROVE  /\ kfree(heap, p) \in {heap, heap_init}
           /\ p # NULL => kfree(heap, p) = heap_init
           /\ p = NULL => kfree(heap, p) = heap
           /\ heap' = kfree(heap, p) => Ordered'
<1>1. p # NULL => kfree(heap, p) = heap_init
  BY FreedIs DEF Ordered
<1>2. p = NULL => kfree(heap, p) = heap
  BY DEF kfree
<1>3. heap' = heap_init => Ordered'
  BY EmptyHeap DEF Ordered
<1>4. heap' = heap => Ordered'
  BY DEF Ordered
<1> QED BY <1>1, <1>2, <1>3, <1>4

\* What kmalloc answers, and what it leaves, for a size that is accepted.
LEMMA AllocGives ==
    ASSUME Ordered, NEW n \in 1 .. MaxPixels, NEW p, p = kmalloc(heap, n).p, p # NULL,
           heap' = kmalloc(heap, n).heap
    PROVE  /\ Ordered' /\ Fits(heap, n) # {} /\ Held(heap', p, n)
           /\ p \in Nat /\ p >= Header /\ p + n <= HeapWords
           /\ \A b, m : Held(heap, b, m) => Held(heap', b, m)
           /\ heap = heap_init => Fits(heap', n) # {}
<1>1. Fits(heap, n) # {}
  BY DEF kmalloc
<1>2. n \in Nat
  BY ModesAssumption
<1>3. /\ Grown(heap') /\ Held(heap', p, n)
      /\ \A b, m : Held(heap, b, m) => Held(heap', b, m)
  BY <1>1, <1>2, GivenGrown DEF Ordered
<1>4. Len(heap') # 1
  BY <1>1, NeverOne DEF Ordered
<1>5. heap = heap_init => Fits(heap', n) # {}
  BY RoomForTwo
<1>6. p \in Nat /\ p >= Header /\ p + n <= HeapWords
  BY <1>2, <1>3, HeldInside
<1> QED BY <1>1, <1>3, <1>4, <1>5, <1>6 DEF Ordered

LEMMA HeapedInit == Init => Heaped
<1> SUFFICES ASSUME Init PROVE Heaped
  OBVIOUS
<1>1. pc = "shell" /\ heap = heap_init /\ display = Closed /\ new = NoCall
  BY DEF Init, DisplayInit
<1>2. Ordered
  BY <1>1, EmptyHeap DEF Ordered
<1>3. ~InOpening /\ ~Taken
  BY <1>1 DEF InOpening, Taken, OpenFrees, Opens, Frees
<1> QED BY <1>1, <1>2, <1>3 DEF Heaped, Drawable, Allocated, Remembered

\* A step to a place where nothing is asked of the buffers.
LEMMA HeapedElsewhere ==
    ASSUME Heaped, UNCHANGED <<heap, new, cut>>,
           display'.back = display.back, ~InOpening, ~InOpening',
           pc' \in {"program", "suspend"} => ~display'.active,
           pc' \notin {"free_front", "forget_back"}
    PROVE  Heaped'
<1>1. ~Taken' /\ pc' \notin {"alloc_back", "alloc_front", "set_front", "set_active"}
  BY DEF InOpening, Taken, Opens
<1>2. Ordered'
  BY DEF Heaped, Ordered
<1>3. Drawable'
  BY <1>1 DEF Drawable
<1>4. Allocated'
  BY <1>1 DEF Heaped, Allocated
<1>5. Remembered'
  BY DEF Heaped, Remembered
<1> QED BY <1>2, <1>3, <1>4, <1>5 DEF Heaped

LEMMA HeapedOutside ==
    ASSUME Screened, Heaped, cmd_run \/ AfterExec \/ Prompt \/ Loading \/ Aborted \/ Caught
    PROVE  Heaped'
<1>1. UNCHANGED <<heap, new, cut, display>>
  BY DEF cmd_run, AfterExec, Prompt, Loading, ExecFails, ExecStart, SetJmp, ProgramReturns, Exit,
         Aborted, Caught, CloseDisplay, shared, opening, program
<1>2. /\ pc \notin Opens \cup Frees /\ pc' \notin Opens \cup Frees
      /\ pc' = "program" => pc = "set_jmp"
  BY DEF cmd_run, AfterExec, Prompt, Loading, ExecFails, ExecStart, SetJmp, ProgramReturns, Exit,
         Aborted, Caught, CloseDisplay, Gosub, Goto, Opens, Frees
<1>3. pc = "set_jmp" => ~display.active
  BY DEF Screened, Shaped, Emptied, Closed
<1> QED BY <1>1, <1>2, <1>3, HeapedElsewhere DEF InOpening, OpenFrees, Opens, Frees

\* Ctrl-C forgets the buffers of an open that has not stored them, and that is
\* what cut remembers.
LEMMA HeapedAbort == ASSUME Heaped, app_abort PROVE Heaped'
<1>1. /\ UNCHANGED <<heap, display>> /\ new' = NoCall /\ ret' = <<>>
      /\ pc' \in {"lost", "aborted"} /\ cut' = cut \cup Window
  BY DEF app_abort
<1>2. ~InOpening' /\ ~Taken'
  BY <1>1 DEF InOpening, Taken, OpenFrees, Opens, Frees
<1>3. Ordered'
  BY <1>1 DEF Heaped, Ordered
<1>4. Drawable' /\ Allocated'
  BY <1>1, <1>2 DEF Drawable, Allocated
<1>5. Remembered'
  <2>1. ASSUME "open" \notin cut' PROVE heap = heap_init \/ display.back # NULL
    <3>1. "open" \notin cut /\ "open" \notin Window
      BY <1>1, <2>1
    <3>2. heap = heap_init \/ display.back # NULL \/ new.back # NULL
      BY <3>1 DEF Heaped, Remembered
    <3>3. CASE InOpening
      <4>1. pc # "resume"
        BY <3>3 DEF InOpening, OpenFrees, Opens, Frees
      <4> QED BY <3>1, <3>2, <4>1 DEF Window
    <3>4. CASE ~InOpening
      <4>1. new.back = NULL
        BY <3>4 DEF Heaped, Allocated, NoCall
      <4> QED BY <3>2, <4>1
    <3> QED BY <3>3, <3>4
  <2> QED BY <1>1, <2>1 DEF Remembered
<1> QED BY <1>3, <1>4, <1>5 DEF Heaped

LEMMA HeapedOpening == ASSUME Screened, Drawn, Heaped, Opening, UNCHANGED program PROVE Heaped'
<1>0. UNCHANGED cut
  BY DEF program
<1> USE DEF InOpening, Taken, OpenFrees, Opens, Frees
<1>1. CASE display_open
  <2>1. /\ pc = "program" /\ pc' = "alloc_back" /\ UNCHANGED <<heap, display>>
        /\ new'.back = NULL
    BY <1>1 DEF display_open, Goto, NoCall
  <2>2. new.back = NULL
    BY <2>1 DEF Heaped, Allocated, NoCall
  <2>3. Ordered'
    BY <2>1 DEF Heaped, Ordered
  <2>4. Drawable'
    BY <2>1 DEF Heaped, Drawable, Size
  <2>5. Allocated'
    BY <2>1 DEF Allocated
  <2>6. Remembered'
    BY <1>0, <2>1, <2>2 DEF Heaped, Remembered
  <2> QED BY <2>3, <2>4, <2>5, <2>6 DEF Heaped
<1>2. CASE AllocBack
  <2> DEFINE p == kmalloc(heap, Asks).p
  <2>1. /\ pc = "alloc_back" /\ pc' = "alloc_front" /\ p # NULL /\ UNCHANGED display
        /\ heap' = kmalloc(heap, Asks).heap /\ new' = [new EXCEPT !.back = p]
    BY <1>2 DEF AllocBack, Alloc, Goto, Asks
  <2>2. Asks \in 1 .. MaxPixels
    BY <2>1 DEF Drawn, Asked, Asks
  <2>3. new'.back = p /\ new'.width = new.width /\ new'.height = new.height
    BY <2>1 DEF Screened, Shaped, Records
  <2>4. Asks' = Asks
    BY <2>3 DEF Asks
  <2> HIDE DEF p
  <2>5. /\ Ordered' /\ Held(heap', p, Asks) /\ p \in Nat /\ p >= Header
        /\ \A b, m : Held(heap, b, m) => Held(heap', b, m)
        /\ heap = heap_init => Fits(heap', Asks) # {}
    BY <2>1, <2>2, AllocGives DEF Heaped, p
  <2>6. Drawable'
    <3> SUFFICES ASSUME display.active
                 PROVE  /\ Fit(display.back, display.front, Size)
                        /\ \/ Fits(heap', Asks) # {}
                           \/ Held(heap', display.back, Size) /\ Held(heap', display.front, Size)
      BY <2>1, <2>4 DEF Drawable, Size
    <3>1. Fit(display.back, display.front, Size) /\ Kept(heap, display.back, display.front, Size)
      BY <2>1 DEF Heaped, Drawable
    <3> QED BY <2>5, <3>1 DEF Kept
  <2>7. Allocated'
    BY <2>1, <2>3, <2>4, <2>5 DEF Allocated
  <2>8. Remembered'
    BY <2>1, <2>3, <2>5 DEF Remembered, NULL, Header
  <2> QED BY <2>5, <2>6, <2>7, <2>8 DEF Heaped
<1>3. CASE AllocFront
  <2> DEFINE p == kmalloc(heap, Asks).p
  <2>1. /\ pc = "alloc_front" /\ pc' = "zeroed" /\ p # NULL /\ UNCHANGED display
        /\ heap' = kmalloc(heap, Asks).heap /\ new' = [new EXCEPT !.front = p]
    BY <1>3 DEF AllocFront, Alloc, Goto, Asks
  <2>2. Asks \in 1 .. MaxPixels /\ Asks \in Nat
    BY <2>1, ModesAssumption DEF Drawn, Asked, Asks
  <2>3. /\ new'.front = p /\ new'.back = new.back
        /\ new'.width = new.width /\ new'.height = new.height
    BY <2>1 DEF Screened, Shaped, Records
  <2>4. Asks' = Asks
    BY <2>3 DEF Asks
  <2> HIDE DEF p
  <2>5. /\ Ordered' /\ Fits(heap, Asks) # {} /\ Held(heap', p, Asks)
        /\ \A b, m : Held(heap, b, m) => Held(heap', b, m)
    BY <2>1, <2>2, AllocGives DEF Heaped, p
  <2>6. Held(heap, new.back, Asks)
    BY <2>1 DEF Heaped, Allocated
  <2>7. Fit(new.back, p, Asks)
    BY <2>2, <2>5, <2>6, SecondFits DEF Heaped, Ordered, p
  <2>8. Kept(heap', new.back, p, Asks)
    BY <2>5, <2>6 DEF Kept
  <2>9. Allocated'
    BY <2>1, <2>3, <2>4, <2>7, <2>8 DEF Allocated
  <2>10. Drawable'
    BY <2>1 DEF Drawable
  <2>11. Remembered'
    BY <2>1, <2>3, <2>7 DEF Remembered, Fit, NULL, Header
  <2> QED BY <2>5, <2>9, <2>10, <2>11 DEF Heaped
<1>4. CASE OpenFails
  <2>1. /\ pc \in {"alloc_back", "alloc_front"} /\ pc' = "program" /\ UNCHANGED <<ret, display>>
        /\ heap' = kfree(heap, new.back) /\ new' = NoCall
    BY <1>4 DEF OpenFails, Goto
  <2>2. Ordered' /\ heap' \in {heap, heap_init} /\ (heap' # heap_init => new.back = NULL)
    BY <2>1, FreeLeaves DEF Heaped
  <2>3. pc = "alloc_front" => new.back # NULL
    <3> SUFFICES ASSUME pc = "alloc_front" PROVE new.back # NULL
      OBVIOUS
    <3>1. Held(heap, new.back, Asks) /\ Asks \in Nat
      BY ModesAssumption DEF Heaped, Allocated, Drawn, Asked, Asks
    <3>2. new.back \in Nat /\ new.back >= Header
      BY <3>1, HeldInside DEF Heaped, Ordered
    <3> QED BY <3>2 DEF NULL, Header
  <2>4. Drawable'
    <3> SUFFICES ASSUME display.active
                 PROVE  /\ Fit(display.back, display.front, Size)
                        /\ Kept(heap', display.back, display.front, Size)
      BY <2>1 DEF Drawable, Size
    <3>1. Fit(display.back, display.front, Size)
          /\ (pc = "alloc_back" => Kept(heap, display.back, display.front, Size))
      BY <2>1 DEF Heaped, Drawable
    <3> QED BY <2>1, <2>2, <2>3, <3>1 DEF Kept
  <2>5. Allocated'
    BY <2>1 DEF Allocated
  <2>6. Remembered'
    BY <1>0, <2>1, <2>2 DEF Heaped, Remembered, NoCall
  <2> QED BY <2>2, <2>4, <2>5, <2>6 DEF Heaped
<1>5. CASE OpenAllocated
  <2>1. /\ pc = "zeroed" /\ pc' = "free_back" /\ UNCHANGED <<heap, new, display>>
        /\ ret' = <<"set_back">> \o ret
    BY <1>5 DEF OpenAllocated, Gosub
  <2>2. ret' = <<"set_back">>
    BY <2>1, StandsAlone, Stacked DEF Screened, Control, Alone
  <2>3. Ordered' /\ Drawable'
    BY <2>1 DEF Heaped, Ordered, Drawable
  <2>4. Allocated'
    BY <2>1, <2>2 DEF Heaped, Allocated, Asks
  <2>5. Remembered'
    BY <1>0, <2>1 DEF Heaped, Remembered
  <2> QED BY <2>3, <2>4, <2>5 DEF Heaped
<1>6. CASE SetBack \/ SetFront
  <2>1. /\ pc \in {"set_back", "set_front"} /\ pc' \in {"set_front", "set_active"}
        /\ UNCHANGED <<heap, new>>
        /\ pc = "set_back" => pc' = "set_front" /\ display' = [display EXCEPT !.back = new.back]
        /\ pc = "set_front" => pc' = "set_active" /\ display' = [display EXCEPT !.front = new.front]
    BY <1>6 DEF SetBack, SetFront, Store, Goto, opening
  <2>2. /\ display'.back = new.back
        /\ pc' = "set_active" => display'.front = new.front
    BY <2>1 DEF Screened, Shaped, Records, Heaped, Allocated
  <2>3. Fit(new.back, new.front, Asks) /\ Kept(heap, new.back, new.front, Asks)
    BY <2>1 DEF Heaped, Allocated
  <2>4. Ordered' /\ Drawable'
    BY <2>1 DEF Heaped, Ordered, Drawable
  <2>5. Allocated'
    BY <2>1, <2>2, <2>3 DEF Allocated, Asks
  <2>6. Remembered'
    BY <2>1, <2>3 DEF Remembered, Fit, NULL, Header
  <2> QED BY <2>4, <2>5, <2>6 DEF Heaped
<1>7. CASE SetActive
  <2>1. /\ pc = "set_active" /\ pc' = "suspend" /\ UNCHANGED heap /\ new' = NoCall
        /\ display' = [display EXCEPT !.width = new.width, !.height = new.height,
                                      !.full = TRUE, !.active = TRUE,
                                      !.dirty_top = 0, !.dirty_bottom = new.height]
    BY <1>7 DEF SetActive, Goto
  <2>2. /\ display'.back = display.back /\ display'.front = display.front
        /\ display'.width = new.width /\ display'.height = new.height
    BY <2>1 DEF Screened, Shaped, Records
  <2>3. /\ display.back = new.back /\ display.front = new.front
        /\ Fit(new.back, new.front, Asks) /\ Kept(heap, new.back, new.front, Asks)
    BY <2>1 DEF Heaped, Allocated
  <2>4. Size' = Asks
    BY <2>2 DEF Size, Asks
  <2>5. Ordered'
    BY <2>1 DEF Heaped, Ordered
  <2>6. Drawable'
    BY <2>1, <2>2, <2>3, <2>4 DEF Drawable
  <2>7. Allocated'
    BY <2>1 DEF Allocated
  <2>8. Remembered'
    BY <2>1, <2>2, <2>3 DEF Remembered, Fit, NULL, Header
  <2> QED BY <2>5, <2>6, <2>7, <2>8 DEF Heaped
<1>8. CASE console_suspend
  <2>1. pc = "suspend" /\ pc' = "program" /\ UNCHANGED <<heap, new, display>>
    BY <1>8 DEF console_suspend, Goto, opening
  <2>2. Ordered' /\ Drawable'
    BY <2>1 DEF Heaped, Ordered, Drawable, Size
  <2>3. Allocated' /\ Remembered'
    BY <1>0, <2>1 DEF Heaped, Allocated, Remembered
  <2> QED BY <2>2, <2>3 DEF Heaped
<1> QED BY <1>1, <1>2, <1>3, <1>4, <1>5, <1>6, <1>7, <1>8 DEF Opening

LEMMA HeapedClosing == ASSUME Screened, Heaped, Closing, UNCHANGED program PROVE Heaped'
<1>0. UNCHANGED cut
  BY DEF program
<1> USE DEF InOpening, OpenFrees, Opens, Frees
<1>1. CASE display_close
  <2>1. pc = "program" /\ pc' = "close" /\ UNCHANGED <<heap, new, display>>
    BY <1>1 DEF display_close, CloseDisplay, Gosub, opening
  <2> QED BY <1>0, <2>1, HeapedElsewhere
<1>2. CASE SetInactive
  <2>1. /\ pc = "inactive" /\ pc' = "resume" /\ UNCHANGED <<heap, new>>
        /\ display'.back = display.back
    BY <1>2 DEF SetInactive, Goto, opening, Closed
  <2> QED BY <1>0, <2>1, HeapedElsewhere
<1>3. CASE console_resume
  <2>1. pc = "resume" /\ pc' = Head(ret) /\ UNCHANGED <<heap, new, display>>
    BY <1>3 DEF console_resume, Return, opening
  <2>2. pc' \in Callers
    <3>1. PICK r \in Callers : ret = <<r>>
      BY <2>1 DEF Screened, Control, Standing, ClosesFor, Alone, Closes
    <3> QED BY <2>1, <3>1
  <2>3. ~display.active
    BY <2>1 DEF Screened, Shaped, Emptied, Closed
  <2> QED BY <1>0, <2>1, <2>2, <2>3, HeapedElsewhere DEF Callers
<1>4. CASE CloseStarts
  <2>1. pc = "close" /\ pc' = "free_back" /\ ret' = <<"inactive">> \o ret /\ UNCHANGED <<heap, new, display>>
    BY <1>4 DEF CloseStarts, Gosub
  <2>2. PICK r \in Callers : ret = <<r>>
    BY <2>1 DEF Screened, Control, Standing, ClosesFor, Alone, Closes
  <2>3. ret' = <<"inactive", r>>
    BY <2>1, <2>2, Stacked
  <2>4. ret' # <<"set_back">>
    BY <2>3
  <2>5. Ordered' /\ Drawable'
    BY <2>1 DEF Heaped, Ordered, Drawable
  <2>6. Allocated'
    BY <2>1, <2>4 DEF Heaped, Allocated, Taken
  <2>7. Remembered'
    BY <1>0, <2>1 DEF Heaped, Remembered
  <2> QED BY <2>5, <2>6, <2>7 DEF Heaped
<1> QED BY <1>1, <1>2, <1>3, <1>4 DEF Closing

LEMMA HeapedFreeing == ASSUME Screened, Heaped, Freeing, UNCHANGED program PROVE Heaped'
<1>0. UNCHANGED cut
  BY DEF program
<1> USE DEF InOpening, Taken, OpenFrees, Opens, Frees
<1>1. CASE FreeBack
  <2>1. /\ pc = "free_back" /\ pc' = "free_front" /\ UNCHANGED <<ret, new, display>>
        /\ heap' = kfree(heap, display.back)
    BY <1>1 DEF FreeBack, Free, Goto
  <2>2. Ordered' /\ heap' \in {heap, heap_init} /\ (display.back # NULL => heap' = heap_init)
    BY <2>1, FreeLeaves DEF Heaped
  <2>3. Drawable'
    BY <2>1 DEF Drawable
  <2>4. Allocated'
    BY <2>1, <2>2 DEF Heaped, Allocated, Kept, Asks
  <2>5. Remembered'
    BY <1>0, <2>1, <2>2 DEF Heaped, Remembered
  <2> QED BY <2>2, <2>3, <2>4, <2>5 DEF Heaped
<1>2. CASE FreeFront
  <2>1. /\ pc = "free_front" /\ pc' = "forget_back" /\ UNCHANGED <<ret, new, display>>
        /\ heap' = kfree(heap, display.front)
    BY <1>2 DEF FreeFront, Free, Goto
  <2>2. Ordered' /\ heap' \in {heap, heap_init}
    BY <2>1, FreeLeaves DEF Heaped
  <2>3. Drawable'
    BY <2>1 DEF Drawable
  <2>4. Allocated'
    BY <2>1, <2>2 DEF Heaped, Allocated, Kept, Asks
  <2>5. Remembered'
    BY <1>0, <2>1, <2>2 DEF Heaped, Remembered
  <2> QED BY <2>2, <2>3, <2>4, <2>5 DEF Heaped
<1>3. CASE ForgetBack
  <2>1. /\ pc = "forget_back" /\ pc' = "forget_front" /\ UNCHANGED <<ret, heap, new>>
    BY <1>3 DEF ForgetBack, Goto, opening
  <2>2. Ordered' /\ Drawable'
    BY <2>1 DEF Heaped, Ordered, Drawable
  <2>3. Allocated'
    BY <2>1 DEF Heaped, Allocated, Asks
  <2>4. Remembered'
    BY <1>0, <2>1 DEF Heaped, Remembered
  <2> QED BY <2>2, <2>3, <2>4 DEF Heaped
<1>4. CASE ForgetFront
  <2>1. /\ pc = "forget_front" /\ pc' = Head(ret) /\ UNCHANGED <<heap, new>>
        /\ display' = [display EXCEPT !.front = NULL]
    BY <1>4 DEF ForgetFront, Return, opening
  <2>2. display'.back = display.back
    BY <2>1 DEF Screened, Shaped, Records
  <2>3. \/ ret = <<"set_back">> /\ pc' = "set_back"
        \/ ret # <<"set_back">> /\ pc' = "inactive"
    <3>1. ret = <<"set_back">> \/ \E r \in Callers : ret = <<"inactive", r>>
      BY <2>1 DEF Screened, Control, Standing, ClosesFor, Alone, Closes
    <3>2. ASSUME NEW r PROVE Head(<<"inactive", r>>) = "inactive" /\ Head(<<"set_back">>) = "set_back"
      OBVIOUS
    <3> QED BY <2>1, <3>1, <3>2
  <2>4. Ordered' /\ Drawable'
    BY <2>1, <2>3 DEF Heaped, Ordered, Drawable
  <2>5. Allocated'
    BY <2>1, <2>3 DEF Heaped, Allocated, Asks
  <2>6. Remembered'
    BY <1>0, <2>1, <2>2, <2>3 DEF Heaped, Remembered
  <2> QED BY <2>4, <2>5, <2>6 DEF Heaped
<1> QED BY <1>1, <1>2, <1>3, <1>4 DEF Freeing

\* Drawing changes neither buffers nor sizes.
LEMMA HeapedDrawing == ASSUME Screened, Drawn, Heaped, Drawing, UNCHANGED program PROVE Heaped'
<1>1. pc = "program" /\ UNCHANGED <<pc, ret, heap, new, cut>>
  BY DEF Drawing, display_pixel, display_fill, display_present, Prints, Draw, calls, opening, program
<1>2. ASSUME display'.back = display.back, display'.front = display.front,
             display'.active <=> display.active,
             display'.width = display.width, display'.height = display.height
      PROVE  Heaped'
  BY <1>1, <1>2 DEF Heaped, Ordered, Drawable, Size, Allocated, Remembered, InOpening, Taken,
                    OpenFrees, Opens, Frees
<1>3. ASSUME NEW t, NEW b, display' = mark_dirty(t, b) PROVE Heaped'
  <2>1. PICK t1 : \E b1 : display' = [display EXCEPT !.dirty_top = t1, !.dirty_bottom = b1]
    BY <1>3 DEF mark_dirty
  <2> QED BY <1>2, <2>1 DEF Screened, Shaped, Records
<1>4. CASE display_pixel
  BY <1>3, <1>4 DEF display_pixel
<1>5. CASE display_fill
  BY <1>3, <1>5 DEF display_fill
<1>6. CASE display_present
  <2>1. display' = [display EXCEPT !.full = FALSE, !.dirty_top = 0, !.dirty_bottom = 0]
    BY <1>6 DEF display_present
  <2> QED BY <1>2, <2>1 DEF Screened, Shaped, Records
<1>7. CASE Prints
  BY <1>2, <1>7 DEF Prints
<1> QED BY <1>4, <1>5, <1>6, <1>7 DEF Drawing

Safe == Screened /\ Drawn /\ Heaped

LEMMA SafeInit == Init => Safe
BY ScreenedInit, DrawnInit, HeapedInit DEF Safe

LEMMA SafeStep == Safe /\ [AppStep \/ Halt]_appVars => Safe'
<1> SUFFICES ASSUME Safe, [AppStep \/ Halt]_appVars PROVE Heaped'
  BY ShapedStep, DrawnStep DEF Safe
<1>1. CASE UNCHANGED appVars
  BY <1>1 DEF appVars, displayVars, calls, opening, program, Safe, Heaped, Ordered, Drawable, Size,
              Allocated, Asks, Remembered, InOpening, Taken, OpenFrees
<1>2. CASE DisplayStep /\ UNCHANGED program
  BY <1>2, HeapedOpening, HeapedClosing, HeapedFreeing, HeapedDrawing DEF DisplayStep, Safe
<1>3. CASE app_abort
  BY <1>3, HeapedAbort DEF Safe
<1>4. CASE cmd_run \/ AfterExec \/ Prompt \/ Loading \/ Aborted \/ Caught
  BY <1>4, HeapedOutside DEF Safe
<1> QED BY <1>1, <1>2, <1>3, <1>4 DEF AppStep, Halt

\* At the prompt nothing is left of what the program took, unless Ctrl-C fell
\* into display_open before the buffers were stored.
THEOREM AllComesBack == Spec => []MemoryComesBack
<1>1. Safe => MemoryComesBack
  <2> SUFFICES ASSUME Safe, pc = "shell", "open" \notin cut PROVE heap = heap_init
    BY DEF MemoryComesBack
  <2>1. display.back = NULL
    BY DEF Safe, Screened, Shaped, Emptied, Closed
  <2>2. new.back = NULL
    BY DEF Safe, Heaped, Allocated, InOpening, OpenFrees, Opens, Frees, NoCall
  <2> QED BY <2>1, <2>2 DEF Safe, Heaped, Remembered
<1> QED BY <1>1, SafeInit, SafeStep, PTL DEF Spec

\* A buffer that is a block holds no header.
LEMMA NoHeaderIn ==
    ASSUME NEW h, Grown(h), NEW n \in Nat, NEW p, Held(h, p, n), NEW i \in 1 .. Len(h)
    PROVE  {h[i].at, h[i].at + 1} \intersect (p .. p + n - 1) = {}
<1>1. PICK k \in 1 .. Len(h) : h[k].used /\ Payload(h[k]) = p /\ n <= h[k].size
  BY DEF Held
<1>2. h[i] \in HeapBlock /\ h[k] \in HeapBlock
  BY <1>1, Inside
<1>3. /\ h[i].at \in Nat /\ h[i].size \in Nat /\ End(h[i]) = h[i].at + h[i].size + Header
      /\ h[k].at \in Nat /\ h[k].size \in Nat /\ End(h[k]) = h[k].at + h[k].size + Header
      /\ Payload(h[k]) = h[k].at + Header
  BY <1>2, Ends
<1>4. CASE i < k
  <2>1. End(h[i]) <= h[k].at
    BY <1>1, <1>4 DEF Grown
  <2> DEFINE x == h[i].at
             y == h[i].size
             z == h[k].at
  <2>2. x \in Nat /\ y \in Nat /\ z \in Nat /\ p = z + 2 /\ x + y + 2 <= z
    BY <1>1, <1>3, <2>1 DEF Header
  <2> HIDE DEF x, y, z
  <2>3. p \in Nat /\ x < p /\ x + 1 < p
    BY <2>2
  <2>4. {x, x + 1} \intersect (p .. p + n - 1) = {}
    BY <2>2, <2>3
  <2> QED BY <2>4 DEF x
<1>5. CASE k < i
  <2>1. End(h[k]) <= h[i].at
    BY <1>1, <1>5 DEF Grown
  <2> QED BY <1>1, <1>3, <2>1 DEF Header
<1>6. CASE i = k
  BY <1>1, <1>3, <1>6 DEF Header
<1>7. i \in Nat /\ k \in Nat
  BY <1>1 DEF Grown
<1> QED BY <1>4, <1>5, <1>6, <1>7

\* What a program draws changes neither the other buffer nor the allocator's
\* list, although kfree takes blocks away that are in use.
THEOREM BuffersStayApart == Spec => []BuffersApart
<1>1. Safe => BuffersApart
  <2> SUFFICES ASSUME Safe, pc = "program", display.active
               PROVE  /\ display.back # NULL /\ display.front # NULL
                      /\ Words(display.back) \intersect Words(display.front) = {}
                      /\ Words(display.back) \subseteq 0 .. HeapWords - 1
                      /\ Words(display.front) \subseteq 0 .. HeapWords - 1
                      /\ \A i \in DOMAIN heap :
                             /\ {heap[i].at, heap[i].at + 1} \intersect Words(display.back) = {}
                             /\ {heap[i].at, heap[i].at + 1} \intersect Words(display.front) = {}
    BY DEF BuffersApart
  <2>1. /\ Fit(display.back, display.front, Size)
        /\ Kept(heap, display.back, display.front, Size)
    BY DEF Safe, Heaped, Drawable
  <2>2. Size \in Nat /\ Size >= 1 /\ HeapWords \in Nat
    BY ModesAssumption, HeapAssumption DEF Safe, Drawn, Pictures, Size
  <2>3. \A p : Words(p) = p .. p + Size - 1
    BY DEF Words, Size
  <2>4. /\ display.back # NULL /\ display.front # NULL
        /\ Words(display.back) \intersect Words(display.front) = {}
        /\ Words(display.back) \subseteq 0 .. HeapWords - 1
        /\ Words(display.front) \subseteq 0 .. HeapWords - 1
    BY <2>1, <2>2, <2>3 DEF Fit, NULL, Header
  <2>5. ASSUME NEW i \in DOMAIN heap
        PROVE  /\ {heap[i].at, heap[i].at + 1} \intersect Words(display.back) = {}
               /\ {heap[i].at, heap[i].at + 1} \intersect Words(display.front) = {}
    <3>1. i \in 1 .. Len(heap) /\ Grown(heap)
      BY DEF Safe, Heaped, Ordered, Grown
    <3>2. CASE heap = heap_init
      <4>1. heap[i].at = 0
        BY <3>1, <3>2, EmptyHeap
      <4> QED BY <2>1, <2>2, <2>3, <4>1 DEF Fit, Header
    <3>3. CASE Held(heap, display.back, Size) /\ Held(heap, display.front, Size)
      BY <2>2, <2>3, <3>1, <3>3, NoHeaderIn
    <3> QED BY <2>1, <3>2, <3>3 DEF Kept
  <2> QED BY <2>4, <2>5
<1> QED BY <1>1, SafeInit, SafeStep, PTL DEF Spec

\* An open that fails after its first kmalloc has spared the buffers that the
\* program goes on to draw with: its header was written behind them.
THEOREM FailedOpenSpares == Spec => FailedOpenKeepsBuffers
<1> DEFINE Spared == pc = "alloc_front" /\ pc' = "program" /\ display.active =>
               \A i \in DOMAIN heap : heap[i].at \notin Words(display.back) \union Words(display.front)
<1>1. Safe /\ [AppStep \/ Halt]_appVars => [Spared]_appVars
  <2> SUFFICES ASSUME Safe, [AppStep \/ Halt]_appVars,
                      pc = "alloc_front", pc' = "program", display.active, NEW i \in DOMAIN heap
               PROVE  heap[i].at \notin Words(display.back) \union Words(display.front)
    OBVIOUS
  <2>1. OpenFails
    <3>1. ~UNCHANGED appVars /\ ~Halt
      BY DEF appVars, displayVars, calls, Halt
    <3>2. ~(cmd_run \/ AfterExec \/ Prompt \/ Loading \/ Aborted \/ Caught \/ app_abort)
      BY DEF cmd_run, AfterExec, Prompt, Loading, ExecFails, ExecStart, SetJmp, ProgramReturns, Exit,
             Aborted, Caught, app_abort, CloseDisplay, Gosub, Goto
    <3>3. ~(Closing \/ Freeing \/ Drawing)
      BY DEF Closing, Freeing, Drawing, display_close, CloseDisplay, CloseStarts, SetInactive,
             console_resume, FreeBack, FreeFront, Free, ForgetBack, ForgetFront, Gosub, Goto, Return,
             display_pixel, display_fill, display_present, Prints, Draw
    <3>4. Opening => OpenFails
      BY DEF Opening, display_open, AllocBack, AllocFront, Alloc, OpenAllocated, SetBack, SetFront,
             Store, SetActive, console_suspend, Gosub, Goto
    <3> QED BY <3>1, <3>2, <3>3, <3>4 DEF AppStep, DisplayStep
  <2>2. i \in 1 .. Len(heap) /\ Grown(heap)
    BY DEF Safe, Heaped, Ordered, Grown
  <2>3. Asks \in Nat /\ Size \in Nat
    BY ModesAssumption DEF Safe, Drawn, Asked, InOpening, Opens, Asks, Pictures, Size
  <2>4. kmalloc(heap, Asks).p = NULL
    BY <2>1 DEF OpenFails, Asks
  <2>5. Fits(heap, Asks) = {}
    <3> SUFFICES ASSUME Fits(heap, Asks) # {} PROVE FALSE
      OBVIOUS
    <3>1. Held(kmalloc(heap, Asks).heap, NULL, Asks) /\ Grown(kmalloc(heap, Asks).heap)
      BY <2>2, <2>3, <2>4, GivenGrown
    <3>2. NULL >= Header
      BY <2>3, <3>1, HeldInside
    <3> QED BY <3>2 DEF NULL, Header
  <2>6. Held(heap, display.back, Size) /\ Held(heap, display.front, Size)
    BY <2>5 DEF Safe, Heaped, Drawable
  <2>7. \A p : Words(p) = p .. p + Size - 1
    BY DEF Words, Size
  <2>8. /\ {heap[i].at, heap[i].at + 1} \intersect (display.back .. display.back + Size - 1) = {}
        /\ {heap[i].at, heap[i].at + 1} \intersect (display.front .. display.front + Size - 1) = {}
    BY <2>2, <2>3, <2>6, NoHeaderIn
  <2> QED BY <2>7, <2>8
<1> QED BY <1>1, SafeInit, SafeStep, PTL DEF Spec, FailedOpenKeepsBuffers

-----------------------------------------------------------------------------
(* FrameBuffer: where the primitives write.                                *)

\* A pixel has three bytes or four.
LEMMA PixelSize == PixelBytes \in {3, 4}
BY ModeAssumption DEF PixelBytes

\* Rows lie one behind the other.
LEMMA RowsFollow ==
    ASSUME NEW y \in Nat, NEW z \in Nat, y < z
    PROVE  /\ y * vbe_pitch + vbe_pitch <= z * vbe_pitch
           /\ y * vbe_pitch \in Nat /\ z * vbe_pitch \in Nat
<1>1. PICK d \in Nat : z = y + 1 + d  OBVIOUS
<1>2. z * vbe_pitch = y * vbe_pitch + vbe_pitch + d * vbe_pitch
  BY <1>1, ModeAssumption, SMT
<1>3. d * vbe_pitch \in Nat /\ y * vbe_pitch \in Nat  BY ModeAssumption, SMT
<1> QED BY <1>2, <1>3, ModeAssumption

\* The bytes of a row's pixels lie between its beginning and the next one's.
LEMMA RowEnds ==
    ASSUME NEW m \in Int, m <= vbe_width
    PROVE  m * PixelBytes <= vbe_pitch
<1>1. PixelBytes * vbe_width <= vbe_pitch  BY ModeAssumption, SMT DEF PixelBytes
<1>2. CASE PixelBytes = 3  BY <1>1, <1>2, ModeAssumption
<1>3. CASE PixelBytes = 4  BY <1>1, <1>3, ModeAssumption
<1> QED BY <1>2, <1>3, PixelSize

\* What is written of a visible row is inside the buffer.
LEMMA RowInside ==
    ASSUME NEW y \in 0 .. vbe_height - 1, NEW x \in Nat, NEW n \in Int, x + n <= vbe_width
    PROVE  Row(y, x, n) \subseteq Buffer
<1>1. y \in Nat /\ vbe_height \in Nat /\ vbe_pitch \in Nat /\ y < vbe_height  BY ModeAssumption
<1>2. /\ y * vbe_pitch + vbe_pitch <= vbe_height * vbe_pitch
      /\ y * vbe_pitch \in Nat /\ vbe_height * vbe_pitch \in Nat  BY <1>1, RowsFollow
<1>3. (x + n) * PixelBytes <= vbe_pitch  BY RowEnds
<1>4. x * PixelBytes \in Nat /\ (x + n) * PixelBytes \in Int  BY PixelSize, SMT
<1> DEFINE a == y * vbe_pitch
           b == x * PixelBytes
           e == (x + n) * PixelBytes
           t == vbe_height * vbe_pitch
<1>5. Row(y, x, n) = a + b .. a + e - 1 /\ Buffer = 0 .. t - 1  BY DEF Row, Buffer
<1> HIDE DEF a, b, e, t
<1>6. a \in Nat /\ b \in Nat /\ e \in Int /\ t \in Nat /\ e <= vbe_pitch /\ a + vbe_pitch <= t
  BY <1>2, <1>3, <1>4 DEF a, b, e, t
<1> QED BY <1>1, <1>5, <1>6

\* A pixel inside or nothing.
LEMMA PixelInside == ASSUME NEW x \in Int, NEW y \in Int PROVE put_pixel(x, y) \subseteq Buffer
<1>1. CASE Lit(x, y)
  <2>1. y \in 0 .. vbe_height - 1 /\ x \in Nat /\ x + 1 <= vbe_width
    BY <1>1, ModeAssumption DEF Lit
  <2> QED BY <2>1, <1>1, RowInside DEF put_pixel
<1> QED BY <1>1 DEF put_pixel

\* A block of the screen is inside the buffer.
LEMMA BlockInside ==
    ASSUME NEW x \in Nat, NEW y \in Nat, NEW w \in Int, NEW h \in Int,
           x + w <= vbe_width, y + h <= vbe_height
    PROVE  Block(x, y, w, h) \subseteq Buffer
<1>1. \A r \in y .. y + h - 1 : r \in 0 .. vbe_height - 1  BY ModeAssumption
<1>2. \A r \in y .. y + h - 1 : Row(r, x, w) \subseteq Buffer  BY <1>1, RowInside
<1>3. \A r \in y .. y + h - 1 : \A p \in x .. x + w - 1 : put_pixel(p, r) \subseteq Buffer
  BY PixelInside
<1>4. CASE vbe_bpp = 32  BY <1>2, <1>4 DEF Block
<1>5. CASE vbe_bpp # 32  BY <1>3, <1>5 DEF Block
<1> QED BY <1>4, <1>5

\* The lesser of two numbers.
LEMMA LesserIs ==
    ASSUME NEW m \in Int, NEW n \in Int
    PROVE  Lesser(m, n) \in Int /\ Lesser(m, n) <= m /\ Lesser(m, n) <= n
BY DEF Lesser

\* video_memset inside.
LEMMA MemsetInside ==
    ASSUME NEW x \in Nat, NEW y \in Nat, NEW count \in Nat
    PROVE  video_memset(x, y, count) \subseteq Buffer
<1> DEFINE Start(r)  == IF r = y THEN x ELSE 0
           Before(r) == IF r = y THEN 0 ELSE (r - y) * vbe_width - x
           n(r)      == Lesser(count - Before(r), vbe_width - Start(r))
<1> SUFFICES ASSUME x < vbe_width, y < vbe_height,
                    NEW r \in {s \in y .. vbe_height - 1 : Before(s) < count}
             PROVE  Row(r, Start(r), n(r)) \subseteq Buffer
  BY ModeAssumption DEF video_memset
<1>1. r \in 0 .. vbe_height - 1 /\ Start(r) \in Nat  BY ModeAssumption
<1>2. Before(r) \in Int  BY <1>1, ModeAssumption, SMT
<1>3. n(r) \in Int /\ n(r) <= vbe_width - Start(r)
  <2>1. count - Before(r) \in Int /\ vbe_width - Start(r) \in Int
    BY <1>1, <1>2, ModeAssumption
  <2> HIDE DEF Before, Start
  <2> QED BY <2>1, LesserIs
<1>4. Start(r) + n(r) <= vbe_width
  <2> HIDE DEF n, Start
  <2> QED BY <1>1, <1>3, ModeAssumption
<1> HIDE DEF n, Start
<1> QED BY <1>1, <1>3, <1>4, RowInside

\* Whatever the arguments, no primitive writes a byte outside the frame buffer:
\* put_pixel and the clipping of video_memset, fill_rect and blit32.
THEOREM WritesStayInside ==
    /\ \A x, y \in Int : put_pixel(x, y) \subseteq Buffer
    /\ \A x, y, count \in Nat : video_memset(x, y, count) \subseteq Buffer
    /\ \A x, y, w, h \in Int : fill_rect(x, y, w, h) \subseteq Buffer
    /\ \A src_w, y0, y1 \in Nat : blit32(src_w, y0, y1) \subseteq Buffer
<1>1. \A x, y \in Int : put_pixel(x, y) \subseteq Buffer  BY PixelInside
<1>2. \A x, y, count \in Nat : video_memset(x, y, count) \subseteq Buffer  BY MemsetInside
<1>3. ASSUME NEW x \in Int, NEW y \in Int, NEW w \in Int, NEW h \in Int
      PROVE  fill_rect(x, y, w, h) \subseteq Buffer
  <2> SUFFICES ASSUME x >= 0, y >= 0
               PROVE  Block(x, y, Lesser(w, vbe_width - x), Lesser(h, vbe_height - y)) \subseteq Buffer
    BY ModeAssumption DEF fill_rect
  <2>1. x \in Nat /\ y \in Nat /\ vbe_width - x \in Int /\ vbe_height - y \in Int
    BY ModeAssumption
  <2>2. Lesser(w, vbe_width - x) \in Int /\ Lesser(w, vbe_width - x) <= vbe_width - x
    BY <2>1, LesserIs
  <2>3. Lesser(h, vbe_height - y) \in Int /\ Lesser(h, vbe_height - y) <= vbe_height - y
    BY <2>1, LesserIs
  <2>4. x + Lesser(w, vbe_width - x) <= vbe_width /\ y + Lesser(h, vbe_height - y) <= vbe_height
    BY <2>1, <2>2, <2>3, ModeAssumption
  <2> QED BY <2>1, <2>2, <2>3, <2>4, BlockInside
<1>4. ASSUME NEW src_w \in Nat, NEW y0 \in Nat, NEW y1 \in Nat
      PROVE  blit32(src_w, y0, y1) \subseteq Buffer
  <2>1. Lesser(src_w, vbe_width) \in Int /\ 0 + Lesser(src_w, vbe_width) <= vbe_width
    BY LesserIs, ModeAssumption
  <2>2. Lesser(y1, vbe_height) \in Int /\ Lesser(y1, vbe_height) <= vbe_height
    BY LesserIs, ModeAssumption
  <2>3. Lesser(y1, vbe_height) - y0 \in Int /\ y0 + (Lesser(y1, vbe_height) - y0) <= vbe_height
    BY <2>2, ModeAssumption
  <2> QED BY <2>1, <2>3, BlockInside DEF blit32
<1> QED BY <1>1, <1>2, <1>3, <1>4

-----------------------------------------------------------------------------
\* A byte of a visible pixel tells the row and the place in it.
LEMMA ByteOfPixel ==
    ASSUME NEW x \in 0 .. vbe_width - 1, NEW y \in 0 .. vbe_height - 1, NEW a \in Row(y, x, 1)
    PROVE  /\ y * vbe_pitch \in Nat /\ a \in Nat
           /\ y * vbe_pitch <= a /\ a < y * vbe_pitch + vbe_pitch
           /\ \E k \in 0 .. PixelBytes - 1 : a - y * vbe_pitch = x * PixelBytes + k
<1> DEFINE b == y * vbe_pitch
<1>1. b \in Nat  BY ModeAssumption, SMT
<1>2. (x + 1) * PixelBytes <= vbe_pitch  BY RowEnds, ModeAssumption
<1>3. a \in b + x * PixelBytes .. b + (x + 1) * PixelBytes - 1  BY DEF Row
<1> HIDE DEF b
<1>4. CASE PixelBytes = 3  BY <1>1, <1>2, <1>3, <1>4, ModeAssumption DEF b
<1>5. CASE PixelBytes = 4  BY <1>1, <1>2, <1>3, <1>5, ModeAssumption DEF b
<1> QED BY <1>4, <1>5, PixelSize

\* Two pixels of the screen share no byte, whatever the pitch beyond a row and
\* with three bytes to a pixel as with four (put_pixel).
THEOREM PixelsAreApart ==
    ASSUME NEW x \in Int, NEW y \in Int, NEW u \in Int, NEW v \in Int
    PROVE  put_pixel(x, y) \intersect put_pixel(u, v) # {} => x = u /\ y = v
<1> SUFFICES ASSUME Lit(x, y), Lit(u, v), NEW a \in Row(y, x, 1), a \in Row(v, u, 1)
             PROVE  x = u /\ y = v
  BY DEF put_pixel
<1>1. /\ x \in 0 .. vbe_width - 1 /\ y \in 0 .. vbe_height - 1
      /\ u \in 0 .. vbe_width - 1 /\ v \in 0 .. vbe_height - 1  BY DEF Lit
<1>2. PICK j \in 0 .. PixelBytes - 1 :
         /\ y * vbe_pitch \in Nat /\ a \in Nat
         /\ y * vbe_pitch <= a /\ a < y * vbe_pitch + vbe_pitch
         /\ a - y * vbe_pitch = x * PixelBytes + j
  BY <1>1, ByteOfPixel
<1>3. PICK k \in 0 .. PixelBytes - 1 :
         /\ v * vbe_pitch \in Nat
         /\ v * vbe_pitch <= a /\ a < v * vbe_pitch + vbe_pitch
         /\ a - v * vbe_pitch = u * PixelBytes + k
  BY <1>1, ByteOfPixel
<1>4. y \in Nat /\ v \in Nat  BY <1>1, ModeAssumption
<1>5. y = v
  <2>1. ~(y < v)  BY <1>2, <1>3, <1>4, RowsFollow, ModeAssumption
  <2>2. ~(v < y)  BY <1>2, <1>3, <1>4, RowsFollow, ModeAssumption
  <2> QED BY <2>1, <2>2, <1>4
<1>6. x * PixelBytes + j = u * PixelBytes + k  BY <1>2, <1>3, <1>5
<1>7. CASE PixelBytes = 3  BY <1>1, <1>2, <1>3, <1>6, <1>7, ModeAssumption
<1>8. CASE PixelBytes = 4  BY <1>1, <1>2, <1>3, <1>6, <1>8, ModeAssumption
<1> QED BY <1>5, <1>7, <1>8, PixelSize

\* A row of pixels is its pixels.
LEMMA RowIsPixels ==
    ASSUME NEW y \in 0 .. vbe_height - 1, NEW x \in Nat, NEW n \in Int, x + n <= vbe_width
    PROVE  Row(y, x, n) = UNION {put_pixel(p, y) : p \in x .. x + n - 1}
<1> DEFINE b == y * vbe_pitch
<1>1. b \in Nat  BY ModeAssumption, SMT
<1>2. \A p \in x .. x + n - 1 : p \in Int /\ put_pixel(p, y) = Row(y, p, 1)
  BY ModeAssumption DEF put_pixel, Lit
<1> HIDE DEF b
<1>3. ASSUME NEW p \in x .. x + n - 1 PROVE Row(y, p, 1) \subseteq Row(y, x, n)
  <2>1. /\ Row(y, p, 1) = b + p * PixelBytes .. b + (p + 1) * PixelBytes - 1
        /\ Row(y, x, n) = b + x * PixelBytes .. b + (x + n) * PixelBytes - 1
    BY DEF Row, b
  <2>2. CASE PixelBytes = 3  BY <2>1, <2>2, <1>1
  <2>3. CASE PixelBytes = 4  BY <2>1, <2>3, <1>1
  <2> QED BY <2>2, <2>3, PixelSize
<1>4. ASSUME NEW a \in Row(y, x, n) PROVE \E p \in x .. x + n - 1 : a \in Row(y, p, 1)
  <2>1. a \in b + x * PixelBytes .. b + (x + n) * PixelBytes - 1  BY DEF Row, b
  <2>2. CASE PixelBytes = 3
    <3> DEFINE p == (a - b) \div 3
    <3>1. p \in x .. x + n - 1 /\ a \in b + p * 3 .. b + (p + 1) * 3 - 1
      BY <2>1, <2>2, <1>1, SMT
    <3>2. a \in Row(y, p, 1)  BY <3>1, <2>2 DEF Row, b
    <3> QED BY <3>1, <3>2
  <2>3. CASE PixelBytes = 4
    <3> DEFINE p == (a - b) \div 4
    <3>1. p \in x .. x + n - 1 /\ a \in b + p * 4 .. b + (p + 1) * 4 - 1
      BY <2>1, <2>3, <1>1, SMT
    <3>2. a \in Row(y, p, 1)  BY <3>1, <2>3 DEF Row, b
    <3> QED BY <3>1, <3>2
  <2> QED BY <2>2, <2>3, PixelSize
<1>5. Row(y, x, n) \subseteq UNION {put_pixel(p, y) : p \in x .. x + n - 1}  BY <1>2, <1>4
<1>6. UNION {put_pixel(p, y) : p \in x .. x + n - 1} \subseteq Row(y, x, n)  BY <1>2, <1>3
<1> QED BY <1>5, <1>6

\* Rows of 32-bit pixels that are written in one go come out as pixel by pixel:
\* both branches of fill_rect and of blit32 paint the same pixels.
THEOREM BlockIsPixels ==
    ASSUME NEW x \in Nat, NEW y \in Nat, NEW w \in Int, NEW h \in Int,
           x + w <= vbe_width, y + h <= vbe_height
    PROVE  Block(x, y, w, h) =
               UNION {UNION {put_pixel(p, r) : p \in x .. x + w - 1} : r \in y .. y + h - 1}
<1>1. \A r \in y .. y + h - 1 : r \in 0 .. vbe_height - 1  BY ModeAssumption
<1>2. \A r \in y .. y + h - 1 : Row(r, x, w) = UNION {put_pixel(p, r) : p \in x .. x + w - 1}
  BY <1>1, RowIsPixels
<1>3. CASE vbe_bpp = 32
  <2>1. Block(x, y, w, h) = UNION {Row(r, x, w) : r \in y .. y + h - 1}  BY <1>3 DEF Block
  <2>2. {Row(r, x, w) : r \in y .. y + h - 1} =
            {UNION {put_pixel(p, r) : p \in x .. x + w - 1} : r \in y .. y + h - 1}
    BY <1>2, Zenon
  <2> QED BY <2>1, <2>2
<1>4. CASE vbe_bpp # 32  BY <1>4 DEF Block
<1> QED BY <1>3, <1>4

\* clear() reaches every pixel of the screen: its count of pixels is not used up
\* before the last one.
THEOREM ClearsTheScreen ==
    ASSUME NEW x \in Int, NEW y \in Int
    PROVE  put_pixel(x, y) \subseteq ClearBytes
<1> DEFINE count     == vbe_width * vbe_height
           Start(r)  == IF r = 0 THEN 0 ELSE 0
           Before(r) == IF r = 0 THEN 0 ELSE (r - 0) * vbe_width - 0
           n(r)      == Lesser(count - Before(r), vbe_width - Start(r))
<1> SUFFICES ASSUME Lit(x, y) PROVE Row(y, x, 1) \subseteq ClearBytes
  BY DEF put_pixel
<1>1. x \in Nat /\ y \in Nat /\ x < vbe_width /\ y < vbe_height /\ vbe_width \in Nat
      /\ vbe_height \in Nat
  BY ModeAssumption DEF Lit
<1>2. ClearBytes = UNION {Row(r, Start(r), n(r)) :
                              r \in {s \in 0 .. vbe_height - 1 : Before(s) < count}}
  BY <1>1 DEF ClearBytes, video_memset, SCREEN_WIDTH, SCREEN_HEIGHT
<1>3. Before(y) = y * vbe_width /\ y * vbe_width \in Nat  BY <1>1, SMT
<1>4. count \in Nat /\ count - y * vbe_width >= vbe_width
  <2>1. PICK d \in Nat : vbe_height = y + 1 + d  BY <1>1
  <2>2. count = y * vbe_width + vbe_width + d * vbe_width /\ d * vbe_width \in Nat
    BY <1>1, <2>1, SMT
  <2> HIDE DEF count
  <2> QED BY <1>1, <1>3, <2>2
<1>5. Start(y) = 0  OBVIOUS
<1> HIDE DEF count, Before, Start
<1>6. n(y) = vbe_width
  BY <1>1, <1>3, <1>4, <1>5 DEF Lesser
<1>7. y \in {s \in 0 .. vbe_height - 1 : Before(s) < count}  BY <1>1, <1>3, <1>4
<1>8. Row(y, 0, vbe_width) \subseteq ClearBytes
  <2> HIDE DEF n
  <2> QED BY <1>2, <1>5, <1>6, <1>7
<1>9. Row(y, x, 1) \subseteq Row(y, 0, vbe_width)
  <2>1. y \in 0 .. vbe_height - 1 /\ 0 \in Nat /\ vbe_width \in Int /\ 0 + vbe_width <= vbe_width
        /\ x \in 0 .. 0 + vbe_width - 1
    BY <1>1
  <2>2. Row(y, 0, vbe_width) = UNION {put_pixel(p, y) : p \in 0 .. 0 + vbe_width - 1}
    BY <2>1, RowIsPixels
  <2>3. Row(y, x, 1) = put_pixel(x, y)  BY DEF put_pixel
  <2> QED BY <2>1, <2>2, <2>3
<1> QED BY <1>8, <1>9

-----------------------------------------------------------------------------
\* A number that fits in sixteen bits is kept.
LEMMA TextFits ==
    ASSUME NEW n \in Int, 0 <= n, n < Short \div 2
    PROVE  int16(n) = n
<1> DEFINE m == n + Short \div 2
<1>1. m \in 0 .. Short - 1 /\ Short \in Nat \ {0}  BY CellAssumption
<1>2. m % Short = m
  <2> HIDE DEF m
  <2> QED BY <1>1, SMT
<1> QED BY <1>2, CellAssumption DEF int16

\* The cells before the place where sixteen bits end.
LEMMA CellsFit ==
    ASSUME NEW v \in Int, 0 <= v, v <= (Short \div 2 - 1) \div cell
    PROVE  raw(v) = v * cell /\ v * cell \in Nat /\ v < Short \div 2
<1> DEFINE s == Short \div 2 - 1
           q == s \div cell
<1>1. cell \in Nat \ {0} /\ s \in Nat  BY CellAssumption DEF cell
<1>2. q \in Nat /\ q * cell <= s
  <2> HIDE DEF s
  <2> QED BY <1>1, SMT
<1>3. PICK d \in Nat : q = v + d  BY <1>2
<1>4. q * cell = v * cell + d * cell /\ v * cell \in Nat /\ d * cell \in Nat
  <2> HIDE DEF q
  <2> QED BY <1>1, <1>3, SMT
<1>5. v <= v * cell
  <2>1. PICK e \in Nat : cell = 1 + e  BY <1>1
  <2>2. v * cell = v + v * e /\ v * e \in Nat  BY <2>1, SMT
  <2> QED BY <2>2
<1>6. v * cell <= s
  <2> HIDE DEF q, s
  <2> QED BY <1>1, <1>2, <1>4
<1>7. v * cell < Short \div 2 /\ v < Short \div 2
  <2> DEFINE h == Short \div 2
  <2>1. h \in Int /\ s = h - 1  BY CellAssumption
  <2> HIDE DEF h, s
  <2>2. v * cell < h /\ v < h  BY <2>1, <1>4, <1>5, <1>6
  <2> QED BY <2>2 DEF h
<1> QED BY <1>4, <1>7, TextFits DEF raw

\* A cell that begins before the end of whole cells ends there, or before.
LEMMA WholeCells ==
    ASSUME NEW v \in Nat, NEW n \in Nat, v * cell < n * cell
    PROVE  v < n /\ v * cell + cell <= n * cell
<1>1. cell \in Nat \ {0}  BY CellAssumption DEF cell
<1>2. v < n
  <2> SUFFICES ASSUME v >= n PROVE FALSE  OBVIOUS
  <2>1. PICK d \in Nat : v = n + d  OBVIOUS
  <2>2. v * cell = n * cell + d * cell /\ d * cell \in Nat /\ n * cell \in Nat
    BY <1>1, <2>1, SMT
  <2> QED BY <2>2
<1>3. PICK d \in Nat : n = v + 1 + d  BY <1>2
<1>4. n * cell = v * cell + cell + d * cell /\ d * cell \in Nat /\ v * cell \in Nat
  BY <1>1, <1>3, SMT
<1> QED BY <1>1, <1>2, <1>4

\* What set_cursor sets.
LEMMA CursorSet ==
    ASSUME NEW c \in [x : Int, y : Int, drawn_x : Int, drawn_y : Int], NEW u \in Int, NEW v \in Int
    PROVE  /\ set_cursor(c, u, v) \in [x : Int, y : Int, drawn_x : Int, drawn_y : Int]
           /\ set_cursor(c, u, v).x = u /\ set_cursor(c, u, v).y = v
BY DEF set_cursor

\* A character is drawn in a cell that is wholly on the screen, wherever the
\* cursor was: behind the last column, below the last row, left of the margin
\* (print_char).  The cursor must be where 16 bits still tell its place: some
\* two thousand rows below the top, with the font of the console.
THEOREM TextOnScreen ==
    ASSUME NEW c \in [x : Int, y : Int, drawn_x : Int, drawn_y : Int], Sane(c)
    PROVE  OnScreen(raw(Placed(c).x), raw(Placed(c).y))
<1> DEFINE top == (Short \div 2 - 1) \div cell
           m   == AfterMargin(c)
           k   == AfterColumn(m)
           p   == AfterRow(k)
<1>1. cell \in Nat \ {0}  BY CellAssumption DEF cell
<1>2. PICK cols \in Nat : cols > 2 /\ vbe_width = cols * cell  BY CellAssumption DEF cell
<1>3. PICK rows \in Nat : rows > 0 /\ vbe_height = rows * cell  BY CellAssumption DEF cell
<1>4. cols <= top /\ top \in Int
  <2>1. vbe_width <= Short \div 2 - 1 /\ Short \div 2 - 1 \in Nat  BY CellAssumption, ModeAssumption
  <2> DEFINE s == Short \div 2 - 1
  <2>2. cols * cell <= s /\ s \in Nat  BY <1>2, <2>1
  <2> HIDE DEF s
  <2>3. s \div cell \in Int /\ s < (s \div cell + 1) * cell  BY <1>1, <2>2, SMT
  <2>4. s \div cell \in Nat  BY <1>1, <2>2, SMT
  <2>5. cols * cell < (s \div cell + 1) * cell /\ s \div cell + 1 \in Nat
    <3>1. cols * cell \in Nat /\ (s \div cell + 1) * cell \in Nat  BY <1>1, <2>4, SMT
    <3> QED BY <2>2, <2>3, <2>4, <3>1
  <2>6. cols < s \div cell + 1  BY <2>5, WholeCells
  <2> QED BY <2>3, <2>6 DEF s
<1>5. c.x \in 0 .. top /\ c.y \in 0 .. top - 1  BY DEF Sane
<1> HIDE DEF top
<1>6. /\ m \in [x : Int, y : Int, drawn_x : Int, drawn_y : Int]
      /\ m.x \in 2 .. top /\ m.y = c.y
  <2>1. CASE c.x < 2
    <3>1. m = set_cursor(c, 2, c.y)  BY <2>1 DEF AfterMargin, SCREEN_MARGIN_X
    <3>2. 2 \in 2 .. top  BY <1>2, <1>4
    <3> HIDE DEF m
    <3> QED BY <3>1, <3>2, CursorSet
  <2>2. CASE ~(c.x < 2)
    <3>1. m = c  BY <2>2 DEF AfterMargin, SCREEN_MARGIN_X
    <3> HIDE DEF m
    <3> QED BY <3>1, <2>2, <1>4, <1>5
  <2> QED BY <2>1, <2>2
<1> HIDE DEF m
<1>7. \A v \in 0 .. top : raw(v) = v * cell /\ v * cell \in Nat /\ v < Short \div 2
  BY CellsFit DEF top
<1>8. /\ k \in [x : Int, y : Int, drawn_x : Int, drawn_y : Int]
      /\ k.y \in 0 .. top /\ k.x \in 2 .. top /\ raw(k.x) < vbe_width
  <2>1. CASE raw(m.x) >= SCREEN_WIDTH
    <3>1. m.y + 1 \in 0 .. top  BY <1>4, <1>5, <1>6
    <3>2. int16(m.y + 1) = m.y + 1  BY <3>1, <1>7, <1>4, TextFits
    <3>3. k.x = 2 /\ k.y = m.y + 1 /\ k \in [x : Int, y : Int, drawn_x : Int, drawn_y : Int]
      <4>1. k = set_cursor(m, 2, m.y + 1)
        BY <2>1, <3>2 DEF AfterColumn, new_line, SCREEN_MARGIN_X
      <4>2. m.y + 1 \in Int  BY <3>1, <1>4
      <4> HIDE DEF k
      <4> QED BY <4>1, <4>2, <1>6, CursorSet
    <3>4. 2 \in 0 .. top  BY <1>2, <1>4
    <3>5. raw(2) = 2 * cell  BY <3>4, <1>7
    <3>6. 2 * cell < cols * cell
      <4>1. PICK d \in Nat : cols = 3 + d  BY <1>2
      <4>2. cols * cell = 3 * cell + d * cell /\ d * cell \in Nat  BY <1>1, <4>1, SMT
      <4> QED BY <1>1, <4>2
    <3> QED BY <3>1, <3>3, <3>4, <3>5, <3>6, <1>2, <1>4
  <2>2. CASE raw(m.x) < SCREEN_WIDTH
    <3>1. k = m  BY <2>2, <1>6, <1>7, ModeAssumption DEF AfterColumn, SCREEN_WIDTH
    <3> QED BY <3>1, <2>2, <1>4, <1>5, <1>6 DEF SCREEN_WIDTH
  <2>3. raw(m.x) \in Int /\ SCREEN_WIDTH \in Int
    BY <1>4, <1>6, <1>7, ModeAssumption DEF SCREEN_WIDTH
  <2> QED BY <2>1, <2>2, <2>3
<1> HIDE DEF k
<1>9. p.x \in 2 .. top /\ p.y \in 0 .. top /\ raw(p.x) < vbe_width /\ raw(p.y) < vbe_height
  <2>1. CASE raw(k.y) >= SCREEN_HEIGHT
    <3>1. p.x = 2 /\ p.y = 0  BY <2>1, <1>8 DEF AfterRow, set_cursor, SCREEN_MARGIN_X
    <3>2. 0 \in 0 .. top /\ 2 \in 0 .. top  BY <1>2, <1>4
    <3>3. raw(0) = 0 * cell /\ raw(2) = 2 * cell  BY <3>2, <1>7
    <3>4. raw(0) < vbe_height
      <4>1. PICK d \in Nat : rows = 1 + d  BY <1>3
      <4>2. rows * cell = cell + d * cell /\ d * cell \in Nat  BY <1>1, <4>1, SMT
      <4> QED BY <1>1, <1>3, <3>3, <4>2
    <3>5. raw(2) < vbe_width
      <4>1. PICK d \in Nat : cols = 3 + d  BY <1>2
      <4>2. cols * cell = 3 * cell + d * cell /\ d * cell \in Nat  BY <1>1, <4>1, SMT
      <4> QED BY <1>1, <1>2, <3>3, <4>2
    <3> QED BY <3>1, <3>2, <3>4, <3>5, <1>2, <1>4
  <2>2. CASE raw(k.y) < SCREEN_HEIGHT
    <3>1. raw(k.y) \in Int /\ SCREEN_HEIGHT \in Int
      BY <1>4, <1>7, <1>8, ModeAssumption DEF SCREEN_HEIGHT
    <3>2. p = k  BY <2>2, <3>1 DEF AfterRow
    <3> QED BY <3>2, <2>2, <1>8 DEF SCREEN_HEIGHT
  <2>3. raw(k.y) \in Int /\ SCREEN_HEIGHT \in Int
    BY <1>4, <1>7, <1>8, ModeAssumption DEF SCREEN_HEIGHT
  <2> QED BY <2>1, <2>2, <2>3
<1>10. Placed(c) = p  BY DEF Placed, p, k, m
<1> HIDE DEF p
<1>11. /\ raw(p.x) = p.x * cell /\ raw(p.y) = p.y * cell /\ p.x \in Nat /\ p.y \in Nat
       /\ raw(p.x) \in Nat /\ raw(p.y) \in Nat
  BY <1>4, <1>7, <1>9
<1>12. raw(p.x) + cell <= vbe_width  BY <1>2, <1>9, <1>11, WholeCells
<1>13. raw(p.y) + cell <= vbe_height  BY <1>3, <1>9, <1>11, WholeCells
<1> QED BY <1>10, <1>11, <1>12, <1>13 DEF OnScreen

\* erase_cursor blots out exactly the bytes that update_cursor painted, although
\* the one computes in 16 bits and the other does not.
THEOREM CursorIsErased ==
    ASSUME NEW c \in [x : Int, y : Int, drawn_x : Int, drawn_y : Int], Sane(c)
    PROVE  /\ EraseBytes(update_cursor(c)) = fill_rect(raw(c.x), raw(c.y), cell, cell)
           /\ erase_cursor(update_cursor(c)).drawn_x = -1
<1>1. cell \in Nat \ {0}  BY CellAssumption DEF cell
<1>2. /\ 0 <= c.x /\ c.x <= (Short \div 2 - 1) \div cell
      /\ 0 <= c.y /\ c.y <= (Short \div 2 - 1) \div cell
  <2>1. (Short \div 2 - 1) \div cell \in Int  BY <1>1, CellAssumption
  <2> QED BY <2>1 DEF Sane
<1>3. raw(c.x) = c.x * cell /\ raw(c.y) = c.y * cell  BY <1>2, CellsFit
<1>4. update_cursor(c).drawn_x = c.x /\ update_cursor(c).drawn_y = c.y  BY DEF update_cursor
<1>5. ~(update_cursor(c).drawn_x < 0)  BY <1>2, <1>4
<1>6. erase_cursor(update_cursor(c)).drawn_x = -1
  <2>1. update_cursor(c) \in [x : Int, y : Int, drawn_x : Int, drawn_y : Int]  BY DEF update_cursor
  <2> HIDE DEF update_cursor
  <2> QED BY <1>5, <2>1 DEF erase_cursor
<1> QED BY <1>3, <1>4, <1>5, <1>6 DEF EraseBytes
=============================================================================
