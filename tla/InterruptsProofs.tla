-------------------------- MODULE InterruptsProofs --------------------------
(***************************************************************************)
(* Proofs about Interrupts: handlers run alone, and leave no line in       *)
(* service.  Neither is inductive.  What makes both so is what the flag,   *)
(* the stack and the controller look like at each place of the processor   *)
(* (Placed).                                                               *)
(***************************************************************************)
EXTENDS Interrupts, TLAPS

\* Places of the thread, by whether interrupts are on.
Open   == {"loop", "halt", "program", "sleep", "close"}
Boot   == {"init_idt", "remapped", "loaded"}
Closed == Boot \union {"heap", "aborted", "hung"}

Typed == /\ iflag \in BOOLEAN /\ idt_loaded \in BOOLEAN /\ remapped \in BOOLEAN
         /\ irr \in SUBSET {0, 1} /\ isr \in SUBSET {0, 1}
         /\ ret \in {"program", "close"}

InThread == /\ frames = <<>> /\ isr = {}
            /\ iflag <=> pc \in Open
            /\ pc \in Open \union Closed

InHandler == /\ \E p \in Open : frames = <<p>>
             /\ ~iflag /\ pc \in Handlers
             /\ isr = IF pc \in {"timer", "timer_eoi"} THEN {0}
                      ELSE IF pc \in {"keyboard", "keyboard_eoi"} THEN {1} ELSE {}

Placed == InThread \/ InHandler

\* Once init_idt is through, the table and the vectors are there.
Booted == /\ pc \notin Boot => idt_loaded /\ remapped
          /\ pc = "remapped" => remapped
          /\ pc = "loaded" => idt_loaded /\ remapped

IInv == Typed /\ Placed /\ Booted

-----------------------------------------------------------------------------
\* The lowest line of a set of lines.
LEMMA MinOfLines ==
    ASSUME NEW S \in SUBSET {0, 1}, S # {}
    PROVE  /\ Min(S) \in S
           /\ 0 \in S => Min(S) = 0
           /\ 0 \notin S => S = {1} /\ Min(S) = 1
<1>1. \A x \in S : x = 0 \/ x = 1  OBVIOUS
<1>2. 0 \notin S => S = {1}  BY <1>1
<1>3. \E x \in S : \A y \in S : x <= y
  <2>1. CASE 0 \in S  BY <2>1, <1>1
  <2>2. CASE S = {1}  BY <2>2
  <2> QED BY <2>1, <2>2, <1>2
<1>4. Min(S) \in S /\ \A y \in S : Min(S) <= y  BY <1>3 DEF Min
<1> HIDE DEF Min
<1>5. Min(S) = 0 \/ Min(S) = 1  BY <1>1, <1>4
<1>6. 0 \in S => Min(S) = 0  BY <1>4, <1>5
<1>7. 0 \notin S => Min(S) = 1  BY <1>4, <1>5
<1> QED BY <1>2, <1>4, <1>6, <1>7

\* At the beginning.
LEMMA InitInv == Init => IInv
BY DEF Init, IInv, Typed, Placed, InThread, Booted, Open, Closed, Boot

\* The devices only touch the requests and the port.
LEMMA DevicesKeep == ASSUME IInv, KeyArrives \/ TimerEdge PROVE IInv'
<1>1. irr' \in SUBSET {0, 1}
  <2>1. irr \in SUBSET {0, 1}  BY DEF IInv, Typed
  <2>2. irr' = irr \union {0} \/ irr' = irr \union {1}
    BY DEF KeyArrives, TimerEdge, Timer, Keyboard
  <2> QED BY <2>1, <2>2
<1>2. UNCHANGED <<iflag, idt_loaded, remapped, isr, pc, frames, ret>>
  BY DEF KeyArrives, TimerEdge, boot, app
<1>3. Typed'  BY <1>1, <1>2 DEF IInv, Typed
<1>4. Placed'  BY <1>2 DEF IInv, Placed, InThread, InHandler
<1>5. Booted'  BY <1>2 DEF IInv, Booted
<1> QED BY <1>3, <1>4, <1>5 DEF IInv

\* An interrupt finds the thread at a place where interrupts are on.
LEMMA DeliverKeeps == ASSUME NEW i \in {Timer, Keyboard}, IInv, Deliver(i) PROVE IInv'
<1>1. iflag /\ Ready /\ UNCHANGED <<boot, remapped, ret>>  BY DEF Deliver, Ready, app
<1>2. InThread /\ pc \in Open  BY <1>1 DEF IInv, Placed, InThread, InHandler
<1>3. pc \notin Boot  BY <1>2 DEF Open, Boot
<1>4. idt_loaded /\ remapped  BY <1>3 DEF IInv, Booted
<1>5. frames' = <<Resume(pc)>> /\ Resume(pc) \in Open
  BY <1>2 DEF Deliver, InThread, Resume, Open
<1>6. i \in {0, 1} /\ isr' = {i} /\ irr' \in SUBSET {0, 1}
  BY <1>2 DEF Deliver, InThread, IInv, Typed, Timer, Keyboard
<1>7. pc' = IF i = 0 THEN "timer" ELSE "keyboard"  BY <1>4 DEF Deliver, Vector, Timer
<1>8. InHandler'
  BY <1>5, <1>6, <1>7 DEF InHandler, Deliver, Handlers, TimerHandler, KeyboardHandler
<1>9. Typed'  BY <1>1, <1>6 DEF Typed, IInv, Deliver, boot
<1>10. Booted'  BY <1>1, <1>4, <1>7 DEF Booted, Boot, boot
<1> QED BY <1>8, <1>9, <1>10 DEF IInv, Placed

\* The handlers go from one place of theirs to the next, or back.
LEMMA HandleKeeps == ASSUME IInv, Handle PROVE IInv'
<1>1. CASE timer_handler_c
  BY <1>1 DEF timer_handler_c, IInv, Typed, Placed, InThread, InHandler, Booted, Open, Closed,
              Boot, Handlers, TimerHandler, KeyboardHandler, boot, pic, app
<1>2. CASE keyboard_handler_c
  BY <1>2 DEF keyboard_handler_c, IInv, Typed, Placed, InThread, InHandler, Booted, Open, Closed,
              Boot, Handlers, TimerHandler, KeyboardHandler, boot, pic
<1>3. CASE SendEoi
  <2>1. pc \in {"timer_eoi", "keyboard_eoi"}  BY <1>3 DEF SendEoi
  <2>2. InHandler  BY <2>1 DEF IInv, Placed, InThread, Open, Closed, Boot
  <2>3. isr = {0} \/ isr = {1}  BY <2>1, <2>2 DEF InHandler
  <2>4. isr' = {}  BY <1>3, <2>3, MinOfLines DEF SendEoi
  <2>5. pc' \in {"timer_iret", "app_abort", "keyboard_iret"}  BY <1>3 DEF SendEoi
  <2>6. InHandler'
    BY <1>3, <2>2, <2>4, <2>5 DEF InHandler, SendEoi, Handlers, TimerHandler, KeyboardHandler
  <2>7. Typed' /\ Booted'
    BY <1>3, <2>1, <2>4, <2>5 DEF IInv, Typed, Booted, Boot, SendEoi, boot, app
  <2> QED BY <2>6, <2>7 DEF IInv, Placed
<1>4. CASE app_abort
  BY <1>4 DEF app_abort, IInv, Typed, Placed, InThread, InHandler, Booted, Open, Closed,
              Boot, Handlers, TimerHandler, KeyboardHandler, boot, pic
<1>5. CASE Iret
  <2>1. pc \in {"timer_iret", "keyboard_iret"}  BY <1>5 DEF Iret
  <2>2. InHandler  BY <2>1 DEF IInv, Placed, InThread, Open, Closed, Boot
  <2>3. PICK p \in Open : frames = <<p>>  BY <2>2 DEF InHandler
  <2>4. pc' = p /\ frames' = <<>>  BY <1>5, <2>3 DEF Iret
  <2>5. isr = {} /\ isr' = {} /\ iflag'  BY <1>5, <2>1, <2>2 DEF InHandler, Iret, pic
  <2>6. InThread'  BY <2>4, <2>5 DEF InThread
  <2>7. Typed' /\ Booted'
    BY <1>5, <2>1, <2>4 DEF IInv, Typed, Booted, Boot, Open, Iret, boot, pic, app
  <2> QED BY <2>6, <2>7 DEF IInv, Placed
<1> QED BY <1>1, <1>2, <1>3, <1>4, <1>5 DEF Handle

\* The thread turns interrupts on and off as its places demand.
LEMMA ThreadKeeps == ASSUME IInv, Thread PROVE IInv'
<1> USE DEF IInv, Typed, Placed, InThread, InHandler, Booted, Open, Closed, Boot, Step,
            Handlers, TimerHandler, KeyboardHandler, boot, pic, app
<1>1. CASE pic_remap  BY <1>1 DEF pic_remap
<1>2. CASE Lidt \/ Sti  BY <1>2 DEF Lidt, Sti
<1>3. CASE Loop \/ exec_program  BY <1>3 DEF Loop, exec_program
<1>4. CASE Alloc("program") \/ Alloc("close")  BY <1>4 DEF Alloc
<1>5. CASE AllocEnd  BY <1>5 DEF AllocEnd
<1>6. CASE sleep \/ SleepOver  BY <1>6 DEF sleep, SleepOver
<1>7. CASE ProgramReturns \/ Exception  BY <1>7 DEF ProgramReturns, Exception
<1>8. CASE isr_handler_c  BY <1>8 DEF isr_handler_c, vars
<1>9. CASE Aborted \/ CommandOver  BY <1>9 DEF Aborted, CommandOver
<1> QED BY <1>1, <1>2, <1>3, <1>4, <1>5, <1>6, <1>7, <1>8, <1>9 DEF Thread

\* Every step keeps it, also one that does nothing.
LEMMA StepKeeps == IInv /\ [Next]_vars => IInv'
<1> SUFFICES ASSUME IInv, [Next]_vars PROVE IInv'  OBVIOUS
<1>1. CASE KeyArrives \/ TimerEdge  BY <1>1, DevicesKeep
<1>2. CASE Deliver(Timer) \/ Deliver(Keyboard)  BY <1>2, DeliverKeeps
<1>3. CASE Handle  BY <1>3, HandleKeeps
<1>4. CASE Thread  BY <1>4, ThreadKeeps
<1>5. CASE UNCHANGED vars
  BY <1>5 DEF vars, IInv, Typed, Placed, InThread, InHandler, Booted
<1> QED BY <1>1, <1>2, <1>3, <1>4, <1>5 DEF Next, Cpu

\* The invariant of the machine.
LEMMA Inductive == Spec => []IInv
BY InitInv, StepKeeps, PTL DEF Spec

\* One handler at a time, to its end, and never inside the allocator or before
\* the tables are set up.
THEOREM HandlersRunAlone == Spec => []HandlersAlone
<1>1. IInv => HandlersAlone
  BY DEF IInv, Placed, InThread, InHandler, HandlersAlone, Open
<1> QED BY <1>1, Inductive, PTL

\* Back in the thread, by iret or by longjmp, no line waits for its EOI.
THEOREM LinesAreFree == Spec => []NothingInService
<1>1. IInv => NothingInService
  BY DEF IInv, Placed, InThread, InHandler, NothingInService
<1> QED BY <1>1, Inductive, PTL
=============================================================================
