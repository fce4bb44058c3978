------------------------------ MODULE Display -------------------------------
(***************************************************************************)
(* The display (src/src/display.c) with its buffers on the kernel's heap,  *)
(* and the console it takes the screen from (src/src/shell.c).             *)
(*                                                                         *)
(* Opening and closing go one assignment at a time, because Ctrl-C may end *)
(* the program in the middle.  Drawing and presenting are one action each: *)
(* what they leave half done is thrown away by the close that follows.     *)
(* A row of pixels is one value; a screen row the kernel printed on is     *)
(* "text".                                                                 *)
(***************************************************************************)
EXTENDS Heap

CONSTANTS
    Modes,       \* the sizes <<width, height>> programs ask for
    MaxPixels,   \* DISPLAY_MAX_PIXELS
    VisibleRows  \* vbe_height

ASSUME ModesAssumption == Modes \subseteq Nat \X Nat /\ MaxPixels \in Nat /\ VisibleRows \in Nat

\* A heap that is empty has room for two buffers (it has for eight).
ASSUME RoomAssumption == 2 * (MaxPixels + Header) <= HeapWords

VARIABLES
    pc,          \* where the thread stands
    ret,         \* where the calls it is in return to, innermost first
    heap,        \* the allocator's list
    display,     \* the variable of that name
    new,         \* the parameters and locals of display_open
    was_active,  \* the local of display_open and display_close
    back, front, \* what is in the buffers, by row
    screen,      \* what is on the screen, by row
    console_suspended

calls   == <<pc, ret>>
opening == <<heap, new, was_active>>
picture == <<back, front, screen>>
displayVars == <<calls, opening, picture, display, console_suspended>>

Colors  == {"black", "red"}
Visible == 0 .. VisibleRows - 1
Black(height) == [y \in 0 .. height - 1 |-> "black"]

\* The thread goes on, calls a function that returns to r, or returns.
Goto(from, to)     == pc = from /\ pc' = to /\ UNCHANGED ret
Gosub(from, to, r) == pc = from /\ pc' = to /\ ret' = <<r>> \o ret
Return(from)       == pc = from /\ pc' = Head(ret) /\ ret' = Tail(ret)

Closed == [active |-> FALSE, full |-> FALSE, width |-> 0, height |-> 0,
           back |-> NULL, front |-> NULL, dirty_top |-> 0, dirty_bottom |-> 0]
NoCall == [width |-> 0, height |-> 0, back |-> NULL, front |-> NULL]

DisplayInit == /\ ret = <<>> /\ heap = heap_init /\ display = Closed
               /\ new = NoCall /\ was_active = FALSE
               /\ back = Black(0) /\ front = Black(0)
               /\ screen = [y \in Visible |-> "text"]
               /\ console_suspended = FALSE

-----------------------------------------------------------------------------
(* free_buffers: both are freed first, then forgotten one by one.          *)

Free(from, to, field) == /\ Goto(from, to)
                         /\ heap' = kfree(heap, display[field])
                         /\ UNCHANGED <<new, was_active, picture, display, console_suspended>>

FreeBack   == Free("free_back", "free_front", "back")
FreeFront  == Free("free_front", "forget_back", "front")
ForgetBack == /\ Goto("forget_back", "forget_front")
              /\ display' = [display EXCEPT !.back = NULL]
              /\ UNCHANGED <<opening, picture, console_suspended>>
ForgetFront == /\ Return("forget_front")
               /\ display' = [display EXCEPT !.front = NULL]
               /\ UNCHANGED <<opening, picture, console_suspended>>

-----------------------------------------------------------------------------
(* display_open.                                                           *)

\* Fault: the limit of the size is forgotten.
AnySize(w, h) == w > 0 /\ h > 0

\* pixels fits in 32 bits, and two buffers of each size in the heap.
Accepted(w, h) == w > 0 /\ h > 0 /\ w <= MaxPixels \div h

\* A size that is refused changes nothing.
display_open == \E m \in Modes :
    /\ Accepted(m[1], m[2])
    /\ Goto("program", "alloc_back")
    /\ new' = [NoCall EXCEPT !.width = m[1], !.height = m[2]]
    /\ UNCHANGED <<heap, was_active, picture, display, console_suspended>>

Alloc(from, to, field) ==
    LET block == kmalloc(heap, new.width * new.height) IN
    /\ block.p # NULL
    /\ Goto(from, to)
    /\ heap' = block.heap
    /\ new' = [new EXCEPT ![field] = block.p]
    /\ UNCHANGED <<was_active, picture, display, console_suspended>>

AllocBack  == Alloc("alloc_back", "alloc_front", "back")
AllocFront == Alloc("alloc_front", "zeroed", "front")

\* No memory: the first buffer, if there is one, is freed.
OpenFails == /\ kmalloc(heap, new.width * new.height).p = NULL
             /\ Goto(pc, "program") /\ pc \in {"alloc_back", "alloc_front"}
             /\ heap' = kfree(heap, new.back)
             /\ new' = NoCall
             /\ UNCHANGED <<was_active, picture, display, console_suspended>>

\* Both buffers are black; only now the old ones are given up.
OpenAllocated == /\ Gosub("zeroed", "free_back", "set_back")
                 /\ was_active' = display.active
                 /\ UNCHANGED <<heap, new, picture, display, console_suspended>>

Store(from, to, field) == /\ Goto(from, to)
                          /\ display' = [display EXCEPT ![field] = new[field]]
                          /\ UNCHANGED <<opening, picture, console_suspended>>

SetBack == Store("set_back", "set_front", "back")

\* Fault: the new front buffer is not stored.
NoFront == Goto("set_front", "set_active") /\ UNCHANGED <<opening, picture, display, console_suspended>>

SetFront == Store("set_front", "set_active", "front")

SetActive == /\ Goto("set_active", "suspend")
             /\ display' = [display EXCEPT !.width = new.width, !.height = new.height,
                                           !.full = TRUE, !.active = TRUE,
                                           !.dirty_top = 0, !.dirty_bottom = new.height]
             /\ back' = Black(new.height) /\ front' = Black(new.height)
             /\ new' = NoCall
             /\ UNCHANGED <<heap, was_active, screen, console_suspended>>

\* Fault: a second open resumes the console.
SuspendToggles == /\ Goto("suspend", "program")
                  /\ console_suspended' = ~was_active
                  /\ UNCHANGED <<opening, picture, display>>

console_suspend == /\ Goto("suspend", "program")
                   /\ console_suspended' = (~was_active \/ console_suspended)
                   /\ UNCHANGED <<opening, picture, display>>

-----------------------------------------------------------------------------
(* display_close, from where it is called.                                 *)

CloseDisplay(from, r) == /\ Gosub(from, "close", r)
                         /\ UNCHANGED <<opening, picture, display, console_suspended>>

display_close == CloseDisplay("program", "program")

CloseStarts == /\ Gosub("close", "free_back", "inactive")
               /\ was_active' = display.active
               /\ UNCHANGED <<heap, new, picture, display, console_suspended>>

SetInactive == /\ Goto("inactive", "resume")
               /\ display' = [Closed EXCEPT !.back = display.back, !.front = display.front]
               /\ back' = Black(0) /\ front' = Black(0)
               /\ UNCHANGED <<opening, screen, console_suspended>>

\* The console's clear() is part of it.
console_resume == /\ Return("resume")
                  /\ console_suspended' = (console_suspended /\ ~was_active)
                  /\ screen' = IF was_active THEN [y \in Visible |-> "text"] ELSE screen
                  /\ UNCHANGED <<opening, back, front, display>>

-----------------------------------------------------------------------------
(* Drawing.                                                                *)

\* Fault: only the last rows drawn are remembered.
mark_last(top, bottom) == [display EXCEPT !.dirty_top = top, !.dirty_bottom = bottom]

\* The dirty rows, widened to top .. bottom - 1.
mark_dirty(top, bottom) ==
    LET d == display IN
    IF d.dirty_top >= d.dirty_bottom
    THEN [d EXCEPT !.dirty_top = top, !.dirty_bottom = bottom]
    ELSE [d EXCEPT !.dirty_top    = IF top < @ THEN top ELSE @,
                   !.dirty_bottom = IF bottom > @ THEN bottom ELSE @]

Draw == pc = "program" /\ display.active /\ UNCHANGED <<calls, opening, front, screen, console_suspended>>

\* A pixel that has its colour already changes nothing.
display_pixel == \E y \in 0 .. display.height - 1 : \E row \in Colors :
    /\ Draw
    /\ row # back[y]
    /\ back' = [back EXCEPT ![y] = row]
    /\ display' = mark_dirty(y, y + 1)

\* height is cut at the last row; the rows may have had these colours.
display_fill == \E y \in 0 .. display.height - 1 : \E bottom \in y + 1 .. display.height :
    /\ Draw
    /\ \E rows \in [y .. bottom - 1 -> Colors] :
           back' = [z \in DOMAIN back |-> IF z \in DOMAIN rows THEN rows[z] ELSE back[z]]
    /\ display' = mark_dirty(y, bottom)

\* Rows that have not changed are not copied, unless all are.
Presented(full) ==
    {y \in 0 .. display.height - 1 :
        \/ full
        \/ display.dirty_top <= y /\ y < display.dirty_bottom /\ back[y] # front[y]}

display_present ==
    /\ pc = "program" /\ display.active
    /\ LET rows == Presented(display.full) IN
       /\ front'  = [y \in DOMAIN front |-> IF y \in rows THEN back[y] ELSE front[y]]
       /\ screen' = [y \in Visible |-> IF y \in rows THEN back[y] ELSE screen[y]]
    /\ display' = [display EXCEPT !.full = FALSE, !.dirty_top = 0, !.dirty_bottom = 0]
    /\ UNCHANGED <<calls, opening, back, console_suspended>>

\* The kernel prints for the program: print_char itself is a system call, and
\* others print what went wrong.
Prints == \E y \in Visible :
    /\ pc = "program"
    /\ screen' = [screen EXCEPT ![y] = "text"]
    /\ UNCHANGED <<calls, opening, back, front, display, console_suspended>>

Opening == display_open \/ AllocBack \/ AllocFront \/ OpenFails \/ OpenAllocated
               \/ SetBack \/ SetFront \/ SetActive \/ console_suspend
Closing == display_close \/ CloseStarts \/ SetInactive \/ console_resume
Freeing == FreeBack \/ FreeFront \/ ForgetBack \/ ForgetFront
Drawing == display_pixel \/ display_fill \/ display_present \/ Prints

DisplayStep == Opening \/ Closing \/ Freeing \/ Drawing
=============================================================================
