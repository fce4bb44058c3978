------------------------------ MODULE KeyQueue ------------------------------
(***************************************************************************)
(* What the keyboard driver promises whoever reads it: the keys it accepts *)
(* come out in their order, each once and none made up, however many of    *)
(* them wait.  A key that is not accepted leaves no trace.                 *)
(***************************************************************************)
EXTENDS Naturals, Sequences

CONSTANTS Keys,      \* what a reader may get
          Capacity   \* keys that wait at most

VARIABLES queue, \* the keys that wait, the next one first
          taken  \* the key the reader got last

Init == queue = <<>> /\ taken = "none"

Accept(k) == /\ Len(queue) < Capacity
             /\ queue' = Append(queue, k)
             /\ UNCHANGED taken

Take == /\ queue # <<>>
        /\ taken' = Head(queue) /\ queue' = Tail(queue)

\* The reader is done with its key.
Forget == taken' = "none" /\ UNCHANGED queue

Next == Take \/ Forget \/ \E k \in Keys : Accept(k)

Spec == Init /\ [][Next]_<<queue, taken>>
=============================================================================
