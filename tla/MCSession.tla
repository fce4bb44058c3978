----------------------------- MODULE MCSession ------------------------------
(* A short line, small texts; words of ten bits for what is printed. *)
EXTENDS Session, Printing

Run   == <<"r">>
Ed    == <<"r">>
Save  == <<"w">>
Quit  == <<"q">>

ASSUME PrintChecked ==
    /\ NumbersReadBack(0 .. IntWord - 1)
    /\ SignsReadBack(0 .. IntWord - 1)
    /\ ColumnsHold(0 .. IntWord - 1, 0 .. 6)
    /\ FormatsPrint({0, 7, 10, 100})
    /\ ClockReads
    /\ CatEndsLine(UNION {[1 .. n -> {"a", "\n", "\r", "\t", "bell"}] : n \in 0 .. 4})
=============================================================================
