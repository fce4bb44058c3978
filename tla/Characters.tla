----------------------------- MODULE Characters -----------------------------
(* The characters that the shell, the editor and its library look for. *)

NUL     == "NUL"
SPACE   == "space"
NEWLINE == "newline"
=============================================================================
