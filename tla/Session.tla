------------------------------ MODULE Session -------------------------------
(***************************************************************************)
(* A session at the prompt: lines are typed (LineEdit), "run" hands the    *)
(* rest of the line to a program (src/src/shell.c, args.c), the program is *)
(* the editor (Editor), and the prompt comes back.  All other commands     *)
(* only print.                                                             *)
(***************************************************************************)
EXTENDS LineEdit, Editor

CONSTANT RunCommand  \* "run"

ASSUME ProgramAssumption == EditorFile # <<>>

VARIABLES
    args,    \* the kernel's copy of the arguments
    file     \* history: the file that was named, when the run began

vars == <<lineVars, editorVars, args, file>>

Init == LineInit /\ EditorInit /\ args = <<>> /\ file = <<>>

-----------------------------------------------------------------------------
\* line_submit ends the buffer that is being filled.
Submitted == Refill(line, [line_target(line) EXCEPT ![line.index] = NUL])

Empty == IF line.in_command THEN line.index = 0 ELSE line.command_length = 0

Command  == CString(Submitted.command)
Argument == CString(Submitted.arg)
Program  == FirstWord(Argument)

Shell == stage = "off" /\ UNCHANGED <<editorVars, args>>

Key == Shell /\ Typing /\ UNCHANGED file

RunsEditor == ~Empty /\ Command = RunCommand /\ Program = EditorFile

\* An empty line, another command, run without a program or with none there.
Enter == Shell /\ ~RunsEditor /\ NewLine /\ UNCHANGED file

\* Fault: the spaces behind the program's name stay.
ArgsWithSpaces(s) == SubSeq(s, Len(FirstWord(s)) + 1, Len(s))

\* The kernel's copy; a line is never longer than the room for it.
args_set(text) == args' = text

\* What cmd_run hands to args_set.
ArgsOf(s) == SkipSpaces(s, Len(FirstWord(s)) + 1)

\* line_submit as far as the program's first instruction.
cmd_run == /\ stage = "off" /\ RunsEditor
           /\ line' = Submitted
           /\ args_set(ArgsOf(Argument))
           /\ file' = Cut(FirstWord(args'))
           /\ stage' = "main"
           /\ UNCHANGED <<console, typed, tabs, bss, name, exists, buffer, files>>

Editing == /\ TakeName(args) \/ AskName(args) \/ NameKey \/ NameEnter \/ EditKey \/ SaveEnter
           /\ UNCHANGED <<lineVars, args, file>>

\* The program is over: cmd_run clears the arguments, the line is reset.
Leave == /\ save \/ QuitEnter \/ EditorStops
         /\ args_set(<<>>) /\ file' = <<>>
         /\ NewLine

Next == Key \/ Enter \/ cmd_run \/ Editing \/ Leave

Spec == Init /\ [][Next]_vars

-----------------------------------------------------------------------------
\* When Enter is pressed, the C strings the commands get are the line as it was
\* typed, cut at its first space: no character of an earlier line, of a word
\* taken back, or of the stack shows through.
RunsWhatIsTyped ==
    stage = "off" =>
        IF \A i \in DOMAIN typed : typed[i] # SPACE
        THEN Command = typed /\ Argument = <<>>
        ELSE /\ Command = FirstWord(typed)
             /\ Argument = SubSeq(typed, Len(Command) + 2, Len(typed))

\* The program is told what stands behind its name in the line, from the first
\* character that is no space, up to its end.
ArgsAreTyped ==
    stage # "off" =>
        \E gap \in 0 .. Len(typed) :
            /\ typed = RunCommand \o <<SPACE>> \o EditorFile \o [i \in 1 .. gap |-> SPACE] \o args
            /\ args # <<>> => gap > 0 /\ args[1] # SPACE

\* A file changes only when its name stands in the editor's head and :wq was
\* typed, into the text without that line, or to nothing if the write is cut
\* short; every other file stays as it is.
OnlySavedText ==
    [][\A n \in FileNames : files'[n] # files[n] =>
           /\ n = name /\ stage = "save"
           /\ files'[n] \in {<<>>, buffer}
           /\ buffer = <<>> \/ buffer[Len(buffer)] = NEWLINE]_vars

\* The editor opens the file that is named behind it in the command line.
EditsNamedFile == stage = "edit" /\ file # <<>> => name = file
=============================================================================
