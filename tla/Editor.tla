------------------------------- MODULE Editor -------------------------------
(***************************************************************************)
(* The text editor (src/build/zrn/projects/Editor/src/main.c, buffer.c)    *)
(* with the library it reads its arguments and its file through            *)
(* (src/build/zrn/api/api_1/src/args.c, system.c), as a program that is    *)
(* run, ends and is run again.                                             *)
(*                                                                         *)
(* Its picture is left out, and so are the keys of getch: any may come.    *)
(* The file names are 8.3 names, and the editor's own file is not edited.  *)
(***************************************************************************)
EXTENDS Integers, Sequences, FiniteSetsExt, Characters

CONSTANTS
    NameLetters, TextLetters, \* what is typed into a name, into a text
    NameCapacity,             \* NAME_CAPACITY
    TextCapacity,             \* BUFFER_CAPACITY
    SaveLine, QuitLine,       \* ":wq", ":q"
    EditorFile                \* the program's own name

ASSUME EditorAssumption == NameCapacity \in Nat \ {0, 1} /\ TextCapacity \in Nat

TAB_WIDTH == 4

VARIABLES
    stage,   \* where the program is: "off", "main", "name", "edit", "save"
    bss,     \* of args.c: parsed, and the first of the tokens
    name, exists, buffer,  \* main's variables
    files    \* the disk: names and contents

editorVars == <<stage, bss, name, exists, buffer, files>>

FileNames == UNION {[1 .. n -> NameLetters] : n \in 1 .. NameCapacity - 1} \ {EditorFile}

EditorInit == /\ stage = "off"
              /\ bss = [parsed |-> FALSE, token |-> <<>>]
              /\ name = <<>> /\ exists = FALSE /\ buffer = <<>>
              /\ files \in [FileNames -> {<<>>}]

-----------------------------------------------------------------------------
FirstWord(s) == LET spaces == {i \in DOMAIN s : s[i] = SPACE}
                IN  IF spaces = {} THEN s ELSE SubSeq(s, 1, Min(spaces) - 1)

\* s from position n on, without the spaces there.
SkipSpaces(s, n) == LET rest == {i \in n .. Len(s) : s[i] # SPACE}
                    IN  IF rest = {} THEN <<>> ELSE SubSeq(s, Min(rest), Len(s))

\* copy_name
Cut(s) == SubSeq(s, 1, IF Len(s) < NameCapacity THEN Len(s) ELSE NameCapacity - 1)

\* parse() works once.  The flag is in .bss, which neither the loader nor the
\* program clears (loader.c copies the file's bytes, and the .zrn files begin
\* with main): the next run finds it as this one leaves it.
parse(args) == IF bss.parsed THEN bss
               ELSE [parsed |-> TRUE, token |-> FirstWord(SkipSpaces(args, 1))]

\* The system calls that syscalls_init fills in, of those the editor makes.
Supported == {"SYS_ARGS", "SYS_CREATE_FILE", "SYS_WRITE_FILE", "SYS_GETCH"}

\* What read_file answers: syscall_unsupported's -1.
read_file(n) == IF "SYS_READ_FILE" \in Supported THEN Len(files[n]) ELSE -1

\* load: with -1 the buffer is cleared, and there is no file.
load(n) == /\ exists' = (read_file(n) >= 0)
           /\ buffer' = IF read_file(n) >= 0 THEN files[n] ELSE <<>>

-----------------------------------------------------------------------------
\* main until it knows the name; the display is open.
TakeName(args) == /\ stage = "main"
                  /\ bss' = parse(args)
                  /\ bss'.token # <<>>
                  /\ Cut(bss'.token) # EditorFile
                  /\ name' = Cut(bss'.token)
                  /\ load(name') /\ stage' = "edit"
                  /\ UNCHANGED files

AskName(args) == /\ stage = "main"
                 /\ bss' = parse(args)
                 /\ bss'.token = <<>>
                 /\ name' = <<>> /\ stage' = "name"
                 /\ UNCHANGED <<exists, buffer, files>>

\* read_name
NameKey == /\ stage = "name"
           /\ \/ \E ch \in NameLetters : /\ Len(name) + 1 < NameCapacity
                                         /\ name' = Append(name, ch)
              \/ name # <<>> /\ name' = SubSeq(name, 1, Len(name) - 1)
           /\ UNCHANGED <<stage, bss, exists, buffer, files>>

NameEnter == /\ stage = "name"
             /\ name # <<>> /\ name # EditorFile
             /\ load(name) /\ stage' = "edit"
             /\ UNCHANGED <<bss, name, files>>

\* buffer_push, as often as it takes one.
Push(b, text) == LET room == TextCapacity - Len(b)
                 IN  b \o SubSeq(text, 1, IF Len(text) < room THEN Len(text) ELSE room)

\* line_start
LineStart(b) == LET ends == {i \in DOMAIN b : b[i] = NEWLINE} IN IF ends = {} THEN 0 ELSE Max(ends)

buffer_line_is(b, text) == SubSeq(b, LineStart(b) + 1, Len(b)) = text

\* Fault: the line break before the command goes, too.
drop_break(b) == SubSeq(b, 1, IF LineStart(b) = 0 THEN 0 ELSE LineStart(b) - 1)

buffer_drop_line(b) == SubSeq(b, 1, LineStart(b))

EditKey == /\ stage = "edit"
           /\ \/ \E ch \in TextLetters : buffer' = Push(buffer, <<ch>>)
              \/ buffer' = Push(buffer, [i \in 1 .. TAB_WIDTH |-> SPACE])
              \/ buffer # <<>> /\ buffer' = SubSeq(buffer, 1, Len(buffer) - 1)
              \/ /\ ~buffer_line_is(buffer, SaveLine) /\ ~buffer_line_is(buffer, QuitLine)
                 /\ buffer' = Push(buffer, <<NEWLINE>>)
           /\ UNCHANGED <<stage, bss, name, exists, files>>

\* :wq; create_file changes nothing when the file is there.
SaveEnter == /\ stage = "edit"
             /\ buffer_line_is(buffer, SaveLine)
             /\ buffer' = buffer_drop_line(buffer)
             /\ stage' = "save"
             /\ UNCHANGED <<bss, name, exists, files>>

\* main returns.  Only what is in bss will be read again.
Off == /\ stage' = "off" /\ name' = <<>> /\ exists' = FALSE /\ buffer' = <<>>
       /\ UNCHANGED bss

\* What fs_write_file leaves: the text or, cut short or failing, nothing or what
\* was there.  main prints Saved whatever became of it.
save == /\ stage = "save"
        /\ \E contents \in {buffer, <<>>, files[name]} :
               files' = [files EXCEPT ![name] = contents]
        /\ Off

QuitEnter == /\ stage = "edit"
             /\ buffer_line_is(buffer, QuitLine)
             /\ Off
             /\ UNCHANGED files

\* gfx_open fails, or Ctrl-C outside of a save.
EditorStops == stage \in {"main", "name", "edit"} /\ Off /\ UNCHANGED files
=============================================================================
