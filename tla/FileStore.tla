----------------------------- MODULE FileStore -----------------------------
(***************************************************************************)
(* What the file operations promise a program, whatever is cut short: each *)
(* file has contents, a write empties the file and then gives it all the   *)
(* new contents or nothing, and nothing happens to the other files.        *)
(*                                                                         *)
(* A write is not atomic (fs_write_file empties the entry first), so it is *)
(* two steps here; the second may never come.  Directories are only        *)
(* counted: make_dir makes a second one of a name without complaint.       *)
(***************************************************************************)
EXTENDS Integers, Sequences

CONSTANTS Names, Buffers

Nobody == [file |-> "none", buffer |-> <<>>]

VARIABLES exists,   \* the names that have a file
          contents, \* its bytes (none where there is no file)
          dirs,     \* number of directories of each name
          writing   \* the write under way: its file and its buffer

fsvars == <<exists, contents, dirs, writing>>

Init == /\ exists = {} /\ contents = [n \in Names |-> <<>>]
        /\ dirs \in [Names -> 0..1]
        /\ \A m, n \in Names : dirs[m] = 1 /\ dirs[n] = 1 => m = n
        /\ writing = Nobody

Idle == writing = Nobody

\* Only a name that nothing has.
Create(n) == /\ Idle /\ n \notin exists /\ dirs[n] = 0
             /\ exists' = exists \cup {n}
             /\ UNCHANGED <<contents, dirs, writing>>

BeginWrite(n, b) == /\ Idle
                    /\ n \in exists \/ dirs[n] = 0
                    /\ exists' = exists \cup {n}
                    /\ contents' = [contents EXCEPT ![n] = <<>>]
                    /\ writing' = [file |-> n, buffer |-> b]
                    /\ UNCHANGED dirs

EndWrite == /\ ~Idle
            /\ contents' = [contents EXCEPT ![writing.file] = writing.buffer]
            /\ writing' = Nobody
            /\ UNCHANGED <<exists, dirs>>

\* Out of space, Ctrl-C or no power: the file stays empty.
GiveUp == /\ ~Idle
          /\ writing' = Nobody
          /\ UNCHANGED <<exists, contents, dirs>>

\* An append shows all at once.
Extend(n, b) == /\ Idle /\ n \in exists
                /\ contents' = [contents EXCEPT ![n] = @ \o b]
                /\ UNCHANGED <<exists, dirs, writing>>

MakeDir(n) == /\ Idle
              /\ dirs' = [dirs EXCEPT ![n] = @ + 1]
              /\ UNCHANGED <<exists, contents, writing>>

RemoveDir(n) == /\ Idle /\ dirs[n] > 0
                /\ dirs' = [dirs EXCEPT ![n] = @ - 1]
                /\ UNCHANGED <<exists, contents, writing>>

Next == \/ EndWrite \/ GiveUp
        \/ \E n \in Names :
              \/ Create(n) \/ MakeDir(n) \/ RemoveDir(n)
              \/ \E b \in Buffers : BeginWrite(n, b) \/ Extend(n, b)

Spec == Init /\ [][Next]_fsvars
=============================================================================
