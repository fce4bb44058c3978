---------------------------- MODULE SessionProofs ----------------------------
(***************************************************************************)
(* Proofs about Session, for lines, screens, names and texts of any length *)
(* and any letters: the row shows the line (EchoMatches), commands and     *)
(* programs get what was typed (RunsWhatIsTyped, ArgsAreTyped), and only   *)
(* a saved text reaches the disk (OnlySavedText).                          *)
(*                                                                         *)
(* The line's invariant says which cells of the two buffers the characters *)
(* typed so far are in (LineHolds); the console's, that the cursor is      *)
(* drawn where it is, and that without tabs the row is the line.           *)
(***************************************************************************)
EXTENDS Session, WellFoundedInduction, SequenceTheorems, TLAPS

-----------------------------------------------------------------------------
(* What the line and the row hold.                                         *)

Chars   == Letters \cup {SPACE}
Memory  == [Cells -> Chars \cup {NUL}]
LineRec == [command : Memory, arg : Memory, index : Cells, command_length : Cells,
            in_command : BOOLEAN]

\* The first n cells of a buffer hold the characters of the line from from on.
Carries(b, n, from) == \A i \in 1 .. n : b[i - 1] = typed[from + i]
Wordy(n) == \A i \in 1 .. n : typed[i] # SPACE

InCommand == /\ Len(typed) = line.index
             /\ Wordy(line.index) /\ Carries(line.command, line.index, 0)
             /\ line.arg[0] = NUL

InArg == /\ Len(typed) = line.command_length + 1 + line.index
         /\ Wordy(line.command_length) /\ Carries(line.command, line.command_length, 0)
         /\ typed[line.command_length + 1] = SPACE
         /\ line.command[line.command_length] = NUL
         /\ Carries(line.arg, line.index, line.command_length + 1)

LineHolds == /\ line \in LineRec /\ typed \in Seq(Chars)
             /\ IF line.in_command THEN InCommand ELSE InArg

Colours == Chars \cup {"cursor", "mess"}
Console == [x : Int, left : BOOLEAN, cells : [Screen -> Colours], drawn : Int]

\* The row of a line that is t, with the cursor behind it.
Row(t, x) == LET i == x - SCREEN_MARGIN_X
             IN  IF i <= Len(t) THEN t[i] ELSE IF i = Len(t) + 1 THEN "cursor" ELSE SPACE
Shows(c, t) == \A x \in Screen : x > SCREEN_MARGIN_X => c.cells[x] = Row(t, x)

\* Where the cursor is while the line has not left its row: a tab is four cells.
ConsoleHolds ==
    /\ console \in Console /\ tabs \in Nat
    /\ ~console.left => /\ console.x = SCREEN_MARGIN_X + 1 + Len(typed) + 4 * tabs
                        /\ console.drawn = console.x
                        /\ tabs = 0 => Shows(console, typed)

-----------------------------------------------------------------------------
(* Strings.                                                                *)

\* A set of numbers that is not empty has a least member.
LEMMA Least ==
    ASSUME NEW S, S \subseteq Nat, S # {}
    PROVE  \E m \in S : \A k \in S : m <= k
<1> DEFINE R == OpToRel(<, Nat)
<1>1. IsWellFoundedOn(R, Nat)  BY NatLessThanWellFounded
<1> HIDE DEF R
<1>2. PICK m \in S : \A k \in S : ~ (<<k, m>> \in R)  BY <1>1, WFMin
<1>3. \A k \in S : ~ (k < m)  BY <1>2 DEF R, OpToRel
<1> QED BY <1>3

\* A C string ends at its first NUL.
LEMMA CStringIs ==
    ASSUME NEW b \in Memory, NEW n \in Cells, b[n] = NUL, \A i \in 0 .. n - 1 : b[i] # NUL
    PROVE  CString(b) = [i \in 1 .. n |-> b[i - 1]]
<1> DEFINE P(i) == i \in DOMAIN b /\ b[i] = NUL /\ \A j \in 0 .. i - 1 : b[j] # NUL
<1>0. DOMAIN b = Cells /\ Cells \subseteq Nat  BY DEF Memory, Cells
<1>1. P(n)  BY <1>0
<1>2. ASSUME NEW i, P(i) PROVE i = n
  <2>1. i \in Nat /\ n \in Nat  BY <1>0, <1>2
  <2>2. ~(n < i)  BY <2>1, <1>2
  <2>3. ~(i < n)  BY <2>1, <1>2
  <2> QED BY <2>1, <2>2, <2>3
<1>3. (CHOOSE i \in DOMAIN b : b[i] = NUL /\ \A j \in 0 .. i - 1 : b[j] # NUL) = n
  BY <1>0, <1>1, <1>2
<1> QED BY <1>3 DEF CString

\* The least of some numbers, when it is known, and the greatest.
LEMMA MinIs ==
    ASSUME NEW S, S \subseteq Int, NEW m \in S, \A k \in S : m <= k
    PROVE  Min(S) = m
<1>1. \A x \in S : (\A y \in S : x =< y) => x = m  OBVIOUS
<1> QED BY <1>1 DEF Min

\* A word ends before the first space.
LEMMA FirstWordIs ==
    ASSUME NEW s \in Seq(Chars), NEW n \in 1 .. Len(s), s[n] = SPACE,
           \A i \in 1 .. n - 1 : s[i] # SPACE
    PROVE  FirstWord(s) = SubSeq(s, 1, n - 1)
<1> DEFINE spaces == {i \in DOMAIN s : s[i] = SPACE}
<1>1. DOMAIN s = 1 .. Len(s) /\ Len(s) \in Nat  OBVIOUS
<1>2. n \in spaces /\ spaces \subseteq Int  BY <1>1
<1>3. \A k \in spaces : n <= k  BY <1>1
<1> HIDE DEF spaces
<1>4. Min(spaces) = n /\ spaces # {}  BY <1>2, <1>3, MinIs
<1> QED BY <1>4 DEF FirstWord, spaces

LEMMA FirstWordAll ==
    ASSUME NEW s \in Seq(Chars), \A i \in 1 .. Len(s) : s[i] # SPACE
    PROVE  FirstWord(s) = s
<1>1. DOMAIN s = 1 .. Len(s)  OBVIOUS
<1> QED BY <1>1 DEF FirstWord

\* Skipping spaces stops at the first that is none, or at the end.
LEMMA SkipSpacesIs ==
    ASSUME NEW s \in Seq(Chars), NEW n \in 1 .. Len(s) + 1
    PROVE  \/ SkipSpaces(s, n) = <<>> /\ \A i \in n .. Len(s) : s[i] = SPACE
           \/ \E m \in n .. Len(s) : /\ SkipSpaces(s, n) = SubSeq(s, m, Len(s))
                                     /\ s[m] # SPACE
                                     /\ \A i \in n .. m - 1 : s[i] = SPACE
<1> DEFINE rest == {i \in n .. Len(s) : s[i] # SPACE}
<1>1. CASE rest = {}  BY <1>1 DEF SkipSpaces
<1>2. CASE rest # {}
  <2>1. rest \subseteq Nat  OBVIOUS
  <2>2. PICK m \in rest : \A k \in rest : m <= k
    <3> HIDE DEF rest
    <3> QED BY <1>2, <2>1, Least
  <2>3. Min(rest) = m
    <3>1. rest \subseteq Int  BY <2>1
    <3> HIDE DEF rest
    <3> QED BY <3>1, <2>2, MinIs
  <2>4. SkipSpaces(s, n) = SubSeq(s, m, Len(s))  BY <1>2, <2>3 DEF SkipSpaces
  <2>5. m \in n .. Len(s) /\ s[m] # SPACE  BY <2>2
  <2>6. ASSUME NEW i \in n .. m - 1 PROVE s[i] = SPACE
    <3>1. i \notin rest  BY <2>1, <2>2
    <3> QED BY <3>1, <2>5
  <2> QED BY <2>4, <2>5, <2>6
<1> QED BY <1>1, <1>2

\* The first n of a sequence, and those behind.
LEMMA FirstOnes ==
    ASSUME NEW C, NEW s \in Seq(C), NEW n \in 0 .. Len(s)
    PROVE  /\ SubSeq(s, 1, n) \in Seq(C) /\ Len(SubSeq(s, 1, n)) = n
           /\ \A i \in 1 .. n : SubSeq(s, 1, n)[i] = s[i]
<1>1. n \in Nat /\ 1 \in Int /\ \A i \in 1 .. n : s[i] \in C  OBVIOUS
<1>2. /\ SubSeq(s, 1, n) \in Seq(C)
      /\ Len(SubSeq(s, 1, n)) = (IF 1 <= n THEN n - 1 + 1 ELSE 0)
      /\ \A i \in 1 .. n - 1 + 1 : SubSeq(s, 1, n)[i] = s[1 + i - 1]
  BY <1>1, SubSeqProperties
<1>3. n - 1 + 1 = n /\ \A i \in 1 .. n : 1 + i - 1 = i  BY <1>1
<1>4. \A i \in 1 .. n : SubSeq(s, 1, n)[i] = s[i]  BY <1>2, <1>3
<1>5. Len(SubSeq(s, 1, n)) = n  BY <1>1, <1>2
<1> QED BY <1>2, <1>4, <1>5

LEMMA LastOnes ==
    ASSUME NEW C, NEW s \in Seq(C), NEW m \in 0 .. Len(s)
    PROVE  /\ SubSeq(s, m + 1, Len(s)) \in Seq(C) /\ Len(SubSeq(s, m + 1, Len(s))) = Len(s) - m
           /\ \A i \in 1 .. Len(s) - m : SubSeq(s, m + 1, Len(s))[i] = s[m + i]
<1> DEFINE a == m + 1
           n == Len(s)
           t == SubSeq(s, a, n)
<1>1. a \in Int /\ n \in Int /\ m \in Int /\ \A i \in a .. n : s[i] \in C  OBVIOUS
<1>2. a = m + 1 /\ m <= n  OBVIOUS
<1> HIDE DEF a, n
<1>3. /\ t \in Seq(C) /\ Len(t) = (IF a <= n THEN n - a + 1 ELSE 0)
      /\ \A i \in 1 .. n - a + 1 : t[i] = s[a + i - 1]
  BY <1>1, SubSeqProperties
<1> HIDE DEF t
<1>4. n - a + 1 = n - m /\ \A i \in 1 .. n - m : a + i - 1 = m + i  BY <1>1, <1>2
<1>5. Len(t) = n - m  BY <1>1, <1>2, <1>3
<1>6. \A i \in 1 .. n - m : t[i] = s[m + i]  BY <1>3, <1>4
<1> QED BY <1>3, <1>5, <1>6 DEF t, a, n

\* A key taken back.
LEMMA Shorter ==
    ASSUME typed \in Seq(Chars), Len(typed) > 0, typed' = SubSeq(typed, 1, Len(typed) - 1)
    PROVE  /\ typed' \in Seq(Chars) /\ Len(typed') = Len(typed) - 1
           /\ \A j \in 1 .. Len(typed) - 1 : typed'[j] = typed[j]
<1>1. Len(typed) - 1 \in 0 .. Len(typed)  OBVIOUS
<1> QED BY <1>1, FirstOnes

-----------------------------------------------------------------------------
(* The line under every key.                                               *)

LEMMA CellsAre == /\ LineCapacity \in Nat /\ Cells \subseteq Nat /\ 0 \in Cells
                  /\ \A i \in Cells : i < LineCapacity
                  /\ \A i \in Nat : i < LineCapacity => i \in Cells
BY LineAssumption DEF Cells

LEMMA NoSuchChar == NUL \notin Chars /\ SPACE \in Chars /\ NUL # SPACE /\ SPACE \notin Letters
BY LineAssumption DEF Chars, NUL, SPACE

LEMMA ResetIs ==
    ASSUME NEW l \in LineRec
    PROVE  /\ line_reset(l) \in LineRec
           /\ line_reset(l).index = 0 /\ line_reset(l).in_command
           /\ line_reset(l).arg[0] = NUL
<1> DEFINE c == [l.command EXCEPT ![0] = NUL]
           a == [l.arg EXCEPT ![0] = NUL]
<1>1. l.command \in Memory /\ l.arg \in Memory  BY DEF LineRec
<1>2. c \in Memory /\ a \in Memory /\ a[0] = NUL  BY <1>1, CellsAre DEF Memory
<1>3. line_reset(l) = [l EXCEPT !.index = 0, !.command_length = 0, !.in_command = TRUE,
                                !.command = c, !.arg = a]
  BY DEF line_reset
<1> HIDE DEF c, a
<1> QED BY <1>2, <1>3, CellsAre DEF LineRec

LEMMA LineFresh == ASSUME line \in LineRec, NewLine PROVE LineHolds'
<1>1. line' = line_reset(line) /\ typed' = <<>>  BY DEF NewLine
<1>2. line' \in LineRec /\ line'.index = 0 /\ line'.in_command /\ line'.arg[0] = NUL
  BY <1>1, ResetIs
<1>3. typed' \in Seq(Chars) /\ Len(typed') = 0  BY <1>1
<1> QED BY <1>2, <1>3 DEF LineHolds, InCommand, Wordy, Carries

LEMMA LineInit0 == LineInit => LineHolds
<1> SUFFICES ASSUME LineInit PROVE LineHolds  OBVIOUS
<1>1. PICK g \in Letters :
        line = line_reset([command |-> [i \in Cells |-> g], arg |-> [i \in Cells |-> g],
                           index |-> 0, command_length |-> 0, in_command |-> TRUE])
  BY DEF LineInit
<1> DEFINE l == [command |-> [i \in Cells |-> g], arg |-> [i \in Cells |-> g],
                 index |-> 0, command_length |-> 0, in_command |-> TRUE]
<1>2. l \in LineRec  BY CellsAre DEF LineRec, Memory, Chars
<1>3. line = line_reset(l)  BY <1>1
<1> HIDE DEF l
<1>4. line \in LineRec /\ line.index = 0 /\ line.in_command /\ line.arg[0] = NUL
  BY <1>2, <1>3, ResetIs
<1>5. typed \in Seq(Chars) /\ Len(typed) = 0  BY DEF LineInit
<1> QED BY <1>4, <1>5 DEF LineHolds, InCommand, Wordy, Carries

\* The target's next cell takes the character, the one after it the NUL.
LEMMA LineAppend ==
    ASSUME LineHolds, NEW ch \in Chars, line.in_command => ch # SPACE, line_append(ch)
    PROVE  LineHolds'
<1> DEFINE i == line.index
           t == [line_target(line) EXCEPT ![i] = ch, ![i + 1] = NUL]
<1>0. /\ line.command \in Memory /\ line.arg \in Memory /\ i \in Cells
      /\ line.command_length \in Cells /\ line.in_command \in BOOLEAN
  BY DEF LineHolds, LineRec
<1>1. i \in Nat /\ i + 1 \in Cells /\ i # i + 1 /\ line.command_length \in Nat
  BY <1>0, CellsAre DEF line_append
<1>2. t \in Memory  BY <1>0, <1>1 DEF Memory, line_target
<1>3. /\ t[i] = ch
      /\ \A j \in Cells : j < i => t[j] = line_target(line)[j]
  BY <1>0, <1>1, CellsAre DEF Memory, line_target
<1>4. line' = [Refill(line, t) EXCEPT !.index = i + 1]
  <2>1. line' = [Refill(line, t) EXCEPT !.index = Refill(line, t).index + 1]  BY DEF line_append
  <2>2. Refill(line, t).index = i
    <3> HIDE DEF t
    <3> QED BY DEF Refill, LineHolds, LineRec
  <2> QED BY <2>1, <2>2
<1>5. typed' = Append(typed, ch) /\ typed \in Seq(Chars)  BY DEF line_append, LineHolds
<1>6. /\ typed' \in Seq(Chars) /\ Len(typed') = Len(typed) + 1 /\ Len(typed) \in Nat
      /\ typed'[Len(typed) + 1] = ch
      /\ \A j \in 1 .. Len(typed) : typed'[j] = typed[j]
  BY <1>5
<1> HIDE DEF i, t
<1>7. line' \in LineRec  BY <1>0, <1>1, <1>2, <1>4 DEF Refill, LineRec, LineHolds
<1>8. CASE line.in_command
  <2>1. line'.command = t /\ line'.arg = line.arg /\ line'.index = i + 1 /\ line'.in_command
    BY <1>4, <1>8 DEF Refill, LineHolds, LineRec
  <2>2. InCommand  BY <1>8 DEF LineHolds
  <2>3. Len(typed) = i  BY <2>2 DEF InCommand, i
  <2>4. Len(typed') = line'.index /\ line'.arg[0] = NUL  BY <2>1, <2>2, <2>3, <1>6 DEF InCommand
  <2>5. ASSUME NEW j \in 1 .. i + 1 PROVE typed'[j] # SPACE /\ t[j - 1] = typed'[j]
    <3>1. CASE j = i + 1  BY <3>1, <2>3, <1>3, <1>6, <1>8, <1>1
    <3>2. CASE j \in 1 .. i
      <4>1. j - 1 \in Cells /\ j - 1 < i  BY <3>2, <1>0, <1>1, CellsAre
      <4>2. line.command[j - 1] = typed[0 + j] /\ typed[j] # SPACE
        BY <2>2, <3>2 DEF InCommand, Wordy, Carries, i
      <4> QED BY <4>1, <4>2, <1>3, <1>6, <2>3, <3>2, <1>8 DEF line_target
    <3> QED BY <3>1, <3>2, <1>1
  <2> QED BY <1>6, <1>7, <2>1, <2>4, <2>5 DEF LineHolds, InCommand, Wordy, Carries
<1>9. CASE ~line.in_command
  <2> DEFINE n == line.command_length
  <2>1. /\ line'.command = line.command /\ line'.arg = t /\ line'.index = i + 1
        /\ ~line'.in_command /\ line'.command_length = n
    BY <1>4, <1>9 DEF Refill, LineHolds, LineRec
  <2>2. InArg  BY <1>9 DEF LineHolds
  <2>3. Len(typed) = n + 1 + i /\ n \in Nat  BY <2>2, <1>1 DEF InArg, i
  <2>4. Len(typed') = n + 1 + line'.index
    <3> HIDE DEF n
    <3> QED BY <2>1, <2>3, <1>6, <1>1
  <2>5. /\ \A j \in 1 .. n : typed'[j] # SPACE /\ line.command[j - 1] = typed'[j]
        /\ typed'[n + 1] = SPACE /\ line.command[n] = NUL
    <3>1. \A j \in 1 .. n + 1 : typed'[j] = typed[j]  BY <2>3, <1>1, <1>6
    <3>2. \A j \in 1 .. n : typed[j] # SPACE /\ line.command[j - 1] = typed[0 + j]
      BY <2>2 DEF InArg, Wordy, Carries
    <3> QED BY <2>2, <2>3, <3>1, <3>2 DEF InArg
  <2>6. ASSUME NEW j \in 1 .. i + 1 PROVE t[j - 1] = typed'[n + 1 + j]
    <3>1. CASE j = i + 1  BY <3>1, <2>3, <1>3, <1>6, <1>1
    <3>2. CASE j \in 1 .. i
      <4>1. j - 1 \in Cells /\ j - 1 < i  BY <3>2, <1>0, <1>1, CellsAre
      <4>2. line.arg[j - 1] = typed[n + 1 + j]  BY <2>2, <3>2 DEF InArg, Carries, i
      <4>3. n + 1 + j \in 1 .. Len(typed)  BY <2>3, <3>2, <1>1
      <4> QED BY <4>1, <4>2, <4>3, <1>3, <1>6, <1>9 DEF line_target
    <3> QED BY <3>1, <3>2, <1>1
  <2> HIDE DEF n
  <2> QED BY <1>6, <1>7, <2>1, <2>4, <2>5, <2>6 DEF LineHolds, InArg, Wordy, Carries, n
<1> QED BY <1>8, <1>9

LEMMA LineSpace == ASSUME LineHolds, line_space PROVE LineHolds'
<1> DEFINE i == line.index
<1>0. /\ line.command \in Memory /\ line.arg \in Memory /\ i \in Cells /\ i \in Nat
      /\ line.in_command
  BY CellsAre DEF LineHolds, LineRec, line_space
<1>1. /\ line'.command = [line.command EXCEPT ![i] = NUL]
      /\ line'.arg = [line.arg EXCEPT ![0] = NUL]
      /\ line'.index = 0 /\ line'.command_length = i /\ ~line'.in_command
      /\ line' \in LineRec
  BY <1>0, CellsAre DEF line_space, LineHolds, LineRec, Memory
<1>2. InCommand  BY <1>0 DEF LineHolds
<1>3. typed' = Append(typed, SPACE) /\ typed \in Seq(Chars) /\ Len(typed) = i
  BY <1>2 DEF line_space, LineHolds, InCommand
<1> HIDE DEF i
<1>4. /\ typed' \in Seq(Chars) /\ Len(typed') = i + 1 /\ typed'[i + 1] = SPACE
      /\ \A j \in 1 .. i : typed'[j] = typed[j]
  BY <1>0, <1>3, NoSuchChar
<1>5. line'.command[i] = NUL /\ \A j \in 1 .. i : line'.command[j - 1] = typed[j]
  <2>1. ASSUME NEW j \in 1 .. i PROVE line'.command[j - 1] = typed[j]
    <3>1. j - 1 \in Cells /\ j - 1 # i  BY <1>0, CellsAre
    <3>2. line.command[j - 1] = typed[0 + j]  BY <1>2 DEF InCommand, Carries, i
    <3> QED BY <1>0, <1>1, <3>1, <3>2 DEF Memory
  <2> QED BY <1>0, <1>1, <2>1 DEF Memory
<1>6. \A j \in 1 .. i : typed[j] # SPACE  BY <1>2 DEF InCommand, Wordy, i
<1> QED BY <1>0, <1>1, <1>4, <1>5, <1>6 DEF LineHolds, InArg, Wordy, Carries

LEMMA LineBackChar ==
    ASSUME LineHolds, BackspaceChar
    PROVE  LineHolds' /\ Len(typed) > 0
<1> DEFINE i == line.index - 1
           t == [line_target(line) EXCEPT ![i] = NUL]
<1>0. /\ line.command \in Memory /\ line.arg \in Memory /\ line.index \in Cells
      /\ line.command_length \in Cells /\ line.in_command \in BOOLEAN
      /\ typed \in Seq(Chars)
  BY DEF LineHolds, LineRec
<1>1. i \in Nat /\ i \in Cells /\ line.index = i + 1 /\ line.command_length \in Nat
  BY <1>0, CellsAre DEF BackspaceChar
<1>2. t \in Memory /\ \A j \in Cells : j < i => t[j] = line_target(line)[j]
  BY <1>0, <1>1, CellsAre DEF Memory, line_target
<1>3. line' = [Refill(line, t) EXCEPT !.index = i]
  <2>1. line' = [Refill(line, t) EXCEPT !.index = Refill(line, t).index - 1]
    BY DEF BackspaceChar
  <2>2. Refill(line, t).index = line.index
    <3> HIDE DEF t
    <3> QED BY DEF Refill, LineHolds, LineRec
  <2> QED BY <2>1, <2>2
<1>4. typed' = SubSeq(typed, 1, Len(typed) - 1)  BY DEF BackspaceChar, TakeBack
<1> HIDE DEF i, t
<1>5. line' \in LineRec  BY <1>0, <1>1, <1>2, <1>3 DEF Refill, LineRec, LineHolds
<1>6. CASE line.in_command
  <2>1. line'.command = t /\ line'.arg = line.arg /\ line'.index = i /\ line'.in_command
    BY <1>3, <1>6 DEF Refill, LineHolds, LineRec
  <2>2. InCommand  BY <1>6 DEF LineHolds
  <2>3. Len(typed) = i + 1  BY <2>2, <1>1 DEF InCommand
  <2>4. /\ typed' \in Seq(Chars) /\ Len(typed') = i
        /\ \A j \in 1 .. i : typed'[j] = typed[j]
    BY <1>0, <1>1, <1>4, <2>3, Shorter
  <2>5. ASSUME NEW j \in 1 .. i PROVE typed'[j] # SPACE /\ t[j - 1] = typed'[j]
    <3>1. j - 1 \in Cells /\ j - 1 < i /\ j \in 1 .. i + 1  BY <1>0, <1>1, CellsAre
    <3>2. line.command[j - 1] = typed[0 + j] /\ typed[j] # SPACE
      BY <2>2, <3>1, <1>1 DEF InCommand, Wordy, Carries
    <3> QED BY <3>1, <3>2, <1>2, <2>4, <1>6 DEF line_target
  <2>6. line'.arg[0] = NUL  BY <2>1, <2>2 DEF InCommand
  <2> QED BY <1>1, <1>5, <2>1, <2>3, <2>4, <2>5, <2>6 DEF LineHolds, InCommand, Wordy, Carries
<1>7. CASE ~line.in_command
  <2> DEFINE n == line.command_length
  <2>1. /\ line'.command = line.command /\ line'.arg = t /\ line'.index = i
        /\ ~line'.in_command /\ line'.command_length = n
    BY <1>3, <1>7 DEF Refill, LineHolds, LineRec
  <2>2. InArg  BY <1>7 DEF LineHolds
  <2>3. Len(typed) = n + 1 + (i + 1) /\ n \in Nat  BY <2>2, <1>1 DEF InArg
  <2>4. typed[n + 1] = SPACE /\ line.command[n] = NUL  BY <2>2 DEF InArg
  <2>5. \A j \in 1 .. n : typed[j] # SPACE /\ line.command[j - 1] = typed[0 + j]
    BY <2>2 DEF InArg, Wordy, Carries
  <2>6. \A j \in 1 .. i + 1 : line.arg[j - 1] = typed[n + 1 + j]
    BY <2>2, <1>1 DEF InArg, Carries
  <2> HIDE DEF n
  <2>7. /\ typed' \in Seq(Chars) /\ Len(typed') = n + 1 + i
        /\ \A j \in 1 .. n + 1 + i : typed'[j] = typed[j]
    <3>1. Len(typed) > 0 /\ Len(typed) - 1 = n + 1 + i  BY <1>1, <2>3
    <3> QED BY <1>0, <1>4, <3>1, Shorter
  <2>8. /\ typed'[n + 1] = SPACE
        /\ \A j \in 1 .. n : typed'[j] # SPACE /\ line.command[j - 1] = typed'[0 + j]
    BY <1>1, <2>3, <2>4, <2>5, <2>7
  <2>9. ASSUME NEW j \in 1 .. i PROVE t[j - 1] = typed'[n + 1 + j]
    <3>1. j - 1 \in Cells /\ j - 1 < i /\ j \in 1 .. i + 1  BY <1>0, <1>1, CellsAre
    <3>2. n + 1 + j \in 1 .. n + 1 + i  BY <1>1, <2>3
    <3> QED BY <2>6, <3>1, <3>2, <1>2, <2>7, <1>7 DEF line_target
  <2> QED BY <1>1, <1>5, <2>1, <2>3, <2>4, <2>7, <2>8, <2>9
          DEF LineHolds, InArg, Wordy, Carries
<1> QED BY <1>0, <1>6, <1>7

LEMMA LineBackSpace ==
    ASSUME LineHolds, BackspaceSpace
    PROVE  LineHolds' /\ Len(typed) > 0
<1> DEFINE n == line.command_length
<1>0. /\ line.command \in Memory /\ line.arg \in Memory /\ n \in Cells /\ n \in Nat
      /\ line.index = 0 /\ ~line.in_command /\ typed \in Seq(Chars)
  BY CellsAre DEF LineHolds, LineRec, BackspaceSpace
<1>1. /\ line'.command = [line.command EXCEPT ![n] = NUL]
      /\ line'.arg = [line.arg EXCEPT ![0] = NUL]
      /\ line'.index = n /\ line'.in_command /\ line' \in LineRec
  BY <1>0, CellsAre DEF BackspaceSpace, LineHolds, LineRec, Memory
<1>2. InArg  BY <1>0 DEF LineHolds
<1>3. Len(typed) = n + 1  BY <1>0, <1>2 DEF InArg
<1>4. \A j \in 1 .. n : typed[j] # SPACE /\ line.command[j - 1] = typed[0 + j]
  BY <1>2 DEF InArg, Wordy, Carries
<1>5. typed' = SubSeq(typed, 1, Len(typed) - 1)  BY DEF BackspaceSpace, TakeBack
<1> HIDE DEF n
<1>6. /\ typed' \in Seq(Chars) /\ Len(typed') = n
      /\ \A j \in 1 .. n : typed'[j] = typed[j]
  <2>1. Len(typed) > 0 /\ Len(typed) - 1 = n  BY <1>0, <1>3
  <2> QED BY <1>0, <1>5, <2>1, Shorter
<1>7. ASSUME NEW j \in 1 .. n PROVE typed'[j] # SPACE /\ line'.command[j - 1] = typed'[0 + j]
  <2>1. j - 1 \in Cells /\ j - 1 # n  BY <1>0, CellsAre
  <2>2. line'.command[j - 1] = line.command[j - 1]  BY <1>0, <1>1, <2>1 DEF Memory
  <2> QED BY <1>4, <1>6, <2>2
<1>8. line'.arg[0] = NUL  BY <1>0, <1>1, CellsAre DEF Memory
<1>9. Len(typed) > 0  BY <1>0, <1>3
<1> QED BY <1>1, <1>6, <1>7, <1>8, <1>9 DEF LineHolds, InCommand, Wordy, Carries

LEMMA LineTyping == ASSUME LineHolds, Typing PROVE LineHolds'
<1>1. ASSUME NEW ch \in Letters, line_append(ch) PROVE LineHolds'
  BY <1>1, LineAppend, NoSuchChar DEF Chars
<1>2. CASE line_space  BY <1>2, LineSpace
<1>3. CASE ~line.in_command /\ line_append(SPACE)  BY <1>3, LineAppend, NoSuchChar
<1>4. CASE line_tab
  BY <1>4 DEF line_tab, LineHolds, InCommand, InArg, Wordy, Carries
<1>5. CASE BackspaceChar  BY <1>5, LineBackChar
<1>6. CASE BackspaceSpace  BY <1>6, LineBackSpace
<1> QED BY <1>1, <1>2, <1>3, <1>4, <1>5, <1>6 DEF Typing

-----------------------------------------------------------------------------
(* What Enter makes of the line.                                           *)

LEMMA SubmittedIs ==
    ASSUME LineHolds
    PROVE  /\ Submitted \in LineRec
           /\ Submitted.in_command = line.in_command /\ Submitted.index = line.index
           /\ Submitted.command_length = line.command_length
           /\ line.in_command => /\ Submitted.command = [line.command EXCEPT ![line.index] = NUL]
                                 /\ Submitted.arg = line.arg
           /\ ~line.in_command => /\ Submitted.arg = [line.arg EXCEPT ![line.index] = NUL]
                                  /\ Submitted.command = line.command
<1> DEFINE t == [line_target(line) EXCEPT ![line.index] = NUL]
<1>1. t \in Memory  BY DEF LineHolds, LineRec, Memory, line_target
<1>2. Submitted = Refill(line, t)  BY DEF Submitted
<1>3. /\ line.in_command => t = [line.command EXCEPT ![line.index] = NUL]
      /\ ~line.in_command => t = [line.arg EXCEPT ![line.index] = NUL]
  BY DEF line_target
<1> HIDE DEF t
<1> QED BY <1>1, <1>2, <1>3 DEF LineHolds, LineRec, Refill

\* A buffer whose first n cells are characters, with NUL behind them.
LEMMA Ended ==
    ASSUME LineHolds, NEW b \in Memory, NEW n \in Cells, NEW from \in Nat,
           from + n <= Len(typed), b[n] = NUL, Carries(b, n, from)
    PROVE  CString(b) = [i \in 1 .. n |-> typed[from + i]]
<1>1. typed \in Seq(Chars) /\ n \in Nat  BY CellsAre DEF LineHolds
<1>2. ASSUME NEW j \in 0 .. n - 1 PROVE b[j] # NUL
  <2>1. j + 1 \in 1 .. n /\ (j + 1) - 1 = j  BY <1>1
  <2>2. b[j] = typed[from + (j + 1)]  BY <2>1 DEF Carries
  <2>3. from + (j + 1) \in 1 .. Len(typed)  BY <1>1, <2>1
  <2> QED BY <1>1, <2>2, <2>3, NoSuchChar
<1>3. CString(b) = [i \in 1 .. n |-> b[i - 1]]  BY <1>2, CStringIs
<1> QED BY <1>3 DEF Carries

\* Before the first space: the line is the command.
LEMMA CommandIs ==
    ASSUME LineHolds, line.in_command
    PROVE  /\ \A i \in 1 .. Len(typed) : typed[i] # SPACE
           /\ Command = typed /\ Argument = <<>>
<1> DEFINE s == Submitted
           n == line.index
<1>1. /\ InCommand /\ typed \in Seq(Chars) /\ line.command \in Memory /\ line.arg \in Memory
      /\ n \in Cells /\ n \in Nat
  BY CellsAre DEF LineHolds, LineRec
<1>2. s.command = [line.command EXCEPT ![n] = NUL] /\ s.arg = line.arg  BY SubmittedIs
<1>3. s.command \in Memory /\ s.command[n] = NUL  BY <1>1, <1>2 DEF Memory
<1>4. Len(typed) = n /\ Wordy(n) /\ line.arg[0] = NUL  BY <1>1 DEF InCommand
<1>5. Carries(s.command, n, 0)
  <2> SUFFICES ASSUME NEW i \in 1 .. n PROVE s.command[i - 1] = typed[0 + i]  BY DEF Carries
  <2>1. i - 1 \in Cells /\ i - 1 # n  BY <1>1, CellsAre
  <2>2. line.command[i - 1] = typed[0 + i]  BY <1>1 DEF InCommand, Carries
  <2> QED BY <1>1, <1>2, <2>1, <2>2 DEF Memory
<1> HIDE DEF s, n
<1>6. CString(s.command) = [i \in 1 .. n |-> typed[0 + i]]
  <2>1. 0 + n <= Len(typed)  BY <1>1, <1>4
  <2> QED BY <1>1, <1>3, <1>5, <2>1, Ended
<1>7. [i \in 1 .. n |-> typed[0 + i]] = typed
  <2>1. \A i \in 1 .. n : 0 + i = i  OBVIOUS
  <2>2. typed = [i \in 1 .. n |-> typed[i]]  BY <1>1, <1>4
  <2> QED BY <2>1, <2>2
<1>8. CString(s.arg) = [i \in 1 .. 0 |-> typed[0 + i]]
  <2>1. Carries(line.arg, 0, 0) /\ 0 + 0 <= Len(typed)  BY <1>1 DEF Carries
  <2> QED BY <1>1, <1>2, <1>4, <2>1, CellsAre, Ended
<1>9. [i \in 1 .. 0 |-> typed[0 + i]] = <<>>  OBVIOUS
<1> QED BY <1>4, <1>6, <1>7, <1>8, <1>9 DEF Wordy, Command, Argument, s

\* Behind it: the command, a space, and the argument.
LEMMA ArgumentIs ==
    ASSUME LineHolds, ~line.in_command
    PROVE  \E n \in Nat :
              /\ n + 1 <= Len(typed) /\ typed[n + 1] = SPACE
              /\ \A i \in 1 .. n : typed[i] # SPACE
              /\ Command \in Seq(Chars) /\ Len(Command) = n
              /\ Argument \in Seq(Chars) /\ Len(Argument) = Len(typed) - (n + 1)
              /\ \A i \in 1 .. n : Command[i] = typed[i]
              /\ \A i \in 1 .. Len(typed) - (n + 1) : Argument[i] = typed[n + 1 + i]
<1> DEFINE s == Submitted
           n == line.command_length
           k == line.index
<1>1. /\ InArg /\ typed \in Seq(Chars) /\ line.command \in Memory /\ line.arg \in Memory
      /\ n \in Cells /\ n \in Nat /\ k \in Cells /\ k \in Nat
  BY CellsAre DEF LineHolds, LineRec
<1>2. s.arg = [line.arg EXCEPT ![k] = NUL] /\ s.command = line.command  BY SubmittedIs
<1>3. s.arg \in Memory /\ s.arg[k] = NUL  BY <1>1, <1>2 DEF Memory
<1>4. /\ Len(typed) = n + 1 + k /\ Wordy(n) /\ Carries(line.command, n, 0)
      /\ typed[n + 1] = SPACE /\ line.command[n] = NUL
  BY <1>1 DEF InArg
<1>5. Carries(s.arg, k, n + 1)
  <2> SUFFICES ASSUME NEW i \in 1 .. k PROVE s.arg[i - 1] = typed[n + 1 + i]  BY DEF Carries
  <2>1. i - 1 \in Cells /\ i - 1 # k  BY <1>1, CellsAre
  <2>2. line.arg[i - 1] = typed[n + 1 + i]  BY <1>1 DEF InArg, Carries
  <2>3. s.arg[i - 1] = line.arg[i - 1]  BY <1>1, <1>2, <2>1 DEF Memory
  <2> QED BY <2>2, <2>3
<1> HIDE DEF s, n, k
<1>6. CString(s.command) = [i \in 1 .. n |-> typed[0 + i]]
  <2>1. 0 + n <= Len(typed)  BY <1>1, <1>4
  <2> QED BY <1>1, <1>2, <1>4, <2>1, Ended
<1>7. CString(s.arg) = [i \in 1 .. k |-> typed[n + 1 + i]]
  <2> DEFINE m == n + 1
  <2>1. m + k <= Len(typed) /\ m \in Nat  BY <1>1, <1>4
  <2>2. Carries(s.arg, k, m)  BY <1>5
  <2> HIDE DEF m
  <2>3. CString(s.arg) = [i \in 1 .. k |-> typed[m + i]]  BY <1>1, <1>3, <2>1, <2>2, Ended
  <2> QED BY <2>3 DEF m
<1>8. Command = [i \in 1 .. n |-> typed[0 + i]] /\ Argument = [i \in 1 .. k |-> typed[n + 1 + i]]
  BY <1>6, <1>7 DEF Command, Argument, s
<1>9. /\ Len(typed) - (n + 1) = k /\ n + 1 <= Len(typed)
      /\ \A i \in 1 .. n : 0 + i = i /\ typed[i] \in Chars
      /\ \A i \in 1 .. k : typed[n + 1 + i] \in Chars
  BY <1>1, <1>4
<1>10. Command \in Seq(Chars) /\ Len(Command) = n /\ \A i \in 1 .. n : Command[i] = typed[i]
  BY <1>1, <1>8, <1>9
<1>11. /\ Argument \in Seq(Chars) /\ Len(Argument) = k
       /\ \A i \in 1 .. k : Argument[i] = typed[n + 1 + i]
  BY <1>1, <1>8, <1>9
<1> QED BY <1>1, <1>4, <1>9, <1>10, <1>11 DEF Wordy

\* RunsWhatIsTyped follows from where the characters are.
LEMMA WhatRuns == ASSUME LineHolds PROVE RunsWhatIsTyped
<1>0. typed \in Seq(Chars) /\ DOMAIN typed = 1 .. Len(typed) /\ Len(typed) \in Nat
  BY DEF LineHolds
<1>1. CASE line.in_command  BY <1>0, <1>1, CommandIs DEF RunsWhatIsTyped
<1>2. CASE ~line.in_command
  <2>1. PICK n \in Nat :
              /\ n + 1 <= Len(typed) /\ typed[n + 1] = SPACE
              /\ \A i \in 1 .. n : typed[i] # SPACE
              /\ Command \in Seq(Chars) /\ Len(Command) = n
              /\ Argument \in Seq(Chars) /\ Len(Argument) = Len(typed) - (n + 1)
              /\ \A i \in 1 .. n : Command[i] = typed[i]
              /\ \A i \in 1 .. Len(typed) - (n + 1) : Argument[i] = typed[n + 1 + i]
    BY <1>2, ArgumentIs
  <2>2. ~ \A i \in DOMAIN typed : typed[i] # SPACE
    <3>1. n + 1 \in DOMAIN typed  BY <1>0, <2>1
    <3> QED BY <2>1, <3>1
  <2>3. Command = FirstWord(typed)
    <3> DEFINE w == SubSeq(typed, 1, n)
    <3>1. FirstWord(typed) = w
      <4> DEFINE m == n + 1
      <4>1. m \in 1 .. Len(typed) /\ typed[m] = SPACE /\ m - 1 = n  BY <1>0, <2>1
      <4>2. \A i \in 1 .. m - 1 : typed[i] # SPACE  BY <2>1, <4>1
      <4> HIDE DEF m
      <4>3. FirstWord(typed) = SubSeq(typed, 1, m - 1)  BY <1>0, <4>1, <4>2, FirstWordIs
      <4> QED BY <4>1, <4>3
    <3>2. w \in Seq(Chars) /\ Len(w) = n /\ \A i \in 1 .. n : w[i] = typed[i]
      BY <1>0, <2>1, FirstOnes
    <3> HIDE DEF w
    <3>3. Len(Command) = Len(w) /\ \A i \in 1 .. Len(Command) : Command[i] = w[i]
      BY <2>1, <3>2
    <3>4. Command = w  BY <2>1, <3>2, <3>3, SeqEqual
    <3> QED BY <3>1, <3>4
  <2>4. Argument = SubSeq(typed, Len(Command) + 2, Len(typed))
    <3> DEFINE w == SubSeq(typed, n + 1 + 1, Len(typed))
    <3>1. /\ w \in Seq(Chars) /\ Len(w) = Len(typed) - (n + 1)
          /\ \A i \in 1 .. Len(typed) - (n + 1) : w[i] = typed[n + 1 + i]
      <4>1. n + 1 \in 0 .. Len(typed)  BY <1>0, <2>1
      <4> QED BY <1>0, <4>1, LastOnes
    <3>2. Len(Command) + 2 = n + 1 + 1  BY <2>1
    <3> HIDE DEF w
    <3>3. Len(Argument) = Len(w) /\ \A i \in 1 .. Len(Argument) : Argument[i] = w[i]
      BY <2>1, <3>1
    <3>4. Argument = w  BY <2>1, <3>1, <3>3, SeqEqual
    <3> QED BY <3>2, <3>4 DEF w
  <2> QED BY <2>2, <2>3, <2>4 DEF RunsWhatIsTyped
<1> QED BY <1>1, <1>2

-----------------------------------------------------------------------------
(* The console.                                                            *)

LEMMA PaintIs ==
    ASSUME NEW c \in Console, NEW x \in Int, NEW what \in Colours
    PROVE  LET p == Paint(c, x, what)
           IN  /\ p \in Console /\ p.x = c.x /\ p.left = c.left /\ p.drawn = c.drawn
               /\ ~c.left => \A y \in Screen : p.cells[y] = IF y = x THEN what ELSE c.cells[y]
BY DEF Paint, Console

LEMMA MoveIs ==
    ASSUME NEW c \in Console, NEW dx \in Int
    PROVE  LET m == Move(c, dx)
           IN  m \in Console /\ m.x = c.x + dx /\ m.left = c.left /\ m.drawn = c.drawn
               /\ m.cells = c.cells
BY DEF Move, Console

LEMMA SpaceColour == SPACE \in Colours /\ "cursor" \in Colours /\ "mess" \in Colours
                     /\ Chars \subseteq Colours
BY DEF Colours, Chars

LEMMA EraseIs ==
    ASSUME NEW c \in Console
    PROVE  LET e == erase_cursor(c)
           IN  /\ e \in Console /\ e.x = c.x /\ e.left = c.left /\ e.drawn < 0
               /\ ~c.left => \A y \in Screen : e.cells[y] = IF y = c.drawn THEN SPACE ELSE c.cells[y]
<1> DEFINE p == Paint(c, c.drawn, SPACE)
<1>0. c.drawn \in Int /\ \A y \in Screen : y >= 0  BY DEF Console, Screen
<1>1. /\ p \in Console /\ p.x = c.x /\ p.left = c.left /\ p.drawn = c.drawn
      /\ ~c.left => \A y \in Screen : p.cells[y] = IF y = c.drawn THEN SPACE ELSE c.cells[y]
  BY <1>0, PaintIs, SpaceColour
<1> HIDE DEF p
<1>2. CASE c.drawn < 0
  <2>1. erase_cursor(c) = c  BY <1>2 DEF erase_cursor
  <2>2. \A y \in Screen : y # c.drawn  BY <1>0, <1>2
  <2> QED BY <1>2, <2>1, <2>2
<1>3. CASE ~(c.drawn < 0)
  <2>1. erase_cursor(c) = [p EXCEPT !.drawn = -1]  BY <1>3 DEF erase_cursor, p
  <2> DEFINE e == [p EXCEPT !.drawn = -1]
  <2>2. e \in Console /\ e.x = p.x /\ e.left = p.left /\ e.drawn = -1 /\ e.cells = p.cells
    BY <1>1 DEF Console
  <2> HIDE DEF e
  <2> QED BY <1>1, <2>1, <2>2 DEF e
<1> QED BY <1>2, <1>3

LEMMA UpdateIs ==
    ASSUME NEW c \in Console
    PROVE  LET u == update_cursor(c)
           IN  /\ u \in Console /\ u.x = c.x /\ u.left = c.left /\ u.drawn = c.x
               /\ ~c.left => \A y \in Screen : u.cells[y] = IF y = c.x THEN "cursor"
                                                            ELSE IF y = c.drawn THEN SPACE
                                                            ELSE c.cells[y]
<1> DEFINE e == erase_cursor(c)
           p == Paint(e, c.x, "cursor")
           u == [p EXCEPT !.drawn = c.x]
<1>0. c.x \in Int  BY DEF Console
<1>1. /\ e \in Console /\ e.x = c.x /\ e.left = c.left
      /\ ~c.left => \A y \in Screen : e.cells[y] = IF y = c.drawn THEN SPACE ELSE c.cells[y]
  BY EraseIs
<1> HIDE DEF e
<1>2. /\ p \in Console /\ p.x = e.x /\ p.left = e.left
      /\ ~e.left => \A y \in Screen : p.cells[y] = IF y = c.x THEN "cursor" ELSE e.cells[y]
  BY <1>0, <1>1, PaintIs, SpaceColour
<1> HIDE DEF p
<1>3. u \in Console /\ u.x = p.x /\ u.left = p.left /\ u.drawn = c.x /\ u.cells = p.cells
  BY <1>0, <1>2 DEF Console
<1>4. update_cursor(c) = u  BY DEF update_cursor, u, p, e
<1> HIDE DEF u
<1> QED BY <1>1, <1>2, <1>3, <1>4

LEMMA PrintIs ==
    ASSUME NEW c \in Console, NEW ch \in Chars
    PROVE  LET p == print_char(c, ch)
           IN  /\ p \in Console /\ (c.left => p.left)
               /\ ~p.left /\ SCREEN_MARGIN_X <= c.x /\ c.drawn = c.x =>
                      /\ p.x = c.x + 1 /\ p.drawn < 0
                      /\ \A y \in Screen : p.cells[y] = IF y = c.x THEN ch ELSE c.cells[y]
<1> DEFINE e == erase_cursor(c)
           right == IF e.x < SCREEN_MARGIN_X THEN [e EXCEPT !.x = SCREEN_MARGIN_X] ELSE e
           q == IF right.x < Columns THEN right
                ELSE [right EXCEPT !.x = SCREEN_MARGIN_X, !.left = TRUE, !.cells = Blank]
           o == Overlay(q, q.x, ch)
<1>1. /\ e \in Console /\ e.x = c.x /\ e.left = c.left /\ e.drawn < 0
      /\ ~c.left => \A y \in Screen : e.cells[y] = IF y = c.drawn THEN SPACE ELSE c.cells[y]
  BY EraseIs
<1> HIDE DEF e
<1>2. /\ right \in Console /\ right.left = e.left
      /\ SCREEN_MARGIN_X <= c.x => right = e
  BY <1>1 DEF Console, SCREEN_MARGIN_X
<1> HIDE DEF right
<1>3. Columns \in Int /\ right.x \in Int  BY <1>2, LineAssumption DEF Console
<1>4. /\ q \in Console /\ (c.left => q.left)
      /\ ~q.left => q = right /\ right.x < Columns
  <2>1. Blank \in [Screen -> Colours]  BY SpaceColour DEF Blank
  <2> DEFINE b == [right EXCEPT !.x = SCREEN_MARGIN_X, !.left = TRUE, !.cells = Blank]
  <2>2. b \in Console /\ b.left
    <3> DEFINE b1 == [right EXCEPT !.x = SCREEN_MARGIN_X]
               b2 == [b1 EXCEPT !.left = TRUE]
    <3>1. b1 \in Console  BY <1>2 DEF Console, SCREEN_MARGIN_X
    <3>2. b = [b2 EXCEPT !.cells = Blank]  BY Zenon
    <3> HIDE DEF b1
    <3>3. b2 \in Console /\ b2.left  BY <3>1 DEF Console
    <3> HIDE DEF b2, b
    <3> QED BY <2>1, <3>2, <3>3 DEF Console
  <2>3. right.x < Columns => q = right  OBVIOUS
  <2>4. ~(right.x < Columns) => q = b  OBVIOUS
  <2> HIDE DEF b, q
  <2> QED BY <1>1, <1>2, <1>3, <2>2, <2>3, <2>4
<1>5. print_char(c, ch) = Move(o, 1)  BY DEF print_char, Placed, o, q, right, e
<1> HIDE DEF q
<1>6. /\ o \in Console /\ o.left = q.left /\ o.x = q.x /\ o.drawn = q.drawn
      /\ ~q.left /\ q.x \in Screen /\ q.cells[q.x] = SPACE =>
            \A y \in Screen : o.cells[y] = IF y = q.x THEN ch ELSE q.cells[y]
  <2>1. q.x \in Int /\ ch \in Colours  BY <1>4, SpaceColour DEF Console
  <2>2. CASE ch = SPACE \/ q.x \notin Screen  BY <1>4, <2>2 DEF Overlay
  <2>3. CASE ~(ch = SPACE \/ q.x \notin Screen)
    <3> DEFINE w == IF q.cells[q.x] = SPACE THEN ch ELSE "mess"
    <3>1. w \in Colours /\ o = Paint(q, q.x, w)  BY <2>1, <2>3, SpaceColour DEF Overlay
    <3>2. q.cells[q.x] = SPACE => w = ch  OBVIOUS
    <3> HIDE DEF w, o
    <3> QED BY <1>4, <2>1, <3>1, <3>2, PaintIs
  <2> QED BY <2>2, <2>3
<1> HIDE DEF o
<1> DEFINE p == Move(o, 1)
<1>7. p \in Console /\ p.x = o.x + 1 /\ p.left = o.left /\ p.drawn = o.drawn /\ p.cells = o.cells
  BY <1>6, MoveIs
<1> HIDE DEF p
<1>8. ASSUME ~p.left, SCREEN_MARGIN_X <= c.x, c.drawn = c.x
      PROVE  /\ p.x = c.x + 1 /\ p.drawn < 0
             /\ \A y \in Screen : p.cells[y] = IF y = c.x THEN ch ELSE c.cells[y]
  <2>1. ~q.left /\ q = e  BY <1>2, <1>4, <1>6, <1>7, <1>8
  <2>2. ~c.left /\ e.x < Columns  BY <1>2, <1>4, <1>8, <2>1
  <2>3. c.x \in Screen
    <3>1. c.x \in Int  BY DEF Console
    <3> QED BY <1>1, <1>3, <1>8, <2>2, <3>1 DEF Screen, SCREEN_MARGIN_X
  <2>4. e.cells[e.x] = SPACE  BY <1>1, <1>8, <2>2, <2>3
  <2>5. \A y \in Screen : o.cells[y] = IF y = c.x THEN ch ELSE e.cells[y]
    BY <1>1, <1>6, <2>1, <2>3, <2>4
  <2>6. \A y \in Screen : y # c.x => e.cells[y] = c.cells[y]  BY <1>1, <1>8, <2>2
  <2> QED BY <1>1, <1>6, <1>7, <2>1, <2>5, <2>6
<1>9. c.left => p.left  BY <1>4, <1>6, <1>7
<1> QED BY <1>5, <1>7, <1>8, <1>9 DEF p

-----------------------------------------------------------------------------
(* The row under every key.                                                *)

LEMMA PromptIs ==
    /\ Shows(Prompted, <<>>) /\ Prompted \in Console
    /\ Prompted.x = SCREEN_MARGIN_X + 1 /\ Prompted.drawn = Prompted.x
<1> DEFINE c == [x |-> SCREEN_MARGIN_X + 1, left |-> FALSE, cells |-> Blank, drawn |-> -1]
           u == update_cursor(c)
<1>1. c \in Console /\ c.x = SCREEN_MARGIN_X + 1 /\ ~c.left /\ c.drawn = -1 /\ c.cells = Blank
  BY SpaceColour DEF Console, Blank, SCREEN_MARGIN_X
<1>2. Prompted = u  BY DEF Prompted
<1> HIDE DEF c
<1>3. /\ u \in Console /\ u.x = c.x /\ u.left = c.left /\ u.drawn = c.x
      /\ \A y \in Screen : u.cells[y] = IF y = c.x THEN "cursor"
                                        ELSE IF y = c.drawn THEN SPACE ELSE c.cells[y]
  BY <1>1, UpdateIs
<1> HIDE DEF u
<1>4. Len(<<>>) = 0  OBVIOUS
<1>5. ASSUME NEW y \in Screen, y > SCREEN_MARGIN_X PROVE u.cells[y] = Row(<<>>, y)
  <2>1. y \in Nat /\ c.cells[y] = SPACE  BY <1>1 DEF Screen, Blank
  <2>2. u.cells[y] = IF y = SCREEN_MARGIN_X + 1 THEN "cursor" ELSE SPACE
    BY <1>1, <1>3, <2>1
  <2>3. ~(y - SCREEN_MARGIN_X <= 0)  BY <1>5, <2>1 DEF SCREEN_MARGIN_X
  <2>4. y - SCREEN_MARGIN_X = 0 + 1 <=> y = SCREEN_MARGIN_X + 1  BY <2>1 DEF SCREEN_MARGIN_X
  <2> QED BY <1>4, <2>2, <2>3, <2>4 DEF Row
<1> QED BY <1>1, <1>2, <1>3, <1>5 DEF Shows

LEMMA ConsoleFirst ==
    ASSUME console = Prompted, typed = <<>>, tabs = 0
    PROVE  ConsoleHolds
<1>1. Shows(Prompted, <<>>) /\ Prompted \in Console
      /\ Prompted.x = SCREEN_MARGIN_X + 1 /\ Prompted.drawn = Prompted.x
  BY PromptIs
<1>2. Len(<<>>) = 0 /\ Prompted.x = SCREEN_MARGIN_X + 1 + 0 + 4 * 0
  BY <1>1 DEF SCREEN_MARGIN_X
<1> QED BY <1>1, <1>2 DEF ConsoleHolds

LEMMA ConsoleFresh ==
    ASSUME console' = Prompted, typed' = <<>>, tabs' = 0
    PROVE  ConsoleHolds'
<1>1. Shows(Prompted, <<>>) /\ Prompted \in Console
      /\ Prompted.x = SCREEN_MARGIN_X + 1 /\ Prompted.drawn = Prompted.x
  BY PromptIs
<1>2. Len(<<>>) = 0 /\ Prompted.x = SCREEN_MARGIN_X + 1 + 0 + 4 * 0
  BY <1>1 DEF SCREEN_MARGIN_X
<1> QED BY <1>1, <1>2 DEF ConsoleHolds

\* The facts about the console that the keys need.
LEMMA ConsoleIs ==
    ASSUME ConsoleHolds, typed \in Seq(Chars)
    PROVE  /\ console \in Console /\ tabs \in Nat /\ Len(typed) \in Nat /\ console.x \in Int
           /\ ~console.left => /\ SCREEN_MARGIN_X < console.x /\ console.drawn = console.x
                               /\ console.x = SCREEN_MARGIN_X + 1 + Len(typed) + 4 * tabs
BY DEF ConsoleHolds, Console, SCREEN_MARGIN_X

\* A character behind the line.
LEMMA ConsoleAppend ==
    ASSUME ConsoleHolds, typed \in Seq(Chars), NEW ch \in Chars,
           console' = update_cursor(print_char(console, ch)),
           typed' = Append(typed, ch), tabs' = tabs
    PROVE  ConsoleHolds'
<1> DEFINE c == console
           n == Len(typed)
           p == print_char(c, ch)
           u == update_cursor(p)
<1>0. /\ c \in Console /\ tabs \in Nat /\ n \in Nat /\ c.x \in Int
      /\ ~c.left => SCREEN_MARGIN_X < c.x /\ c.drawn = c.x /\ c.x = SCREEN_MARGIN_X + 1 + n + 4 * tabs
  BY ConsoleIs
<1>1. /\ p \in Console /\ (c.left => p.left)
      /\ ~p.left /\ SCREEN_MARGIN_X <= c.x /\ c.drawn = c.x =>
             /\ p.x = c.x + 1 /\ p.drawn < 0
             /\ \A y \in Screen : p.cells[y] = IF y = c.x THEN ch ELSE c.cells[y]
  BY <1>0, PrintIs
<1>2. typed' = Append(typed, ch) /\ Len(typed') = n + 1 /\ typed'[n + 1] = ch
      /\ \A i \in 1 .. n : typed'[i] = typed[i]
  OBVIOUS
<1>3. console' = u /\ (tabs = 0 /\ ~c.left => Shows(c, typed))  BY DEF ConsoleHolds
<1> HIDE DEF p, n
<1>4. /\ u \in Console /\ u.x = p.x /\ u.left = p.left /\ u.drawn = p.x
      /\ ~p.left => \A y \in Screen : u.cells[y] = IF y = p.x THEN "cursor"
                                                   ELSE IF y = p.drawn THEN SPACE ELSE p.cells[y]
  BY <1>1, UpdateIs
<1> HIDE DEF u
<1>5. ASSUME ~u.left
      PROVE  /\ u.x = SCREEN_MARGIN_X + 1 + (n + 1) + 4 * tabs /\ u.drawn = u.x
             /\ tabs = 0 => Shows(u, typed')
  <2>1. ~p.left /\ ~c.left  BY <1>1, <1>4, <1>5
  <2>2. /\ p.x = c.x + 1 /\ p.drawn < 0
        /\ \A y \in Screen : p.cells[y] = IF y = c.x THEN ch ELSE c.cells[y]
    BY <1>0, <1>1, <2>1 DEF SCREEN_MARGIN_X
  <2>3. u.x = c.x + 1  BY <1>4, <2>2
  <2>4. u.x = SCREEN_MARGIN_X + 1 + (n + 1) + 4 * tabs  BY <1>0, <2>1, <2>3 DEF SCREEN_MARGIN_X
  <2>5. ASSUME tabs = 0, NEW y \in Screen, y > SCREEN_MARGIN_X
        PROVE  u.cells[y] = Row(typed', y)
    <3>1. y \in Nat  BY DEF Screen
    <3>2. c.x = SCREEN_MARGIN_X + 1 + n  BY <1>0, <2>1, <2>5 DEF SCREEN_MARGIN_X
    <3>3. c.cells[y] = Row(typed, y)  BY <1>3, <2>1, <2>5 DEF Shows
    <3>4. u.cells[y] = IF y = c.x + 1 THEN "cursor" ELSE IF y = c.x THEN ch ELSE c.cells[y]
      BY <1>1, <1>4, <2>1, <2>2, <3>1
    <3> DEFINE i == y - SCREEN_MARGIN_X
    <3>5. /\ i \in Nat /\ i >= 1 /\ (y = c.x + 1 <=> i = n + 2) /\ (y = c.x <=> i = n + 1)
      BY <1>0, <2>5, <3>1, <3>2 DEF SCREEN_MARGIN_X
    <3>6. Row(typed', y) = IF i <= n + 1 THEN typed'[i] ELSE IF i = n + 2 THEN "cursor" ELSE SPACE
      <4>1. n + 1 + 1 = n + 2  BY <1>0
      <4> QED BY <1>2, <4>1 DEF Row
    <3>7. Row(typed, y) = IF i <= n THEN typed[i] ELSE IF i = n + 1 THEN "cursor" ELSE SPACE
      BY DEF Row, n
    <3> HIDE DEF i
    <3>8. CASE i <= n
      <4>1. typed'[i] = typed[i] /\ i # n + 1 /\ i # n + 2 /\ i <= n + 1
        BY <1>0, <1>2, <3>5, <3>8
      <4> QED BY <3>3, <3>4, <3>5, <3>6, <3>7, <3>8, <4>1
    <3>9. CASE i = n + 1  BY <1>0, <1>2, <3>4, <3>5, <3>6, <3>9
    <3>10. CASE i > n + 1  BY <1>0, <3>3, <3>4, <3>5, <3>6, <3>7, <3>10
    <3> QED BY <1>0, <3>5, <3>8, <3>9, <3>10
  <2> QED BY <1>4, <2>3, <2>4, <2>5 DEF Shows
<1> QED BY <1>0, <1>2, <1>3, <1>4, <1>5 DEF ConsoleHolds

\* The cursor moves on: a space, or a tab.
LEMMA ConsoleSpace ==
    ASSUME ConsoleHolds, typed \in Seq(Chars), line_space
    PROVE  ConsoleHolds'
<1> DEFINE c == console
           n == Len(typed)
           m == Move(c, 1)
           u == update_cursor(m)
<1>0. /\ c \in Console /\ tabs \in Nat /\ n \in Nat /\ c.x \in Int
      /\ ~c.left => SCREEN_MARGIN_X < c.x /\ c.drawn = c.x /\ c.x = SCREEN_MARGIN_X + 1 + n + 4 * tabs
  BY ConsoleIs
<1>1. m \in Console /\ m.x = c.x + 1 /\ m.left = c.left /\ m.drawn = c.drawn /\ m.cells = c.cells
  BY <1>0, MoveIs
<1>2. /\ typed' = Append(typed, SPACE) /\ Len(typed') = n + 1 /\ typed'[n + 1] = SPACE
      /\ \A i \in 1 .. n : typed'[i] = typed[i]
  BY DEF line_space
<1>3. console' = u /\ tabs' = tabs /\ (tabs = 0 /\ ~c.left => Shows(c, typed))
  BY DEF ConsoleHolds, line_space
<1> HIDE DEF m, n
<1>4. /\ u \in Console /\ u.x = m.x /\ u.left = m.left /\ u.drawn = m.x
      /\ ~m.left => \A y \in Screen : u.cells[y] = IF y = m.x THEN "cursor"
                                                   ELSE IF y = m.drawn THEN SPACE ELSE m.cells[y]
  BY <1>1, UpdateIs
<1> HIDE DEF u
<1>5. ASSUME ~u.left
      PROVE  /\ u.x = SCREEN_MARGIN_X + 1 + (n + 1) + 4 * tabs /\ u.drawn = u.x
             /\ tabs = 0 => Shows(u, typed')
  <2>1. ~c.left  BY <1>1, <1>4, <1>5
  <2>2. u.x = SCREEN_MARGIN_X + 1 + (n + 1) + 4 * tabs
    BY <1>0, <1>1, <1>4, <2>1 DEF SCREEN_MARGIN_X
  <2>3. ASSUME tabs = 0, NEW y \in Screen, y > SCREEN_MARGIN_X
        PROVE  u.cells[y] = Row(typed', y)
    <3>1. y \in Nat  BY DEF Screen
    <3>2. c.x = SCREEN_MARGIN_X + 1 + n  BY <1>0, <2>1, <2>3 DEF SCREEN_MARGIN_X
    <3>3. c.cells[y] = Row(typed, y)  BY <1>3, <2>1, <2>3 DEF Shows
    <3>4. u.cells[y] = IF y = c.x + 1 THEN "cursor" ELSE IF y = c.x THEN SPACE ELSE c.cells[y]
      BY <1>0, <1>1, <1>4, <2>1
    <3> DEFINE i == y - SCREEN_MARGIN_X
    <3>5. /\ i \in Nat /\ i >= 1 /\ (y = c.x + 1 <=> i = n + 2) /\ (y = c.x <=> i = n + 1)
      BY <1>0, <2>3, <3>1, <3>2 DEF SCREEN_MARGIN_X
    <3>6. Row(typed', y) = IF i <= n + 1 THEN typed'[i] ELSE IF i = n + 2 THEN "cursor" ELSE SPACE
      <4>1. n + 1 + 1 = n + 2  BY <1>0
      <4> QED BY <1>2, <4>1 DEF Row
    <3>7. Row(typed, y) = IF i <= n THEN typed[i] ELSE IF i = n + 1 THEN "cursor" ELSE SPACE
      BY DEF Row, n
    <3> HIDE DEF i
    <3>8. CASE i <= n
      <4>1. typed'[i] = typed[i] /\ i # n + 1 /\ i # n + 2 /\ i <= n + 1
        BY <1>0, <1>2, <3>5, <3>8
      <4> QED BY <3>3, <3>4, <3>5, <3>6, <3>7, <3>8, <4>1
    <3>9. CASE i = n + 1  BY <1>0, <1>2, <3>4, <3>5, <3>6, <3>9
    <3>10. CASE i > n + 1  BY <1>0, <3>3, <3>4, <3>5, <3>6, <3>7, <3>10
    <3> QED BY <1>0, <3>5, <3>8, <3>9, <3>10
  <2> QED BY <1>4, <2>2, <2>3 DEF Shows
<1> QED BY <1>0, <1>2, <1>3, <1>4, <1>5 DEF ConsoleHolds

LEMMA ConsoleTab ==
    ASSUME ConsoleHolds, typed \in Seq(Chars), line_tab
    PROVE  ConsoleHolds'
<1> DEFINE c == console
           n == Len(typed)
           m == Move(c, 4)
           u == update_cursor(m)
<1>0. /\ c \in Console /\ tabs \in Nat /\ n \in Nat /\ c.x \in Int
      /\ ~c.left => c.x = SCREEN_MARGIN_X + 1 + n + 4 * tabs
  BY ConsoleIs
<1>1. m \in Console /\ m.x = c.x + 4 /\ m.left = c.left
  BY <1>0 DEF Move, Console
<1>2. console' = u /\ tabs' = tabs + 1 /\ typed' = typed  BY DEF line_tab
<1> HIDE DEF m
<1>3. u \in Console /\ u.x = m.x /\ u.left = m.left /\ u.drawn = m.x  BY <1>1, UpdateIs
<1> HIDE DEF u
<1>4. ~u.left => u.x = SCREEN_MARGIN_X + 1 + n + 4 * (tabs + 1)
  BY <1>0, <1>1, <1>3 DEF SCREEN_MARGIN_X
<1> QED BY <1>0, <1>2, <1>3, <1>4 DEF ConsoleHolds

\* The cell before the cursor is cleared, and the cursor is drawn in it.
LEMMA ConsoleBack ==
    ASSUME ConsoleHolds, typed \in Seq(Chars), Len(typed) > 0, TakeBack
    PROVE  ConsoleHolds'
<1> DEFINE c == console
           n == Len(typed)
           m == Move(c, -1)
           p == Paint(m, m.x, SPACE)
           u == update_cursor(p)
<1>0. /\ c \in Console /\ tabs \in Nat /\ n \in Nat /\ n > 0 /\ c.x \in Int
      /\ ~c.left => SCREEN_MARGIN_X < c.x /\ c.drawn = c.x /\ c.x = SCREEN_MARGIN_X + 1 + n + 4 * tabs
  BY ConsoleIs
<1>1. m \in Console /\ m.x = c.x - 1 /\ m.left = c.left /\ m.drawn = c.drawn /\ m.cells = c.cells
  BY <1>0 DEF Move, Console
<1>2. Len(typed') = n - 1 /\ \A i \in 1 .. n - 1 : typed'[i] = typed[i]
  BY Shorter DEF TakeBack
<1>3. console' = u /\ tabs' = tabs /\ (tabs = 0 /\ ~c.left => Shows(c, typed))
  BY DEF ConsoleHolds, TakeBack, erase_previous_cell
<1> HIDE DEF m, n
<1>4. /\ p \in Console /\ p.x = m.x /\ p.left = m.left /\ p.drawn = m.drawn
      /\ ~m.left => \A y \in Screen : p.cells[y] = IF y = m.x THEN SPACE ELSE m.cells[y]
  BY <1>0, <1>1, PaintIs, SpaceColour
<1> HIDE DEF p
<1>5. /\ u \in Console /\ u.x = p.x /\ u.left = p.left /\ u.drawn = p.x
      /\ ~p.left => \A y \in Screen : u.cells[y] = IF y = p.x THEN "cursor"
                                                   ELSE IF y = p.drawn THEN SPACE ELSE p.cells[y]
  BY <1>4, UpdateIs
<1> HIDE DEF u
<1>6. ASSUME ~u.left
      PROVE  /\ u.x = SCREEN_MARGIN_X + 1 + (n - 1) + 4 * tabs /\ u.drawn = u.x
             /\ tabs = 0 => Shows(u, typed')
  <2>1. ~c.left  BY <1>1, <1>4, <1>5, <1>6
  <2>2. u.x = SCREEN_MARGIN_X + 1 + (n - 1) + 4 * tabs
    BY <1>0, <1>1, <1>4, <1>5, <2>1 DEF SCREEN_MARGIN_X
  <2>3. ASSUME tabs = 0, NEW y \in Screen, y > SCREEN_MARGIN_X
        PROVE  u.cells[y] = Row(typed', y)
    <3>1. y \in Nat  BY DEF Screen
    <3>2. c.x = SCREEN_MARGIN_X + 1 + n  BY <1>0, <2>1, <2>3 DEF SCREEN_MARGIN_X
    <3>3. c.cells[y] = Row(typed, y)  BY <1>3, <2>1, <2>3 DEF Shows
    <3>4. u.cells[y] = IF y = c.x - 1 THEN "cursor" ELSE IF y = c.x THEN SPACE ELSE c.cells[y]
      BY <1>0, <1>1, <1>4, <1>5, <2>1
    <3> DEFINE i == y - SCREEN_MARGIN_X
    <3>5. /\ i \in Nat /\ i >= 1 /\ (y = c.x - 1 <=> i = n) /\ (y = c.x <=> i = n + 1)
      BY <1>0, <2>3, <3>1, <3>2 DEF SCREEN_MARGIN_X
    <3>6. Row(typed', y) = IF i <= n - 1 THEN typed'[i] ELSE IF i = n THEN "cursor" ELSE SPACE
      <4>1. n - 1 + 1 = n  BY <1>0
      <4> QED BY <1>2, <4>1 DEF Row
    <3>7. Row(typed, y) = IF i <= n THEN typed[i] ELSE IF i = n + 1 THEN "cursor" ELSE SPACE
      BY DEF Row, n
    <3> HIDE DEF i
    <3>8. CASE i <= n - 1
      <4>1. typed'[i] = typed[i] /\ i # n /\ i # n + 1 /\ i <= n  BY <1>0, <1>2, <3>5, <3>8
      <4> QED BY <3>3, <3>4, <3>5, <3>6, <3>7, <3>8, <4>1
    <3>9. CASE i = n  BY <1>0, <3>4, <3>5, <3>6, <3>9
    <3>10. CASE i = n + 1  BY <1>0, <3>4, <3>5, <3>6, <3>10
    <3>11. CASE i > n + 1  BY <1>0, <3>3, <3>4, <3>5, <3>6, <3>7, <3>11
    <3> QED BY <1>0, <3>5, <3>8, <3>9, <3>10, <3>11
  <2> QED BY <1>1, <1>4, <1>5, <2>2, <2>3 DEF Shows
<1> QED BY <1>0, <1>2, <1>3, <1>5, <1>6 DEF ConsoleHolds

LEMMA ConsoleTyping == ASSUME LineHolds, ConsoleHolds, Typing PROVE ConsoleHolds'
<1>0. typed \in Seq(Chars)  BY DEF LineHolds
<1>1. ASSUME NEW ch \in Chars, line_append(ch) PROVE ConsoleHolds'
  <2>1. /\ console' = update_cursor(print_char(console, ch))
        /\ typed' = Append(typed, ch) /\ tabs' = tabs
    BY <1>1 DEF line_append
  <2> QED BY <1>0, <2>1, ConsoleAppend
<1>2. CASE line_space  BY <1>0, <1>2, ConsoleSpace
<1>3. CASE line_tab  BY <1>0, <1>3, ConsoleTab
<1>4. CASE BackspaceChar  BY <1>0, <1>4, LineBackChar, ConsoleBack DEF BackspaceChar
<1>5. CASE BackspaceSpace  BY <1>0, <1>5, LineBackSpace, ConsoleBack DEF BackspaceSpace
<1> QED BY <1>1, <1>2, <1>3, <1>4, <1>5, NoSuchChar DEF Typing, Chars

\* EchoMatches is read off: without a tab, and only then, the cursor is behind
\* the line.
LEMMA RowShowsLine == ASSUME LineHolds, ConsoleHolds PROVE EchoMatches
<1>1. typed \in Seq(Chars)  BY DEF LineHolds
<1>2. ASSUME ~console.left, console.x = SCREEN_MARGIN_X + 1 + Len(typed),
             NEW x \in SCREEN_MARGIN_X + 1 .. Columns - 1
      PROVE  console.cells[x] = Row(typed, x)
  <2>1. tabs = 0
    <3>1. /\ tabs \in Nat /\ Len(typed) \in Nat
          /\ console.x = SCREEN_MARGIN_X + 1 + Len(typed) + 4 * tabs
      BY <1>1, <1>2, ConsoleIs
    <3> QED BY <1>2, <3>1 DEF SCREEN_MARGIN_X
  <2>2. x \in Screen /\ x > SCREEN_MARGIN_X  BY LineAssumption DEF Screen, SCREEN_MARGIN_X
  <2> QED BY <1>2, <2>1, <2>2 DEF ConsoleHolds, Shows
<1> QED BY <1>2 DEF EchoMatches, Row

-----------------------------------------------------------------------------
(* Sessions.                                                               *)

\* Enter ends the string that is being typed, and it stays what it is.
LEMMA LineSubmitted ==
    ASSUME LineHolds, line' = Submitted, typed' = typed
    PROVE  LineHolds'
<1>0. /\ line \in LineRec /\ typed \in Seq(Chars) /\ line.index \in Cells /\ line.index \in Nat
      /\ line.command \in Memory /\ line.arg \in Memory
  BY CellsAre DEF LineHolds, LineRec
<1>1. /\ line' \in LineRec /\ line'.in_command = line.in_command /\ line'.index = line.index
      /\ line'.command_length = line.command_length
  BY SubmittedIs
<1>2. CASE line.in_command
  <2>1. line'.command = [line.command EXCEPT ![line.index] = NUL] /\ line'.arg = line.arg
    BY <1>2, SubmittedIs
  <2>2. InCommand  BY <1>2 DEF LineHolds
  <2>3. ASSUME NEW i \in 1 .. line.index PROVE line'.command[i - 1] = line.command[i - 1]
    <3>1. i - 1 \in Cells /\ i - 1 # line.index  BY <1>0, CellsAre
    <3> QED BY <1>0, <2>1, <3>1 DEF Memory
  <2>4. InCommand'  BY <1>1, <2>1, <2>2, <2>3 DEF InCommand, Wordy, Carries
  <2> QED BY <1>0, <1>1, <1>2, <2>4 DEF LineHolds
<1>3. CASE ~line.in_command
  <2>1. line'.arg = [line.arg EXCEPT ![line.index] = NUL] /\ line'.command = line.command
    BY <1>3, SubmittedIs
  <2>2. InArg  BY <1>3 DEF LineHolds
  <2>3. ASSUME NEW i \in 1 .. line.index PROVE line'.arg[i - 1] = line.arg[i - 1]
    <3>1. i - 1 \in Cells /\ i - 1 # line.index  BY <1>0, CellsAre
    <3> QED BY <1>0, <2>1, <3>1 DEF Memory
  <2>4. InArg'  BY <1>1, <2>1, <2>2, <2>3 DEF InArg, Wordy, Carries
  <2> QED BY <1>0, <1>1, <1>3, <2>4 DEF LineHolds
<1> QED BY <1>2, <1>3

LineInv == LineHolds /\ ConsoleHolds

LEMMA LineStep == ASSUME LineInv, [Next]_vars PROVE LineInv'
<1>0. line \in LineRec  BY DEF LineInv, LineHolds
<1>1. CASE Key  BY <1>1, LineTyping, ConsoleTyping DEF LineInv, Key
<1>2. ASSUME NewLine PROVE LineInv'
  BY <1>0, <1>2, LineFresh, ConsoleFresh DEF LineInv, NewLine
<1>3. CASE cmd_run
  BY <1>3, LineSubmitted DEF cmd_run, LineInv, ConsoleHolds, Shows
<1>4. ASSUME UNCHANGED lineVars PROVE LineInv'
  BY <1>4 DEF lineVars, LineInv, ConsoleHolds, Shows, LineHolds, InCommand, InArg, Wordy, Carries
<1> QED BY <1>1, <1>2, <1>3, <1>4 DEF Next, Enter, Editing, Leave, vars

THEOREM LineAlways == Spec => []LineInv
<1>1. Init => LineInv
  <2> SUFFICES ASSUME Init PROVE LineInv  OBVIOUS
  <2>1. LineHolds  BY LineInit0 DEF Init
  <2>2. /\ console = Prompted /\ typed = <<>> /\ tabs = 0  BY DEF Init, LineInit
  <2>3. ConsoleHolds  BY <2>2, ConsoleFirst
  <2> QED BY <2>1, <2>3 DEF LineInv
<1>2. LineInv /\ [Next]_vars => LineInv'  BY LineStep
<1> QED BY <1>1, <1>2, PTL DEF Spec

\* The row shows the line and the cursor behind it, whatever is typed and taken
\* back (handle_key, line_append, line_backspace on the console).
THEOREM EchoIsLine == Spec => []EchoMatches
<1>1. LineInv => EchoMatches  BY RowShowsLine DEF LineInv
<1> QED BY <1>1, LineAlways, PTL

\* The strings that execute gets are the line, cut at its first space
\* (line_submit), for lines of any length.
THEOREM CommandsAreTyped == Spec => []RunsWhatIsTyped
<1>1. LineInv => RunsWhatIsTyped  BY WhatRuns DEF LineInv
<1> QED BY <1>1, LineAlways, PTL

-----------------------------------------------------------------------------
(* What the program is told.                                               *)

\* A sequence cut in two.
LEMMA Split ==
    ASSUME NEW C, NEW s \in Seq(C), NEW a \in Seq(C), NEW b \in Seq(C),
           Len(s) = Len(a) + Len(b),
           \A i \in 1 .. Len(a) : s[i] = a[i],
           \A i \in 1 .. Len(b) : s[Len(a) + i] = b[i]
    PROVE  s = a \o b
<1> DEFINE t == a \o b
<1>0. Len(a) \in Nat /\ Len(b) \in Nat  OBVIOUS
<1>1. t \in Seq(C) /\ Len(t) = Len(a) + Len(b)
      /\ \A i \in 1 .. Len(a) + Len(b) : t[i] = IF i <= Len(a) THEN a[i] ELSE b[i - Len(a)]
  BY ConcatProperties
<1> HIDE DEF t
<1>2. ASSUME NEW i \in 1 .. Len(s) PROVE s[i] = t[i]
  <2>1. CASE i <= Len(a)  BY <1>0, <1>1, <2>1
  <2>2. CASE ~(i <= Len(a))
    <3> DEFINE j == i - Len(a)
    <3>1. j \in 1 .. Len(b) /\ Len(a) + j = i  BY <1>0, <2>2
    <3> HIDE DEF j
    <3>2. s[Len(a) + j] = b[j]  BY <3>1
    <3>3. t[i] = b[j]  BY <1>0, <1>1, <2>2, <3>1 DEF j
    <3> QED BY <3>1, <3>2, <3>3
  <2> QED BY <2>1, <2>2
<1>3. s = t  BY <1>1, <1>2, SeqEqual
<1> QED BY <1>3 DEF t

\* A word, the spaces behind it and what comes then.
LEMMA WordGapRest ==
    ASSUME NEW s \in Seq(Chars)
    PROVE  LET w == FirstWord(s)
               r == SkipSpaces(s, Len(w) + 1)
           IN  /\ w \in Seq(Chars) /\ r \in Seq(Chars)
               /\ \E gap \in 0 .. Len(s) :
                     /\ s = w \o ([i \in 1 .. gap |-> SPACE] \o r)
                     /\ r # <<>> => gap > 0 /\ r[1] # SPACE
<1> DEFINE w == FirstWord(s)
           k == Len(w)
           r == SkipSpaces(s, k + 1)
           Gap(g) == [i \in 1 .. g |-> SPACE]
<1>0. DOMAIN s = 1 .. Len(s) /\ Len(s) \in Nat  OBVIOUS
<1>1. /\ w \in Seq(Chars) /\ k \in 0 .. Len(s) /\ \A i \in 1 .. k : w[i] = s[i]
      /\ k < Len(s) => s[k + 1] = SPACE
  <2>1. CASE \A i \in 1 .. Len(s) : s[i] # SPACE
    <3>1. w = s  BY <2>1, FirstWordAll
    <3> HIDE DEF w
    <3> QED BY <1>0, <3>1
  <2>2. CASE \E i \in 1 .. Len(s) : s[i] = SPACE
    <3> DEFINE S == {i \in 1 .. Len(s) : s[i] = SPACE}
    <3>1. S \subseteq Nat /\ S # {}  BY <2>2
    <3> HIDE DEF S
    <3>2. PICK n \in S : \A j \in S : n <= j  BY <3>1, Least
    <3>3. n \in 1 .. Len(s) /\ s[n] = SPACE  BY <3>2 DEF S
    <3>4. \A i \in 1 .. n - 1 : s[i] # SPACE
      <4> SUFFICES ASSUME NEW i \in 1 .. n - 1, s[i] = SPACE PROVE FALSE  OBVIOUS
      <4>1. i \in S  BY <1>0, <3>3 DEF S
      <4> QED BY <3>2, <3>3, <4>1
    <3>5. w = SubSeq(s, 1, n - 1)  BY <3>3, <3>4, FirstWordIs
    <3> DEFINE m == n - 1
    <3>6. m \in 0 .. Len(s) /\ m + 1 = n  BY <1>0, <3>3
    <3>7. w = SubSeq(s, 1, m)  BY <3>5
    <3> HIDE DEF m, w
    <3>8. w \in Seq(Chars) /\ Len(w) = m /\ \A i \in 1 .. m : w[i] = s[i]
      BY <3>6, <3>7, FirstOnes
    <3> QED BY <3>3, <3>6, <3>8
  <2> QED BY <2>1, <2>2
<1> HIDE DEF w
<1>2. k \in Nat /\ k + 1 \in 1 .. Len(s) + 1  BY <1>0, <1>1
<1> HIDE DEF k
<1>3. \/ r = <<>> /\ \A i \in k + 1 .. Len(s) : s[i] = SPACE
      \/ \E m \in k + 1 .. Len(s) : /\ r = SubSeq(s, m, Len(s)) /\ s[m] # SPACE
                                    /\ \A i \in k + 1 .. m - 1 : s[i] = SPACE
  BY <1>2, SkipSpacesIs
<1> HIDE DEF r
<1>4. \E g \in 0 .. Len(s) :
         /\ r \in Seq(Chars) /\ Len(s) = k + g + Len(r)
         /\ \A i \in 1 .. g : s[k + i] = SPACE
         /\ \A i \in 1 .. Len(r) : s[k + g + i] = r[i]
         /\ r # <<>> => g > 0 /\ r[1] # SPACE
  <2>1. CASE r = <<>> /\ \A i \in k + 1 .. Len(s) : s[i] = SPACE
    <3> DEFINE g == Len(s) - k
    <3>1. g \in 0 .. Len(s) /\ Len(s) = k + g + 0  BY <1>0, <1>1, <1>2
    <3>2. ASSUME NEW i \in 1 .. g PROVE s[k + i] = SPACE
      <4>1. k + i \in k + 1 .. Len(s)  BY <1>0, <1>2
      <4> QED BY <2>1, <4>1
    <3>3. r \in Seq(Chars) /\ Len(r) = 0  BY <2>1
    <3> HIDE DEF g
    <3> QED BY <2>1, <3>1, <3>2, <3>3
  <2>2. ASSUME NEW m \in k + 1 .. Len(s), r = SubSeq(s, m, Len(s)), s[m] # SPACE,
               \A i \in k + 1 .. m - 1 : s[i] = SPACE
        PROVE  \E g \in 0 .. Len(s) :
                 /\ r \in Seq(Chars) /\ Len(s) = k + g + Len(r)
                 /\ \A i \in 1 .. g : s[k + i] = SPACE
                 /\ \A i \in 1 .. Len(r) : s[k + g + i] = r[i]
                 /\ r # <<>> => g > 0 /\ r[1] # SPACE
    <3> DEFINE q == m - 1
               g == q - k
    <3>1. q \in 0 .. Len(s) /\ q + 1 = m  BY <1>0, <1>2, <2>2
    <3>2. g \in 0 .. Len(s) /\ k + g = q  BY <1>0, <1>2, <2>2
    <3>3. r = SubSeq(s, q + 1, Len(s))  BY <2>2, <3>1
    <3> HIDE DEF q, g
    <3>4. /\ r \in Seq(Chars) /\ Len(r) = Len(s) - q
          /\ \A i \in 1 .. Len(s) - q : r[i] = s[q + i]
      BY <3>1, <3>3, LastOnes
    <3>5. Len(s) = k + g + Len(r)
      <4> DEFINE n == Len(s)
                 l == Len(r)
      <4>1. n \in Nat /\ q \in 0 .. n /\ k + g = q  BY <1>0, <3>1, <3>2
      <4>2. l = n - q  BY <3>4
      <4> HIDE DEF n, l
      <4>3. n = q + l  BY <4>1, <4>2
      <4> QED BY <4>1, <4>3 DEF n, l
    <3>6. ASSUME NEW i \in 1 .. g PROVE s[k + i] = SPACE
      <4>1. k + i \in k + 1 .. m - 1  BY <1>2, <3>1, <3>2
      <4> QED BY <2>2, <4>1
    <3>7. \A i \in 1 .. Len(r) : s[k + g + i] = r[i]  BY <3>2, <3>4
    <3>8. g > 0 /\ r[1] # SPACE
      <4>1. 1 \in 1 .. Len(s) - q /\ k < Len(s)  BY <1>0, <1>2, <2>2, <3>1
      <4>2. r[1] = s[m]  BY <3>1, <3>4, <4>1
      <4>3. m # k + 1  BY <1>1, <2>2, <4>1
      <4> QED BY <1>2, <2>2, <3>1, <3>2, <4>2, <4>3
    <3> QED BY <3>2, <3>4, <3>5, <3>6, <3>7, <3>8
  <2> QED BY <1>3, <2>1, <2>2
<1>5. PICK g \in 0 .. Len(s) :
         /\ r \in Seq(Chars) /\ Len(s) = k + g + Len(r)
         /\ \A i \in 1 .. g : s[k + i] = SPACE
         /\ \A i \in 1 .. Len(r) : s[k + g + i] = r[i]
         /\ r # <<>> => g > 0 /\ r[1] # SPACE
  BY <1>4
<1> DEFINE t == SubSeq(s, k + 1, Len(s))
<1>6. /\ t \in Seq(Chars) /\ Len(t) = Len(s) - k
      /\ \A i \in 1 .. Len(s) - k : t[i] = s[k + i]
  BY <1>1, LastOnes
<1> HIDE DEF t
<1>7. Gap(g) \in Seq(Chars) /\ Len(Gap(g)) = g /\ \A i \in 1 .. g : Gap(g)[i] = SPACE
  <2>1. g \in Nat  OBVIOUS
  <2> QED BY <2>1, NoSuchChar
<1>8. t = Gap(g) \o r
  <2> DEFINE h == Gap(g)
  <2>0. h \in Seq(Chars) /\ Len(h) = g /\ \A i \in 1 .. g : h[i] = SPACE  BY <1>7
  <2> HIDE DEF h
  <2>1. Len(t) = Len(h) + Len(r) /\ Len(r) \in Nat /\ g \in Nat
    BY <1>0, <1>2, <1>5, <1>6, <2>0
  <2>2. ASSUME NEW i \in 1 .. Len(h) PROVE t[i] = h[i]
    <3>1. i \in 1 .. g /\ i \in 1 .. Len(s) - k  BY <1>0, <1>2, <1>5, <2>0, <2>1
    <3> QED BY <1>5, <1>6, <2>0, <3>1
  <2>3. ASSUME NEW i \in 1 .. Len(r) PROVE t[Len(h) + i] = r[i]
    <3>1. g + i \in 1 .. Len(s) - k /\ k + (g + i) = k + g + i  BY <1>2, <1>5, <2>1
    <3> QED BY <1>5, <1>6, <2>0, <3>1
  <2>4. t = h \o r  BY <1>5, <1>6, <2>0, <2>1, <2>2, <2>3, Split
  <2> QED BY <2>4 DEF h
<1>9. s = w \o t
  <2>1. Len(s) = k + Len(t)  BY <1>0, <1>2, <1>6
  <2>2. \A i \in 1 .. Len(t) : s[k + i] = t[i]  BY <1>6
  <2> QED BY <1>1, <1>6, <2>1, <2>2, Split DEF k
<1> QED BY <1>1, <1>5, <1>8, <1>9 DEF w, r, k

LEMMA Joins ==
    ASSUME NEW C, NEW a \in Seq(C), NEW b \in Seq(C)
    PROVE  /\ a \o b \in Seq(C) /\ Len(a \o b) = Len(a) + Len(b)
           /\ \A i \in 1 .. Len(a) + Len(b) :
                 (a \o b)[i] = IF i <= Len(a) THEN a[i] ELSE b[i - Len(a)]
<1> QED BY ConcatProperties

Glue(x, y) == x \o y

LEMMA Glues ==
    ASSUME NEW C, NEW x \in Seq(C), NEW y \in Seq(C), NEW z \in Seq(C)
    PROVE  Glue(x, y) \in Seq(C) /\ Glue(Glue(x, y), z) = Glue(x, Glue(y, z))
<1>1. (x \o y) \o z = x \o (y \o z)  BY ConcatAssociative
<1>2. x \o y \in Seq(C)  BY ConcatProperties
<1> QED BY <1>1, <1>2 DEF Glue

LEMMA GluesFour ==
    ASSUME NEW C, NEW x \in Seq(C), NEW y \in Seq(C), NEW z \in Seq(C), NEW u \in Seq(C)
    PROVE  Glue(x, Glue(y, Glue(z, u))) = Glue(Glue(Glue(x, y), z), u)
<1>1. Glue(x, y) \in Seq(C) /\ Glue(z, u) \in Seq(C)  BY Glues
<1>2. Glue(Glue(x, y), Glue(z, u)) = Glue(x, Glue(y, Glue(z, u)))  BY <1>1, Glues
<1>3. Glue(Glue(Glue(x, y), z), u) = Glue(Glue(x, y), Glue(z, u))  BY <1>1, Glues
<1> QED BY <1>2, <1>3

\* Words put together from the left and from the right are the same line.
Assembled(a, e, g, r) ==
    (a \o <<SPACE>>) \o (e \o (g \o r)) = a \o <<SPACE>> \o e \o g \o r

LEMMA Assembling ==
    ASSUME NEW a \in Seq(Chars), NEW e \in Seq(Chars), NEW g \in Seq(Chars), NEW r \in Seq(Chars)
    PROVE  Assembled(a, e, g, r)
<1> DEFINE b == a \o <<SPACE>>
<1>1. b \in Seq(Chars)
  <2>1. <<SPACE>> \in Seq(Chars)  BY NoSuchChar
  <2> QED BY <2>1, ConcatProperties
<1> HIDE DEF b
<1>2. Glue(b, Glue(e, Glue(g, r))) = Glue(Glue(Glue(b, e), g), r)  BY <1>1, GluesFour
<1> QED BY <1>2 DEF Assembled, Glue, b

LEMMA Told == ASSUME LineInv, cmd_run PROVE ArgsAreTyped'
<1>1. /\ LineHolds /\ typed' = typed /\ stage' # "off"
      /\ Command = RunCommand /\ FirstWord(Argument) = EditorFile
      /\ args' = SkipSpaces(Argument, Len(FirstWord(Argument)) + 1)
  BY DEF LineInv, cmd_run, RunsEditor, Program, args_set, ArgsOf
<1>2. ~line.in_command
  <2> SUFFICES ASSUME line.in_command PROVE FALSE  BY DEF LineHolds, LineRec
  <2>1. Argument = <<>>  BY <1>1, CommandIs
  <2>2. FirstWord(<<>>) = <<>>
    <3>1. <<>> \in Seq(Chars) /\ Len(<<>>) = 0  OBVIOUS
    <3>2. \A i \in 1 .. 0 : <<>>[i] # SPACE  OBVIOUS
    <3> QED BY <3>1, <3>2, FirstWordAll
  <2> QED BY <1>1, <2>1, <2>2, ProgramAssumption
<1>3. PICK n \in Nat :
              /\ n + 1 <= Len(typed) /\ typed[n + 1] = SPACE
              /\ \A i \in 1 .. n : typed[i] # SPACE
              /\ Command \in Seq(Chars) /\ Len(Command) = n
              /\ Argument \in Seq(Chars) /\ Len(Argument) = Len(typed) - (n + 1)
              /\ \A i \in 1 .. n : Command[i] = typed[i]
              /\ \A i \in 1 .. Len(typed) - (n + 1) : Argument[i] = typed[n + 1 + i]
  BY <1>1, <1>2, ArgumentIs
<1>4. typed \in Seq(Chars) /\ Len(typed) \in Nat  BY <1>1 DEF LineHolds
<1> DEFINE r == SkipSpaces(Argument, Len(EditorFile) + 1)
           Gap(g) == [i \in 1 .. g |-> SPACE]
<1>5. /\ EditorFile \in Seq(Chars) /\ r \in Seq(Chars)
      /\ \E gap \in 0 .. Len(Argument) :
            /\ Argument = EditorFile \o (Gap(gap) \o r)
            /\ r # <<>> => gap > 0 /\ r[1] # SPACE
  BY <1>1, <1>3, WordGapRest
<1> HIDE DEF r
<1>6. PICK gap \in 0 .. Len(Argument) :
            /\ Argument = EditorFile \o (Gap(gap) \o r)
            /\ r # <<>> => gap > 0 /\ r[1] # SPACE
  BY <1>5
<1>7. typed = (Command \o <<SPACE>>) \o Argument
  <2> DEFINE c == Command \o <<SPACE>>
  <2>1. /\ c \in Seq(Chars) /\ Len(c) = n + 1
        /\ \A i \in 1 .. n + 1 : c[i] = typed[i]
    <3>1. <<SPACE>> \in Seq(Chars) /\ Len(<<SPACE>>) = 1 /\ <<SPACE>>[1] = SPACE  BY NoSuchChar
    <3>2. c \in Seq(Chars) /\ Len(c) = n + 1
          /\ \A i \in 1 .. n + 1 : c[i] = IF i <= n THEN Command[i] ELSE <<SPACE>>[i - n]
      <4> DEFINE z == <<SPACE>>
                 a == Command
      <4>1. z \in Seq(Chars) /\ Len(z) = 1  BY <3>1
      <4>2. a \in Seq(Chars) /\ Len(a) = n  BY <1>3
      <4>3. c = a \o z  OBVIOUS
      <4> HIDE DEF z, a, c
      <4>4. a \o z \in Seq(Chars) /\ Len(a \o z) = Len(a) + Len(z)
            /\ \A i \in 1 .. Len(a) + Len(z) :
                  (a \o z)[i] = IF i <= Len(a) THEN a[i] ELSE z[i - Len(a)]
        BY <4>1, <4>2, Joins
      <4> QED BY <4>1, <4>2, <4>3, <4>4 DEF z, a
    <3> HIDE DEF c
    <3>3. ASSUME NEW i \in 1 .. n + 1 PROVE c[i] = typed[i]
      <4>1. CASE i <= n  BY <1>3, <3>2, <4>1
      <4>2. CASE i = n + 1
        <5>1. i - n = 1 /\ ~(i <= n)  BY <4>2
        <5> QED BY <1>3, <3>1, <3>2, <4>2, <5>1
      <4> QED BY <4>1, <4>2
    <3> QED BY <3>2, <3>3
  <2> HIDE DEF c
  <2>2. Len(typed) = Len(c) + Len(Argument)  BY <1>3, <1>4, <2>1
  <2>3. \A i \in 1 .. Len(c) : typed[i] = c[i]  BY <2>1
  <2>4. \A i \in 1 .. Len(Argument) : typed[Len(c) + i] = Argument[i]  BY <1>3, <2>1
  <2>5. typed = c \o Argument  BY <1>3, <1>4, <2>1, <2>2, <2>3, <2>4, Split
  <2> QED BY <2>5 DEF c
<1>8. Gap(gap) \in Seq(Chars)
  <2>1. gap \in Nat  BY <1>3, <1>4
  <2> QED BY <2>1, NoSuchChar
<1>9. typed = RunCommand \o <<SPACE>> \o EditorFile \o Gap(gap) \o r
  <2> DEFINE g == Gap(gap)
  <2>1. typed = (RunCommand \o <<SPACE>>) \o (EditorFile \o (g \o r))  BY <1>1, <1>6, <1>7
  <2>2. RunCommand \in Seq(Chars) /\ g \in Seq(Chars)  BY <1>1, <1>3, <1>8
  <2> HIDE DEF g
  <2>3. Assembled(RunCommand, EditorFile, g, r)  BY <1>5, <2>2, Assembling
  <2> QED BY <2>1, <2>3 DEF g, Assembled
<1>10. gap \in 0 .. Len(typed)  BY <1>3, <1>4
<1>11. args' = r  BY <1>1 DEF r
<1> QED BY <1>1, <1>6, <1>9, <1>10, <1>11 DEF ArgsAreTyped

\* A program is told what stands behind its name in the line (cmd_run, args_set),
\* and the line stays as it was typed while the program runs.
THEOREM ToldWhatIsTyped == Spec => []ArgsAreTyped
<1>1. Init => ArgsAreTyped  BY DEF Init, EditorInit, ArgsAreTyped
<1>2. LineInv /\ ArgsAreTyped /\ [Next]_vars => ArgsAreTyped'
  <2> SUFFICES ASSUME LineInv, ArgsAreTyped, [Next]_vars PROVE ArgsAreTyped'  OBVIOUS
  <2>1. CASE Key \/ Enter  BY <2>1 DEF Key, Enter, Shell, editorVars, ArgsAreTyped
  <2>2. CASE cmd_run  BY <2>2, Told
  <2>3. CASE Editing
    <3>1. stage # "off" /\ typed' = typed /\ args' = args
      BY <2>3 DEF Editing, TakeName, AskName, NameKey, NameEnter, EditKey, SaveEnter, lineVars
    <3> QED BY <3>1 DEF ArgsAreTyped
  <2>4. CASE Leave
    BY <2>4 DEF Leave, save, QuitEnter, EditorStops, Off, ArgsAreTyped
  <2>5. CASE UNCHANGED vars  BY <2>5 DEF vars, lineVars, editorVars, ArgsAreTyped
  <2> QED BY <2>1, <2>2, <2>3, <2>4, <2>5 DEF Next
<1> QED BY <1>1, <1>2, LineAlways, PTL DEF Spec

-----------------------------------------------------------------------------
(* The editor's text, and the files it leaves.                             *)

TextChars == TextLetters \cup {SPACE, NEWLINE}
Texts     == {b \in Seq(TextChars) : Len(b) <= TextCapacity}

\* Nothing, or whole lines.
WholeLines(b) == b = <<>> \/ b[Len(b)] = NEWLINE

\* The text fits its buffer, and has lost the command's line when it is saved.
TextHolds == /\ files = [n \in FileNames |-> files[n]]
             /\ buffer \in Texts
             /\ stage = "save" => WholeLines(buffer)

\* The line that a command stands on starts behind the last line break.
LEMMA LineStartIs ==
    ASSUME NEW C, NEW b \in Seq(C)
    PROVE  LineStart(b) \in 0 .. Len(b) /\ (LineStart(b) > 0 => b[LineStart(b)] = NEWLINE)
<1> DEFINE ends == {i \in DOMAIN b : b[i] = NEWLINE}
           behind == {Len(b) - i : i \in ends}
<1>0. DOMAIN b = 1 .. Len(b) /\ Len(b) \in Nat  OBVIOUS
<1>1. CASE ends = {}  BY <1>0, <1>1 DEF LineStart
<1>2. CASE ends # {}
  <2>1. behind \subseteq Nat /\ behind # {}  BY <1>0, <1>2
  <2>2. PICK d \in behind : \A k \in behind : d <= k
    <3> HIDE DEF behind
    <3> QED BY <2>1, Least
  <2>3. PICK m \in ends : d = Len(b) - m  BY <2>2
  <2>4. \A x \in ends : x \in Int  BY <1>0
  <2>5. ASSUME NEW i \in ends PROVE i <= m
    <3>1. d <= Len(b) - i  BY <2>2
    <3> HIDE DEF ends
    <3>2. i \in Int /\ m \in Int  BY <2>4
    <3> QED BY <1>0, <2>3, <3>1, <3>2
  <2>6. m \in 1 .. Len(b) /\ b[m] = NEWLINE  BY <1>0
  <2> HIDE DEF ends
  <2>7. \A x \in ends : (\A y \in ends : x >= y) => x = m  BY <2>4, <2>5
  <2>8. Max(ends) = m  BY <2>4, <2>5, <2>7 DEF Max
  <2>9. LineStart(b) = m  BY <1>2, <2>8 DEF LineStart, ends
  <2> QED BY <2>6, <2>9
<1> QED BY <1>1, <1>2

LEMMA DropLeavesLines ==
    ASSUME NEW b \in Texts
    PROVE  buffer_drop_line(b) \in Texts /\ WholeLines(buffer_drop_line(b))
<1>1. b \in Seq(TextChars) /\ Len(b) \in Nat /\ Len(b) <= TextCapacity /\ TextCapacity \in Nat
  BY EditorAssumption DEF Texts
<1> DEFINE n == LineStart(b)
           t == SubSeq(b, 1, n)
<1>2. n \in 0 .. Len(b) /\ (n > 0 => b[n] = NEWLINE)  BY <1>1, LineStartIs
<1> HIDE DEF n
<1>3. t \in Seq(TextChars) /\ Len(t) = n /\ \A i \in 1 .. n : t[i] = b[i]
  BY <1>1, <1>2, FirstOnes
<1> HIDE DEF t
<1>4. t \in Texts  BY <1>1, <1>2, <1>3 DEF Texts
<1>5. WholeLines(t)
  <2>1. CASE n = 0  BY <1>3, <2>1 DEF WholeLines
  <2>2. CASE n > 0  BY <1>2, <1>3, <2>2 DEF WholeLines
  <2> QED BY <1>2, <2>1, <2>2
<1> QED BY <1>4, <1>5 DEF buffer_drop_line, t, n

LEMMA PushFits ==
    ASSUME NEW b \in Texts, NEW text \in Seq(TextChars)
    PROVE  Push(b, text) \in Texts
<1>1. /\ b \in Seq(TextChars) /\ Len(b) \in Nat /\ Len(b) <= TextCapacity /\ TextCapacity \in Nat
      /\ Len(text) \in Nat
  BY EditorAssumption DEF Texts
<1> DEFINE room == TextCapacity - Len(b)
           n == IF Len(text) < room THEN Len(text) ELSE room
           t == SubSeq(text, 1, n)
<1>2. n \in 0 .. Len(text) /\ Len(b) + n <= TextCapacity  BY <1>1
<1> HIDE DEF n
<1>3. t \in Seq(TextChars) /\ Len(t) = n  BY <1>2, FirstOnes
<1> HIDE DEF t
<1>4. b \o t \in Seq(TextChars) /\ Len(b \o t) = Len(b) + Len(t)  BY <1>1, <1>3, Joins
<1>5. b \o t \in Texts  BY <1>2, <1>3, <1>4 DEF Texts
<1> QED BY <1>5 DEF Push, t, n

LEMMA PopFits ==
    ASSUME NEW b \in Texts, b # <<>>
    PROVE  SubSeq(b, 1, Len(b) - 1) \in Texts
<1>1. b \in Seq(TextChars) /\ Len(b) \in Nat /\ Len(b) <= TextCapacity /\ TextCapacity \in Nat
  BY EditorAssumption DEF Texts
<1>2. Len(b) - 1 \in 0 .. Len(b)  BY <1>1
<1>3. /\ SubSeq(b, 1, Len(b) - 1) \in Seq(TextChars)
      /\ Len(SubSeq(b, 1, Len(b) - 1)) = Len(b) - 1
  BY <1>1, <1>2, FirstOnes
<1> QED BY <1>1, <1>3 DEF Texts

LEMMA NoText == <<>> \in Texts /\ WholeLines(<<>>)
  BY EditorAssumption DEF Texts, WholeLines

\* There is no system call that reads a file: the text starts empty.
LEMMA LoadsNothing == ASSUME NEW n, load(n) PROVE buffer' = <<>>
<1>1. read_file(n) = -1  BY DEF read_file, Supported
<1> QED BY <1>1 DEF load

LEMMA EditKeyFits == ASSUME TextHolds, EditKey PROVE TextHolds'
<1>0. buffer \in Texts /\ stage' = "edit" /\ files' = files  BY DEF TextHolds, EditKey
<1>1. ASSUME NEW ch \in TextLetters, buffer' = Push(buffer, <<ch>>) PROVE buffer' \in Texts
  <2>1. <<ch>> \in Seq(TextChars)  BY DEF TextChars
  <2> QED BY <1>0, <1>1, <2>1, PushFits
<1>2. ASSUME buffer' = Push(buffer, [i \in 1 .. TAB_WIDTH |-> SPACE]) PROVE buffer' \in Texts
  <2>1. [i \in 1 .. TAB_WIDTH |-> SPACE] \in Seq(TextChars)
    <3>1. TAB_WIDTH \in Nat /\ SPACE \in TextChars  BY DEF TAB_WIDTH, TextChars
    <3> QED BY <3>1
  <2> QED BY <1>0, <1>2, <2>1, PushFits
<1>3. ASSUME buffer # <<>>, buffer' = SubSeq(buffer, 1, Len(buffer) - 1) PROVE buffer' \in Texts
  BY <1>0, <1>3, PopFits
<1>4. ASSUME buffer' = Push(buffer, <<NEWLINE>>) PROVE buffer' \in Texts
  <2>1. <<NEWLINE>> \in Seq(TextChars)  BY DEF TextChars
  <2> QED BY <1>0, <1>4, <2>1, PushFits
<1>5. buffer' \in Texts  BY <1>1, <1>2, <1>3, <1>4 DEF EditKey
<1> QED BY <1>0, <1>5 DEF TextHolds

LEMMA TextStep == ASSUME TextHolds, [Next]_vars PROVE TextHolds'
<1>0. buffer \in Texts /\ files = [n \in FileNames |-> files[n]]  BY DEF TextHolds
<1>1. CASE UNCHANGED editorVars  BY <1>1 DEF editorVars, TextHolds
<1>2. CASE cmd_run
  <2>1. buffer' = buffer /\ files' = files /\ stage' = "main"  BY <1>2 DEF cmd_run
  <2> QED BY <1>0, <2>1 DEF TextHolds
<1>3. ASSUME NEW n, load(n), files' = files, stage' = "edit" PROVE TextHolds'
  BY <1>0, <1>3, LoadsNothing, NoText DEF TextHolds
<1>4. ASSUME buffer' = buffer, files' = files, stage' \in {"main", "name"} PROVE TextHolds'
  BY <1>0, <1>4 DEF TextHolds
<1>5. CASE TakeName(args)  BY <1>3, <1>5 DEF TakeName
<1>6. CASE AskName(args)  BY <1>4, <1>6 DEF AskName
<1>7. CASE NameKey  BY <1>4, <1>7 DEF NameKey
<1>8. CASE NameEnter  BY <1>3, <1>8 DEF NameEnter
<1>9. CASE EditKey  BY <1>9, EditKeyFits
<1>10. CASE SaveEnter
  BY <1>0, <1>10, DropLeavesLines DEF SaveEnter, TextHolds
<1>11. CASE save
  <2>1. files' = [n \in FileNames |-> files'[n]]  BY <1>0, <1>11 DEF save
  <2> QED BY <1>11, <2>1, NoText DEF save, Off, TextHolds
<1>12. CASE QuitEnter \/ EditorStops
  BY <1>0, <1>12, NoText DEF QuitEnter, EditorStops, Off, TextHolds
<1> QED BY <1>1, <1>2, <1>5, <1>6, <1>7, <1>8, <1>9, <1>10, <1>11, <1>12
        DEF Next, Key, Enter, Shell, Editing, Leave, vars

\* What one step does to the files.
Saves == \A n \in FileNames : files'[n] # files[n] =>
             /\ n = name /\ stage = "save"
             /\ files'[n] \in {<<>>, buffer}
             /\ buffer = <<>> \/ buffer[Len(buffer)] = NEWLINE

LEMMA StepSaves == ASSUME TextHolds, [Next]_vars PROVE Saves
<1>1. CASE save
  <2> SUFFICES ASSUME NEW n \in FileNames, files'[n] # files[n]
               PROVE  /\ n = name /\ stage = "save"
                      /\ files'[n] \in {<<>>, buffer}
                      /\ buffer = <<>> \/ buffer[Len(buffer)] = NEWLINE
    BY DEF Saves
  <2>1. stage = "save" /\ DOMAIN files = FileNames  BY <1>1 DEF save, TextHolds
  <2>2. PICK contents \in {buffer, <<>>, files[name]} :
               files' = [files EXCEPT ![name] = contents]
    BY <1>1 DEF save
  <2>3. n = name /\ files'[n] = contents  BY <2>1, <2>2
  <2>4. WholeLines(buffer)  BY <2>1 DEF TextHolds
  <2> QED BY <2>1, <2>2, <2>3, <2>4 DEF WholeLines
<1>2. CASE ~save
  <2>1. files' = files
    BY <1>2 DEF Next, Key, Enter, Shell, cmd_run, Editing, Leave, TakeName, AskName, NameKey,
                NameEnter, EditKey, SaveEnter, QuitEnter, EditorStops, editorVars, vars
  <2> QED BY <2>1 DEF Saves
<1> QED BY <1>1, <1>2

\* The disk gets a text only from :wq, without the command's line, under the
\* name in the editor's head (main, save and edit of the editor), whatever its
\* size, the names and the letters are.
THEOREM OnlySaved == Spec => OnlySavedText
<1>1. Init => TextHolds
  <2> SUFFICES ASSUME Init PROVE TextHolds  OBVIOUS
  <2>1. buffer = <<>> /\ stage = "off" /\ files \in [FileNames -> {<<>>}]
    BY DEF Init, EditorInit
  <2> QED BY <2>1, NoText DEF TextHolds
<1>2. TextHolds /\ [Next]_vars => TextHolds'  BY TextStep
<1>3. TextHolds /\ [Next]_vars => [Saves]_vars  BY StepSaves
<1> QED BY <1>1, <1>2, <1>3, PTL DEF Spec, OnlySavedText, Saves
=============================================================================
