------------------------------- MODULE FatName ------------------------------
(***************************************************************************)
(* Names on the volume: what format_fat_name (src/src/fs.c) makes of the   *)
(* name a program gives, and when two names are one.  A character is its   *)
(* code; the NUL behind a name is left out.                                *)
(***************************************************************************)
EXTENDS Integers, Sequences

CONSTANTS BaseLength, ExtLength  \* 8 and 3, of out[11]

ASSUME NameAssumption == BaseLength \in Nat /\ ExtLength \in Nat

Space == 32
Dot   == 46

upper(c) == IF c \in 97 .. 122 THEN c - 32 ELSE c

\* How many characters come before the first dot, or before the end.
Stop(name) == CHOOSE k \in 0 .. Len(name) :
                  /\ \A i \in 1 .. k : name[i] # Dot
                  /\ k = Len(name) \/ name[k + 1] = Dot

\* The place in name of what goes to out[p], if the name has as many.
Source(name, p) == IF p < BaseLength THEN p + 1
                                     ELSE Stop(name) + 2 + (p - BaseLength)

Present(name, p) == IF p < BaseLength THEN p < Stop(name)
                                      ELSE Source(name, p) <= Len(name)

Out == 0 .. BaseLength + ExtLength - 1

format_fat_name(name) ==
    [p \in Out |-> IF Present(name, p) THEN upper(name[Source(name, p)]) ELSE Space]

fat_name_equal(raw, formatted) == \A n \in Out : raw[n] = formatted[n]

-----------------------------------------------------------------------------
\* Names that have room in an entry, without spaces, and without a dot at the
\* end.
Fits83(name) ==
    /\ Stop(name) <= BaseLength
    /\ Len(name) <= Stop(name) + 1 + ExtLength
    /\ Len(name) # Stop(name) + 1
    /\ \A i \in DOMAIN name : name[i] # Space

SameUpToCase(a, b) == Len(a) = Len(b) /\ \A i \in DOMAIN a : upper(a[i]) = upper(b[i])

\* Of names that fit, only those that differ in nothing but case find each
\* other's files.
KeptApart(a, b) ==
    Fits83(a) /\ Fits83(b) /\ fat_name_equal(format_fat_name(a), format_fat_name(b))
        => SameUpToCase(a, b)

\* Case never matters, also not in names that do not fit.
CaseIgnored(a, b) == SameUpToCase(a, b) => format_fat_name(a) = format_fat_name(b)
=============================================================================
