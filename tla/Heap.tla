-------------------------------- MODULE Heap --------------------------------
(***************************************************************************)
(* The kernel's allocator (src/src/stdlib.c) as operators on its list of   *)
(* blocks.  Sizes and addresses count words of 4 bytes from RAM_HEAP: the  *)
(* one caller, the display, asks for whole words, so the rounding of       *)
(* kmalloc does nothing.                                                   *)
(*                                                                         *)
(* Both functions run with interrupts off.  When the list no longer has    *)
(* the block that kfree is given, kfree clears the lowest bit of a word of *)
(* memory.  The display lets that happen, but the word is free, or black   *)
(* in a new buffer, or a pointer: nothing changes.                         *)
(***************************************************************************)
EXTENDS Integers, SequencesExt

CONSTANT HeapWords  \* HEAP_SIZE

Header == 2         \* sizeof(block_header_t)

ASSUME HeapAssumption == HeapWords \in Nat /\ HeapWords > Header

NULL == 0           \* no payload is at 0: a header comes before it

heap_init == <<[at |-> 0, size |-> HeapWords - Header, used |-> FALSE]>>

End(b)     == b.at + Header + b.size
Payload(b) == b.at + Header

-----------------------------------------------------------------------------
Fits(heap, n) == {i \in DOMAIN heap : ~heap[i].used /\ heap[i].size >= n}

FirstFit(heap, n) == CHOOSE i \in Fits(heap, n) : \A j \in Fits(heap, n) : i <= j

\* The rest becomes a block of its own when it has room for a header and a word.
Split(b, n) ==
    IF b.size >= n + Header + 1
    THEN << [b EXCEPT !.size = n, !.used = TRUE],
            [at |-> b.at + Header + n, size |-> b.size - n - Header, used |-> FALSE] >>
    ELSE << [b EXCEPT !.used = TRUE] >>

\* kmalloc's answer, and the list it leaves.
kmalloc(heap, n) ==
    IF Fits(heap, n) = {} THEN [p |-> NULL, heap |-> heap]
    ELSE LET i == FirstFit(heap, n)
         IN  [p    |-> Payload(heap[i]),
              heap |-> SubSeq(heap, 1, i - 1) \o Split(heap[i], n)
                           \o SubSeq(heap, i + 1, Len(heap))]

-----------------------------------------------------------------------------
\* Fault: the header between the two is not counted.
JoinShort(list, b) ==
    IF list # <<>> /\ End(Last(list)) = b.at
    THEN Append(Front(list), [at |-> Last(list).at, size |-> Last(list).size + b.size, used |-> FALSE])
    ELSE Append(list, b)

\* One turn of kfree's loop: the block is joined to the one before it if they
\* touch, whether either of them is in use or not.
Join(list, b) ==
    IF list # <<>> /\ End(Last(list)) = b.at
    THEN Append(Front(list), [at   |-> Last(list).at,
                              size |-> Last(list).size + Header + b.size,
                              used |-> FALSE])
    ELSE Append(list, b)

Released(heap, p) ==
    [i \in DOMAIN heap |-> IF Payload(heap[i]) = p THEN [heap[i] EXCEPT !.used = FALSE]
                                                   ELSE heap[i]]

\* The list joined up to its i-th block, for i from none to all.
Joined(list) ==
    LET upto[i \in 0 .. Len(list)] == IF i = 0 THEN <<>> ELSE Join(upto[i - 1], list[i])
    IN  upto[Len(list)]

kfree(heap, p) == IF p = NULL THEN heap ELSE Joined(Released(heap, p))
=============================================================================
