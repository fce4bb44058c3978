------------------------------ MODULE MCAppRun ------------------------------
(* One size over the limit fits in the heap, but not twice; one is empty.  *)
(* The screen has three cells by two, and rows with bytes between them.    *)
EXTENDS AppRun, FrameBuffer

ProgramModes == {<<2, 2>>, <<3, 1>>, <<3, 2>>, <<6, 4>>, <<0, 1>>}

\* The loop of video_memset: a row, where it begins, what is left to write.
Loop[r \in 0 .. vbe_height, x \in 0 .. vbe_width, left \in 0 .. 50] ==
    IF left = 0 \/ r >= vbe_height THEN {}
    ELSE LET chunk == Lesser(left, vbe_width - x)
         IN  Row(r, x, chunk) \union Loop[r + 1, 0, left - chunk]

\* FrameBuffer's video_memset writes what the loop does.
ASSUME MemsetIsLoop ==
    \A x \in {0, 1, 23}, y \in {0, 14, 15}, n \in {0, 1, 23, 24, 25, 48, 50} :
        video_memset(x, y, n) = Loop[y, x, n]
=============================================================================
