\* The console after Ctrl-C in display_close.
CONSTANTS
    vbe_width = 24
    vbe_height = 16
    vbe_pitch = 100
    vbe_bpp = 32
    scale = 1
    Short = 256
    HeapWords = 46
    MaxPixels = 4
    VisibleRows = 1
    Modes <- ProgramModes
SPECIFICATION Spec
INVARIANT ConsoleUsable
