\* Runs of programs with Ctrl-C at any step.
CONSTANTS
    vbe_width = 24
    vbe_height = 16
    vbe_pitch = 100
    vbe_bpp = 24
    scale = 1
    Short = 256
    HeapWords = 46
    MaxPixels = 4
    VisibleRows = 1
    Modes <- ProgramModes
SPECIFICATION Spec
INVARIANTS PromptHasScreen BuffersApart MemoryComesBack SuspendedWithDisplay NoRowMissed AbortLandsInExec
PROPERTY FailedOpenKeepsBuffers
