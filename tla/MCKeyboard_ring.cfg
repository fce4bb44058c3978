\* The handler against the reader, and keys taken in the end.
CONSTANTS
    Size = 3
    TickWord = 2048
    TIMER_FREQUENCY = 10
    Board <- ModifierBoard
SPECIFICATION FairSpec
INVARIANTS TypeOK ModifiersFollowKeys KeyStaysPut ShellGetsKey
PROPERTIES RefinesKeyQueue KeysHandled
