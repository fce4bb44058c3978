\* The editor is run twice, for two files.
CONSTANTS
    IntWord = 1024
  Letters = {"r", "e", "a"}
  LineCapacity = 4
  Columns = 7
  MaxTabs = 1
  NameLetters = {"r", "e", "a"}
  TextLetters = {"w", "q"}
  NameCapacity = 2
  TextCapacity = 3
  SaveLine <- Save
  QuitLine <- Quit
  EditorFile <- Ed
  RunCommand <- Run
SPECIFICATION Spec
INVARIANT EditsNamedFile
