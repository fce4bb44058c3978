\* Lines, runs of the editor and what they leave in the files.
CONSTANTS
    IntWord = 1024
  Letters = {"r", "e"}
  LineCapacity = 4
  Columns = 7
  MaxTabs = 1
  NameLetters = {"r", "e"}
  TextLetters = {"w", "q"}
  NameCapacity = 2
  TextCapacity = 3
  SaveLine <- Save
  QuitLine <- Quit
  EditorFile <- Ed
  RunCommand <- Run
SPECIFICATION Spec
INVARIANTS EchoMatches RunsWhatIsTyped ArgsAreTyped
PROPERTY OnlySavedText
