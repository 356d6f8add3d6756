\* Three handlers, four clicks or commands, a file, two windows, two events.
SPECIFICATION ChatSpec
SYMMETRY Symmetry
CONSTANTS
  f1 = f1  h1 = h1  h2 = h2  h3 = h3
  Attachments <- MCFiles
  Handlers <- MCHandlers
  MaxClicks = 4
  MaxWindows = 2
  MaxEvents = 2
  NoOne = NoOne
INVARIANTS FilesGoOnceUnlessOverlapped BusyIsNotStuck ScreenIsTheRecordUnlessStrayed
CHECK_DEADLOCK FALSE
