SPECIFICATION BootSpec
CONSTANTS
  game = game
  keyboard = keyboard
  broken = broken
  huge = huge
  homebrew = homebrew
  Absent = Absent
  Programs <- MCPrograms
  MaxApplet = 2
  MaxStack = 1
  File <- MCFile
  Nros <- MCNros
  Containers <- MCContainers
  RamSize = 10
  HeaderSize = 1
  AppletBase = 5
INVARIANTS
  StackNamesApplets
  HeldNumbersNameTheirApplets
  BootedIsWhole
