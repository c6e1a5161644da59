CONSTANTS
  Top = 9
  Lengths = {1, 4}
  MaxCalls = 3
  Dumps <- MCDumps
  Kilo = 4
  Units = 2
  Width = 64
  Scenes <- MCScenes
  Disk <- MCDisk
  Commands <- MCCommands
SPECIFICATION DumperSpec
INVARIANTS
  ModuleHoldsAddress
