SPECIFICATION BootSpec
CONSTANTS
  NumOut = 2
  NumIn = 1
  Kinds = {"intact"}
  Lives = 2
  CrashAt = {"tx_power", "loop"}
  Presets = {"long", "short"}
INVARIANTS
  StartupTypeOK
  PresetFixesModem
  InitLeavesSendAlone
  ListensAfterStart
PROPERTIES
  ModemWrittenAsleep
  MainGetsThrough
