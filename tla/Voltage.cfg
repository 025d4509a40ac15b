SPECIFICATION FairSpec
CONSTANTS
  Volts = {v1, v2}
  ASIC_0V = v0
  ASIC_CORETEST_VOLT = v1
  Chips = 5
  Leds = {0, 2}
INVARIANTS
  TypeOK
  NoOtherVoltage
  Agrees
  ResetBeforeUse
PROPERTY CallReturns
