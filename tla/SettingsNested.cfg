SPECIFICATION Spec
CONSTANTS
  KeyOrder <- DottedKeys
  Inner = {"reserve-space", "label"}
  Overrides <- SmallOverrides
  Counts = {1, 3}
INVARIANT
  SettingsWritten
CHECK_DEADLOCK FALSE
