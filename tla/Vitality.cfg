\* Two characters; the clock does not wrap, and neither can hp.
SPECIFICATION Spec
CONSTANTS
  Characters = {c1, c2}
  ClockRange = 8
  ClockWraps = FALSE
  MaxLag = 8
  Timeout = 2
  CharRange = 16
  DefaultHp = 3
  Damages = {1, 3}
  MaxHits = 2
PROPERTIES
  OnlySilentOrDeadAreCut
  SilentAreCut
  DeadAreCut
CHECK_DEADLOCK FALSE
