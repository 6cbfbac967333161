\* As in exposition.cfg: what a collection shows that a publication overtakes.
SPECIFICATION Spec
CONSTANTS
  ModeOrder <- AllModes
  LabelOrder <- TwoPairs
  States <- ThreeStates
  Counts <- TwoCounts
  None = None
  MaxRounds = 3
INVARIANT OneModeActive
