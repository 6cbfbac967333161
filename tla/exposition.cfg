\* Three publications, of states and of counts, and collections between and across them.
SPECIFICATION Spec
CONSTANTS
  ModeOrder <- AllModes
  LabelOrder <- TwoPairs
  States <- ThreeStates
  Counts <- TwoCounts
  None = None
  MaxRounds = 3
INVARIANTS
  TypeOK
  SeriesRegular
  ConsistentUndisturbed
  ConsistencyInvariant
