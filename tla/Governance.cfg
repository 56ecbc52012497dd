SPECIFICATION FairSpec
CONSTANTS
  Markets = {m1}
  Positions = {p1, p2}
  m1 = m1
  p1 = p1
  p2 = p2
  MaxVersion = 3
INVARIANT ReadsItsLayout
PROPERTY EveryoneLeaves
CHECK_DEADLOCK FALSE
