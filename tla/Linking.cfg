\* Three documents, two link jobs at a time, the night between them.
SPECIFICATION FairSpec
CONSTANTS
  d1 = d1
  d2 = d2
  d3 = d3
  p1 = p1
  p2 = p2
  s1 = s1
  n1 = n1
  NoNumber = NoNumber
  NoOpp = NoOpp
  Doc = {d1, d2, d3}
  Number = {p1, p2, s1, n1}
  Numberings <- MCNumberings
  Workers = 2
  MaxVersion <- MCMaxVersion
  Doubtful = {d1}
  MaxTroubles = 1
CHECK_DEADLOCK FALSE
INVARIANTS
  TypeOK
  UnreviewedUnlinked
  NumberLinks
  ReferencesDecide
  NumbersApart
PROPERTIES
  Converges
