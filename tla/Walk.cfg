\* A client walks through its list while up to three collections, its own and
\* others', are created, changed and deleted.
SPECIFICATION Spec
CONSTANTS
  d1 = d1  d2 = d2  text1 = text1  text2 = text2 
  MaxId = 3
  Users = {me, other}
  Me = me
  DOIs = {d1, d2}
  Contents <- TwoContents
  MaxBanner = 1
  Limits = {0, 1, 2}
INVARIANTS
  TypeOK
  NothingIsMissed
  NothingIsRepeated
  PageAgreesWithTotal
  TornOnlyByAChange
