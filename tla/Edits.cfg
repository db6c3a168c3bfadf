\* Two updates and a deletion overlap; calls may fail.
SPECIFICATION FairSpec
CONSTANTS
  None = None
  d1 = d1  d2 = d2  draft = draft  foreign = foreign  text1 = text1  text2 = text2
  DOIs <- AllDOIs
  Pennsieve <- PennsieveDOIs
  Unpublished = {draft}
  Texts <- TwoTexts
  Editors = {e1, e2}
  Patches <- SomePatches
  Failing = TRUE
INVARIANTS
  TypeOK
PROPERTIES
  AtomicSpec
  EveryPatchAnswered
