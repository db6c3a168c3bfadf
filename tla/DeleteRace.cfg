\* A delete overlaps a publish; nothing fails.
SPECIFICATION Spec
CONSTANTS
  None = None
  Collections = {c1}
  Contents = {full, empty}
  Publishable = {full}
  Procs = {p1, p2}
  FinalizeReplies = {"PUBLISH_SUCCEEDED", "PUBLISH_FAILED", "PUBLISH_IN_PROGRESS"}
  RemovalReplies = {"UNPUBLISHED", "PUBLISH_FAILED", "PUBLISH_IN_PROGRESS"}
  MaxVersion = 1
  Refused = {}
  Lost = {}
  MayCrash = FALSE
SYMMETRY ProcSymmetry
INVARIANTS
  DeletedMeansUnpublished
