\* StartPublish reports an error that is not ErrPublishInProgress.
SPECIFICATION Spec
CONSTANTS
  None = None
  Collections = {c1}
  Contents = {full, empty}
  Publishable = {full}
  Procs = {p1, p2, p3}
  FinalizeReplies = {"PUBLISH_SUCCEEDED", "PUBLISH_FAILED", "PUBLISH_IN_PROGRESS"}
  RemovalReplies = {"UNPUBLISHED", "PUBLISH_FAILED", "PUBLISH_IN_PROGRESS"}
  MaxVersion = 2
  Refused = {"StartPublish"}
  Lost = {}
  MayCrash = FALSE
SYMMETRY ProcSymmetry
INVARIANTS
  Exclusive
