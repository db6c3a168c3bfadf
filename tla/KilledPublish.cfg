\* An invocation is killed; the others run to their end.
SPECIFICATION FairSpec
CONSTANTS
  None = None
  Collections = {c1}
  Contents = {full, empty}
  Publishable = {full}
  Procs = {p1}
  FinalizeReplies = {"PUBLISH_SUCCEEDED", "PUBLISH_FAILED", "PUBLISH_IN_PROGRESS"}
  RemovalReplies = {"UNPUBLISHED", "PUBLISH_FAILED", "PUBLISH_IN_PROGRESS"}
  MaxVersion = 1
  Refused = {}
  Lost = {}
  MayCrash = TRUE
PROPERTIES
  InProgressIsTemporary
