\* No invocation is killed, and StartPublish, FinishPublish and a refused
\* finalize do not fail: every request ends, and leaves nothing behind.
SPECIFICATION FairSpec
CONSTANTS
  None = None
  Collections = {c1}
  Contents = {full, empty}
  Publishable = {full}
  Procs = {p1, p2}
  FinalizeReplies = {"PUBLISH_SUCCEEDED", "PUBLISH_FAILED", "PUBLISH_IN_PROGRESS", "UNPUBLISHED"}
  RemovalReplies = {"PUBLISH_SUCCEEDED", "PUBLISH_FAILED", "PUBLISH_IN_PROGRESS", "UNPUBLISHED"}
  MaxVersion = 1
  Refused = {"Prepare", "PublishCollection", "SaveManifest", "DeleteManifestVersion", "UnpublishCollection", "DeleteCollection"}
  Lost = {"SaveManifest", "DeleteManifestVersion", "FinalizeCollectionPublish", "UnpublishCollection"}
  MayCrash = FALSE
INVARIANTS
  InProgressIsOwned
  PendingIsOwned
PROPERTIES
  EveryRequestAnswered
  InProgressIsTemporary
