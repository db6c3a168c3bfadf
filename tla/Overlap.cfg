\* Three invocations that compete for one collection, under every failure but
\* an error of StartPublish and an error of a FinishPublish that took effect.
SPECIFICATION Spec
CONSTANTS
  None = None
  Collections = {c1}
  Contents = {full, empty}
  Publishable = {full}
  Procs = {p1, p2, p3}
  FinalizeReplies = {"PUBLISH_SUCCEEDED", "PUBLISH_FAILED", "PUBLISH_IN_PROGRESS"}
  RemovalReplies = {"UNPUBLISHED", "PUBLISH_FAILED", "PUBLISH_IN_PROGRESS"}
  MaxVersion = 1
  Refused = {"FinishPublish", "Prepare", "PublishCollection", "SaveManifest", "DeleteManifestVersion", "FinalizeCollectionPublish", "UnpublishCollection", "DeleteCollection"}
  Lost = {"PublishCollection", "SaveManifest", "DeleteManifestVersion", "FinalizeCollectionPublish", "UnpublishCollection", "DeleteCollection"}
  MayCrash = TRUE
SYMMETRY ProcSymmetry
INVARIANTS
  TypeOK
  Exclusive
  RunningMeansInProgress
  CompletedAgreesWithDiscover
  CompletedHasManifest
  PublishedIsPublishable
PROPERTIES
  LockSpec
  SettledManifestStays
