--------------------------- MODULE ManifestStore ----------------------------
(***************************************************************************)
(* The manifests in the publish bucket (store/manifests/manifests.go).     *)
(* All versions of a collection share one key (publishing/manifests.go,    *)
(* S3Key); the bucket is versioned, so a save adds an object version and a *)
(* delete names the version it removes.  An object version is named here   *)
(* by the Discover version whose manifest it holds.                        *)
(***************************************************************************)
EXTENDS Publishing, Naturals

VARIABLE objects  \* objects[c]: the versions whose manifest is in the bucket

ManifestTypeOK == objects \in [Collections -> SUBSET Nat]

ManifestInit == objects = [c \in Collections |-> {}]

SaveManifest(c, v) == objects' = [objects EXCEPT ![c] = @ \cup {v}]

\* Mutation: the key is deleted, not one version of it.
DeleteManifestKey(c, v) == objects' = [objects EXCEPT ![c] = {}]

DeleteManifestVersion(c, v) == objects' = [objects EXCEPT ![c] = @ \ {v}]

\* "Discover removes objects from S3, so we don't need to do it here."
RemoveObjects(c) == objects' = [objects EXCEPT ![c] = {}]

=============================================================================
