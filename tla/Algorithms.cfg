\* Lists of up to four strings, pages of up to three collections, manifests
\* around the powers of ten; two requests that grow a collection, two DOIs in a
\* request to Discover; three requests to one instance of the Lambda.
SPECIFICATION Spec
CONSTANTS
  DOIs = {d1, d2, d3, x}
  Pennsieve = {d1, d2, d3}
  Contributors <- SomeContributors
  Symbols <- SomeSymbols
  Names = {"Ann", "Bob"}
  ORCIDs = {"0000", "0001"}
  Keys = {"key", "rotated"}
  Inputs <- SmallInputs
  Banner = banner
  Nil = Nil
  Failed = Failed
  MaxLength = 4
  MaxBanners = 2
  MaxPerRequest = 2
INVARIANTS
  EachDOIOnce
  BannersOfFirstFound
  BatchesCoverTheList
  PageIsExact
  ManifestStatesItsSize
  AcceptedDOIsAreShown
  ContributorsAreThoseShown
  ListBannersArePrefixes
  AcceptedFitsTheTables
  AcceptedIsReadyWhenComplete
  ContributorsAreToldApart
  ClientsShareTheKey
  LookupIsRetried
  AnswersBlameTheRightSide
