\* A collection grows by two requests beyond what one lookup can name.
SPECIFICATION Spec
CONSTANTS
  DOIs = {d1, d2, d3, x}
  Pennsieve = {d1, d2, d3}
  Contributors <- SomeContributors
  Symbols <- SomeSymbols
  Names = {"Ann", "Bob"}
  ORCIDs = {"0000", "0001"}
  Keys = {"key", "rotated"}
  Inputs <- SmallInputs
  Banner = banner
  Nil = Nil
  Failed = Failed
  MaxLength = 2
  MaxBanners = 2
  MaxPerRequest = 2
INVARIANT LookupFitsTheURL
