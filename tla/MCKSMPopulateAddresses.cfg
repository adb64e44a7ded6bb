SPECIFICATION PopulateSpec
CONSTANTS
  Responses <- SomeResponses
  Listings <- SomeListings
  Allowances <- SomeAllowances
INVARIANT
  AddressesCounted
