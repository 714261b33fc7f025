\* Two panels and three endpoints, one of another chain, any of which may lag, fail
\* or hang, while switches are thrown and two additions are being parsed.
CONSTANTS
  polygon = polygon
  other = other
  e1 = e1
  e2 = e2
  e3 = e3
  ours = ours
  theirs = theirs
  third = third
  Chains = {polygon, other}
  Endpoints = {e1, e2, e3}
  Serves <- ServesMostly
  Rpc <- Listed
  Records = {r1, r2}
  None = None
  Keys = {ours, theirs, third}
  Documents <- SomeDocuments
  Shipped <- ShippedSets
  MaxAdds = 2
SPECIFICATION PageSpec
ACTION_CONSTRAINT OneOfThree
INVARIANTS GenuineAnchorIsNeverMissing NothingIsSentUnasked ChangeIsNeverHidden
PROPERTIES ImplementsLookup ReadsEnd AdditionsAreHonest
CHECK_DEADLOCK FALSE
