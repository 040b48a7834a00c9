CONSTANTS
  Elements <- NestedElements
  Attributes <- NestedAttributes
  Texts = {0, 1}
  MaxAttrs = 1
  MaxEvents = 4
  Comparator = "transFromSuckers"
SPECIFICATION Spec
INVARIANT TypeOK
INVARIANT ScopeInjective
INVARIANT OpenElementsMapped
INVARIANT EndAlwaysMapped
INVARIANT SameInfoset
INVARIANT PrefixesNumbered
PROPERTY EndTagMatchesStart
