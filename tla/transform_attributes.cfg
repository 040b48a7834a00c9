CONSTANTS
  Elements <- TaggedElements
  Attributes <- TaggedAttributes
  Texts = {0}
  MaxAttrs = 3
  MaxEvents = 2
  Comparator = "transFromSuckers"
SPECIFICATION Spec
INVARIANT AttributesSorted
INVARIANT DeclarationsCanonical
PROPERTY Terminates
