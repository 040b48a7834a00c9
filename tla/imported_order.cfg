CONSTANTS
  Elements <- TaggedElements
  Attributes <- TaggedAttributes
  Texts = {0}
  MaxAttrs = 3
  MaxEvents = 2
  Comparator = "SmevImportedTransForm"
SPECIFICATION Spec
INVARIANT AttributesSorted
