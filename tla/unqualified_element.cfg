CONSTANTS
  Elements <- UnqualifiedElements
  Attributes <- MixedAttributes
  Texts = {0, 1}
  MaxAttrs = 2
  MaxEvents = 3
  Comparator = "transFromSuckers"
SPECIFICATION Spec
INVARIANT UnqualifiedRefused
