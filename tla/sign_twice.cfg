CONSTANTS
  KeyPairs = {root, subject}
  Data = {digest, hello}
  Nothing = Nothing
SPECIFICATION Spec
INVARIANT SignatureOfData
