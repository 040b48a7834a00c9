CONSTANTS
  Keys = {"k1", "k2"}
  Messages = {"bare", "oneLine", "indented", "idOnOwn", "attributes", "twoOnLine", "brokenTags",
              "cutStart", "none"}
  Text <- Layouts
  Inserts <- InsertsAny
  MaxRuns = 2
SPECIFICATION Spec
INVARIANT TypeOK
INVARIANT InsertedAsGiven
INVARIANT ProcessClosesStreams
INVARIANT OnlyIdentifiersChange
INVARIANT StoredIdentifierNeverSent
INVARIANT IdentifiersUnique
INVARIANT EarlierRowsDone
PROPERTY Terminates
