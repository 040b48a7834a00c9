CONSTANTS
  r1 = r1
  r2 = r2
  Requests = {r1, r2}
  Size <- Sizes
  Nobody = Nobody
  Leftovers <- OldFiles
  Threads = 2
SPECIFICATION Spec
INVARIANT TransformAnswersOwn
