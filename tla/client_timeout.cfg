CONSTANTS
  Clicks = {c1, c2, c3}
  NoClick = NoClick
SPECIFICATION Spec
INVARIANT TimersOutstanding
INVARIANT HeardNotReported
PROPERTY UnansweredReported
