------------------------------ MODULE MCServer ------------------------------
(* Instances of Server: the first request's document is one chunk long, the *)
(* others' two, so that a shorter result can follow a longer one.  A file   *)
(* in the working directory is new, as long as the first result or longer   *)
(* than both.                                                               *)
EXTENDS Server

CONSTANTS r1, r2

Sizes == [r \in Requests |-> IF r = r1 THEN 1 ELSE 2]

Old(part) == [of |-> Nobody, part |-> part]
OldFiles  == {<<>>, <<Old(1)>>, <<Old(1), Old(2), Old(3)>>}
=============================================================================
