--------------------------- MODULE ProcessStreams ---------------------------
(***************************************************************************)
(* The streams of one call of SmevImportedTransForm.process() and the      *)
(* exception it leaves with.  The event loop itself is SmevTransform; here *)
(* it is one step that ends or breaks off.                                 *)
(***************************************************************************)
EXTENDS Integers, SequencesExt

VARIABLES
  phase,        \* where the call is
  streams,      \* the streams and event streams that are open
  closed,       \* the closes that the finally block is done with
  unclosed,     \* the streams whose close threw
  debugStream,  \* whether the DebugOutputStream was created
  thrown        \* what the call throws

streamVars == <<phase, streams, closed, unclosed, debugStream, thrown>>

Arguments == {"argSrc", "argDst"}

StreamsInit ==
  /\ phase = "returned"
  /\ streams = {} /\ closed = 0 /\ unclosed = {}
  /\ debugStream = FALSE
  /\ thrown = "nothing"

\* The caller has opened both arguments.
process ==
  /\ phase = "returned"
  /\ phase' = "createReader"
  /\ streams' = Arguments /\ closed' = 0 /\ unclosed' = {}
  /\ debugStream' = FALSE
  /\ thrown' = "nothing"

CreateReader ==
  /\ phase = "createReader"
  /\ phase' = "createWriter"
  /\ streams' = streams \cup {"src"}
  /\ UNCHANGED <<closed, unclosed, debugStream, thrown>>

\* The level of a logger can be set while the program runs: whenever it is
\* asked, logger.isDebugEnabled() may be either.
DebugEnabled == BOOLEAN

CreateWriter ==
  /\ phase = "createWriter"
  /\ phase' = "loop"
  /\ streams' = streams \cup {"dst"}
  /\ debugStream' \in DebugEnabled
  /\ UNCHANGED <<closed, unclosed, thrown>>

LoopEnds ==
  /\ phase = "loop"
  /\ phase' = "finally"
  /\ UNCHANGED <<streams, closed, unclosed, debugStream, thrown>>

\* The XMLStreamException that reader, writer and loop may throw.
StreamException ==
  /\ phase \in {"createReader", "createWriter", "loop"}
  /\ phase' = "finally"
  /\ debugStream' \in IF phase = "createWriter" THEN DebugEnabled ELSE {debugStream}
  /\ thrown' = "TransformationException"
  /\ UNCHANGED <<streams, closed, unclosed>>

\* The closes of the finally block in their order.
CloseOrder == <<"src", "dst", "argSrc", "argDst">>
Closing == CloseOrder[closed + 1]

\* An event stream that was not created is null, and skipped.
CloseDone ==
  /\ closed' = closed + 1
  /\ streams' = streams \ {Closing}
  /\ UNCHANGED unclosed

\* Seeded fault: the closes share one try block.
CloseFailsForAll ==
  /\ Closing \in streams
  /\ closed' = Len(CloseOrder)
  /\ unclosed' = unclosed \cup {Closing}
  /\ UNCHANGED streams

\* Each close has a try block of its own; its exception is logged, no more.
CloseFails ==
  /\ Closing \in streams
  /\ closed' = closed + 1
  /\ unclosed' = unclosed \cup {Closing}
  /\ UNCHANGED streams

Close ==
  /\ phase = "finally" /\ closed < Len(CloseOrder)
  /\ CloseDone \/ CloseFails
  /\ UNCHANGED <<phase, debugStream, thrown>>

\* Behind the closes the logger is asked again; getCollectedData() of a
\* stream that was never created throws.
LogContent ==
  /\ phase = "finally" /\ closed = Len(CloseOrder)
  /\ phase' = "returned"
  /\ \E debug \in DebugEnabled :
       thrown' = IF debug /\ ~debugStream THEN "NullPointerException" ELSE thrown
  /\ debugStream' = FALSE
  /\ UNCHANGED <<streams, closed, unclosed>>

\* The caller goes on without the variables of the call.
CallIsOver ==
  /\ phase = "returned"
  /\ streams' = {} /\ closed' = 0 /\ unclosed' = {} /\ thrown' = "nothing"
  /\ UNCHANGED <<phase, debugStream>>

StreamsTypeOK ==
  /\ phase \in {"createReader", "createWriter", "loop", "finally", "returned"}
  /\ streams \subseteq Range(CloseOrder) /\ unclosed \subseteq streams
  /\ closed \in 0..Len(CloseOrder)
  /\ debugStream \in BOOLEAN
  /\ thrown \in {"nothing", "TransformationException", "NullPointerException"}

\* When process() is over, each stream it has opened and both its arguments
\* were closed or their own close failed, whichever statement the exception
\* came from and whichever of the other closes failed.  Before that the file
\* is not closed under a writer that still has to be.
ProcessClosesStreams ==
  /\ phase = "returned" => streams = unclosed
  /\ "dst" \in streams \ unclosed => "argDst" \in streams
=============================================================================
