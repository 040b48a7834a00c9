------------------------------- MODULE Fetch -------------------------------
(***************************************************************************)
(* The batch of ExecutorTest.submit(): every message of fns_files that is  *)
(* marked '0' is saved as <key>.xml, given a new identifier in             *)
(* <key>UUID.xml and transformed into <key>__trans.xml, all in one         *)
(* directory that keeps its files from run to run.  Executor, InjectId and *)
(* SmevImportedTransForm.process() are composed as the loop calls them;    *)
(* other programs insert into the table meanwhile.                         *)
(***************************************************************************)
EXTENDS Executor, InjectId, ProcessStreams

CONSTANTS
  Keys,      \* values of f_key
  Messages,  \* names of message texts
  Text,      \* Text[m]: message m as a sequence of lines
  Inserts,   \* data that insert() is called with
  MaxRuns    \* bound on the runs of the batch

ASSUME FetchAssumption ==
  /\ \A m \in Messages : Text[m] \in Seq(Seq([kind : TokenKinds, id : {0}]))
  /\ "null" \notin Messages /\ MaxRuns \in Nat

\* What fits the columns of the table has a key and a message in theirs.
ASSUME InsertsAssumption ==
  \A data \in Inserts :
    /\ data \in Seq([type : {"Int", "String", "Double", "Other"},
                     is : Keys \cup Messages \cup {"null", "0", "1"}])
    /\ Len(data) = Columns /\ (\A i \in DOMAIN data : data[i].type # "Other") =>
         data[1].is \in Keys /\ data[2].is \in Messages \cup {"null"}

VARIABLES
  pc,           \* the statement of the loop
  runs,         \* runs started so far
  result,       \* the rows of the result set
  cursor,       \* the current row of it
  lines,        \* what inject() has still to read of <key>.xml
  generated,    \* identifiers generated so far
  saved,        \* saved[k]: the lines of k.xml
  injected,     \* injected[k]: the content of kUUID.xml
  transformed   \* transformed[k]: what was written to k__trans.xml, and as a
                \* history the run that wrote it, whether it is whole, and
                \* whether its end may be lost in a close that failed

files == <<saved, injected, transformed>>
vars == <<executorVars, streamVars, pc, runs, result, cursor, lines, generated, files>>

Stored(row) == row.values[1].is      \* result.getInt("f_key")
Body(row)   == row.values[2].is      \* result.getString("f_body_xml")
key == Stored(result[cursor])

Unwritten == [text |-> <<>>, run |-> 0, whole |-> FALSE, lost |-> FALSE]

Row(k, m) == <<[type |-> "Int", is |-> k], [type |-> "String", is |-> m],
               [type |-> "String", is |-> "0"]>>

\* At most one message is waiting, from a program that may store null.
Init ==
  /\ StreamsInit
  /\ refused = {}
  /\ \/ table = <<>>
     \/ \E k \in Keys, m \in Messages \cup {"null"} :
          table = <<[values |-> Row(k, m), given |-> Row(k, m)]>>
  /\ pc = "ended" /\ runs = 0 /\ result = <<>> /\ cursor = 0
  /\ lines = <<>> /\ generated = 0
  /\ saved = [k \in Keys |-> <<>>]
  /\ injected = [k \in Keys |-> <<>>]
  /\ transformed = [k \in Keys |-> Unwritten]

\* The keys of new rows are new.
Insert ==
  /\ \E data \in Inserts :
       /\ \A i \in DOMAIN table : \A v \in Range(data) : v.is # Stored(table[i])
       /\ insert(data)
  /\ UNCHANGED <<streamVars, pc, runs, result, cursor, lines, generated, files>>

Submit ==
  /\ pc = "ended" /\ runs < MaxRuns
  /\ runs' = runs + 1
  /\ result' = submit /\ cursor' = 0
  /\ pc' = "next"
  /\ UNCHANGED <<executorVars, streamVars, lines, generated, files>>

\* Seeded fault: a row is taken without asking whether there is one.
NextRowUnasked ==
  /\ pc = "next"
  /\ pc' = "save" /\ cursor' = cursor + 1
  /\ UNCHANGED <<executorVars, streamVars, runs, result, lines, generated, files>>

NextRow ==
  /\ pc = "next"
  /\ IF cursor = Len(result)
     THEN pc' = "ended" /\ UNCHANGED cursor
     ELSE pc' = "save" /\ cursor' = cursor + 1
  /\ UNCHANGED <<executorVars, streamVars, runs, result, lines, generated, files>>

\* FileWriter truncates <key>.xml; wr.write(null) throws; an exception leaves
\* the old file, or any part of what was written.  inject() then reads
\* the file back and truncates its own.
Save ==
  /\ pc = "save"
  /\ LET body == IF Body(result[cursor]) = "null" THEN <<>> ELSE Text[Body(result[cursor])]
     IN  \/ /\ Body(result[cursor]) # "null"
            /\ pc' = "inject" /\ lines' = body
            /\ saved' = [saved EXCEPT ![key] = body]
            /\ injected' = [injected EXCEPT ![key] = <<>>]
         \/ /\ pc' = "ended"
            /\ \E part \in Prefixes(body) \cup {saved[key]} : saved' = [saved EXCEPT ![key] = part]
            /\ UNCHANGED <<lines, injected>>
  /\ UNCHANGED <<executorVars, streamVars, runs, result, cursor, generated, transformed>>

\* Seeded fault: the generator is asked once per run.
IdentifierOfRun == runs

newIdentifier == generated + 1

\* One line of inject(input, output); no separator is written after it.
InjectLine ==
  /\ pc = "inject" /\ lines # <<>>
  /\ \E line \in inject(Head(lines), newIdentifier) :
       /\ generated' = generated + (IF line = Head(lines) THEN 0 ELSE 1)
       /\ injected' = [injected EXCEPT ![key] = @ \o line]
  /\ lines' = Tail(lines)
  /\ UNCHANGED <<executorVars, streamVars, pc, runs, result, cursor, saved, transformed>>

\* An exception of inject() for this line, or of the file; the part of the
\* output that the writer still holds is lost.
InjectFails ==
  /\ pc = "inject"
  /\ pc' = "ended"
  /\ \E part \in Prefixes(injected[key]) : injected' = [injected EXCEPT ![key] = part]
  /\ lines' = <<>>
  /\ UNCHANGED <<executorVars, streamVars, runs, result, cursor, generated, saved,
                 transformed>>

\* FileOutputStream truncates <key>__trans.xml.
CallProcess ==
  /\ pc = "inject" /\ lines = <<>>
  /\ pc' = "process"
  /\ process
  /\ transformed' = [transformed EXCEPT ![key] = [Unwritten EXCEPT !.run = runs]]
  /\ UNCHANGED <<executorVars, runs, result, cursor, lines, generated, saved, injected>>

\* What the event loop writes for a document: blank texts are dropped.
Written(text) == Chosen(text, {i \in DOMAIN text : text[i].kind # "blank"})

\* A head and its tail are one tag again: the lines were joined without a
\* separator, which no tag needs whose rest starts with a blank or an end.
Transform ==
  /\ LoopEnds
  /\ transformed' = [transformed EXCEPT
       ![key].text = Written(injected[key]), ![key].whole = TRUE]

\* The reader or the writer breaks off, over a file or over a document that
\* is not well-formed (any may be: the model does not parse it).
TransformFails ==
  /\ StreamException
  /\ IF phase = "loop"
     THEN \E part \in Prefixes(Written(injected[key])) :
            transformed' = [transformed EXCEPT ![key].text = part]
     ELSE UNCHANGED transformed

\* What the writer or the file still held is lost when its close fails; a
\* file that is not whole is any part already.
CloseStreams ==
  /\ Close
  /\ IF transformed[key].whole /\ {"dst", "argDst"} \cap unclosed' # {}
     THEN transformed' = [transformed EXCEPT ![key].whole = FALSE, ![key].lost = TRUE]
     ELSE UNCHANGED transformed

Process ==
  /\ pc = "process"
  /\ \/ (CreateReader \/ CreateWriter) /\ UNCHANGED transformed
     \/ Transform
     \/ TransformFails
     \/ CloseStreams
     \/ LogContent /\ UNCHANGED transformed
  /\ UNCHANGED <<executorVars, pc, runs, result, cursor, lines, generated, saved, injected>>

\* Seeded fault: an exception is printed and the loop goes on.
ReturnAnyhow ==
  /\ pc = "process" /\ CallIsOver
  /\ pc' = "next"
  /\ UNCHANGED <<executorVars, runs, result, cursor, lines, generated, files>>

\* Seeded fault: a transformation that fails is tried again.
ReturnRetrying ==
  /\ pc = "process" /\ CallIsOver
  /\ pc' = IF thrown = "nothing" THEN "next" ELSE "inject"
  /\ UNCHANGED <<executorVars, runs, result, cursor, lines, generated, files>>

\* process() is back in the loop; an exception ends the batch.
Return ==
  /\ pc = "process" /\ CallIsOver
  /\ pc' = IF thrown = "nothing" THEN "next" ELSE "ended"
  /\ UNCHANGED <<executorVars, runs, result, cursor, lines, generated, files>>

Batch == \/ NextRow \/ Save \/ InjectLine \/ InjectFails
         \/ CallProcess \/ Process \/ Return

\* After the last run nothing but an insert can happen.
Done == pc = "ended" /\ runs = MaxRuns /\ UNCHANGED vars

Next == Insert \/ Submit \/ Batch \/ Done

\* The thread of the batch keeps running.
Spec == Init /\ [][Next]_vars /\ WF_vars(Batch)

-----------------------------------------------------------------------------
\* Every variable stays in its type: rows have a value for each column, the
\* cursor stays in the result set, files hold tokens.
TypeOK ==
  /\ StreamsTypeOK
  /\ \A i \in DOMAIN table : Len(table[i].values) = Columns
  /\ pc \in {"next", "save", "inject", "process", "ended"}
  /\ runs \in 0..MaxRuns /\ generated \in Nat
  /\ cursor \in 0..Len(result)
  /\ pc \in {"save", "inject", "process"} => cursor > 0
  /\ pc # "process" => phase = "returned"
  /\ \A k \in Keys : \A t \in Range(injected[k]) \cup Range(transformed[k].text) : t.id \in 0..generated

Whole == {k \in Keys : transformed[k].whole}
MessageOf(k) == LET i == CHOOSE i \in DOMAIN table : Stored(table[i]) = k
                IN  Text[Body(table[i])]

\* A line as the examples of the repository have it: an identifier only
\* between the two tags of its element, no element broken over lines.
Plain(line) ==
  /\ \A i \in DOMAIN line : line[i].kind \notin {"attrOpen", "head"} \cup Tails
  /\ \A i \in DOMAIN line : line[i].kind = "open" =>
       /\ i + 2 <= Len(line)
       /\ line[i + 1].kind = "text" /\ line[i + 2].kind = "close"
  /\ \A i \in DOMAIN line : line[i].kind = "close" => i > 2 /\ line[i - 2].kind = "open"

\* What is between an opening tag and the next token is all that differs.
SameButIdentifiers(new, old) ==
  /\ Len(new) = Len(old)
  /\ \A i \in DOMAIN new :
       \/ new[i] = old[i]
       \/ i > 1 /\ old[i - 1].kind = "open" /\ new[i].kind = old[i].kind

\* From the table to the transformed file, through three files and one
\* rewriting line by line, a message keeps its row and all its content
\* except the text of MessageID and blanks between tags.
OnlyIdentifiersChange ==
  \A k \in Whole : (\A i \in DOMAIN MessageOf(k) : Plain(MessageOf(k)[i])) =>
    SameButIdentifiers(transformed[k].text, Written(FlattenSeq(MessageOf(k))))

\* Lines with one MessageID at most, no end tag of an earlier one before it,
\* and "MessageID>" of its start tag on one line: inject() does not find a
\* start tag with attributes, nor "<ns:MessageID" with ">" on the next line.
OneIdentifier(line) ==
  /\ \A i \in DOMAIN line : OpensMessageId(line[i]) => EndsWithMessageId(line[i])
  /\ \A i, j \in DOMAIN line : OpensMessageId(line[i]) /\ EndsWithMessageId(line[j]) => i <= j

\* The file of a message of such lines, whichever of its other tags and its
\* end tag are broken, never carries the stored identifier: it has a new one,
\* or the batch has failed.
StoredIdentifierNeverSent ==
  \A k \in Whole : (\A i \in DOMAIN MessageOf(k) : OneIdentifier(MessageOf(k)[i])) =>
    LET text == transformed[k].text
    IN  \A i \in 2..Len(text) :
          OpensMessageId(text[i - 1]) /\ text[i].kind = "text" => text[i].id > 0

IdentifiersIn(k) == {t.id : t \in Range(transformed[k].text)} \ {0}

\* No two transformed files in the directory share an identifier, whether
\* one run wrote them or several.
IdentifiersUnique ==
  \A k, l \in Whole : k # l => IdentifiersIn(k) \cap IdentifiersIn(l) = {}

\* The rows that a run is done with are those before the cursor.
Passed == IF pc = "next" THEN cursor ELSE cursor - 1

\* The batch never goes past a row it did not transform in this run; only a
\* close that failed, which is logged and no more, can leave its file cut.
EarlierRowsDone ==
  \A i \in 1..Passed :
    LET file == transformed[Stored(result[i])]
    IN  (file.whole \/ file.lost) /\ file.run = runs

\* Every run comes to an end, with its last row or with an exception.
Terminates == pc # "ended" ~> pc = "ended"
=============================================================================
