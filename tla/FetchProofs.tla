---------------------------- MODULE FetchProofs ----------------------------
(***************************************************************************)
(* Proofs about Fetch, for every set of keys, messages and inserts and any *)
(* number of runs: types, streams, and what the transformed files contain. *)
(***************************************************************************)
EXTENDS FetchLemmas

\* The values that insert() is called with.
Values == [type : {"Int", "String", "Double", "Other"},
           is : Keys \cup Messages \cup {"null", "0", "1"}]

\* The rows of the table, as TableSound has them.
Rows == {row \in [values : Seq(Values), given : Seq(Values)] :
           /\ row.values = row.given /\ Len(row.values) = Columns
           /\ Stored(row) \in Keys /\ Body(row) \in Messages \cup {"null"}}

\* f_key is a key.
KeysDiffer(rows) ==
  \A i, j \in DOMAIN rows : Stored(rows[i]) = Stored(rows[j]) => i = j

\* f_key tells the rows of the table apart.
TableSound ==
  /\ table \in Seq(Rows) /\ KeysDiffer(table)
  /\ \A data \in refused :
       Len(data) # Columns \/ \E i \in DOMAIN data : data[i].type = "Other"

\* The rows of the result set are rows of the table.
ResultSound ==
  /\ result \in Seq(Rows) /\ KeysDiffer(result)
  /\ \A i \in DOMAIN result : \E j \in DOMAIN table : table[j] = result[i]
  /\ pc \in {"next", "save", "inject", "process", "ended"}
  /\ cursor \in 0..Len(result)
  /\ pc \in {"save", "inject", "process"} => cursor > 0
  /\ pc \in {"inject", "process"} => Body(result[cursor]) # "null"

\* What transformed[k] can be.
Outputs == [text : Seq(Tokens), run : Nat, whole : BOOLEAN, lost : BOOLEAN]

\* What the files and inject() hold.
FilesTyped ==
  /\ injected \in [Keys -> Seq(Tokens)]
  /\ transformed \in [Keys -> Outputs]
  /\ lines \in Seq(Seq(StoredTokens))
  /\ runs \in 0..MaxRuns /\ generated \in Nat

\* A call of process() is under way from CallProcess to Return.  Before its
\* finally block no stream is closed; in it, a stream whose turn has passed
\* is closed or its close threw, and the others are as they were.
StreamsSound ==
  /\ StreamsTypeOK /\ ProcessClosesStreams
  /\ pc # "process" => phase = "returned"
  /\ phase \in {"createReader", "createWriter", "loop"} =>
       closed = 0 /\ unclosed = {} /\ Arguments \subseteq streams
  /\ phase = "finally" =>
       /\ \A i \in 1..closed : CloseOrder[i] \in streams => CloseOrder[i] \in unclosed
       /\ \A i \in (closed + 1)..4 : CloseOrder[i] \notin unclosed
       /\ closed < 4 => "argDst" \in streams

\* What the call has made of the file so far.
CallSound ==
  pc = "process" =>
    /\ transformed[key].run = runs
    /\ phase \in {"createReader", "createWriter", "loop"} => ~transformed[key].whole
    /\ phase \in {"finally", "returned"} /\ thrown = "nothing" =>
         transformed[key].whole \/ transformed[key].lost

\* The identifiers in the files of one message.
Ids(text) == {t.id : t \in Range(text)} \ {0}
Used(k) == Ids(injected[k]) \cup Ids(transformed[k].text)

\* They have been generated, and for this message only.
IdentifiersSound ==
  /\ \A k \in Keys : Used(k) \subseteq 1..generated
  /\ \A k, l \in Keys : k # l => Used(k) \cap Used(l) = {}

\* What the batch makes of a message: new is the text made from old.
Rewriting(msg, new, old) ==
  /\ (\A i \in DOMAIN msg : Plain(msg[i])) => SameButIdentifiers(new, old)
  /\ (\A i \in DOMAIN msg : OneIdentifier(msg[i])) => Renewed(new)

\* The message of the row at work.
Current == Text[Body(result[cursor])]

\* The output of inject() is made from the lines it has read, and lines are
\* those it has not read yet.
InjectSound ==
  /\ pc = "inject" =>
       \E n \in 0..Len(Current) :
         /\ lines = SubSeq(Current, n + 1, Len(Current))
         /\ Rewriting(Current, injected[key], JoinedTo(Current, n))
  /\ pc = "process" => Rewriting(Current, injected[key], JoinedTo(Current, Len(Current)))

\* A transformed file that is whole is made from the message of its row.
WholeSound ==
  /\ \A k \in Keys : transformed[k].whole => \E i \in DOMAIN table : Stored(table[i]) = k
  /\ \A i \in DOMAIN table : transformed[Stored(table[i])].whole =>
       LET msg == Text[Body(table[i])]
       IN  /\ Body(table[i]) # "null"
           /\ Rewriting(msg, transformed[Stored(table[i])].text,
                        Written(JoinedTo(msg, Len(msg))))

\* The inductive invariant.
IInv == /\ TableSound /\ ResultSound /\ FilesTyped /\ StreamsSound /\ CallSound
        /\ EarlierRowsDone /\ IdentifiersSound /\ InjectSound /\ WholeSound

------------------------------------------------------------------------------
\* The lines of a message are typed.
LEMMA MessageTyped ==
  ASSUME NEW m \in Messages PROVE Text[m] \in Seq(Seq(StoredTokens))
BY FetchAssumption DEF StoredTokens

\* What a row has.
LEMMA RowHas ==
  ASSUME NEW row \in Rows
  PROVE  /\ row.values \in Seq(Values) /\ row.values = row.given /\ Len(row.values) = Columns
         /\ Stored(row) \in Keys /\ Body(row) \in Messages \cup {"null"}
BY DEF Rows

\* insert() stores what it is given or throws, and throws for a value of an
\* unknown type or a number of values that does not fit.
LEMMA InsertStores ==
  ASSUME NEW data \in Inserts
  PROVE  /\ data \in Seq(Values)
         /\ Accepts(Bound(data), insertBuilder(data)) =>
              [values |-> Bound(data), given |-> data] \in Rows
         /\ ~Accepts(Bound(data), insertBuilder(data)) =>
              Len(data) # Columns \/ \E i \in DOMAIN data : data[i].type = "Other"
<1> DEFINE I == {i \in DOMAIN data : data[i].type \in {"Int", "String", "Double"}}
<1>1. data \in Seq(Values)
  BY InsertsAssumption DEF Values
<1>2. DOMAIN data = 1..Len(data)
  BY <1>1
<1>3. \A i \in 1..Len(data) : data[i] \in Values
  BY <1>1, ElementOfSeq
<1>4. \A i \in 1..Len(data) : i \in I <=> data[i].type # "Other"
  BY <1>2, <1>3 DEF Values
<1>5. Bound(data) = Chosen(data, I)
  BY DEF Bound
<1> HIDE DEF I
<1>6. ASSUME Accepts(Bound(data), insertBuilder(data))
      PROVE  [values |-> Bound(data), given |-> data] \in Rows
  <2>1. Len(Chosen(data, I)) = Len(data) /\ Len(data) = Columns
    BY <1>5, <1>6 DEF Accepts, insertBuilder
  <2>2. Bound(data) = data /\ \A i \in 1..Len(data) : i \in I
    BY <1>1, <1>5, <2>1, ChosenSome
  <2>3. data[1].is \in Keys /\ data[2].is \in Messages \cup {"null"}
    BY <1>2, <1>4, <2>1, <2>2, InsertsAssumption
  <2> QED BY <1>1, <2>1, <2>2, <2>3 DEF Rows, Stored, Body
<1>7. ASSUME Len(data) = Columns, \A i \in DOMAIN data : data[i].type # "Other"
      PROVE  Accepts(Bound(data), insertBuilder(data))
  <2>1. Bound(data) = data
    BY <1>1, <1>2, <1>4, <1>5, <1>7, ChosenAll
  <2> QED BY <1>7, <2>1 DEF Accepts, insertBuilder
<1> QED BY <1>1, <1>6, <1>7

\* The table stays sound: the keys of new rows are new.
LEMMA TableNext ==
  ASSUME TableSound, Next
  PROVE  /\ TableSound'
         /\ Len(table) \in Nat /\ Len(table') \in Nat /\ Len(table) <= Len(table')
         /\ \A i \in 1..Len(table) : table'[i] = table[i]
<1>0. Len(table) \in Nat /\ DOMAIN table = 1..Len(table)
  BY DEF TableSound
<1>1. CASE UNCHANGED executorVars
  BY <1>0, <1>1 DEF TableSound, KeysDiffer, executorVars, Stored
<1>2. CASE Insert
  <2>1. PICK data \in Inserts :
          /\ \A i \in DOMAIN table : \A v \in Range(data) : v.is # Stored(table[i])
          /\ insert(data)
    BY <1>2 DEF Insert
  <2>2. CASE Accepts(Bound(data), insertBuilder(data))
    <3> DEFINE row == [values |-> Bound(data), given |-> data]
    <3>1. table' = Append(table, row) /\ refused' = refused /\ row \in Rows
      BY <2>1, <2>2, InsertStores DEF insert
    <3>2. Stored(row) = data[1].is /\ 1 \in DOMAIN data
      <4>1. Bound(data) = data /\ Len(data) = 3 /\ data \in Seq(Values)
        BY <3>1, InsertStores, RowHas DEF Columns
      <4> QED BY <4>1 DEF Stored
    <3> HIDE DEF row
    <3>3. data[1] \in Range(data)
      BY <3>2 DEF Range
    <3>4. \A i \in 1..Len(table) : Stored(table[i]) # Stored(row)
      BY <1>0, <2>1, <3>2, <3>3
    <3>5. /\ Append(table, row) \in Seq(Rows)
          /\ Len(Append(table, row)) = Len(table) + 1
          /\ \A i \in 1..Len(table) : Append(table, row)[i] = table[i]
          /\ Append(table, row)[Len(table) + 1] = row
      BY <3>1, AppendProperties DEF TableSound
    <3>6. DOMAIN table' = 1..(Len(table) + 1)
      BY <3>1, <3>5
    <3>7. ASSUME NEW i \in DOMAIN table', NEW j \in DOMAIN table',
                 Stored(table'[i]) = Stored(table'[j])
          PROVE  i = j
      <4>1. CASE i \in 1..Len(table) /\ j \in 1..Len(table)
        BY <1>0, <3>1, <3>5, <3>7, <4>1 DEF TableSound, KeysDiffer
      <4>2. CASE i = Len(table) + 1 \/ j = Len(table) + 1
        BY <1>0, <3>1, <3>4, <3>5, <3>6, <3>7, <4>2
      <4> QED BY <1>0, <3>6, <4>1, <4>2
    <3> QED BY <1>0, <3>1, <3>5, <3>7 DEF TableSound, KeysDiffer, Stored
  <2>3. CASE ~Accepts(Bound(data), insertBuilder(data))
    <3>1. table' = table /\ refused' = refused \cup {data}
      BY <2>1, <2>3 DEF insert
    <3>2. Len(data) # Columns \/ \E i \in DOMAIN data : data[i].type = "Other"
      BY <2>3, InsertStores
    <3>3. \A d \in refused' : Len(d) # Columns \/ \E i \in DOMAIN d : d[i].type = "Other"
      BY <3>1, <3>2 DEF TableSound
    <3>4. table' \in Seq(Rows) /\ KeysDiffer(table')
      BY <3>1 DEF TableSound
    <3> QED BY <1>0, <3>1, <3>3, <3>4 DEF TableSound, KeysDiffer, Stored
  <2> QED BY <2>2, <2>3
<1>3. Next => Insert \/ UNCHANGED executorVars
  BY DEF Next, Submit, Batch, NextRow, Save, InjectLine, InjectFails, CallProcess, Process,
         Return, Done, vars
<1> QED BY <1>1, <1>2, <1>3

\* The result set has rows of the table.
LEMMA SubmittedRows ==
  ASSUME TableSound
  PROVE  /\ submit \in Seq(Rows) /\ KeysDiffer(submit)
         /\ \A i \in DOMAIN submit : \E j \in DOMAIN table : table[j] = submit[i]
<1> DEFINE I == {i \in DOMAIN table : table[i].values[3].is = "0"}
<1> HIDE DEF I
<1>1. table \in Seq(Rows) /\ Len(table) \in Nat /\ DOMAIN table = 1..Len(table)
  BY DEF TableSound
<1>2. PICK m \in Nat : \E p : /\ Lists(p, m, I, Len(table))
                              /\ Chosen(table, I) \in Seq(Rows) /\ Len(Chosen(table, I)) = m
                              /\ \A j \in 1..m : Chosen(table, I)[j] = table[p[j]]
  BY <1>1, ChosenLists
<1>3. submit = Chosen(table, I)
  BY DEF submit, I
<1>4. PICK p : /\ Lists(p, m, I, Len(table))
               /\ \A j \in 1..m : submit[j] = table[p[j]]
  BY <1>2, <1>3
<1>5. submit \in Seq(Rows) /\ DOMAIN submit = 1..m
  BY <1>2, <1>3
<1>6. \A j \in 1..m : p[j] \in DOMAIN table
  BY <1>1, <1>4 DEF Lists
<1>7. ASSUME NEW i \in 1..m, NEW j \in 1..m, Stored(submit[i]) = Stored(submit[j])
      PROVE  i = j
  <2>1. p[i] = p[j]
    BY <1>4, <1>6, <1>7 DEF TableSound, KeysDiffer
  <2>2. p[i] \in Nat /\ p[j] \in Nat
    BY <1>1, <1>6
  <2>3. ~ (i < j) /\ ~ (j < i)
    BY <1>4, <2>1, <2>2 DEF Lists
  <2> QED BY <2>3
<1> QED BY <1>4, <1>5, <1>6, <1>7 DEF KeysDiffer

\* Where a row is at work, the cursor is on it.
LEMMA CurrentRow ==
  ASSUME ResultSound, pc \in {"save", "inject", "process"}
  PROVE  /\ cursor \in 1..Len(result) /\ cursor \in DOMAIN result
         /\ result[cursor] \in Rows /\ key \in Keys
         /\ Body(result[cursor]) \in Messages \cup {"null"}
         /\ Body(result[cursor]) # "null" => Current \in Seq(Seq(StoredTokens))
         /\ pc # "save" => Body(result[cursor]) # "null"
<1>1. result \in Seq(Rows) /\ cursor \in 1..Len(result)
  BY DEF ResultSound
<1>2. cursor \in DOMAIN result /\ result[cursor] \in Rows
  BY <1>1, ElementOfSeq
<1>3. key \in Keys /\ Body(result[cursor]) \in Messages \cup {"null"}
  BY <1>2, RowHas DEF key
<1>4. Body(result[cursor]) # "null" => Current \in Seq(Seq(StoredTokens))
  BY <1>3, MessageTyped DEF Current
<1> QED BY <1>1, <1>2, <1>3, <1>4 DEF ResultSound

\* A row of the result set is a row of the table whatever others insert.
LEMMA ResultNext ==
  ASSUME TableSound, ResultSound, Next
  PROVE  ResultSound'
<1>1. CASE Insert
  <2>1. UNCHANGED <<pc, result, cursor>>
    BY <1>1 DEF Insert
  <2>2. \A i \in DOMAIN table : i \in DOMAIN table' /\ table'[i] = table[i]
    <3>1. DOMAIN table = 1..Len(table)
      BY DEF TableSound
    <3>2. DOMAIN table' = 1..Len(table')
      BY TableNext DEF TableSound
    <3> QED BY <3>1, <3>2, TableNext
  <2> QED BY <2>1, <2>2 DEF ResultSound, KeysDiffer, Stored, Body
<1>2. CASE Submit
  <2>1. result' = submit /\ cursor' = 0 /\ pc' = "next" /\ table' = table
    BY <1>2 DEF Submit, executorVars
  <2>2. 0 \in 0..Len(submit)
    BY SubmittedRows
  <2> QED BY <2>1, <2>2, SubmittedRows DEF ResultSound, KeysDiffer, Stored
<1>3. CASE NextRow
  BY <1>3 DEF NextRow, ResultSound, KeysDiffer, Stored, executorVars
<1>4. CASE Save
  BY <1>4 DEF Save, ResultSound, KeysDiffer, Stored, Body, executorVars
<1>5. CASE InjectLine \/ Done
  BY <1>5 DEF InjectLine, Done, vars, ResultSound, KeysDiffer, Stored, Body, executorVars
<1>6. CASE InjectFails \/ Return
  BY <1>6 DEF InjectFails, Return, ResultSound, KeysDiffer, Stored, Body, executorVars
<1>7. CASE CallProcess \/ Process
  BY <1>7 DEF CallProcess, Process, ResultSound, KeysDiffer, Stored, Body, executorVars
<1> QED BY <1>1, <1>2, <1>3, <1>4, <1>5, <1>6, <1>7 DEF Next, Batch

------------------------------------------------------------------------------
\* A part of a text that was written before the writing broke off.
LEMMA PrefixOf ==
  ASSUME NEW S, NEW s \in Seq(S), NEW part \in Prefixes(s)
  PROVE  /\ part \in Seq(S) /\ Len(part) <= Len(s)
         /\ \A i \in 1..Len(part) : part[i] = s[i]
<1>1. PICK l \in 0..Len(s) : part = SubSeq(s, 1, l)
  BY DEF Prefixes
<1>2. \A i \in 1..l : s[i] \in S
  BY ElementOfSeq
<1>3. /\ SubSeq(s, 1, l) \in Seq(S) /\ Len(SubSeq(s, 1, l)) = l
      /\ \A i \in 1..l : SubSeq(s, 1, l)[i] = s[i]
  BY <1>1, <1>2, SubSeqProperties
<1> QED BY <1>1, <1>3

\* One line of inject(): the output grows by the line made from the first of
\* those that are left.
LEMMA LineInjected ==
  ASSUME ResultSound, FilesTyped, InjectLine
  PROVE  \E line \in Seq(Tokens) :
           /\ line \in inject(Head(lines), generated + 1) /\ Head(lines) \in Seq(StoredTokens)
           /\ generated' = generated + (IF line = Head(lines) THEN 0 ELSE 1)
           /\ injected' = [injected EXCEPT ![key] = injected[key] \o line]
           /\ injected[key] \o line \in Seq(Tokens)
           /\ \A i \in 1..Len(line) :
                line[i].id = 0 \/ (line[i].id = generated' /\ generated' = generated + 1)
<1>1. PICK line \in inject(Head(lines), newIdentifier) :
        /\ generated' = generated + (IF line = Head(lines) THEN 0 ELSE 1)
        /\ injected' = [injected EXCEPT ![key] = @ \o line]
  BY DEF InjectLine
<1>2. lines # <<>> /\ pc = "inject" /\ lines \in Seq(Seq(StoredTokens))
  BY DEF InjectLine, FilesTyped
<1>3. Head(lines) \in Seq(StoredTokens)
  BY <1>2, HeadTailProperties
<1>4. newIdentifier = generated + 1 /\ generated + 1 \in Nat \ {0} /\ generated \in Nat
  BY DEF newIdentifier, FilesTyped
<1>5. /\ line \in Seq(Tokens)
      /\ \A i \in 1..Len(line) :
           line[i].id = 0 \/ (line[i].id = generated + 1 /\ line # Head(lines))
  BY <1>1, <1>3, <1>4, InjectedTokens
<1>6. injected[key] \in Seq(Tokens)
  BY <1>2, CurrentRow DEF FilesTyped
<1>7. injected[key] \o line \in Seq(Tokens)
  BY <1>5, <1>6, ConcatProperties
<1> QED BY <1>1, <1>3, <1>4, <1>5, <1>7

\* A close that fails changes no more than what is known of the end of the
\* one file at work.
LEMMA CutByClose ==
  ASSUME FilesTyped, key \in Keys, CloseStreams
  PROVE  /\ transformed' \in [Keys -> Outputs]
         /\ \A k \in Keys : /\ transformed'[k].text = transformed[k].text
                            /\ transformed'[k].run = transformed[k].run
                            /\ k # key => transformed'[k] = transformed[k]
         /\ \/ transformed' = transformed
            \/ ~transformed'[key].whole /\ transformed'[key].lost
<1>1. CASE transformed' = transformed
  BY <1>1 DEF FilesTyped
<1>2. CASE transformed' = [transformed EXCEPT ![key].whole = FALSE, ![key].lost = TRUE]
  <2>1. transformed \in [Keys -> Outputs]
    BY DEF FilesTyped
  <2>2. /\ \A k \in Keys : k # key => transformed'[k] = transformed[k]
        /\ transformed'[key] = [transformed[key] EXCEPT !.whole = FALSE, !.lost = TRUE]
    BY <1>2, <2>1
  <2>3. transformed[key] \in Outputs
    BY <2>1
  <2>4. /\ transformed'[key].text = transformed[key].text
        /\ transformed'[key].run = transformed[key].run
        /\ ~transformed'[key].whole /\ transformed'[key].lost
    BY <2>2, <2>3 DEF Outputs
  <2>5. transformed' \in [Keys -> Outputs]
    <3>1. [transformed[key] EXCEPT !.whole = FALSE, !.lost = TRUE] \in Outputs
      BY <2>3 DEF Outputs
    <3>2. transformed' = [k \in Keys |-> transformed'[k]]
      BY <1>2, <2>1
    <3>3. \A k \in Keys : transformed'[k] \in Outputs
      BY <2>1, <2>2, <3>1
    <3> QED BY <3>2, <3>3
  <2> QED BY <2>2, <2>4, <2>5
<1> QED BY <1>1, <1>2 DEF CloseStreams

\* The files hold tokens, whatever breaks off.
LEMMA FilesNext ==
  ASSUME ResultSound, FilesTyped, Next
  PROVE  FilesTyped'
<1>0. /\ injected \in [Keys -> Seq(Tokens)]
      /\ transformed \in [Keys -> Outputs]
      /\ lines \in Seq(Seq(StoredTokens))
      /\ runs \in 0..MaxRuns /\ runs \in Nat /\ generated \in Nat /\ MaxRuns \in Nat
  BY FetchAssumption DEF FilesTyped
<1>1. CASE UNCHANGED <<injected, transformed, lines, runs, generated>>
  BY <1>1 DEF FilesTyped
<1>2. CASE Submit
  BY <1>0, <1>2 DEF Submit, files, FilesTyped
<1>3. CASE Save
  <2>1. pc = "save" /\ UNCHANGED <<transformed, runs, generated>>
    BY <1>3 DEF Save
  <2>2. CASE UNCHANGED <<lines, injected>>
    BY <1>0, <2>1, <2>2 DEF FilesTyped
  <2>3. CASE /\ Body(result[cursor]) # "null" /\ lines' = Current
             /\ injected' = [injected EXCEPT ![key] = <<>>]
    <3>1. key \in Keys /\ Current \in Seq(Seq(StoredTokens)) /\ <<>> \in Seq(Tokens)
      BY <2>1, <2>3, CurrentRow, EmptySeq
    <3>2. injected' \in [Keys -> Seq(Tokens)]
      BY <1>0, <2>3, <3>1
    <3> QED BY <1>0, <2>1, <2>3, <3>1, <3>2 DEF FilesTyped
  <2> QED BY <1>3, <2>2, <2>3 DEF Save, Current
<1>4. CASE InjectLine
  <2>1. /\ pc = "inject" /\ lines # <<>> /\ lines' = Tail(lines)
        /\ UNCHANGED <<transformed, runs>>
    BY <1>4 DEF InjectLine
  <2>2. PICK line \in Seq(Tokens) :
          /\ generated' = generated + (IF line = Head(lines) THEN 0 ELSE 1)
          /\ injected' = [injected EXCEPT ![key] = injected[key] \o line]
          /\ injected[key] \o line \in Seq(Tokens)
    BY <1>4, LineInjected
  <2>3. lines' \in Seq(Seq(StoredTokens))
    BY <1>0, <2>1, HeadTailProperties
  <2>4. injected' \in [Keys -> Seq(Tokens)]
    BY <1>0, <2>2
  <2>5. generated' \in Nat
    BY <1>0, <2>2
  <2> QED BY <1>0, <2>1, <2>3, <2>4, <2>5 DEF FilesTyped
<1>5. CASE InjectFails
  <2>1. pc = "inject" /\ lines' = <<>> /\ UNCHANGED <<transformed, runs, generated>>
    BY <1>5 DEF InjectFails
  <2>2. PICK part \in Prefixes(injected[key]) : injected' = [injected EXCEPT ![key] = part]
    BY <1>5 DEF InjectFails
  <2>3. key \in Keys /\ injected[key] \in Seq(Tokens)
    BY <1>0, <2>1, CurrentRow
  <2>4. part \in Seq(Tokens)
    BY <2>3, PrefixOf
  <2> QED BY <1>0, <2>1, <2>2, <2>4, EmptySeq DEF FilesTyped
<1>6. CASE CallProcess
  <2>1. /\ UNCHANGED <<injected, lines, runs, generated>>
        /\ transformed' = [transformed EXCEPT ![key] = [Unwritten EXCEPT !.run = runs]]
    BY <1>6 DEF CallProcess
  <2>2. [Unwritten EXCEPT !.run = runs] \in Outputs
    BY <1>0, EmptySeq DEF Unwritten, Outputs
  <2> QED BY <1>0, <2>1, <2>2 DEF FilesTyped
<1>7. CASE Process
  <2>1. pc = "process" /\ UNCHANGED <<injected, lines, runs, generated>>
    BY <1>7 DEF Process
  <2>2. key \in Keys /\ injected[key] \in Seq(Tokens)
    BY <1>0, <2>1, CurrentRow
  <2>3. Written(injected[key]) \in Seq(Tokens)
    BY <2>2, WrittenTokens
  <2>4. CASE UNCHANGED transformed
    BY <1>0, <2>1, <2>4 DEF FilesTyped
  <2>5. CASE Transform
    BY <1>0, <2>1, <2>3, <2>5 DEF Transform, FilesTyped, Outputs
  <2>7. CASE CloseStreams
    <3>1. transformed' \in [Keys -> Outputs]
      BY <2>2, <2>7, CutByClose
    <3> QED BY <1>0, <2>1, <3>1 DEF FilesTyped
  <2>6. CASE TransformFails
    <3>1. CASE phase = "loop"
      <4>1. PICK part \in Prefixes(Written(injected[key])) :
              transformed' = [transformed EXCEPT ![key].text = part]
        BY <2>6, <3>1 DEF TransformFails
      <4>2. part \in Seq(Tokens)
        BY <2>3, PrefixOf
      <4>3. transformed' \in [Keys -> Outputs]
        BY <1>0, <2>2, <4>1, <4>2 DEF Outputs
      <4> QED BY <1>0, <2>1, <4>3 DEF FilesTyped
    <3>2. CASE phase # "loop"
      BY <2>4, <2>6, <3>2 DEF TransformFails
    <3> QED BY <3>1, <3>2
  <2> QED BY <1>7, <2>4, <2>5, <2>6, <2>7 DEF Process
<1> QED BY <1>1, <1>2, <1>3, <1>4, <1>5, <1>6, <1>7
        DEF Next, Batch, Insert, Done, vars, NextRow, Return, files

------------------------------------------------------------------------------
\* The four closes and their order.
LEMMA Closes ==
  /\ Len(CloseOrder) = 4 /\ Range(CloseOrder) = {"src", "dst", "argSrc", "argDst"}
  /\ CloseOrder[1] = "src" /\ CloseOrder[2] = "dst"
  /\ CloseOrder[3] = "argSrc" /\ CloseOrder[4] = "argDst"
BY DEF CloseOrder, Range

\* A close is done with one stream, and with no other.
LEMMA CloseNext ==
  ASSUME StreamsSound, Close, pc' = pc
  PROVE  StreamsSound'
<1>1. /\ phase = "finally" /\ phase' = "finally" /\ closed \in 0..3 /\ closed' = closed + 1
      /\ UNCHANGED <<debugStream, thrown>>
  BY Closes DEF Close, CloseDone, CloseFails, StreamsSound, StreamsTypeOK
<1>2. PICK k \in 1..4 : k = closed + 1
  BY <1>1
<1>3. PICK stream : stream = CloseOrder[k]
  OBVIOUS
<1>4. /\ \A i \in 1..4 : i # k => CloseOrder[i] # stream
      /\ stream \in {"src", "dst", "argSrc", "argDst"} /\ (stream = "argDst" => k = 4)
  BY <1>2, <1>3, Closes
<1>5. /\ stream \notin unclosed /\ unclosed \subseteq streams /\ "argDst" \in streams
      /\ streams \subseteq {"src", "dst", "argSrc", "argDst"}
      /\ \A i \in 1..closed : CloseOrder[i] \in streams => CloseOrder[i] \in unclosed
      /\ \A i \in (closed + 1)..4 : CloseOrder[i] \notin unclosed
  BY <1>1, <1>2, <1>3, Closes DEF StreamsSound, StreamsTypeOK
<1>6. \/ streams' = streams \ {stream} /\ unclosed' = unclosed
      \/ stream \in streams /\ streams' = streams /\ unclosed' = unclosed \cup {stream}
  BY <1>2, <1>3 DEF Close, CloseDone, CloseFails, Closing
<1>7. unclosed' \subseteq streams' /\ streams' \subseteq {"src", "dst", "argSrc", "argDst"}
  BY <1>5, <1>6
<1>8. ASSUME NEW i \in 1..closed', CloseOrder[i] \in streams' PROVE CloseOrder[i] \in unclosed'
  <2>1. CASE i = k
    BY <1>3, <1>6, <1>8, <2>1
  <2>2. CASE i # k
    <3>1. i \in 1..closed
      BY <1>1, <1>2, <2>2
    <3> QED BY <1>5, <1>6, <1>8, <3>1
  <2> QED BY <2>1, <2>2
<1>9. ASSUME NEW i \in (closed' + 1)..4 PROVE CloseOrder[i] \notin unclosed'
  <2>1. i \in (closed + 1)..4 /\ i \in 1..4 /\ i # k
    BY <1>1, <1>2
  <2> QED BY <1>4, <1>5, <1>6, <2>1
<1>10. closed' < 4 => "argDst" \in streams'
  BY <1>1, <1>2, <1>4, <1>5, <1>6
<1>11. "dst" \in streams' \ unclosed' => "argDst" \in streams'
  <2>1. CASE closed' < 4
    BY <1>10, <2>1
  <2>2. CASE closed' = 4
    BY <1>8, <2>2, Closes
  <2> QED BY <1>1, <2>1, <2>2
<1>12. /\ closed' \in 0..4
       /\ thrown' \in {"nothing", "TransformationException", "NullPointerException"}
       /\ debugStream' \in BOOLEAN
  BY <1>1 DEF StreamsSound, StreamsTypeOK
<1>13. StreamsTypeOK' /\ ProcessClosesStreams' /\ (pc' # "process" => phase' = "returned")
  BY <1>1, <1>7, <1>11, <1>12, Closes DEF StreamsTypeOK, ProcessClosesStreams, StreamsSound
<1> QED BY <1>1, <1>8, <1>9, <1>10, <1>13 DEF StreamsSound

\* Whatever throws, each stream has its turn before process() returns.
LEMMA StreamsNext ==
  ASSUME StreamsSound, Next
  PROVE  StreamsSound'
<1>1. CASE UNCHANGED streamVars /\ (pc = "process" => pc' = "process")
  BY <1>1 DEF streamVars, StreamsSound, StreamsTypeOK, ProcessClosesStreams
<1>2. CASE CallProcess
  <2>1. /\ pc' = "process" /\ phase' = "createReader" /\ streams' = Arguments
        /\ closed' = 0 /\ unclosed' = {} /\ debugStream' = FALSE /\ thrown' = "nothing"
    BY <1>2 DEF CallProcess, process
  <2>2. streams' \subseteq Range(CloseOrder) /\ closed' \in 0..Len(CloseOrder)
    BY <2>1, Closes DEF Arguments
  <2> QED BY <2>1, <2>2 DEF StreamsSound, StreamsTypeOK, ProcessClosesStreams, Arguments
<1>3. CASE Process
  <2>0. pc = "process" /\ pc' = "process"
    BY <1>3 DEF Process
  <2>1. CASE CreateReader \/ CreateWriter
    BY <2>0, <2>1, Closes DEF CreateReader, CreateWriter, DebugEnabled, StreamsSound,
       StreamsTypeOK, ProcessClosesStreams, Arguments
  <2>2. CASE LoopEnds \/ StreamException
    <3>1. debugStream' \in BOOLEAN
      BY <2>2 DEF LoopEnds, StreamException, DebugEnabled, StreamsSound, StreamsTypeOK
    <3>2. /\ phase \in {"createReader", "createWriter", "loop"} /\ phase' = "finally"
          /\ UNCHANGED <<streams, closed, unclosed>>
          /\ thrown' \in {thrown, "TransformationException"}
      BY <2>2 DEF LoopEnds, StreamException
    <3> QED BY <2>0, <3>1, <3>2
            DEF StreamsSound, StreamsTypeOK, ProcessClosesStreams, Arguments
  <2>3. CASE Close
    BY <2>0, <2>3, CloseNext
  <2>4. CASE LogContent
    <3>1. /\ phase = "finally" /\ phase' = "returned" /\ closed = 4 /\ debugStream' = FALSE
          /\ UNCHANGED <<streams, closed, unclosed>>
          /\ thrown' \in {thrown, "NullPointerException"}
      BY <2>4, Closes DEF LogContent
    <3>2. streams = unclosed
      <4>1. \A i \in 1..4 : CloseOrder[i] \in streams => CloseOrder[i] \in unclosed
        BY <3>1 DEF StreamsSound
      <4>2. streams \subseteq {"src", "dst", "argSrc", "argDst"} /\ unclosed \subseteq streams
        BY Closes DEF StreamsSound, StreamsTypeOK
      <4>3. /\ "src" \in streams => "src" \in unclosed
            /\ "dst" \in streams => "dst" \in unclosed
            /\ "argSrc" \in streams => "argSrc" \in unclosed
            /\ "argDst" \in streams => "argDst" \in unclosed
        BY <4>1, Closes
      <4> QED BY <4>2, <4>3
    <3> QED BY <2>0, <3>1, <3>2 DEF StreamsSound, StreamsTypeOK, ProcessClosesStreams
  <2> QED BY <1>3, <2>1, <2>2, <2>3, <2>4 DEF Process, Transform, TransformFails, CloseStreams
<1>4. CASE Return
  <2>1. /\ phase = "returned" /\ phase' = phase /\ streams' = {} /\ closed' = 0
        /\ unclosed' = {} /\ thrown' = "nothing" /\ debugStream' = debugStream
    BY <1>4 DEF Return, CallIsOver
  <2> QED BY <2>1, Closes DEF StreamsSound, StreamsTypeOK, ProcessClosesStreams
<1>6. CASE Insert \/ Submit \/ NextRow \/ Done
  BY <1>1, <1>6 DEF Insert, Submit, NextRow, Done, vars
<1>7. CASE Save \/ InjectLine \/ InjectFails
  BY <1>1, <1>7 DEF Save, InjectLine, InjectFails
<1> QED BY <1>2, <1>3, <1>4, <1>6, <1>7 DEF Next, Batch

\* The key of the current row is none of those before it.
LEMMA EarlierKeys ==
  ASSUME ResultSound, NEW i \in 1..Len(result), NEW j \in 1..Len(result), i # j
  PROVE  Stored(result[i]) # Stored(result[j]) /\ Stored(result[i]) \in Keys
<1>1. result \in Seq(Rows) /\ DOMAIN result = 1..Len(result)
  BY DEF ResultSound
<1>2. result[i] \in Rows
  BY <1>1, ElementOfSeq
<1> QED BY <1>1, <1>2, RowHas DEF ResultSound, KeysDiffer

\* A step that is not process() at work leaves the call and its file alone.
LEMMA CallNext ==
  ASSUME TableSound, ResultSound, FilesTyped, StreamsSound, CallSound, Next
  PROVE  CallSound'
<1>1. CASE pc' # "process"
  BY <1>1 DEF CallSound
<1>2. CASE CallProcess
  <2>1. key \in Keys
    BY <1>2, CurrentRow DEF CallProcess
  <2>2. transformed'[key] = [Unwritten EXCEPT !.run = runs] /\ phase' = "createReader"
    BY <1>2, <2>1 DEF CallProcess, process, FilesTyped
  <2>3. key' = key /\ runs' = runs
    BY <1>2 DEF CallProcess, key, Stored
  <2> QED BY <2>2, <2>3 DEF CallSound, Unwritten
<1>3. CASE Process
  <2>1. pc = "process" /\ key' = key /\ runs' = runs /\ key \in Keys
    BY <1>3, CurrentRow DEF Process, key, Stored
  <2>2. transformed[key] \in Outputs
    BY <2>1 DEF FilesTyped
  <2>3. CASE (CreateReader \/ CreateWriter \/ LogContent) /\ UNCHANGED transformed
    BY <2>1, <2>3 DEF CallSound, CreateReader, CreateWriter, LogContent
  <2>6. CASE CloseStreams
    <3>1. /\ transformed'[key].run = transformed[key].run
          /\ \/ transformed'[key].lost
             \/ transformed'[key] = transformed[key]
      BY <2>1, <2>6, CutByClose
    <3>2. phase = "finally" /\ phase' = "finally" /\ thrown' = thrown
      BY <2>6 DEF CloseStreams, Close
    <3> QED BY <2>1, <3>1, <3>2 DEF CallSound
  <2>4. CASE Transform
    <3>1. transformed'[key].run = runs /\ transformed'[key].whole
      BY <2>1, <2>2, <2>4 DEF Transform, FilesTyped, Outputs, CallSound
    <3> QED BY <2>1, <2>4, <3>1 DEF CallSound, Transform, LoopEnds
  <2>5. CASE TransformFails
    <3>1. phase' = "finally" /\ thrown' = "TransformationException"
      BY <2>5 DEF TransformFails, StreamException
    <3>2. transformed'[key].run = transformed[key].run
      <4>1. CASE phase = "loop"
        BY <2>1, <2>2, <2>5, <4>1 DEF TransformFails, FilesTyped, Outputs
      <4>2. CASE phase # "loop"
        BY <2>5, <4>2 DEF TransformFails
      <4> QED BY <4>1, <4>2
    <3> QED BY <2>1, <3>1, <3>2 DEF CallSound
  <2> QED BY <1>3, <2>3, <2>4, <2>5, <2>6 DEF Process
<1>4. CASE UNCHANGED <<pc, phase, thrown, runs, result, cursor, transformed>>
  BY <1>4 DEF CallSound, key, Stored
<1>5. CASE Insert
  BY <1>4, <1>5 DEF Insert, streamVars, files
<1>6. pc' = "process" => CallProcess \/ Process \/ Insert
  BY DEF Done, vars, Next, Batch, Submit, NextRow, Save, InjectLine, InjectFails, Return
<1> QED BY <1>1, <1>2, <1>3, <1>5, <1>6

\* The batch is never past a row it could not transform.
LEMMA EarlierNext ==
  ASSUME TableSound, ResultSound, FilesTyped, StreamsSound, CallSound, EarlierRowsDone, Next
  PROVE  EarlierRowsDone'
<1>0. /\ cursor \in 0..Len(result) /\ Len(result) \in Nat /\ Passed \in Int
      /\ Passed <= cursor
  BY DEF ResultSound, Passed
<1>1. CASE Submit
  <2>1. Passed' = 0
    BY <1>1 DEF Submit, Passed
  <2> QED BY <2>1 DEF EarlierRowsDone
<1>2. CASE Passed' = Passed /\ UNCHANGED <<result, runs, transformed>>
  BY <1>2 DEF EarlierRowsDone, Stored
<1>3. CASE Insert \/ Done
  <2>1. Passed' = Passed /\ UNCHANGED <<result, runs, transformed>>
    BY <1>3 DEF Insert, Done, vars, Passed, files
  <2> QED BY <1>2, <2>1
<1>7. CASE NextRow
  <2>1. Passed' \in {cursor, cursor - 1} /\ Passed = cursor
    BY <1>0, <1>7 DEF NextRow, Passed
  <2>2. \A i \in 1..Passed' : i \in 1..Passed
    BY <1>0, <2>1
  <2>3. UNCHANGED <<result, runs, transformed>>
    BY <1>7 DEF NextRow, files
  <2> QED BY <2>2, <2>3 DEF EarlierRowsDone, Stored
<1>4. CASE Save \/ InjectLine \/ InjectFails
  <2>1. Passed' = Passed /\ UNCHANGED <<result, runs, transformed>>
    BY <1>4 DEF Save, InjectLine, InjectFails, Passed
  <2> QED BY <1>2, <2>1
<1>5. CASE CallProcess \/ Process
  <2>1. /\ pc \in {"inject", "process"} /\ Passed = cursor - 1 /\ Passed' = Passed
        /\ UNCHANGED <<result, runs>>
    BY <1>5 DEF CallProcess, Process, Passed
  <2>2. cursor \in 1..Len(result) /\ key \in Keys
    BY <2>1, CurrentRow
  <2>3. ASSUME NEW k \in Keys, k # key PROVE transformed'[k] = transformed[k]
    <3>1. CASE CloseStreams
      BY <2>2, <2>3, <3>1, CutByClose
    <3>2. CASE ~CloseStreams
      BY <1>5, <2>3, <3>2 DEF CallProcess, Process, Transform, TransformFails, FilesTyped
    <3> QED BY <3>1, <3>2
  <2>4. ASSUME NEW i \in 1..Passed PROVE Stored(result[i]) \in Keys \ {key}
    <3>1. i \in 1..Len(result) /\ i # cursor
      BY <1>0, <2>1, <2>2
    <3> QED BY <2>2, <3>1, EarlierKeys DEF key
  <2> QED BY <2>1, <2>3, <2>4 DEF EarlierRowsDone, Stored
<1>6. CASE Return
  <2>1. /\ pc = "process" /\ Passed = cursor - 1 /\ phase = "returned"
        /\ UNCHANGED <<result, runs, transformed, cursor>>
    BY <1>6 DEF Return, CallIsOver, Passed, files
  <2>2. CASE thrown = "nothing"
    <3>1. Passed' = cursor
      BY <1>6, <2>2 DEF Return, Passed
    <3>2. /\ \/ transformed[Stored(result[cursor])].whole
             \/ transformed[Stored(result[cursor])].lost
          /\ transformed[Stored(result[cursor])].run = runs
      BY <2>1, <2>2 DEF CallSound, key
    <3>3. \A i \in 1..cursor : i = cursor \/ i \in 1..Passed
      BY <1>0, <2>1
    <3> QED BY <2>1, <3>1, <3>2, <3>3 DEF EarlierRowsDone, Stored
  <2>3. CASE thrown # "nothing"
    <3>1. Passed' = Passed
      BY <1>6, <2>1, <2>3 DEF Return, Passed
    <3> QED BY <1>2, <2>1, <3>1
  <2> QED BY <2>2, <2>3
<1> QED BY <1>1, <1>3, <1>4, <1>5, <1>6, <1>7 DEF Next, Batch

------------------------------------------------------------------------------
\* The identifiers of a text made of tokens of another, and of two joined.
LEMMA IdsOfPart ==
  ASSUME NEW a \in Seq(Tokens), NEW b \in Seq(Tokens),
         \A j \in 1..Len(b) : \E i \in 1..Len(a) : b[j] = a[i]
  PROVE  Ids(b) \subseteq Ids(a)
<1>1. DOMAIN a = 1..Len(a) /\ DOMAIN b = 1..Len(b)
  OBVIOUS
<1>2. Range(b) \subseteq Range(a)
  BY <1>1 DEF Range
<1> QED BY <1>2 DEF Ids

\* The identifiers of joined texts are those of both.
LEMMA IdsOfConcat ==
  ASSUME NEW a \in Seq(Tokens), NEW b \in Seq(Tokens)
  PROVE  Ids(a \o b) = Ids(a) \cup Ids(b)
<1>1. Range(a \o b) = Range(a) \cup Range(b)
  BY RangeConcatenation
<1> QED BY <1>1 DEF Ids

\* No text, no identifiers.
LEMMA IdsOfEmpty == Ids(<<>>) = {}
BY DEF Ids, Range

\* Only inject() brings an identifier to a file, and a new one.
LEMMA UsedNext ==
  ASSUME ResultSound, FilesTyped, Next
  PROVE  /\ \A k \in Keys : Used(k)' \subseteq Used(k) \cup {generated + 1}
         /\ generated' \in {generated, generated + 1}
         /\ generated' = generated => \A k \in Keys : Used(k)' \subseteq Used(k)
         /\ \E l : \A k \in Keys : k # l => Used(k)' \subseteq Used(k)
<1>1. CASE UNCHANGED <<injected, transformed, generated>>
  BY <1>1 DEF Used
<1>2. CASE Save
  <2>1. pc = "save" /\ UNCHANGED <<transformed, generated>>
    BY <1>2 DEF Save
  <2>2. CASE injected' = [injected EXCEPT ![key] = <<>>]
    <3>1. \A k \in Keys : injected'[k] \in {injected[k], <<>>}
      BY <2>2 DEF FilesTyped
    <3> QED BY <2>1, <3>1, IdsOfEmpty DEF Used
  <2> QED BY <1>1, <1>2, <2>1, <2>2 DEF Save
<1>3. CASE InjectLine
  <2>1. pc = "inject" /\ transformed' = transformed
    BY <1>3 DEF InjectLine
  <2>2. PICK line \in Seq(Tokens) :
          /\ generated' = generated + (IF line = Head(lines) THEN 0 ELSE 1)
          /\ injected' = [injected EXCEPT ![key] = injected[key] \o line]
          /\ \A i \in 1..Len(line) :
               line[i].id = 0 \/ (line[i].id = generated' /\ generated' = generated + 1)
    BY <1>3, LineInjected
  <2>3. key \in Keys /\ injected[key] \in Seq(Tokens) /\ generated \in Nat
    BY <2>1, CurrentRow DEF FilesTyped
  <2>4. generated' \in {generated, generated + 1}
    BY <2>2, <2>3
  <2>5. /\ Ids(line) \subseteq {generated + 1}
        /\ generated' = generated => Ids(line) = {}
    <3>1. DOMAIN line = 1..Len(line)
      OBVIOUS
    <3>2. \A t \in Range(line) : t.id = 0 \/ (t.id = generated + 1 /\ generated' = generated + 1)
      BY <2>2, <3>1 DEF Range
    <3> QED BY <2>3, <3>2 DEF Ids
  <2>6. injected'[key] = injected[key] \o line /\ \A k \in Keys : k # key => injected'[k] = injected[k]
    BY <2>2, <2>3 DEF FilesTyped
  <2>7. Ids(injected'[key]) = Ids(injected[key]) \cup Ids(line)
    BY <2>3, <2>6, IdsOfConcat
  <2> QED BY <2>1, <2>4, <2>5, <2>6, <2>7 DEF Used
<1>4. CASE InjectFails
  <2>1. pc = "inject" /\ UNCHANGED <<transformed, generated>>
    BY <1>4 DEF InjectFails
  <2>2. PICK part \in Prefixes(injected[key]) : injected' = [injected EXCEPT ![key] = part]
    BY <1>4 DEF InjectFails
  <2>3. key \in Keys /\ injected[key] \in Seq(Tokens)
    BY <2>1, CurrentRow DEF FilesTyped
  <2>4. Ids(part) \subseteq Ids(injected[key])
    <3>1. /\ part \in Seq(Tokens) /\ Len(part) <= Len(injected[key])
          /\ \A i \in 1..Len(part) : part[i] = injected[key][i]
      BY <2>3, PrefixOf
    <3>2. \A i \in 1..Len(part) : i \in 1..Len(injected[key])
      BY <2>3, <3>1
    <3> QED BY <2>3, <3>1, <3>2, IdsOfPart
  <2>5. injected'[key] = part /\ \A k \in Keys : k # key => injected'[k] = injected[k]
    BY <2>2, <2>3 DEF FilesTyped
  <2> QED BY <2>1, <2>4, <2>5 DEF Used
<1>5. CASE CallProcess
  <2>1. pc = "inject" /\ UNCHANGED <<injected, generated>>
    BY <1>5 DEF CallProcess
  <2>2. key \in Keys
    BY <2>1, CurrentRow
  <2>3. transformed'[key].text = <<>> /\ \A k \in Keys : k # key => transformed'[k] = transformed[k]
    BY <1>5, <2>2 DEF CallProcess, FilesTyped, Unwritten
  <2> QED BY <2>1, <2>3, IdsOfEmpty DEF Used
<1>6. CASE Process
  <2>1. pc = "process" /\ UNCHANGED <<injected, generated>>
    BY <1>6 DEF Process
  <2>2. /\ key \in Keys /\ injected[key] \in Seq(Tokens)
        /\ transformed[key] \in Outputs
    BY <2>1, CurrentRow DEF FilesTyped
  <2>3. /\ Written(injected[key]) \in Seq(Tokens)
        /\ Ids(Written(injected[key])) \subseteq Ids(injected[key])
    BY <2>2, WrittenTokens, IdsOfPart
  <2>4. CASE UNCHANGED transformed
    BY <1>1, <2>1, <2>4
  <2>5. CASE Transform
    <3>1. /\ transformed'[key].text = Written(injected[key])
          /\ \A k \in Keys : k # key => transformed'[k] = transformed[k]
      BY <2>2, <2>5 DEF Transform, FilesTyped, Outputs
    <3> QED BY <2>1, <2>3, <3>1 DEF Used
  <2>6. CASE TransformFails /\ phase = "loop"
    <3>1. PICK part \in Prefixes(Written(injected[key])) :
            transformed' = [transformed EXCEPT ![key].text = part]
      BY <2>6 DEF TransformFails
    <3>2. Ids(part) \subseteq Ids(Written(injected[key]))
      <4>1. /\ part \in Seq(Tokens) /\ Len(part) <= Len(Written(injected[key]))
            /\ \A i \in 1..Len(part) : part[i] = Written(injected[key])[i]
        BY <2>3, PrefixOf
      <4>2. \A i \in 1..Len(part) : i \in 1..Len(Written(injected[key]))
        BY <2>3, <4>1
      <4> QED BY <2>3, <4>1, <4>2, IdsOfPart
    <3>3. /\ transformed'[key].text = part
          /\ \A k \in Keys : k # key => transformed'[k] = transformed[k]
      BY <2>2, <3>1 DEF FilesTyped, Outputs
    <3> QED BY <2>1, <2>3, <3>2, <3>3 DEF Used
  <2>7. CASE CloseStreams
    <3>1. \A k \in Keys : transformed'[k].text = transformed[k].text
      BY <2>2, <2>7, CutByClose
    <3> QED BY <2>1, <3>1 DEF Used
  <2> QED BY <1>6, <2>4, <2>5, <2>6, <2>7 DEF Process, TransformFails
<1>7. CASE Insert \/ Submit \/ NextRow \/ Return \/ Done
  BY <1>1, <1>7 DEF Insert, Submit, NextRow, Return, Done, vars, files
<1> QED BY <1>2, <1>3, <1>4, <1>5, <1>6, <1>7 DEF Next, Batch

\* No two messages ever get the same identifier.
LEMMA IdentifiersNext ==
  ASSUME ResultSound, FilesTyped, IdentifiersSound, Next
  PROVE  IdentifiersSound'
<1>1. generated \in Nat /\ generated' \in Nat
  BY FilesNext DEF FilesTyped
<1>2. PICK l : \A k \in Keys : k # l => Used(k)' \subseteq Used(k)
  BY UsedNext
<1>3. ASSUME NEW k \in Keys PROVE Used(k)' \subseteq 1..generated'
  <2>1. Used(k) \subseteq 1..generated
    BY DEF IdentifiersSound
  <2>2. CASE generated' = generated
    BY <2>1, <2>2, UsedNext
  <2>3. CASE generated' = generated + 1
    <3>1. Used(k)' \subseteq Used(k) \cup {generated + 1}
      BY UsedNext
    <3> QED BY <1>1, <2>1, <2>3, <3>1
  <2> QED BY <2>2, <2>3, UsedNext
<1>4. ASSUME NEW k \in Keys, NEW m \in Keys, k # m PROVE Used(k)' \cap Used(m)' = {}
  <2>1. /\ Used(k) \cap Used(m) = {}
        /\ generated + 1 \notin Used(k) /\ generated + 1 \notin Used(m)
    BY <1>1, <1>4 DEF IdentifiersSound
  <2>2. /\ Used(k)' \subseteq Used(k) \cup {generated + 1}
        /\ Used(m)' \subseteq Used(m) \cup {generated + 1}
        /\ Used(k)' \subseteq Used(k) \/ Used(m)' \subseteq Used(m)
    BY <1>2, <1>4, UsedNext
  <2> QED BY <2>1, <2>2
<1> QED BY <1>3, <1>4 DEF IdentifiersSound

------------------------------------------------------------------------------
\* Before the first line there is nothing, after one more line of inject() the
\* output is made from one more line of the message.
LEMMA RewritingNothing ==
  ASSUME NEW msg \in Seq(Seq(StoredTokens))
  PROVE  Rewriting(msg, <<>>, JoinedTo(msg, 0))
<1>1. JoinedTo(msg, 0) = <<>>
  BY JoinedLines
<1>2. SameButIdentifiers(<<>>, <<>>) /\ Renewed(<<>>)
  BY DEF SameButIdentifiers, Renewed
<1> QED BY <1>1, <1>2 DEF Rewriting

\* One more line keeps it.
LEMMA RewritingLine ==
  ASSUME NEW msg \in Seq(Seq(StoredTokens)), NEW n \in Nat, n < Len(msg),
         NEW text \in Seq(Tokens), Rewriting(msg, text, JoinedTo(msg, n)),
         NEW id \in Nat \ {0}, NEW line \in inject(msg[n + 1], id)
  PROVE  Rewriting(msg, text \o line, JoinedTo(msg, n + 1))
<1>1. n + 1 \in 1..Len(msg) /\ n + 1 \in DOMAIN msg /\ n \in 0..Len(msg)
  OBVIOUS
<1>2. msg[n + 1] \in Seq(StoredTokens) /\ msg[n + 1] \in Seq(Tokens)
  BY <1>1, ElementOfSeq, TokenTypes
<1>3. line \in Seq(Tokens)
  BY <1>2, InjectedTokens
<1>4. JoinedTo(msg, n + 1) = JoinedTo(msg, n) \o msg[n + 1] /\ JoinedTo(msg, n) \in Seq(Tokens)
  <2>1. msg \in Seq(Seq(Tokens))
    <3>1. Seq(StoredTokens) \subseteq Seq(Tokens)
      BY TokenTypes
    <3> QED BY <3>1, SeqMonotonic
  <2> QED BY <1>1, <2>1, JoinedLines
<1>5. ASSUME \A i \in DOMAIN msg : Plain(msg[i])
      PROVE  SameButIdentifiers(text \o line, JoinedTo(msg, n + 1))
  <2>1. SameButIdentifiers(text, JoinedTo(msg, n))
    BY <1>5 DEF Rewriting
  <2>2. SameButIdentifiers(line, msg[n + 1])
    BY <1>1, <1>2, <1>5, InjectedPlain
  <2> QED BY <1>2, <1>3, <1>4, <2>1, <2>2, ConcatSame
<1>6. ASSUME \A i \in DOMAIN msg : OneIdentifier(msg[i])
      PROVE  Renewed(text \o line)
  <2>1. Renewed(text)
    BY <1>6 DEF Rewriting
  <2>2. Renewed(line)
    BY <1>1, <1>2, <1>6, InjectedRenewed
  <2> QED BY <1>3, <2>1, <2>2, ConcatRenewed
<1> QED BY <1>5, <1>6 DEF Rewriting

\* What the event loop writes of it is made from what it would have written.
LEMMA RewritingWritten ==
  ASSUME NEW msg, NEW text \in Seq(Tokens), NEW old \in Seq(Tokens), Rewriting(msg, text, old)
  PROVE  Rewriting(msg, Written(text), Written(old))
BY WrittenSame, WrittenRenewed DEF Rewriting

\* The lines of a message that are left, one by one.
LEMMA LinesLeft ==
  ASSUME NEW msg \in Seq(Seq(StoredTokens)), NEW n \in 0..Len(msg)
  PROVE  /\ SubSeq(msg, n + 1, Len(msg)) = <<>> => n = Len(msg)
         /\ n < Len(msg) =>
              /\ Head(SubSeq(msg, n + 1, Len(msg))) = msg[n + 1]
              /\ Tail(SubSeq(msg, n + 1, Len(msg))) = SubSeq(msg, (n + 1) + 1, Len(msg))
         /\ n = Len(msg) => SubSeq(msg, n + 1, Len(msg)) = <<>>
<1>1. CASE n = Len(msg)
  <2>1. SubSeq(msg, n + 1, Len(msg)) = <<>>
    BY <1>1, SubSeqEmpty
  <2> QED BY <1>1, <2>1
<1>2. CASE n < Len(msg)
  <2>1. n + 1 \in 1..Len(msg) /\ Len(msg) \in (n + 1)..Len(msg)
    BY <1>2
  <2>2. \A i \in (n + 1)..Len(msg) : msg[i] \in Seq(StoredTokens)
    BY <2>1, ElementOfSeq
  <2>3. Len(SubSeq(msg, n + 1, Len(msg))) = Len(msg) - (n + 1) + 1
    BY <2>1, <2>2, SubSeqProperties
  <2>4. SubSeq(msg, n + 1, Len(msg)) # <<>>
    <3>1. PICK left : left = SubSeq(msg, n + 1, Len(msg))
      OBVIOUS
    <3>2. Len(msg) \in Nat /\ n \in Nat
      OBVIOUS
    <3>3. Len(msg) - (n + 1) + 1 # 0
      BY <1>2, <3>2
    <3>4. Len(left) = Len(msg) - (n + 1) + 1
      BY <2>3, <3>1
    <3>5. left # <<>>
      BY <3>3, <3>4
    <3> QED BY <3>1, <3>5
  <2> QED BY <1>2, <2>1, <2>4, HeadTailOfSubSeq
<1> QED BY <1>1, <1>2

\* inject() goes through the message line by line to its end.
LEMMA InjectNext ==
  ASSUME TableSound, ResultSound, FilesTyped, InjectSound, Next
  PROVE  InjectSound'
<1>1. CASE pc' \notin {"inject", "process"}
  BY <1>1 DEF InjectSound
<1>2. CASE UNCHANGED <<pc, lines, injected, result, cursor>>
  BY <1>2 DEF InjectSound, Current, key, Stored, Body
<1>3. CASE Insert \/ Done \/ Process
  BY <1>2, <1>3 DEF Insert, Done, vars, Process, files
<1>4. CASE Save
  <2> SUFFICES ASSUME pc' = "inject" PROVE InjectSound'
    BY <1>1, <1>4 DEF Save
  <2>1. /\ pc = "save" /\ Body(result[cursor]) # "null" /\ lines' = Current
        /\ injected' = [injected EXCEPT ![key] = <<>>] /\ UNCHANGED <<result, cursor>>
    BY <1>4 DEF Save, Current
  <2>2. key \in Keys /\ Current \in Seq(Seq(StoredTokens))
    BY <2>1, CurrentRow
  <2>3. injected'[key] = <<>>
    BY <2>1, <2>2 DEF FilesTyped
  <2>4. key' = key /\ Current' = Current
    BY <2>1 DEF key, Current, Stored, Body
  <2>5. Rewriting(Current, <<>>, JoinedTo(Current, 0))
    BY <2>2, RewritingNothing
  <2>6. 0 \in 0..Len(Current) /\ Current = SubSeq(Current, 0 + 1, Len(Current))
    BY <2>2, SubSeqFull
  <2> QED BY <2>1, <2>3, <2>4, <2>5, <2>6 DEF InjectSound
<1>5. CASE InjectLine
  <2>1. /\ pc = "inject" /\ pc' = "inject" /\ lines # <<>> /\ lines' = Tail(lines)
        /\ UNCHANGED <<result, cursor>>
    BY <1>5 DEF InjectLine
  <2>2. /\ key \in Keys /\ Current \in Seq(Seq(StoredTokens)) /\ injected[key] \in Seq(Tokens)
        /\ generated + 1 \in Nat \ {0}
    BY <2>1, CurrentRow DEF FilesTyped
  <2>3. key' = key /\ Current' = Current
    BY <2>1 DEF key, Current, Stored, Body
  <2>4. PICK n \in 0..Len(Current) :
          /\ lines = SubSeq(Current, n + 1, Len(Current))
          /\ Rewriting(Current, injected[key], JoinedTo(Current, n))
    BY <2>1 DEF InjectSound
  <2>5. n < Len(Current) /\ n + 1 \in 0..Len(Current) /\ n \in Nat
    <3>1. n # Len(Current)
      BY <2>1, <2>2, <2>4, LinesLeft
    <3> QED BY <2>2, <3>1
  <2>6. Head(lines) = Current[n + 1] /\ lines' = SubSeq(Current, (n + 1) + 1, Len(Current))
    BY <2>1, <2>2, <2>4, <2>5, LinesLeft
  <2>7. PICK line : /\ line \in inject(Head(lines), generated + 1)
                    /\ injected' = [injected EXCEPT ![key] = injected[key] \o line]
    BY <1>5, LineInjected
  <2>8. injected'[key] = injected[key] \o line
    BY <2>2, <2>7 DEF FilesTyped
  <2>9. Rewriting(Current, injected[key] \o line, JoinedTo(Current, n + 1))
    BY ZenonT(30), <2>2, <2>4, <2>5, <2>6, <2>7, RewritingLine
  <2> QED BY <2>1, <2>3, <2>5, <2>6, <2>8, <2>9 DEF InjectSound
<1>6. CASE CallProcess
  <2>1. /\ pc = "inject" /\ pc' = "process" /\ lines = <<>>
        /\ UNCHANGED <<injected, result, cursor>>
    BY <1>6 DEF CallProcess
  <2>2. Current \in Seq(Seq(StoredTokens))
    BY <2>1, CurrentRow
  <2>3. PICK n \in 0..Len(Current) :
          /\ lines = SubSeq(Current, n + 1, Len(Current))
          /\ Rewriting(Current, injected[key], JoinedTo(Current, n))
    BY <2>1 DEF InjectSound
  <2>4. n = Len(Current)
    BY <2>1, <2>2, <2>3, LinesLeft
  <2> QED BY ZenonT(30), <2>1, <2>3, <2>4 DEF InjectSound, Current, key, Stored, Body
<1> QED BY <1>1, <1>3, <1>4, <1>5, <1>6
        DEF Next, Batch, Submit, NextRow, InjectFails, Return

\* A file that is called whole is made from the message in the row of its key.
LEMMA WholeNext ==
  ASSUME TableSound, ResultSound, FilesTyped, CallSound, InjectSound, WholeSound, Next
  PROVE  WholeSound'
<1>0. DOMAIN table = 1..Len(table)
  BY DEF TableSound
<1>1. CASE UNCHANGED <<table, transformed>>
  BY <1>1 DEF WholeSound, Stored, Body
<1>2. CASE Insert
  <2>1. UNCHANGED transformed
    BY <1>2 DEF Insert, files
  <2>2. DOMAIN table' = 1..Len(table') /\ KeysDiffer(table)'
    BY TableNext DEF TableSound
  <2>3. ASSUME NEW i \in DOMAIN table PROVE i \in DOMAIN table' /\ table'[i] = table[i]
    BY <1>0, <2>2, TableNext
  <2>4. ASSUME NEW i \in DOMAIN table', transformed[Stored(table'[i])].whole,
               Stored(table'[i]) \in Keys
        PROVE  i \in DOMAIN table
    <3>1. PICK j \in DOMAIN table : Stored(table[j]) = Stored(table'[i])
      BY <2>4 DEF WholeSound
    <3>2. j \in DOMAIN table' /\ Stored(table'[j]) = Stored(table'[i])
      BY <2>3, <3>1
    <3>3. i = j
      BY <2>2, <3>2 DEF KeysDiffer, Stored
    <3> QED BY <3>1, <3>3
  <2>5. ASSUME NEW i \in DOMAIN table' PROVE Stored(table'[i]) \in Keys
    <3>1. table' \in Seq(Rows)
      BY TableNext DEF TableSound, Rows, Values
    <3>2. table'[i] \in Rows
      BY <2>2, <3>1, ElementOfSeq
    <3> QED BY <3>2, RowHas
  <2>6. ASSUME NEW k \in Keys, transformed[k].whole
        PROVE  \E i \in DOMAIN table' : Stored(table'[i]) = k
    <3>1. PICK i \in DOMAIN table : Stored(table[i]) = k
      BY <2>6 DEF WholeSound
    <3> QED BY <2>3, <3>1
  <2>7. ASSUME NEW i \in DOMAIN table', transformed[Stored(table'[i])].whole
        PROVE  LET msg == Text[Body(table'[i])]
               IN  /\ Body(table'[i]) # "null"
                   /\ Rewriting(msg, transformed[Stored(table'[i])].text,
                                Written(JoinedTo(msg, Len(msg))))
    <3>1. i \in DOMAIN table /\ table'[i] = table[i]
      BY <2>3, <2>4, <2>5, <2>7
    <3> QED BY <2>7, <3>1 DEF WholeSound
  <2> QED BY <2>1, <2>6, <2>7 DEF WholeSound, Stored, Body
<1>3. CASE CallProcess
  <2>1. key \in Keys /\ table' = table
    BY <1>3, CurrentRow DEF CallProcess, executorVars
  <2>2. \A k \in Keys : transformed'[k].whole => transformed'[k] = transformed[k]
    BY <1>3, <2>1 DEF CallProcess, FilesTyped, Unwritten
  <2>3. \A i \in DOMAIN table : Stored(table[i]) \in Keys
    BY <1>0, ElementOfSeq, RowHas DEF TableSound
  <2> QED BY <2>1, <2>2, <2>3 DEF WholeSound, Stored, Body
<1>4. CASE Process
  <2>1. /\ pc = "process" /\ table' = table
        /\ Rewriting(Current, injected[key], JoinedTo(Current, Len(Current)))
    BY <1>4 DEF Process, executorVars, InjectSound
  <2>2. /\ key \in Keys /\ cursor \in DOMAIN result /\ injected[key] \in Seq(Tokens)
        /\ transformed[key] \in Outputs
        /\ Current \in Seq(Seq(StoredTokens)) /\ Body(result[cursor]) # "null"
    BY <2>1, CurrentRow DEF FilesTyped
  <2>3. CASE Transform
    <3>1. /\ transformed'[key].text = Written(injected[key])
          /\ \A k \in Keys : k # key => transformed'[k] = transformed[k]
      BY <2>2, <2>3 DEF Transform, FilesTyped, Outputs
    <3>2. JoinedTo(Current, Len(Current)) \in Seq(Tokens)
      <4>1. Seq(StoredTokens) \subseteq Seq(Tokens)
        BY TokenTypes
      <4>2. Current \in Seq(Seq(Tokens)) /\ Len(Current) \in 0..Len(Current)
        BY <2>2, <4>1, SeqMonotonic
      <4> QED BY <4>2, JoinedLines
    <3>3. Rewriting(Current, transformed'[key].text, Written(JoinedTo(Current, Len(Current))))
      BY <2>1, <2>2, <3>1, <3>2, RewritingWritten
    <3>4. PICK j \in DOMAIN table : table[j] = result[cursor]
      BY <2>2 DEF ResultSound
    <3>5. ASSUME NEW k \in Keys, transformed'[k].whole
          PROVE  \E i \in DOMAIN table : Stored(table[i]) = k
      <4>1. CASE k = key
        BY <3>4, <4>1 DEF key
      <4>2. CASE k # key
        BY <3>1, <3>5, <4>2 DEF WholeSound
      <4> QED BY <4>1, <4>2
    <3>6. ASSUME NEW i \in DOMAIN table, transformed'[Stored(table[i])].whole
          PROVE  LET msg == Text[Body(table[i])]
                 IN  /\ Body(table[i]) # "null"
                     /\ Rewriting(msg, transformed'[Stored(table[i])].text,
                                  Written(JoinedTo(msg, Len(msg))))
      <4>1. CASE Stored(table[i]) = key
        <5>1. i = j
          BY <3>4, <4>1 DEF TableSound, KeysDiffer, key
        <5> QED BY <2>2, <3>3, <3>4, <4>1, <5>1 DEF Current
      <4>2. CASE Stored(table[i]) # key
        <5>1. Stored(table[i]) \in Keys
          BY <1>0, ElementOfSeq, RowHas DEF TableSound
        <5>2. transformed'[Stored(table[i])] = transformed[Stored(table[i])]
          BY <3>1, <4>2, <5>1
        <5> QED BY <3>6, <5>2 DEF WholeSound
      <4> QED BY <4>1, <4>2
    <3> QED BY <2>1, <3>5, <3>6 DEF WholeSound, Stored, Body
  <2>4. CASE TransformFails /\ phase = "loop"
    <3>1. ~transformed[key].whole
      BY <2>1, <2>4 DEF CallSound
    <3>2. PICK part : transformed' = [transformed EXCEPT ![key].text = part]
      BY <2>4 DEF TransformFails
    <3>3. \A k \in Keys : transformed'[k].whole => transformed'[k] = transformed[k]
      <4>1. transformed'[key].whole = transformed[key].whole
        BY <2>2, <3>2 DEF FilesTyped, Outputs
      <4>2. \A k \in Keys : k # key => transformed'[k] = transformed[k]
        BY <2>2, <3>2 DEF FilesTyped
      <4> QED BY <3>1, <4>1, <4>2
    <3>4. \A i \in DOMAIN table : Stored(table[i]) \in Keys
      BY <1>0, ElementOfSeq, RowHas DEF TableSound
    <3> QED BY <2>1, <3>3, <3>4 DEF WholeSound, Stored, Body
  <2>5. CASE UNCHANGED transformed
    BY <1>1, <2>1, <2>5
  <2>6. CASE CloseStreams
    <3>1. \A k \in Keys : transformed'[k].whole => transformed'[k] = transformed[k]
      BY <2>2, <2>6, CutByClose
    <3>2. \A i \in DOMAIN table : Stored(table[i]) \in Keys
      BY <1>0, ElementOfSeq, RowHas DEF TableSound
    <3> QED BY <2>1, <3>1, <3>2 DEF WholeSound, Stored, Body
  <2> QED BY <1>4, <2>3, <2>4, <2>5, <2>6 DEF Process, TransformFails
<1>5. CASE Submit \/ NextRow \/ Save \/ InjectLine \/ InjectFails \/ Return \/ Done
  BY <1>1, <1>5
     DEF Submit, NextRow, Save, InjectLine, InjectFails, Return, Done, vars, executorVars, files
<1> QED BY <1>2, <1>3, <1>4, <1>5 DEF Next, Batch

------------------------------------------------------------------------------
\* The invariant holds before the first run ...
LEMMA InitSound == Init => IInv
<1> SUFFICES ASSUME Init PROVE IInv
  OBVIOUS
<1>0. /\ refused = {} /\ pc = "ended" /\ runs = 0 /\ cursor = 0 /\ generated = 0
      /\ result = <<>> /\ lines = <<>>
      /\ injected = [k \in Keys |-> <<>>] /\ transformed = [k \in Keys |-> Unwritten]
      /\ phase = "returned" /\ streams = {} /\ closed = 0 /\ unclosed = {}
      /\ debugStream = FALSE /\ thrown = "nothing"
  BY DEF Init, StreamsInit
<1>1. TableSound
  <2>1. \/ table = <<>>
        \/ \E k \in Keys, m \in Messages \cup {"null"} :
             table = <<[values |-> Row(k, m), given |-> Row(k, m)]>>
    BY DEF Init
  <2>2. CASE table = <<>>
    <3>1. table \in Seq(Rows) /\ DOMAIN table = {}
      BY <2>2
    <3> QED BY <1>0, <3>1 DEF TableSound, KeysDiffer
  <2>3. ASSUME NEW k \in Keys, NEW m \in Messages \cup {"null"},
               table = <<[values |-> Row(k, m), given |-> Row(k, m)]>>
        PROVE  TableSound
    <3>1. /\ Row(k, m) \in Seq(Values) /\ Len(Row(k, m)) = Columns
          /\ Row(k, m)[1].is = k /\ Row(k, m)[2].is = m
      BY DEF Row, Values, Columns
    <3> DEFINE row == [values |-> Row(k, m), given |-> Row(k, m)]
    <3>2. row \in Rows
      BY <3>1 DEF Rows, Stored, Body
    <3> HIDE DEF row
    <3>3. table = <<row>>
      BY <2>3 DEF row
    <3>4. table \in Seq(Rows) /\ DOMAIN table = {1}
      BY <3>2, <3>3
    <3> QED BY <1>0, <3>4 DEF TableSound, KeysDiffer
  <2> QED BY <2>1, <2>2, <2>3
<1>2. ResultSound
  <2>1. result \in Seq(Rows) /\ DOMAIN result = {} /\ Len(result) = 0
    BY <1>0
  <2> QED BY <1>0, <2>1 DEF ResultSound, KeysDiffer
<1>3. FilesTyped
  <2>1. <<>> \in Seq(Tokens) /\ <<>> \in Seq(Seq(StoredTokens))
    OBVIOUS
  <2>2. Unwritten \in Outputs
    BY <2>1 DEF Unwritten, Outputs
  <2>3. 0 \in 0..MaxRuns
    BY FetchAssumption
  <2> HIDE DEF Unwritten
  <2>4. /\ [k \in Keys |-> <<>>] \in [Keys -> Seq(Tokens)]
        /\ [k \in Keys |-> Unwritten] \in [Keys -> Outputs]
    BY <2>1, <2>2
  <2> QED BY <1>0, <2>1, <2>3, <2>4 DEF FilesTyped
<1>4. StreamsSound
  <2>1. closed \in 0..Len(CloseOrder)
    BY <1>0, Closes
  <2> QED BY <1>0, <2>1 DEF StreamsSound, StreamsTypeOK, ProcessClosesStreams
<1>5. CallSound /\ InjectSound
  BY <1>0 DEF CallSound, InjectSound
<1>6. EarlierRowsDone
  <2>1. 1..Passed = {}
    BY <1>0 DEF Passed
  <2> QED BY <2>1 DEF EarlierRowsDone
<1>7. \A k \in Keys : Used(k) = {} /\ ~transformed[k].whole
  BY <1>0, IdsOfEmpty DEF Used, Unwritten
<1>8. IdentifiersSound
  BY <1>7 DEF IdentifiersSound
<1>9. WholeSound
  <2>1. ASSUME NEW i \in DOMAIN table PROVE ~transformed[Stored(table[i])].whole
    <3>1. table[i] \in Rows
      BY <1>1, ElementOfSeq DEF TableSound
    <3> QED BY <1>7, <3>1, RowHas
  <2> QED BY <1>7, <2>1 DEF WholeSound
<1> QED BY <1>1, <1>2, <1>3, <1>4, <1>5, <1>6, <1>8, <1>9 DEF IInv

\* ... and every step keeps it.
LEMMA NextSound == IInv /\ [Next]_vars => IInv'
<1> SUFFICES ASSUME IInv, [Next]_vars PROVE IInv'
  OBVIOUS
<1>1. CASE Next
  BY <1>1, TableNext, ResultNext, FilesNext, StreamsNext, CallNext, EarlierNext,
     IdentifiersNext, InjectNext, WholeNext DEF IInv
<1>2. CASE UNCHANGED vars
  <2>1. UNCHANGED <<table, refused, phase, streams, closed, unclosed, debugStream, thrown, pc,
                    runs, result, cursor, lines, generated, injected, transformed>>
    BY <1>2 DEF vars, executorVars, streamVars, files
  <2>2. TableSound' /\ ResultSound' /\ FilesTyped'
    BY <2>1 DEF IInv, TableSound, ResultSound, FilesTyped, KeysDiffer, Stored, Body
  <2>3. StreamsSound' /\ CallSound' /\ EarlierRowsDone'
    BY <2>1 DEF IInv, StreamsSound, StreamsTypeOK, ProcessClosesStreams, CallSound,
                EarlierRowsDone, Passed, key, Stored
  <2>4. IdentifiersSound' /\ InjectSound' /\ WholeSound'
    BY <2>1 DEF IInv, IdentifiersSound, Used, InjectSound, Current, key, WholeSound, Stored, Body
  <2> QED BY <2>2, <2>3, <2>4 DEF IInv
<1> QED BY <1>1, <1>2

\* It holds in every state of every run.
LEMMA Sound == Spec => []IInv
BY InitSound, NextSound, PTL DEF Spec

------------------------------------------------------------------------------
\* Identifiers in the files are generated ones, and 0 is stored data.
LEMMA TypeInvariant == IInv => TypeOK
<1> SUFFICES ASSUME IInv PROVE TypeOK
  OBVIOUS
<1>1. \A i \in DOMAIN table : Len(table[i].values) = Columns
  <2>1. ASSUME NEW i \in DOMAIN table PROVE table[i] \in Rows
    BY ElementOfSeq DEF IInv, TableSound
  <2> QED BY <2>1, RowHas DEF Rows
<1>2. ASSUME NEW k \in Keys, NEW t \in Range(injected[k]) \cup Range(transformed[k].text)
      PROVE  t.id \in 0..generated
  <2>1. injected[k] \in Seq(Tokens) /\ transformed[k].text \in Seq(Tokens)
    BY DEF IInv, FilesTyped, Outputs
  <2>2. t \in Tokens
    BY <2>1, ElementOfSeq DEF Range
  <2>3. t.id = 0 \/ t.id \in Used(k)
    BY DEF Used, Ids
  <2>4. Used(k) \subseteq 1..generated /\ generated \in Nat
    BY DEF IInv, IdentifiersSound, FilesTyped
  <2> QED BY <2>2, <2>3, <2>4 DEF Tokens
<1> QED BY <1>1, <1>2 DEF IInv, TypeOK, StreamsSound, ResultSound, FilesTyped

\* The message of a key is that of the row with this key: there is no other.
LEMMA MessageOfRow ==
  ASSUME IInv, NEW k \in Whole
  PROVE  \E msg \in Seq(Seq(StoredTokens)) :
           /\ msg = MessageOf(k)
           /\ JoinedTo(msg, Len(msg)) \in Seq(Tokens)
           /\ FlattenSeq(msg) = JoinedTo(msg, Len(msg))
           /\ Rewriting(msg, transformed[k].text, Written(JoinedTo(msg, Len(msg))))
<1>1. k \in Keys /\ transformed[k].whole
  BY DEF Whole
<1>2. PICK i \in DOMAIN table : Stored(table[i]) = k
  BY <1>1 DEF IInv, WholeSound
<1>3. MessageOf(k) = Text[Body(table[i])]
  <2>1. \A j \in DOMAIN table : Stored(table[j]) = k <=> j = i
    BY <1>2 DEF IInv, TableSound, KeysDiffer
  <2>2. (CHOOSE j \in DOMAIN table : Stored(table[j]) = k) = i
    BY <1>2, <2>1
  <2> QED BY <2>2 DEF MessageOf
<1>4. PICK msg : msg = Text[Body(table[i])]
  OBVIOUS
<1>5. /\ Body(table[i]) # "null"
      /\ Rewriting(msg, transformed[k].text, Written(JoinedTo(msg, Len(msg))))
  BY <1>1, <1>2, <1>4 DEF IInv, WholeSound
<1>6. table[i] \in Rows
  BY ElementOfSeq DEF IInv, TableSound
<1>7. msg \in Seq(Seq(StoredTokens))
  BY <1>4, <1>5, <1>6, RowHas, MessageTyped
<1>8. JoinedTo(msg, Len(msg)) \in Seq(StoredTokens) /\ FlattenSeq(msg) = JoinedTo(msg, Len(msg))
  <2>1. Len(msg) \in 0..Len(msg)
    BY <1>7
  <2> QED BY <1>7, <2>1, JoinedLines
<1>9. JoinedTo(msg, Len(msg)) \in Seq(Tokens)
  BY <1>8, TokenTypes
<1> QED BY <1>3, <1>4, <1>5, <1>7, <1>8, <1>9

\* What the batch has made of the message says what the file contains.
LEMMA ContentInvariant == IInv => OnlyIdentifiersChange /\ StoredIdentifierNeverSent
<1> SUFFICES ASSUME IInv, NEW k \in Whole
             PROVE  /\ (\A i \in DOMAIN MessageOf(k) : Plain(MessageOf(k)[i])) =>
                         SameButIdentifiers(transformed[k].text,
                                            Written(FlattenSeq(MessageOf(k))))
                    /\ (\A i \in DOMAIN MessageOf(k) : OneIdentifier(MessageOf(k)[i])) =>
                         LET text == transformed[k].text
                         IN  \A i \in 2..Len(text) :
                               OpensMessageId(text[i - 1]) /\ text[i].kind = "text" =>
                                 text[i].id > 0
  BY DEF OnlyIdentifiersChange, StoredIdentifierNeverSent
<1>1. PICK msg \in Seq(Seq(StoredTokens)) :
        /\ msg = MessageOf(k)
        /\ FlattenSeq(msg) = JoinedTo(msg, Len(msg))
        /\ Rewriting(msg, transformed[k].text, Written(JoinedTo(msg, Len(msg))))
  BY MessageOfRow
<1>2. ASSUME \A i \in DOMAIN MessageOf(k) : Plain(MessageOf(k)[i])
      PROVE  SameButIdentifiers(transformed[k].text, Written(FlattenSeq(MessageOf(k))))
  BY <1>1, <1>2 DEF Rewriting
<1>3. ASSUME \A i \in DOMAIN MessageOf(k) : OneIdentifier(MessageOf(k)[i]),
             NEW i \in 2..Len(transformed[k].text),
             OpensMessageId(transformed[k].text[i - 1])
      PROVE  transformed[k].text[i].id > 0
  <2>1. Renewed(transformed[k].text)
    BY <1>1, <1>3 DEF Rewriting
  <2>2. transformed[k].text \in Seq(Tokens)
    BY DEF IInv, FilesTyped, Whole, Outputs
  <2>3. PICK j \in 1..Len(transformed[k].text) : j = i - 1
    BY <2>2
  <2>4. i = j + 1
    BY <2>2, <2>3
  <2> QED BY <1>3, <2>1, <2>3, <2>4 DEF Renewed
<1> QED BY <1>2, <1>3

\* Theorem: every variable of the batch stays in its type, the cursor in the
\* result set, and every identifier in a file is one that was generated.
THEOREM FetchTypeCorrect == Spec => []TypeOK
BY Sound, TypeInvariant, PTL

\* Theorem: insert() stores a row value by value as it was given or refuses
\* it, although an unknown value shifts those after it.
THEOREM StoredAsGiven == Spec => []InsertedAsGiven
<1>1. IInv => InsertedAsGiven
  <2> SUFFICES ASSUME IInv PROVE InsertedAsGiven
    OBVIOUS
  <2>1. ASSUME NEW i \in DOMAIN table PROVE table[i].values = table[i].given
    <3>1. table[i] \in Rows
      BY ElementOfSeq DEF IInv, TableSound
    <3> QED BY <3>1, RowHas
  <2> QED BY <2>1 DEF IInv, TableSound, InsertedAsGiven
<1> QED BY Sound, <1>1, PTL

\* Theorem: when process() is over, each stream that it opened or was given
\* is closed or has had a close that threw, whichever statements and closes
\* threw and whatever the log level; no file is closed under its writer.
THEOREM StreamsClosed == Spec => []ProcessClosesStreams
<1>1. IInv => ProcessClosesStreams
  BY DEF IInv, StreamsSound
<1> QED BY Sound, <1>1, PTL

\* Theorem: a run never goes past a row whose file it could not transform;
\* the one exception it misses is that of a close, which is only logged.
THEOREM BatchInOrder == Spec => []EarlierRowsDone
<1>1. IInv => EarlierRowsDone
  BY DEF IInv
<1> QED BY Sound, <1>1, PTL

\* Theorem: no two transformed files share an identifier, over any number of
\* runs, of which any may break off between any two statements.
THEOREM IdentifiersDiffer == Spec => []IdentifiersUnique
<1>1. IInv => IdentifiersUnique
  <2> SUFFICES ASSUME IInv, NEW k \in Whole, NEW l \in Whole, k # l
               PROVE  IdentifiersIn(k) \cap IdentifiersIn(l) = {}
    BY DEF IdentifiersUnique
  <2>1. IdentifiersIn(k) \subseteq Used(k) /\ IdentifiersIn(l) \subseteq Used(l)
    BY DEF IdentifiersIn, Used, Ids
  <2>2. Used(k) \cap Used(l) = {}
    BY DEF IInv, IdentifiersSound, Whole
  <2> QED BY <2>1, <2>2
<1> QED BY Sound, <1>1, PTL

\* Theorem: a transformed file has the content of its message except for the
\* identifier and the blanks, for every message whose lines are plain.
THEOREM ContentKept == Spec => []OnlyIdentifiersChange
BY Sound, ContentInvariant, PTL

\* Theorem: a transformed file never carries the identifier that was stored,
\* for every message with at most one MessageID on a line whose start tag has
\* no attributes and its "MessageID>" on one line; any other tag, and the
\* end tag, may be broken over lines.
THEOREM NeverStored == Spec => []StoredIdentifierNeverSent
BY Sound, ContentInvariant, PTL
=============================================================================
