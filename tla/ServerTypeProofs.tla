-------------------------- MODULE ServerTypeProofs --------------------------
(***************************************************************************)
(* Type correctness of Server, for all requests, documents and threads.    *)
(* The hard part is to know where a handler is: todo[r] is an end of the   *)
(* handler of r's route, and the lemmas turn this into which statements    *)
(* remain, before and after a step.  They do it by ranks: the six handlers *)
(* are selections from one order of the statements.                        *)
(***************************************************************************)
EXTENDS Server, SequenceTheorems, TLAPS

\* One order of the statements that every handler follows.
Rank ==
  [upload |-> 1, logInfo |-> 2, load |-> 3, call |-> 4, open |-> 5, write |-> 6,
   readAll |-> 7, send |-> 8, clear |-> 9, generate |-> 10, return |-> 11,
   readLines |-> 12, put |-> 13, view |-> 14, render |-> 15, merge |-> 16]

\* The statements of the handler of route p.
Statements(p) == {Handler[p][i] : i \in DOMAIN Handler[p]}

\* What remains of r's handler are its statements from rank n on, and r is at
\* the one of rank n; a handler that has ended has rank 17.
Ranked(r, n) ==
  /\ \A x \in DOMAIN Rank :
       /\ Remains(r, x) <=> x \in Statements(route[r]) /\ Rank[x] >= n
       /\ At(r, x) <=> x \in Statements(route[r]) /\ Rank[x] = n
  /\ Active(r) <=> n < 17

-----------------------------------------------------------------------------
\* That x is in the sequence t, and that it is in h from place s on.
Occurs(t, x) == \E i \in DOMAIN t : t[i] = x
OccursFrom(h, s, x) == \E j \in s..Len(h) : h[j] = x

\* What the end of a sequence from place s on is.
LEMMA Suffix ==
  ASSUME NEW S, NEW h \in Seq(S), NEW s \in 1..(Len(h) + 1)
  PROVE  /\ SubSeq(h, s, Len(h)) # <<>> <=> s <= Len(h)
         /\ s <= Len(h) => /\ Head(SubSeq(h, s, Len(h))) = h[s]
                           /\ Tail(SubSeq(h, s, Len(h))) = SubSeq(h, s + 1, Len(h))
         /\ \A x : Occurs(SubSeq(h, s, Len(h)), x) <=> OccursFrom(h, s, x)
<1> DEFINE t == SubSeq(h, s, Len(h))
<1>1. Len(h) \in Nat /\ \A i \in 1..Len(h) : h[i] \in S
  BY LenProperties, ElementOfSeq
<1>2. /\ t \in Seq(S)
      /\ Len(t) = IF s <= Len(h) THEN Len(h) - s + 1 ELSE 0
      /\ \A i \in 1..(Len(h) - s + 1) : t[i] = h[s + i - 1]
  BY <1>1, SubSeqProperties
<1>3. t # <<>> <=> s <= Len(h)
  <2>1. t = <<>> => ~(s <= Len(h))
    <3>1. Len(<<>>) = 0
      OBVIOUS
    <3> QED BY <1>1, <1>2, <3>1
  <2>2. Len(h) < s => t = <<>>
    BY <1>1, SubSeqEmpty
  <2> QED BY <1>1, <2>1, <2>2
<1>4. ASSUME s <= Len(h) PROVE Head(t) = h[s] /\ Tail(t) = SubSeq(h, s + 1, Len(h))
  <2>1. s \in 1..Len(h) /\ Len(h) \in s..Len(h)
    BY <1>1, <1>4
  <2> QED BY <2>1, HeadTailOfSubSeq
<1>5. \A x : Occurs(t, x) <=> OccursFrom(h, s, x)
  <2>1. DOMAIN t = 1..(Len(h) - s + 1)
    BY <1>1, <1>2, LenProperties
  <2>2. \A j \in s..Len(h) : j - s + 1 \in 1..(Len(h) - s + 1) /\ s + (j - s + 1) - 1 = j
    BY <1>1
  <2>3. \A i \in 1..(Len(h) - s + 1) : s + i - 1 \in s..Len(h)
    BY <1>1
  <2> HIDE DEF t
  <2>4. ASSUME NEW i \in DOMAIN t PROVE OccursFrom(h, s, t[i])
    BY <1>2, <2>1, <2>3 DEF OccursFrom
  <2>5. ASSUME NEW j \in s..Len(h) PROVE Occurs(t, h[j])
    <3>1. j - s + 1 \in DOMAIN t /\ t[j - s + 1] = h[j]
      BY <1>2, <2>1, <2>2
    <3> QED BY <3>1 DEF Occurs
  <2> QED BY <2>4, <2>5 DEF Occurs, OccursFrom
<1> QED BY <1>3, <1>4, <1>5

\* Every handler is a sequence of the statements above, in their order.
LEMMA Handlers ==
  ASSUME NEW p \in Routes
  PROVE  LET h == Handler[p] IN
         /\ h \in Seq(DOMAIN Rank)
         /\ Len(h) \in Nat /\ DOMAIN h = 1..Len(h)
         /\ \A i \in 1..Len(h) : h[i] \in DOMAIN Rank /\ Rank[h[i]] \in 1..16
         /\ \A i, j \in 1..Len(h) : i < j => Rank[h[i]] < Rank[h[j]]
<1> DEFINE h == Handler[p]
<1>1. h \in Seq(DOMAIN Rank) /\ \A i, j \in DOMAIN h : i < j => Rank[h[i]] < Rank[h[j]]
  <2>1. CASE p = "home"
    BY <2>1 DEF Handler, Rank
  <2>2. CASE p = "page"
    BY <2>2 DEF Handler, Rank
  <2>3. CASE p = "uuid"
    BY <2>3 DEF Handler, Rank
  <2>4. CASE p = "hash"
    BY <2>4 DEF Handler, Rank
  <2>5. CASE p = "transform"
    BY <2>5 DEF Handler, Rank
  <2>6. CASE p = "soap"
    BY <2>6 DEF Handler, Rank
  <2> QED BY <2>1, <2>2, <2>3, <2>4, <2>5, <2>6 DEF Routes, Promise!Routes
<1>2. Len(h) \in Nat /\ DOMAIN h = 1..Len(h) /\ \A i \in 1..Len(h) : h[i] \in DOMAIN Rank
  BY <1>1, LenProperties, ElementOfSeq
<1>3. \A x \in DOMAIN Rank : Rank[x] \in 1..16
  BY DEF Rank
<1> QED BY <1>1, <1>2, <1>3

\* Places of such a sequence compare as the ranks of their statements do.
LEMMA Places ==
  ASSUME NEW h, Len(h) \in Nat, \A i \in 1..Len(h) : Rank[h[i]] \in 1..16,
         \A i, j \in 1..Len(h) : i < j => Rank[h[i]] < Rank[h[j]],
         NEW s \in 1..Len(h), NEW j \in 1..Len(h)
  PROVE  /\ j >= s <=> Rank[h[j]] >= Rank[h[s]]
         /\ j = s <=> h[j] = h[s]
<1>1. j \in Int /\ s \in Int /\ Rank[h[j]] \in Int /\ Rank[h[s]] \in Int
  <2>1. Rank[h[j]] \in 1..16 /\ Rank[h[s]] \in 1..16
    OBVIOUS
  <2>2. j \in Int /\ s \in Int
    OBVIOUS
  <2>3. Rank[h[j]] \in Int
    BY <2>1
  <2>4. Rank[h[s]] \in Int
    BY <2>1
  <2> QED BY <2>2, <2>3, <2>4
<1>2. /\ j < s => Rank[h[j]] < Rank[h[s]]
      /\ s < j => Rank[h[s]] < Rank[h[j]]
  OBVIOUS
<1> QED BY <1>1, <1>2

\* The statements that remain are those from some rank on.
LEMMA Ranks ==
  ASSUME TypeOK, NEW r \in Requests
  PROVE  \E n \in 1..17 : Ranked(r, n)
<1> DEFINE h == Handler[route[r]]
<1>1. route[r] \in Routes
  BY DEF TypeOK
<1>2. /\ h \in Seq(DOMAIN Rank)
      /\ Len(h) \in Nat /\ DOMAIN h = 1..Len(h)
      /\ \A i \in 1..Len(h) : h[i] \in DOMAIN Rank /\ Rank[h[i]] \in 1..16
      /\ \A i, j \in 1..Len(h) : /\ j >= i <=> Rank[h[j]] >= Rank[h[i]]
                                 /\ j = i <=> h[j] = h[i]
  BY <1>1, Handlers, Places
<1>3. PICK s \in 1..(Len(h) + 1) : todo[r] = SubSeq(h, s, Len(h))
  BY DEF TypeOK
<1>4. \A x : x \in Statements(route[r]) <=> \E j \in 1..Len(h) : h[j] = x
  BY <1>2 DEF Statements
<1> HIDE DEF h
<1>5. /\ Active(r) <=> s <= Len(h)
      /\ \A x : At(r, x) <=> s <= Len(h) /\ h[s] = x
      /\ \A x : Remains(r, x) <=> OccursFrom(h, s, x)
  <2>1. /\ todo[r] # <<>> <=> s <= Len(h)
        /\ todo[r] # <<>> => Head(todo[r]) = h[s]
        /\ \A x : Occurs(todo[r], x) <=> OccursFrom(h, s, x)
    BY <1>2, <1>3, Suffix
  <2> QED BY <2>1 DEF Active, At, Remains, Occurs
<1>6. CASE s = Len(h) + 1
  <2>1. ~Active(r) /\ \A x : ~Remains(r, x) /\ ~At(r, x)
    BY <1>2, <1>5, <1>6 DEF OccursFrom
  <2>2. \A x \in DOMAIN Rank : ~(Rank[x] >= 17) /\ Rank[x] # 17
    BY DEF Rank
  <2>3. Ranked(r, 17)
    BY <2>1, <2>2 DEF Ranked
  <2> QED BY <2>3
<1>7. CASE s <= Len(h)
  <2> DEFINE n == Rank[h[s]]
  <2>1. n \in 1..16 /\ s \in 1..Len(h)
    BY <1>2, <1>7
  <2>2. ASSUME NEW x \in DOMAIN Rank
        PROVE  /\ Remains(r, x) <=> x \in Statements(route[r]) /\ Rank[x] >= n
               /\ At(r, x) <=> x \in Statements(route[r]) /\ Rank[x] = n
    <3>1. ASSUME NEW j \in 1..Len(h), h[j] = x
          PROVE  /\ Remains(r, x) <=> Rank[x] >= n
                 /\ At(r, x) <=> Rank[x] = n
      <4>1. /\ Remains(r, x) <=> j >= s
            /\ At(r, x) <=> j = s
        BY <1>2, <1>5, <2>1, <3>1 DEF OccursFrom
      <4>2. (j >= s <=> Rank[x] >= n) /\ (j = s <=> Rank[x] = n)
        <5>1. (j >= s <=> Rank[x] >= n) /\ (s >= j <=> n >= Rank[x])
          BY <1>2, <2>1, <3>1
        <5>2. j \in Int /\ s \in Int /\ Rank[x] \in Int /\ n \in Int
          BY <1>2, <2>1, <3>1
        <5> HIDE DEF n
        <5> QED BY <5>1, <5>2
      <4> QED BY <4>1, <4>2
    <3>2. CASE ~ \E j \in 1..Len(h) : h[j] = x
      BY <1>4, <1>5, <2>1, <3>2 DEF OccursFrom
    <3>3. CASE \E j \in 1..Len(h) : h[j] = x
      BY <1>4, <3>1, <3>3
    <3> QED BY <3>2, <3>3
  <2>3. n \in 1..17 /\ n < 17
    <3> HIDE DEF n
    <3> QED BY <2>1
  <2>4. Active(r)
    BY <1>5, <1>7
  <2> HIDE DEF n
  <2>5. Ranked(r, n)
    BY <2>2, <2>3, <2>4 DEF Ranked
  <2> QED BY <2>3, <2>5
<1> QED BY <1>2, <1>6, <1>7

-----------------------------------------------------------------------------
\* What TypeOK leaves out: that the functions of the handlers are total.
Total == DOMAIN todo = Requests /\ DOMAIN stored = Requests /\ DOMAIN pos = Requests

\* TypeOK and Total in two parts: the variables that every statement moves ...
Control ==
  /\ route \in [Requests -> Routes]
  /\ \A r \in Requests : \E s \in 1..(Len(Handler[route[r]]) + 1) :
       todo[r] = SubSeq(Handler[route[r]], s, Len(Handler[route[r]]))
  /\ DOMAIN todo = Requests
  /\ started \subseteq Requests
  /\ answer \in [Requests -> [template : Templates \cup {"500", "halt", "out.xml"},
                              value : Values]]
  /\ disturbed \subseteq Requests

\* ... and those that hold data.
Data ==
  /\ \A r \in Requests : stored[r] \in Promise!NoFile..Size[r]
  /\ DOMAIN stored = Requests
  /\ local \in [Requests -> Values]
  /\ looked \in [Requests -> Templates]
  /\ \A r \in Requests : pos[r] \in 0..Size[r]
  /\ DOMAIN pos = Requests
  /\ model \in [{"UUID", "message", "response"} -> Values]
  /\ view \in Templates
  /\ uuid \in Values
  /\ file \in [{"out.xml", "resp.xml"} -> Seq(Chunk)]

\* The two parts are the whole, in both states of a step.
LEMMA Split ==
  /\ (TypeOK /\ Total) <=> (Control /\ Data)
  /\ (TypeOK /\ Total)' <=> (Control /\ Data)'
BY DEF TypeOK, Total, Control, Data

\* A document is a sequence of as many chunks as its size says.
LEMMA Documents ==
  ASSUME NEW r \in Requests
  PROVE  /\ Size[r] \in Nat \ {0}
         /\ Promise!Document(r) \in Seq(Chunk)
         /\ Len(Promise!Document(r)) = Size[r]
         /\ \A k \in 1..Size[r] : Promise!Document(r)[k] \in Chunk
<1>1. Size[r] \in Nat \ {0}
  BY SizesAssumption
<1>2. \A k \in 1..Size[r] : Promise!Document(r)[k] \in Chunk
  BY <1>1 DEF Promise!Document, Chunk
<1>3. Promise!Document(r) \in Seq(Chunk) /\ Len(Promise!Document(r)) = Size[r]
  <2> DEFINE d == [k \in 1..Size[r] |-> [of |-> r, part |-> k]]
  <2>1. \A k \in 1..Size[r] : [of |-> r, part |-> k] \in Chunk
    BY <1>1 DEF Chunk
  <2>2. d \in Seq(Chunk)
    BY <1>1, <2>1
  <2>3. Len(d) = Size[r]
    BY <1>1
  <2> QED BY <2>2, <2>3 DEF Promise!Document
<1> QED BY <1>1, <1>2, <1>3

\* What the handlers compute are values.
LEMMA ValueTypes ==
  /\ Promise!Nothing \in Values
  /\ \A r \in Requests : Promise!Uuid(r) \in Values
  /\ \A parts \in Seq(Chunk) : /\ Promise!Hash(parts) \in Values
                               /\ Promise!Lines(parts) \in Values
                               /\ Promise!Value("file", parts) \in Values
  /\ Promise!Value("message", <<>>) \in Values
<1>1. <<>> \in Seq(Chunk) /\ \A r \in Requests : <<[of |-> r, part |-> 0]>> \in Seq(Chunk)
  BY DEF Chunk
<1> QED BY <1>1 DEF Values, Promise!Nothing, Promise!Uuid, Promise!Hash, Promise!Lines,
                    Promise!Value

\* A file stays a sequence of chunks wherever a chunk is written to it.
LEMMA Overwriting ==
  ASSUME NEW f \in Seq(Chunk), NEW i \in Nat, NEW chunk \in Chunk
  PROVE  Overwritten(f, i, chunk) \in Seq(Chunk)
<1>1. Hole \in Chunk
  BY DEF Hole, Chunk
<1>2. Len(f) \in Nat /\ \A k \in 1..Len(f) : f[k] \in Chunk
  BY LenProperties, ElementOfSeq
<1> DEFINE n == IF Len(f) > i THEN Len(f) ELSE i + 1
<1>3. n \in Nat
  BY <1>2
<1>4. \A k \in 1..n : (IF k = i + 1 THEN chunk ELSE IF k <= Len(f) THEN f[k] ELSE Hole) \in Chunk
  BY <1>1, <1>2
<1> QED BY <1>3, <1>4 DEF Overwritten

\* A statement that is done leaves the ones behind it.
LEMMA Advanced ==
  ASSUME Control, NEW r \in Requests, Active(r), Advance(r) \/ PutLost(r)
  PROVE  /\ Control'
         /\ \A y \in DOMAIN Rank :
              Remains(r, y)' <=> Remains(r, y) /\ y # Head(todo[r])
<1> DEFINE h == Handler[route[r]]
<1>1. /\ todo' = [todo EXCEPT ![r] = Tail(todo[r])]
      /\ disturbed' \subseteq disturbed \cup Disturbs(r) \cup {r}
      /\ route' = route /\ started' = started /\ answer' = answer
  BY DEF Advance, Continue, PutLost
<1>2. /\ h \in Seq(DOMAIN Rank) /\ Len(h) \in Nat
      /\ \A i, j \in 1..Len(h) : j = i <=> h[j] = h[i]
  BY Handlers, Places DEF Control
<1>3. PICK s \in 1..(Len(h) + 1) : todo[r] = SubSeq(h, s, Len(h))
  BY DEF Control
<1> HIDE DEF h
<1>4. /\ s \in 1..Len(h) /\ s + 1 \in 1..(Len(h) + 1)
      /\ Head(todo[r]) = h[s]
      /\ todo'[r] = SubSeq(h, s + 1, Len(h))
  <2>1. s <= Len(h) /\ Head(todo[r]) = h[s] /\ Tail(todo[r]) = SubSeq(h, s + 1, Len(h))
    <3>1. s <= Len(h)
      BY <1>2, <1>3, Suffix DEF Active
    <3> QED BY <1>2, <1>3, <3>1, Suffix
  <2> QED BY <1>1, <1>2, <2>1 DEF Control
<1>5. Control'
  <2>1. \A q \in Requests : \E k \in 1..(Len(Handler[route[q]]) + 1) :
          todo'[q] = SubSeq(Handler[route[q]], k, Len(Handler[route[q]]))
    <3>1. ASSUME NEW q \in Requests \ {r} PROVE todo'[q] = todo[q]
      BY <1>1 DEF Control
    <3> QED BY <1>4, <3>1 DEF Control, h
  <2>2. Disturbs(r) \subseteq Requests
    BY DEF Disturbs
  <2> QED BY <1>1, <2>1, <2>2 DEF Control
<1>6. \A y : /\ Remains(r, y) <=> OccursFrom(h, s, y)
             /\ Remains(r, y)' <=> OccursFrom(h, s + 1, y)
  <2>1. \A y : /\ Occurs(todo[r], y) <=> OccursFrom(h, s, y)
               /\ Occurs(todo'[r], y) <=> OccursFrom(h, s + 1, y)
    BY <1>2, <1>3, <1>4, Suffix
  <2> QED BY <2>1 DEF Remains, Occurs
<1>7. \A y : OccursFrom(h, s + 1, y) <=> OccursFrom(h, s, y) /\ y # h[s]
  <2>1. \A j \in (s + 1)..Len(h) : j \in s..Len(h) /\ j \in 1..Len(h) /\ j # s
    BY <1>2, <1>4
  <2>2. \A j \in s..Len(h) : j = s \/ j \in (s + 1)..Len(h)
    BY <1>2, <1>4
  <2> QED BY <1>2, <1>4, <2>1, <2>2 DEF OccursFrom
<1> QED BY <1>4, <1>5, <1>6, <1>7

\* A handler that is answered has no statement left.
LEMMA Responded ==
  ASSUME Control, NEW r \in Requests,
         NEW a \in [template : Templates \cup {"500", "halt", "out.xml"}, value : Values],
         Respond(r, a)
  PROVE  Control'
<1>1. /\ answer' = [answer EXCEPT ![r] = a]
      /\ todo' = [todo EXCEPT ![r] = <<>>]
      /\ route' = route /\ started' = started /\ disturbed' = disturbed
  BY DEF Respond
<1>2. ASSUME NEW q \in Requests
      PROVE  \E s \in 1..(Len(Handler[route[q]]) + 1) :
               todo'[q] = SubSeq(Handler[route[q]], s, Len(Handler[route[q]]))
  <2>1. CASE q = r
    <3> DEFINE n == Len(Handler[route[r]])
    <3>1. n \in Nat
      BY Handlers, LenProperties DEF Control
    <3>2. n + 1 \in 1..(n + 1) /\ SubSeq(Handler[route[r]], n + 1, n) = <<>>
      BY <3>1, SubSeqEmpty
    <3> QED BY <1>1, <2>1, <3>2 DEF Control
  <2>2. CASE q # r
    BY <1>1, <2>2 DEF Control
  <2> QED BY <2>1, <2>2
<1> QED BY <1>1, <1>2 DEF Control

\* The statements that have a handler's data to themselves ...
LEMMA OwnDataTypes ==
  ASSUME Control, Data, NEW r \in Requests,
         Upload(r) \/ LogInfo(r) \/ Load(r) \/ Call(r) \/ Send(r) \/ SendHalts(r) \/ Fail(r)
           \/ CallFails(r) \/ Merge(r)
  PROVE  Control' /\ Data'
<1> USE DEF At
<1>1. CASE Upload(r)
  <2>1. PICK n \in Promise!NoFile..Size[r] : stored' = [stored EXCEPT ![r] = n]
    BY <1>1 DEF Upload
  <2>2. Control'
    BY <1>1, Advanced DEF Upload
  <2> QED BY <1>1, <2>1, <2>2 DEF Upload, Data, shared
<1>2. CASE LogInfo(r)
  <2>1. Control'
    BY <1>2, Advanced DEF LogInfo
  <2> QED BY <1>2, <2>1 DEF LogInfo, Data, shared, private
<1>3. CASE Load(r)
  <2>1. Control'
    BY <1>3, Advanced DEF Load
  <2>2. Promise!Hash(Promise!Uploaded(r)) \in Values
    <3>1. stored[r] \in Int /\ stored[r] <= Size[r]
      BY <1>3, Documents DEF Data, Promise!NoFile
    <3>2. \A k \in 1..stored[r] : Promise!Document(r)[k] \in Chunk
      BY <3>1, Documents
    <3>3. Promise!Uploaded(r) \in Seq(Chunk)
      BY <3>1, <3>2, SubSeqProperties DEF Promise!Uploaded
    <3> QED BY <3>3, ValueTypes
  <2> QED BY <1>3, <2>1, <2>2 DEF Load, Data, shared
<1>4. CASE Call(r)
  <2>1. Control'
    BY <1>4, Advanced DEF Call
  <2> QED BY <1>4, <2>1 DEF Call, Data, shared, private
<1>5. CASE Send(r)
  <2>1. Promise!Page("out.xml", local[r])
          \in [template : Templates \cup {"500", "halt", "out.xml"}, value : Values]
    BY DEF Data, Promise!Page
  <2>2. Control'
    BY <1>5, <2>1, Responded DEF Send
  <2> QED BY <1>5, <2>2 DEF Send, SendHalts, Data, shared, private
<1>6. CASE SendHalts(r) \/ Fail(r) \/ CallFails(r)
  <2>1. {Promise!Failed, Promise!Halted}
          \subseteq [template : Templates \cup {"500", "halt", "out.xml"}, value : Values]
    BY ValueTypes DEF Promise!Failed, Promise!Halted, Promise!Page
  <2>2. Control'
    BY <1>6, <2>1, Responded DEF SendHalts, Fail, CallFails
  <2> QED BY <1>6, <2>2 DEF SendHalts, Fail, CallFails, Data, shared, private
<1>7. CASE Merge(r)
  <2>1. Shown(looked[r]) \in Values
    BY ValueTypes DEF Shown, Data
  <2>2. Promise!Page(looked[r], Shown(looked[r]))
          \in [template : Templates \cup {"500", "halt", "out.xml"}, value : Values]
    BY <2>1 DEF Data, Promise!Page
  <2>3. Control'
    BY <1>7, <2>2, Responded DEF Merge
  <2> QED BY <1>7, <2>3 DEF Merge, Data, shared, private
<1> QED BY <1>1, <1>2, <1>3, <1>4, <1>5, <1>6, <1>7

\* ... and those that share the file or the map with the others.
LEMMA SharedDataTypes ==
  ASSUME Control, Data, NEW r \in Requests,
         Open(r) \/ Write(r) \/ ReadAll(r) \/ ReadLines(r) \/ Clear(r) \/ Generate(r)
           \/ ReturnUuid(r) \/ Put(r) \/ PutLost(r) \/ SetView(r) \/ Render(r)
  PROVE  Control' /\ Data'
<1> USE DEF At
<1>0. FileOf(r) \in {"out.xml", "resp.xml"} /\ Size[r] \in Nat \ {0}
  BY Documents DEF FileOf
<1>1. CASE Open(r)
  <2>1. Control'
    BY <1>1, Advanced DEF Open
  <2>2. <<>> \in Seq(Chunk)
    OBVIOUS
  <2>3. file' \in [{"out.xml", "resp.xml"} -> Seq(Chunk)]
    BY <1>0, <1>1, <2>2 DEF Open, Data
  <2>4. DOMAIN pos' = Requests /\ \A q \in Requests : pos'[q] \in 0..Size[q]
    BY <1>0, <1>1 DEF Open, Data
  <2> QED BY <1>1, <2>1, <2>3, <2>4 DEF Open, Data
<1>2. CASE Write(r)
  <2>1. CASE pos[r] < Size[r]
    <3>1. Control'
      BY <1>2, <2>1 DEF Write, Continue, Control, Disturbs
    <3>2. pos[r] \in Nat /\ pos[r] + 1 \in 1..Size[r]
      BY <1>0, <2>1 DEF Data
    <3>3. Overwritten(file[FileOf(r)], pos[r], Promise!Document(r)[pos[r] + 1]) \in Seq(Chunk)
      BY <1>0, <3>2, Documents, Overwriting DEF Data
    <3>4. file' \in [{"out.xml", "resp.xml"} -> Seq(Chunk)]
      BY <1>0, <1>2, <2>1, <3>3 DEF Write, Data
    <3>5. DOMAIN pos' = Requests /\ \A q \in Requests : pos'[q] \in 0..Size[q]
      <4>1. pos' = [pos EXCEPT ![r] = pos[r] + 1]
        BY <1>2, <2>1 DEF Write
      <4>2. pos[r] + 1 \in 0..Size[r]
        BY <1>0, <3>2
      <4> QED BY <4>1, <4>2 DEF Data
    <3> QED BY <1>2, <3>1, <3>4, <3>5 DEF Write, Data
  <2>2. CASE ~(pos[r] < Size[r])
    <3>1. Advance(r) /\ UNCHANGED <<file, pos>>
      BY <1>2, <2>2 DEF Write
    <3>2. Control'
      BY <1>2, <3>1, Advanced DEF Write
    <3> QED BY <1>2, <3>1, <3>2 DEF Write, Data
  <2> QED BY <2>1, <2>2
<1>3. CASE ReadAll(r) \/ ReadLines(r)
  <2>1. Control'
    BY <1>3, Advanced DEF ReadAll, ReadLines
  <2>2. \E v \in Values : local' = [local EXCEPT ![r] = v]
    BY <1>3, ValueTypes DEF ReadAll, ReadLines, Data
  <2> QED BY <1>3, <2>1, <2>2 DEF ReadAll, ReadLines, Data, shared
<1>4. CASE Clear(r)
  <2>1. Control'
    BY <1>4, Advanced DEF Clear
  <2> QED BY <1>4, <2>1, ValueTypes DEF Clear, Data, private
<1>5. CASE Generate(r)
  <2>1. Control'
    BY <1>5, Advanced DEF Generate
  <2> QED BY <1>5, <2>1, ValueTypes DEF Generate, Data, private
<1>6. CASE ReturnUuid(r)
  <2>1. Control'
    BY <1>6, Advanced DEF ReturnUuid
  <2> QED BY <1>6, <2>1 DEF ReturnUuid, Data, shared
<1>7. CASE Put(r)
  <2>1. Control'
    BY <1>7, Advanced DEF Put
  <2>2. KeyOf(r) \in {"UUID", "message", "response"} /\ local[r] \in Values
    BY DEF KeyOf, Data
  <2> QED BY <1>7, <2>1, <2>2 DEF Put, Data, private
<1>8. CASE PutLost(r)
  <2>1. Control'
    BY <1>8, Advanced DEF PutLost
  <2> QED BY <1>8, <2>1 DEF PutLost, Data, shared, private
<1>9. CASE SetView(r)
  <2>1. Control'
    BY <1>9, Advanced DEF SetView
  <2>2. TemplateOf(r) \in Templates
    BY DEF TemplateOf, Templates
  <2> QED BY <1>9, <2>1, <2>2 DEF SetView, Data, private
<1>10. CASE Render(r)
  <2>1. Control'
    BY <1>10, Advanced DEF Render
  <2> QED BY <1>10, <2>1 DEF Render, Data, shared
<1> QED BY <1>1, <1>2, <1>3, <1>4, <1>5, <1>6, <1>7, <1>8, <1>9, <1>10

\* A request that is given a thread starts at the first statement.
LEMMA AcceptTypes ==
  ASSUME Control, Data, NEW r \in Requests, Accept(r)
  PROVE  Control' /\ Data'
<1>1. /\ started' = started \cup {r}
      /\ todo' = [todo EXCEPT ![r] = Handler[route[r]]]
      /\ route' = route /\ answer' = answer /\ disturbed' = disturbed
  BY DEF Accept
<1>2. ASSUME NEW q \in Requests
      PROVE  \E s \in 1..(Len(Handler[route[q]]) + 1) :
               todo'[q] = SubSeq(Handler[route[q]], s, Len(Handler[route[q]]))
  <2>1. CASE q = r
    <3>1. Len(Handler[route[r]]) \in Nat /\ Handler[route[r]] \in Seq(DOMAIN Rank)
      BY Handlers, LenProperties DEF Control
    <3>2. SubSeq(Handler[route[r]], 1, Len(Handler[route[r]])) = Handler[route[r]]
      BY <3>1, SubSeqFull
    <3>3. 1 \in 1..(Len(Handler[route[r]]) + 1)
      BY <3>1
    <3> QED BY <1>1, <2>1, <3>2, <3>3 DEF Control
  <2>2. CASE q # r
    BY <1>1, <2>2 DEF Control
  <2> QED BY <2>1, <2>2
<1>3. Control'
  BY <1>1, <1>2 DEF Control
<1>4. local' \in [Requests -> Values]
  BY ValueTypes DEF Accept, Data
<1> QED BY <1>3, <1>4 DEF Accept, Data, shared

\* No handler runs at first, which is the empty end of each.
LEMMA InitTypes == Init => TypeOK /\ Total
<1> SUFFICES ASSUME Init PROVE Control /\ Data
  BY Split
<1>1. ASSUME NEW r \in Requests
      PROVE  \E s \in 1..(Len(Handler[route[r]]) + 1) :
               todo[r] = SubSeq(Handler[route[r]], s, Len(Handler[route[r]]))
  <2> DEFINE n == Len(Handler[route[r]])
  <2>1. n \in Nat
    BY Handlers, LenProperties DEF Init
  <2>2. n + 1 \in 1..(n + 1) /\ SubSeq(Handler[route[r]], n + 1, n) = <<>>
    BY <2>1, SubSeqEmpty
  <2> QED BY <2>2 DEF Init
<1>2. Promise!NoAnswer \in [template : Templates \cup {"500", "halt", "out.xml"}, value : Values]
  BY ValueTypes DEF Promise!NoAnswer, Promise!Page, Templates
<1>3. Control
  BY <1>1, <1>2 DEF Init, Control
<1>4. file \in [{"out.xml", "resp.xml"} -> Seq(Chunk)]
  <2>1. Leftovers \subseteq Seq(Chunk)
    <3> SUFFICES ASSUME NEW f \in Leftovers PROVE f \in Seq(Chunk)
      OBVIOUS
    <3>1. f \in Seq([of : {Nobody}, part : Nat])
      BY LeftoversAssumption
    <3>2. /\ Len(f) \in Nat /\ f = [k \in 1..Len(f) |-> f[k]]
          /\ \A k \in 1..Len(f) : f[k] \in [of : {Nobody}, part : Nat]
      BY <3>1, LenProperties, ElementOfSeq
    <3>3. \A k \in 1..Len(f) : f[k] \in Chunk
      BY <3>2 DEF Chunk
    <3> QED BY <3>2, <3>3, SeqDef
  <2> QED BY <2>1 DEF Init
<1>5. \A r \in Requests : Promise!NoFile \in Promise!NoFile..Size[r] /\ 0 \in 0..Size[r]
  BY Documents DEF Promise!NoFile
<1> QED BY <1>3, <1>4, <1>5, ValueTypes DEF Init, Data, Templates

\* No step leaves the types.
LEMMA StepTypes == TypeOK /\ Total /\ [Next]_vars => (TypeOK /\ Total)'
<1> SUFFICES ASSUME Control, Data, [Next]_vars PROVE (Control /\ Data)'
  BY Split
<1>1. ASSUME NEW r \in Requests, Accept(r) PROVE (Control /\ Data)'
  BY <1>1, AcceptTypes
<1>2. ASSUME NEW r \in Requests, Work(r) PROVE (Control /\ Data)'
  BY <1>2, OwnDataTypes, SharedDataTypes DEF Work
<1>3. ASSUME NEW r \in Requests, Remote(r) PROVE (Control /\ Data)'
  BY <1>3, OwnDataTypes DEF Remote
<1>4. CASE UNCHANGED vars
  BY <1>4 DEF vars, private, shared, Control, Data
<1> QED BY <1>1, <1>2, <1>3, <1>4 DEF Next, Idle

\* Every request is in its own handler, with values of its kind, and no stream
\* writes past its document.
THEOREM TypeCorrect == Spec => []TypeOK
<1>1. TypeOK /\ Total => TypeOK
  OBVIOUS
<1> QED BY InitTypes, StepTypes, <1>1, PTL DEF Spec
=============================================================================
