---------------------------- MODULE ServerProofs ----------------------------
(***************************************************************************)
(* Proofs about Server, for all requests, documents and threads: a request *)
(* that nobody disturbed gets its own answer.  The invariant follows each  *)
(* handler from its first write of shared state to its last read of it.    *)
(***************************************************************************)
EXTENDS ServerTypeProofs

\* A request that runs was given a thread and is not answered yet.
Life(r) ==
  /\ Active(r) => r \in started /\ ~Answered(r)
  /\ r \notin started => ~Answered(r)

\* What a handler knows of its own data, whoever disturbs it: a stream that
\* writes the output file is within the document, and is through with all of it
\* when the next statement is reached; the hash is of what was uploaded.
Private(r) ==
  /\ (route[r] \in {"transform", "soap"} /\ Active(r) /\ ~Remains(r, "open"))
       => pos[r] <= stored[r]
  /\ (route[r] \in {"transform", "soap"} /\ Active(r) /\ ~Remains(r, "write"))
       => pos[r] = Size[r]
  /\ (route[r] = "hash" /\ Active(r) /\ ~Remains(r, "load"))
       => stored[r] # Promise!NoFile /\ local[r] = Promise!Hash(Promise!Uploaded(r))

\* The page an undisturbed request is about to show, while it depends on the
\* shared map, view and generator: its own view, under its own key its own value.
Presents(r) ==
  "model" \in Holds(r) =>
    /\ ~Remains(r, "view") => view = TemplateOf(r)
    /\ ~Remains(r, "render") => looked[r] = TemplateOf(r)
    /\ (~Remains(r, "put") /\ route[r] # "home") => model[KeyOf(r)] = local[r]
    /\ route[r] = "uuid" /\ ~Remains(r, "generate") =>
         IF Remains(r, "return") THEN uuid = Promise!Uuid(r)
                                 ELSE local[r] = Promise!Uuid(r)

\* The output file an undisturbed request writes: the beginning of its document,
\* and what was read back from it.
Fills(r) ==
  /\ FileOf(r) \in Holds(r) =>
       file[FileOf(r)] = SubSeq(Promise!Document(r), 1, pos[r])
  /\ (route[r] = "transform" /\ Active(r) /\ ~Remains(r, "readAll"))
       => local[r] = Promise!Value("file", Promise!Document(r))
  /\ (route[r] = "soap" /\ Active(r) /\ ~Remains(r, "readLines"))
       => local[r] \in {Promise!Lines(Promise!Document(r)), Promise!Nothing}

\* The answer of an undisturbed request.
AnswersOwn(r) == Answered(r) => answer[r] \in Promise!Own(r) \cup Promise!MayFail(r)

\* The invariant of one request ...
Sound(r) ==
  /\ Life(r)
  /\ Private(r)
  /\ r \notin disturbed => Presents(r) /\ Fills(r) /\ AnswersOwn(r)

\* ... and of the server.
IInv == TypeOK /\ Total /\ \A r \in Requests : Sound(r)

\* A step of the request r.
Steps(r) == Accept(r) \/ Work(r) \/ Remote(r)

\* A step that leaves q what is q's own, and, unless q is disturbed by it, what
\* q depends on.
Spares(q) ==
  /\ route' = route
  /\ todo'[q] = todo[q] /\ answer'[q] = answer[q]
  /\ q \in started' <=> q \in started
  /\ stored'[q] = stored[q] /\ local'[q] = local[q]
  /\ looked'[q] = looked[q] /\ pos'[q] = pos[q]
  /\ q \notin disturbed' => q \notin disturbed
  /\ ("model" \in Holds(q) /\ q \notin disturbed') => UNCHANGED <<model, view, uuid>>
  /\ (FileOf(q) \in Holds(q) /\ q \notin disturbed') =>
       file'[FileOf(q)] = file[FileOf(q)]

\* A request's steps spare the others.
LEMMA Others ==
  ASSUME Control, Data, NEW r \in Requests, NEW q \in Requests \ {r}, Steps(r)
  PROVE  Spares(q)
<1> USE DEF Spares, Control, Data, shared, private, At
<1>0. FileOf(q) \in {"out.xml", "resp.xml"} /\ FileOf(r) \in {"out.xml", "resp.xml"}
  BY DEF FileOf
<1>1. CASE Accept(r)
  BY <1>1 DEF Accept
<1>2. CASE Upload(r) \/ LogInfo(r) \/ Load(r) \/ Call(r)
  BY <1>2 DEF Upload, LogInfo, Load, Call, Advance, Continue
<1>3. CASE Send(r) \/ SendHalts(r) \/ Fail(r) \/ CallFails(r) \/ Merge(r)
  BY <1>3 DEF Send, SendHalts, Fail, CallFails, Merge, Respond
<1>4. CASE ReadAll(r) \/ ReadLines(r) \/ ReturnUuid(r) \/ Render(r)
  BY <1>4 DEF ReadAll, ReadLines, ReturnUuid, Render, Advance, Continue
<1>5. CASE Open(r) \/ Write(r)
  <2>1. Writes(r) = {FileOf(r)}
    BY <1>5 DEF Open, Write, Writes
  <2>2. q \in disturbed' \/ FileOf(r) \notin Holds(q)
    BY <1>5, <2>1 DEF Open, Write, Advance, Continue, Disturbs
  <2> QED BY <1>0, <1>5, <2>2 DEF Open, Write, Advance, Continue
<1>6. CASE Clear(r) \/ Generate(r) \/ Put(r) \/ SetView(r)
  <2>1. Writes(r) = {"model"}
    BY <1>6 DEF Clear, Generate, Put, SetView, Writes
  <2>2. q \in disturbed' \/ "model" \notin Holds(q)
    BY <1>6, <2>1 DEF Clear, Generate, Put, SetView, Advance, Continue, Disturbs
  <2> QED BY <1>6, <2>2 DEF Clear, Generate, Put, SetView, Advance, Continue
<1>7. CASE PutLost(r)
  BY <1>7 DEF PutLost
<1> QED BY <1>1, <1>2, <1>3, <1>4, <1>5, <1>6, <1>7 DEF Steps, Work, Remote

\* What the invariant says of q depends on nothing else.
LEMMA SparedSound ==
  ASSUME NEW q \in Requests, Spares(q), Sound(q)
  PROVE  Sound(q)'
<1> USE DEF Spares
<1>1. /\ \A x : Remains(q, x)' <=> Remains(q, x)
      /\ Active(q)' <=> Active(q)
      /\ Answered(q)' <=> Answered(q)
      /\ FileOf(q)' = FileOf(q) /\ KeyOf(q)' = KeyOf(q) /\ TemplateOf(q)' = TemplateOf(q)
  BY DEF Remains, Active, Answered, FileOf, KeyOf, TemplateOf, Promise!NoAnswer,
              Promise!Nothing, Promise!Page
<1>2. Holds(q)' = Holds(q)
  BY <1>1 DEF Holds
<1>3. Life(q)' /\ Private(q)'
  BY <1>1 DEF Sound, Life, Private, Promise!Uploaded
<1>4. q \notin disturbed' => Presents(q)'
  BY <1>1, <1>2 DEF Sound, Presents
<1>5. q \notin disturbed' => Fills(q)'
  BY <1>1, <1>2 DEF Sound, Fills
<1>6. q \notin disturbed' => AnswersOwn(q)'
  BY <1>1 DEF Sound, AnswersOwn, Promise!Own, Promise!MayFail, Promise!Uploaded
<1> QED BY <1>3, <1>4, <1>5, <1>6 DEF Sound

\* The statements of each route.
LEMMA StatementsOf ==
  /\ Statements("home") = {"clear", "view", "render", "merge"}
  /\ Statements("page") = {"clear", "put", "view", "render", "merge"}
  /\ Statements("uuid") = {"clear", "generate", "return", "put", "view", "render", "merge"}
  /\ Statements("hash") = {"upload", "logInfo", "load", "clear", "put", "view", "render",
                          "merge"}
  /\ Statements("transform") = {"upload", "logInfo", "open", "write", "readAll", "send"}
  /\ Statements("soap") = {"upload", "logInfo", "call", "open", "write", "clear", "readLines",
                          "put", "view", "render", "merge"}
<1>1. Statements("home") = {"clear", "view", "render", "merge"}
  BY DEF Statements, Handler
<1>2. Statements("page") = {"clear", "put", "view", "render", "merge"}
  BY DEF Statements, Handler
<1>3. Statements("uuid") = {"clear", "generate", "return", "put", "view", "render", "merge"}
  BY DEF Statements, Handler
<1>4. Statements("hash") = {"upload", "logInfo", "load", "clear", "put", "view", "render",
                            "merge"}
  BY DEF Statements, Handler
<1>5. Statements("transform") = {"upload", "logInfo", "open", "write", "readAll", "send"}
  BY DEF Statements, Handler
<1>6. Statements("soap") = {"upload", "logInfo", "call", "open", "write", "clear", "readLines",
                            "put", "view", "render", "merge"}
  BY DEF Statements, Handler
<1> QED BY <1>1, <1>2, <1>3, <1>4, <1>5, <1>6

\* What remains of a handler at the statement x ...
LEMMA Before ==
  ASSUME Control, Data, NEW r \in Requests, NEW x \in DOMAIN Rank, At(r, x)
  PROVE  /\ route[r] \in Routes
         /\ x \in Statements(route[r])
         /\ \A y \in DOMAIN Rank :
              Remains(r, y) <=> y \in Statements(route[r]) /\ Rank[y] >= Rank[x]
<1>1. PICK n \in 1..17 : Ranked(r, n)
  BY Split, Ranks
<1> QED BY <1>1 DEF Ranked, Control

\* ... and when x is done.
LEMMA After ==
  ASSUME Control, Data, NEW r \in Requests, NEW x \in DOMAIN Rank, At(r, x),
         Advance(r) \/ PutLost(r)
  PROVE  \A y \in DOMAIN Rank :
           Remains(r, y)' <=> y \in Statements(route[r]) /\ Rank[y] > Rank[x]
<1>1. PICK n \in 1..17 : Ranked(r, n)
  BY Split, Ranks
<1>2. Active(r) /\ Head(todo[r]) = x
  BY DEF At
<1>3. \A y \in DOMAIN Rank : Remains(r, y)' <=> Remains(r, y) /\ y # x
  BY <1>2, Advanced
<1>4. \A y \in DOMAIN Rank : Rank[y] \in Int
  BY DEF Rank
<1>5. Rank[x] = n /\ \A y \in DOMAIN Rank : At(r, y) => y = x
  BY <1>1 DEF Ranked, At
<1> QED BY <1>1, <1>3, <1>4, <1>5 DEF Ranked

\* Only a handler that runs takes a step, but for the one that starts it.
LEMMA ActiveRuns ==
  ASSUME NEW r \in Requests, Steps(r), ~Accept(r)
  PROVE  Active(r)
BY DEF Steps, Work, Remote, At, Upload, LogInfo, Load, Call, Open, Write, ReadAll,
       ReadLines, Send, SendHalts, Clear, Generate, ReturnUuid, Put, PutLost, SetView,
       Render, Merge, Fail, CallFails

\* A handler is answered by its last statement or by an error, never twice.
LEMMA Lives ==
  ASSUME Control, Data, NEW r \in Requests, Life(r), Steps(r)
  PROVE  Life(r)'
<1> USE DEF Control, Life, Answered, Active
<1>1. CASE Accept(r)
  BY <1>1 DEF Accept
<1>2. ASSUME r \in started, ~Answered(r), answer'[r] = answer[r], started' = started
      PROVE  Life(r)'
  BY <1>2 DEF Promise!NoAnswer, Promise!Nothing, Promise!Page
<1>3. ASSUME NEW a, Respond(r, a), r \in started
      PROVE  Life(r)'
  BY <1>3 DEF Respond
<1>4. Steps(r) /\ ~Accept(r) => Active(r)
  BY ActiveRuns
<1>5. CASE Upload(r) \/ LogInfo(r) \/ Load(r) \/ Call(r) \/ Open(r) \/ Write(r)
             \/ ReadAll(r) \/ ReadLines(r)
  BY <1>2, <1>4, <1>5
     DEF Upload, LogInfo, Load, Call, Open, Write, ReadAll, ReadLines, Advance, Continue, Steps,
         Accept
<1>6. CASE Clear(r) \/ Generate(r) \/ ReturnUuid(r) \/ Put(r) \/ PutLost(r)
             \/ SetView(r) \/ Render(r)
  BY <1>2, <1>4, <1>6
     DEF Clear, Generate, ReturnUuid, Put, PutLost, SetView, Render, Advance, Continue, Steps,
         Accept
<1>7. CASE Send(r) \/ SendHalts(r) \/ Fail(r) \/ CallFails(r) \/ Merge(r)
  BY <1>3, <1>4, <1>7 DEF Send, SendHalts, Fail, CallFails, Merge, Steps, Accept
<1> QED BY <1>1, <1>5, <1>6, <1>7 DEF Steps, Work, Remote

\* The statements before the first that writes shared state.
LEMMA PreparingSound ==
  ASSUME Control, Data, NEW r \in Requests, Sound(r), Life(r)',
         Accept(r) \/ Upload(r) \/ LogInfo(r) \/ Load(r) \/ Call(r)
  PROVE  Sound(r)'
<1> USE DEF Private, Presents, Fills, AnswersOwn, Life, FileOf
<1>1. CASE Accept(r)
  <2>1. route' = route /\ todo'[r] = Handler[route[r]] /\ answer' = answer
    BY <1>1 DEF Accept, Control
  <2>2. \A x : Remains(r, x)' <=> x \in Statements(route[r])
    BY <2>1 DEF Remains, Statements
  <2>3. Holds(r)' = {}
    BY <2>1, <2>2, StatementsOf DEF Holds, Control, Routes, Promise!Routes
  <2>4. ~Answered(r)'
    BY <1>1, <2>1 DEF Accept, Sound, Answered, Promise!NoAnswer, Promise!Nothing, Promise!Page
  <2> QED BY <2>1, <2>2, <2>3, <2>4, StatementsOf DEF Sound, Control, Routes, Promise!Routes
<1>2. ASSUME NEW x \in {"upload", "logInfo", "load", "call"}, At(r, x), Advance(r)
      PROVE  /\ route[r] \in {"hash", "transform", "soap"}
             /\ x = "load" <=> route[r] = "hash" /\ ~Remains(r, "load")'
             /\ route[r] \in {"transform", "soap"} =>
                  Remains(r, "open")' /\ Remains(r, "write")'
             /\ route[r] = "transform" => Remains(r, "readAll")' /\ ~Remains(r, "merge")'
             /\ route[r] = "soap" => Remains(r, "readLines")'
             /\ route[r] \in {"hash", "soap"} => Remains(r, "clear")'
  <2>1. x \in DOMAIN Rank
    BY DEF Rank
  <2>2. x \in Statements(route[r]) /\ route[r] \in Routes
    BY <1>2, <2>1, Before
  <2>3. route[r] \in {"hash", "transform", "soap"}
    BY <2>2, StatementsOf DEF Routes, Promise!Routes
  <2>4. \A y \in DOMAIN Rank :
          Remains(r, y)' <=> y \in Statements(route[r]) /\ Rank[y] > Rank[x]
    BY <1>2, <2>1, After
  <2> QED BY <2>2, <2>3, <2>4, StatementsOf DEF Rank
<1>3. ASSUME NEW x \in {"upload", "logInfo", "load", "call"}, At(r, x), Advance(r)
      PROVE  Presents(r)' /\ Fills(r)' /\ AnswersOwn(r)'
  <2>1. route' = route /\ answer' = answer /\ ~Answered(r)'
    BY <1>3 DEF Advance, Continue, Sound, At, Answered, Promise!NoAnswer, Promise!Nothing,
                Promise!Page
  <2>2. Holds(r)' = {}
    BY <1>2, <1>3, <2>1 DEF Holds
  <2>3. Presents(r)' /\ AnswersOwn(r)'
    BY <2>1, <2>2
  <2>4. Fills(r)'
    BY <1>2, <1>3, <2>1, <2>2
  <2> QED BY <2>3, <2>4
<1>4. CASE Upload(r) \/ LogInfo(r) \/ Call(r)
  <2>1. PICK x \in {"upload", "logInfo", "call"} : At(r, x)
    BY <1>4 DEF Upload, LogInfo, Call
  <2>2. Advance(r) /\ route' = route
    BY <1>4 DEF Upload, LogInfo, Call, Advance, Continue
  <2> QED BY <1>2, <1>3, <2>1, <2>2 DEF Sound
<1>5. CASE Load(r)
  <2>1. /\ At(r, "load") /\ Advance(r) /\ route' = route /\ stored' = stored
        /\ stored[r] # Promise!NoFile
        /\ local'[r] = Promise!Hash(Promise!Uploaded(r))
    BY <1>5 DEF Load, Advance, Continue, Data
  <2>2. Private(r)'
    BY <1>2, <2>1 DEF Promise!Uploaded
  <2> QED BY <1>3, <2>1, <2>2 DEF Sound
<1> QED BY <1>1, <1>4, <1>5

\* Writing the next chunk of a document to a file that holds those before it.
LEMMA OverwritingNext ==
  ASSUME NEW d \in Seq(Chunk), NEW i \in Nat, i < Len(d)
  PROVE  Overwritten(SubSeq(d, 1, i), i, d[i + 1]) = SubSeq(d, 1, i + 1)
<1> DEFINE f == SubSeq(d, 1, i)
           g == SubSeq(d, 1, i + 1)
<1>1. Len(d) \in Nat /\ \A k \in 1..Len(d) : d[k] \in Chunk
  BY LenProperties, ElementOfSeq
<1>2. f \in Seq(Chunk) /\ Len(f) = i /\ \A k \in 1..i : f[k] = d[k]
  BY <1>1, SubSeqProperties
<1>3. g \in Seq(Chunk) /\ Len(g) = i + 1 /\ \A k \in 1..(i + 1) : g[k] = d[k]
  BY <1>1, SubSeqProperties
<1>4. g = [k \in 1..(i + 1) |-> g[k]]
  BY <1>3, LenProperties
<1> HIDE DEF f, g
<1>5. Overwritten(f, i, d[i + 1]) = [k \in 1..(i + 1) |-> g[k]]
  BY <1>2, <1>3 DEF Overwritten
<1> QED BY <1>4, <1>5 DEF f, g

\* The statements between opening the output file and reading it back.
LEMMA FileSound ==
  ASSUME Control, Data, NEW r \in Requests, Sound(r), Life(r)',
         Open(r) \/ Write(r) \/ ReadAll(r) \/ ReadLines(r)
  PROVE  Sound(r)'
<1> DEFINE d == Promise!Document(r)
<1> USE DEF Life
<1>1. /\ d \in Seq(Chunk) /\ Len(d) = Size[r] /\ d' = d
      /\ Size[r] \in Nat \ {0} /\ pos[r] \in 0..Size[r] /\ stored[r] \in -1..Size[r]
  BY Documents DEF Data, Promise!Document, Promise!NoFile
<1> HIDE DEF d
<1>2. ASSUME NEW x \in {"open", "write", "readAll", "readLines"}, At(r, x)
      PROVE  /\ route[r] \in {"transform", "soap"}
             /\ Remains(r, "open") <=> x = "open"
             /\ Remains(r, "write") <=> x \in {"open", "write"}
             /\ route[r] = "transform" => x # "readLines"
             /\ route[r] = "soap" => x # "readAll"
             /\ route[r] = "transform" => Remains(r, "readAll") /\ ~Remains(r, "merge")
             /\ route[r] = "soap" => Remains(r, "readLines")
             /\ route[r] = "soap" => (Remains(r, "clear") <=> x # "readLines")
             /\ Advance(r) =>
                  /\ ~Remains(r, "open")'
                  /\ Remains(r, "write")' <=> x = "open"
                  /\ Remains(r, "readAll")' <=> route[r] = "transform" /\ x # "readAll"
                  /\ Remains(r, "readLines")' <=> route[r] = "soap" /\ x # "readLines"
                  /\ Remains(r, "merge")' <=> route[r] = "soap"
                  /\ route[r] = "soap" => (Remains(r, "clear")' <=> x # "readLines")
                  /\ route[r] = "soap" => Remains(r, "put")' /\ Remains(r, "view")'
                                          /\ Remains(r, "render")'
  <2>1. x \in DOMAIN Rank
    BY DEF Rank
  <2>2. x \in Statements(route[r]) /\ route[r] \in Routes
    BY <1>2, <2>1, Before
  <2>3. route[r] \in {"transform", "soap"}
    BY <2>2, StatementsOf DEF Routes, Promise!Routes
  <2>4. \A y \in DOMAIN Rank :
          Remains(r, y) <=> y \in Statements(route[r]) /\ Rank[y] >= Rank[x]
    BY <1>2, <2>1, Before
  <2>5. Advance(r) => \A y \in DOMAIN Rank :
          Remains(r, y)' <=> y \in Statements(route[r]) /\ Rank[y] > Rank[x]
    BY <1>2, <2>1, After
  <2>6. CASE route[r] = "transform"
    BY <2>2, <2>4, <2>5, <2>6, StatementsOf DEF Rank
  <2>7. CASE route[r] = "soap"
    BY <2>2, <2>4, <2>5, <2>7, StatementsOf DEF Rank
  <2> QED BY <2>3, <2>6, <2>7
<1>3. PICK x \in {"open", "write", "readAll", "readLines"} : At(r, x)
  BY DEF Open, Write, ReadAll, ReadLines
<1>4. /\ route' = route /\ answer' = answer /\ stored' = stored
      /\ UNCHANGED <<looked, model, view, uuid>>
      /\ disturbed \subseteq disturbed'
      /\ Active(r) /\ ~Answered(r)'
  BY DEF Open, Write, ReadAll, ReadLines, Advance, Continue, shared, Sound, At, Answered,
         Promise!NoAnswer, Promise!Nothing, Promise!Page
<1>5. FileOf(r)' = FileOf(r) /\ KeyOf(r)' = KeyOf(r) /\ FileOf(r) \in {"out.xml", "resp.xml"}
  BY <1>4 DEF FileOf, KeyOf
<1>6. AnswersOwn(r)'
  BY <1>4 DEF AnswersOwn
<1>7. CASE ~(Write(r) /\ pos[r] < Size[r])
  <2>0. Advance(r)
    BY <1>7 DEF Open, Write, ReadAll, ReadLines
  <2>1. Presents(r)'
    BY <1>2, <1>3, <1>4, <2>0 DEF Presents, Holds, FileOf
  <2>2. CASE Open(r)
    <3>1. /\ x = "open" /\ stored[r] # -1
          /\ file'[FileOf(r)] = <<>> /\ pos'[r] = 0
      BY <1>3, <1>5, <2>2 DEF Open, At, Data, Promise!NoFile
    <3>2. SubSeq(d, 1, 0) = <<>>
      BY SubSeqEmpty
    <3>3. Private(r)'
      BY <1>1, <1>2, <1>3, <1>4, <2>0, <3>1 DEF Private
    <3>4. Fills(r)'
      BY <1>1, <1>2, <1>3, <1>4, <1>5, <2>0, <3>1, <3>2 DEF Fills, d
    <3> QED BY <1>6, <2>1, <3>3, <3>4 DEF Sound
  <2>3. CASE Write(r)
    <3>1. x = "write"
      BY <1>3, <2>3 DEF Write, At
    <3>2. ~(pos[r] < Size[r]) /\ UNCHANGED <<file, pos>> /\ local' = local
      BY <1>7, <2>3 DEF Write
    <3>3. Private(r)'
      BY <1>1, <1>2, <1>3, <1>4, <2>0, <3>1, <3>2 DEF Private, Sound
    <3>4. r \notin disturbed' => Fills(r)'
      BY <1>1, <1>2, <1>3, <1>4, <1>5, <2>0, <3>1, <3>2 DEF Fills, d, Sound, Holds, FileOf
    <3> QED BY <1>6, <2>1, <3>3, <3>4 DEF Sound
  <2>4. CASE ReadAll(r) \/ ReadLines(r)
    <3>1. /\ x \in {"readAll", "readLines"}
          /\ UNCHANGED <<file, pos>>
      BY <1>3, <2>4 DEF ReadAll, ReadLines, At, shared
    <3>2. Private(r)'
      BY <1>1, <1>2, <1>3, <1>4, <2>0, <3>1 DEF Private, Sound
    <3>3. ASSUME r \notin disturbed PROVE file[FileOf(r)] = d
      <4>1. FileOf(r) \in Holds(r)
        BY <1>2, <1>3, <1>4, <3>1 DEF Holds
      <4>2. pos[r] = Size[r]
        BY <1>2, <1>3, <1>4, <2>0, <3>1 DEF Private, Sound
      <4>3. SubSeq(d, 1, Size[r]) = d
        BY <1>1, SubSeqFull
      <4> QED BY <3>3, <4>1, <4>2, <4>3 DEF Sound, Fills, d
    <3>4. r \notin disturbed' => Fills(r)'
      <4> SUFFICES ASSUME r \notin disturbed' PROVE Fills(r)'
        OBVIOUS
      <4>1. /\ route[r] = "transform" => local'[r] = Promise!Value("file", d)
            /\ route[r] = "soap" => local'[r] \in {Promise!Lines(d), Promise!Nothing}
        BY <1>2, <1>3, <1>4, <2>4, <3>1, <3>3 DEF ReadAll, ReadLines, At, Data, FileOf
      <4>2. FileOf(r)' \notin Holds(r)'
        BY <1>2, <1>3, <1>4, <2>0, <3>1 DEF Holds, FileOf
      <4> QED BY <1>1, <1>4, <4>1, <4>2 DEF Fills, d
    <3> QED BY <1>6, <2>1, <3>2, <3>4 DEF Sound
  <2> QED BY <2>2, <2>3, <2>4
<1>8. CASE Write(r) /\ pos[r] < Size[r]
  <2>1. /\ Write(r) /\ x = "write"
        /\ pos[r] < stored[r] /\ pos[r] < Size[r]
        /\ Continue(r, todo[r])
        /\ file' = [file EXCEPT ![FileOf(r)] =
                      Overwritten(file[FileOf(r)], pos[r], d[pos[r] + 1])]
        /\ pos' = [pos EXCEPT ![r] = pos[r] + 1]
        /\ local' = local
    BY <1>3, <1>8 DEF Open, Write, ReadAll, ReadLines, At, d
  <2>2. todo'[r] = todo[r]
    BY <2>1 DEF Continue, Control
  <2>3. \A y : Remains(r, y)' <=> Remains(r, y)
    BY <2>2 DEF Remains
  <2>4. Holds(r)' = Holds(r) /\ "model" \notin Holds(r)
    BY <1>2, <1>3, <1>4, <2>1, <2>3 DEF Holds, FileOf
  <2>5. Presents(r)'
    BY <2>4 DEF Presents
  <2>6. Private(r)'
    BY <1>1, <1>2, <1>3, <1>4, <2>1, <2>3 DEF Private, Sound, Data
  <2>7. ASSUME r \notin disturbed PROVE file'[FileOf(r)] = SubSeq(d, 1, pos'[r])
    <3>1. FileOf(r) \in Holds(r)
      BY <1>2, <1>3, <1>4, <2>1 DEF Holds
    <3>2. file[FileOf(r)] = SubSeq(d, 1, pos[r])
      BY <2>7, <3>1 DEF Sound, Fills, d
    <3>3. Overwritten(SubSeq(d, 1, pos[r]), pos[r], d[pos[r] + 1]) = SubSeq(d, 1, pos[r] + 1)
      BY <1>1, <2>1, OverwritingNext
    <3> QED BY <1>1, <1>5, <2>1, <3>2, <3>3 DEF Data
  <2>8. r \notin disturbed' => Fills(r)'
    BY <1>1, <1>2, <1>3, <1>4, <1>5, <2>1, <2>3, <2>4, <2>7 DEF Fills, d
  <2> QED BY <1>6, <2>5, <2>6, <2>8 DEF Sound
<1> QED BY <1>7, <1>8

\* The statements that fill the shared map and the view.
LEMMA ModelSound ==
  ASSUME Control, Data, NEW r \in Requests, Sound(r), Life(r)',
         Clear(r) \/ Generate(r) \/ ReturnUuid(r) \/ Put(r) \/ PutLost(r) \/ SetView(r)
           \/ Render(r)
  PROVE  Sound(r)'
<1> DEFINE d == Promise!Document(r)
           X == {"clear", "generate", "return", "put", "view", "render"}
<1> USE DEF Life
<1>1. PICK x \in X : At(r, x)
  BY DEF Clear, Generate, ReturnUuid, Put, PutLost, SetView, Render
<1>2. Advance(r) \/ PutLost(r)
  BY DEF Clear, Generate, ReturnUuid, Put, PutLost, SetView, Render
<1>3. /\ route' = route /\ answer' = answer
      /\ UNCHANGED <<stored, pos, file>>
      /\ disturbed \subseteq disturbed'
      /\ Active(r) /\ ~Answered(r)'
      /\ x # "return" => local'[r] = local[r]
      /\ x # "render" => looked'[r] = looked[r]
      /\ x # "view" => view' = view
      /\ x # "generate" => uuid' = uuid
      /\ x \notin {"clear", "put"} => model' = model
      /\ r \notin disturbed' => Advance(r)
  <2>1. Active(r) /\ Head(todo[r]) = x
    BY <1>1 DEF At
  <2>2. ~Answered(r) /\ answer' = answer => ~Answered(r)'
    BY DEF Answered, Promise!NoAnswer, Promise!Nothing, Promise!Page
  <2>3. ~Answered(r)
    BY <2>1 DEF Sound
  <2> USE <2>1, <2>2, <2>3 DEF At, private, shared
  <2>4. CASE Clear(r) \/ Put(r) \/ SetView(r) \/ Generate(r)
    BY <2>4 DEF Clear, Put, SetView, Generate, Advance, Continue
  <2>5. CASE ReturnUuid(r) \/ Render(r)
    BY <2>5 DEF ReturnUuid, Render, Advance, Continue
  <2>6. CASE PutLost(r)
    BY <2>6 DEF PutLost
  <2> QED BY <2>4, <2>5, <2>6
<1>4. /\ x \in DOMAIN Rank
      /\ route[r] \in {"home", "page", "uuid", "hash", "soap"}
      /\ x \in Statements(route[r])
      /\ \A y \in DOMAIN Rank :
           /\ Remains(r, y) <=> y \in Statements(route[r]) /\ Rank[y] >= Rank[x]
           /\ Remains(r, y)' <=> y \in Statements(route[r]) /\ Rank[y] > Rank[x]
  <2>1. x \in DOMAIN Rank
    BY DEF Rank
  <2>2. x \in Statements(route[r]) /\ route[r] \in Routes
    BY <1>1, <2>1, Before
  <2>3. route[r] \in {"home", "page", "uuid", "hash", "soap"}
    BY <2>2, StatementsOf DEF Routes, Promise!Routes
  <2> QED BY <1>1, <1>2, <2>1, <2>2, <2>3, Before, After
<1>5. AnswersOwn(r)'
  BY <1>3 DEF AnswersOwn
<1>6. FileOf(r)' = FileOf(r) /\ KeyOf(r)' = KeyOf(r) /\ TemplateOf(r)' = TemplateOf(r)
  BY <1>3 DEF FileOf, KeyOf, TemplateOf
<1>7. Private(r)'
  <2>1. route[r] = "soap" => ~Remains(r, "open") /\ ~Remains(r, "write")
    BY <1>4, StatementsOf DEF Rank
  <2>2. route[r] = "hash" => ~Remains(r, "load") /\ x # "return"
    BY <1>4, StatementsOf DEF Rank
  <2> QED BY <1>3, <1>4, <2>1, <2>2 DEF Private, Sound, Promise!Uploaded
<1>8. r \notin disturbed' => Fills(r)'
  <2>1. CASE route[r] = "soap"
    <3>1. /\ Remains(r, "readLines")' <=> Remains(r, "readLines")
          /\ Remains(r, "open")' <=> Remains(r, "open")
          /\ x # "return"
      BY <1>4, <2>1, StatementsOf DEF Rank
    <3>2. FileOf(r) \in Holds(r)' => FileOf(r) \in Holds(r)
      BY <1>3, <2>1, <3>1 DEF Holds, FileOf
    <3> QED BY <1>3, <1>6, <2>1, <3>1, <3>2
            DEF Fills, Sound, Promise!Document
  <2>2. CASE route[r] # "soap"
    <3>1. FileOf(r)' \notin Holds(r)'
      BY <1>3, <1>4, <2>2 DEF Holds, FileOf
    <3> QED BY <1>3, <1>4, <2>2, <3>1 DEF Fills
  <2> QED BY <2>1, <2>2
<1>9. ASSUME r \notin disturbed' PROVE Presents(r)'
  <2>1. /\ x # "clear" => "model" \in Holds(r)
        /\ x = "clear" => Remains(r, "view")' /\ Remains(r, "render")'
                          /\ (route[r] # "home" => Remains(r, "put")')
                          /\ (route[r] = "uuid" => Remains(r, "generate")')
    BY <1>4, StatementsOf DEF Holds, Rank
  <2>2. CASE x = "clear"
    BY <1>3, <2>1, <2>2 DEF Presents
  <2>3. CASE x # "clear"
    <3>1. r \notin disturbed /\ Presents(r)
      BY <1>3, <1>9 DEF Sound
    <3>2. ~Remains(r, "view")' => view' = TemplateOf(r)
      <4>1. Remains(r, "view")' <=> Remains(r, "view") /\ x # "view"
        BY <1>4, StatementsOf DEF Rank
      <4>2. x = "view" => view' = TemplateOf(r)
        BY <1>1 DEF At, Clear, Generate, ReturnUuid, Put, PutLost, SetView, Render
      <4> QED BY <1>3, <2>1, <2>3, <3>1, <4>1, <4>2 DEF Presents
    <3>3. ~Remains(r, "render")' => looked'[r] = TemplateOf(r)
      <4>1. /\ Remains(r, "render")' <=> Remains(r, "render") /\ x # "render"
            /\ x = "render" => ~Remains(r, "view")
        BY <1>4, StatementsOf DEF Rank
      <4>2. x = "render" => looked'[r] = view
        BY <1>1 DEF At, Clear, Generate, ReturnUuid, Put, PutLost, SetView, Render, Data
      <4> QED BY <1>3, <2>1, <2>3, <3>1, <4>1, <4>2 DEF Presents
    <3>4. (~Remains(r, "put")' /\ route[r] # "home") => model'[KeyOf(r)] = local'[r]
      <4>1. /\ route[r] # "home" => (Remains(r, "put")' <=> Remains(r, "put") /\ x # "put")
            /\ x = "return" => Remains(r, "put")'
        BY <1>4, StatementsOf DEF Rank
      <4>2. x = "put" => model'[KeyOf(r)] = local[r]
        <5>1. x = "put" => Put(r)
          BY <1>1, <1>9 DEF At, Clear, Generate, ReturnUuid, Put, PutLost, SetView, Render
        <5>2. KeyOf(r) \in {"UUID", "message", "response"}
          BY DEF KeyOf
        <5> QED BY <5>1, <5>2 DEF Put, Data
      <4> QED BY <1>3, <2>1, <2>3, <3>1, <4>1, <4>2 DEF Presents
    <3>5. (route[r] = "uuid" /\ ~Remains(r, "generate")') =>
            IF Remains(r, "return")' THEN uuid' = Promise!Uuid(r)
                                     ELSE local'[r] = Promise!Uuid(r)
      <4>1. route[r] = "uuid" =>
              /\ Remains(r, "generate")' <=> Remains(r, "generate") /\ x # "generate"
              /\ Remains(r, "return")' <=> Remains(r, "return") /\ x # "return"
              /\ x = "return" => ~Remains(r, "generate") /\ Remains(r, "return")
              /\ x = "generate" => Remains(r, "return")'
        BY <1>4, StatementsOf DEF Rank
      <4>2. /\ x = "generate" => uuid' = Promise!Uuid(r)
            /\ x = "return" => local'[r] = uuid
        BY <1>1 DEF At, Clear, Generate, ReturnUuid, Put, PutLost, SetView, Render, Data
      <4> QED BY <1>3, <2>1, <2>3, <3>1, <4>1, <4>2 DEF Presents
    <3> QED BY <1>3, <1>6, <3>2, <3>3, <3>4, <3>5 DEF Presents, Promise!Uuid, Promise!Value
  <2> QED BY <2>2, <2>3
<1> QED BY <1>5, <1>7, <1>8, <1>9 DEF Sound

\* The last statement of a handler, and the errors that end it.
LEMMA AnswerSound ==
  ASSUME Control, Data, NEW r \in Requests, Sound(r), Life(r)',
         Send(r) \/ SendHalts(r) \/ Merge(r) \/ Fail(r) \/ CallFails(r)
  PROVE  Sound(r)'
<1>1. /\ todo'[r] = <<>> /\ UNCHANGED <<route, stored, disturbed>>
      /\ \A a : Respond(r, a) => answer'[r] = a
  BY DEF Send, SendHalts, Merge, Fail, CallFails, Respond, Control, private, shared
<1>2. ~Active(r)' /\ \A x : ~Remains(r, x)'
  BY <1>1 DEF Active, Remains
<1>3. Private(r)' /\ Presents(r)' /\ Fills(r)'
  <2>1. Holds(r)' = {}
    BY <1>2 DEF Holds
  <2> QED BY <1>2, <2>1 DEF Private, Presents, Fills
<1>4. ASSUME NEW x \in DOMAIN Rank, At(r, x)
      PROVE  /\ x \in Statements(route[r]) /\ route[r] \in Routes /\ Active(r)
             /\ \A y \in DOMAIN Rank :
                  Remains(r, y) <=> y \in Statements(route[r]) /\ Rank[y] >= Rank[x]
  BY <1>4, Before DEF At
<1>5. ASSUME r \notin disturbed, NEW a, a \in Promise!Own(r) \cup Promise!MayFail(r),
             answer'[r] = a
      PROVE  AnswersOwn(r)'
  BY <1>1, <1>5 DEF AnswersOwn, Promise!Own, Promise!MayFail, Promise!Uploaded
<1>6. CASE Send(r)
  <2>1. At(r, "send") /\ answer'[r] = Promise!Page("out.xml", local[r])
    BY <1>1, <1>6 DEF Send
  <2>2. route[r] = "transform" /\ Active(r)
        /\ ~Remains(r, "readAll") /\ ~Remains(r, "open") /\ ~Remains(r, "write")
    BY <1>4, <2>1, StatementsOf DEF Rank, Routes, Promise!Routes
  <2>3. stored[r] = Size[r]
    BY <2>2, Documents DEF Sound, Private, Data, Promise!NoFile
  <2>4. r \notin disturbed => local[r] = Promise!Value("file", Promise!Document(r))
    BY <2>2 DEF Sound, Fills
  <2> QED BY <1>1, <1>3, <1>5, <2>1, <2>2, <2>3, <2>4 DEF Sound, Promise!Own, Promise!File
<1>7. CASE Merge(r)
  <2>1. At(r, "merge") /\ answer'[r] = Promise!Page(looked[r], Shown(looked[r]))
    BY <1>1, <1>7 DEF Merge
  <2>2. /\ route[r] \in {"home", "page", "uuid", "hash", "soap"} /\ Active(r)
        /\ Remains(r, "merge")
        /\ \A y \in DOMAIN Rank \ {"merge"} : ~Remains(r, y)
    BY <1>4, <2>1, StatementsOf DEF Rank, Routes, Promise!Routes
  <2>3. "model" \in Holds(r)
    BY <2>2 DEF Holds, Rank
  <2>4. ASSUME r \notin disturbed
        PROVE  /\ looked[r] = TemplateOf(r)
               /\ route[r] # "home" => model[KeyOf(r)] = local[r]
               /\ route[r] = "uuid" => local[r] = Promise!Uuid(r)
               /\ route[r] = "hash" => local[r] = Promise!Hash(Promise!Uploaded(r))
                                      /\ stored[r] # Promise!NoFile
               /\ route[r] = "soap" =>
                    /\ local[r] \in {Promise!Lines(Promise!Document(r)), Promise!Nothing}
                    /\ stored[r] = Size[r]
    BY <2>2, <2>3, <2>4, Documents
       DEF Sound, Presents, Fills, Private, Rank, Data, Promise!NoFile
  <2>5. ASSUME r \notin disturbed
        PROVE  Promise!Page(looked[r], Shown(looked[r])) \in Promise!Own(r)
    BY <2>2, <2>4, <2>5 DEF Promise!Own, Shown, TemplateOf, KeyOf
  <2> QED BY <1>1, <1>3, <1>5, <2>1, <2>5 DEF Sound
<1>8. CASE SendHalts(r)
  <2>1. At(r, "send") /\ answer'[r] = Promise!Halted
    BY <1>1, <1>8 DEF SendHalts
  <2>2. route[r] = "transform"
    BY <1>4, <2>1, StatementsOf DEF Rank, Routes, Promise!Routes
  <2> QED BY <1>1, <1>3, <1>5, <2>1, <2>2 DEF Sound, Promise!MayFail
<1>9. CASE Fail(r) \/ CallFails(r)
  <2>1. PICK x \in {"upload", "logInfo", "load", "call", "open", "write", "readAll"} :
          At(r, x)
    BY <1>9 DEF Fail, CallFails
  <2>2. answer'[r] = Promise!Failed
    BY <1>1, <1>9 DEF Fail, CallFails
  <2>3. route[r] \in {"hash", "transform", "soap"}
    BY <1>4, <2>1, StatementsOf DEF Rank, Routes, Promise!Routes
  <2> QED BY <1>1, <1>3, <1>5, <2>2, <2>3 DEF Sound, Promise!MayFail
<1> QED BY <1>6, <1>7, <1>8, <1>9

-----------------------------------------------------------------------------
\* No request has begun, and each is sound.
LEMMA InitInv == Init => IInv
<1> SUFFICES ASSUME Init PROVE IInv
  OBVIOUS
<1>1. TypeOK /\ Total
  BY InitTypes
<1>2. ASSUME NEW r \in Requests PROVE Sound(r)
  <2>1. todo[r] = <<>> /\ answer[r] = Promise!NoAnswer
    BY DEF Init
  <2>2. ~Active(r) /\ ~Answered(r) /\ \A x : ~Remains(r, x)
    BY <2>1 DEF Active, Answered, Remains
  <2>3. Holds(r) = {}
    BY <2>2 DEF Holds
  <2> QED BY <2>2, <2>3 DEF Sound, Life, Private, Presents, Fills, AnswersOwn
<1> QED BY <1>1, <1>2 DEF IInv

\* A step of r keeps r sound by the lemma of its statement, the others because
\* it spares them.
LEMMA StepInv == IInv /\ [Next]_vars => IInv'
<1> SUFFICES ASSUME IInv, [Next]_vars PROVE IInv'
  OBVIOUS
<1>1. Control /\ Data /\ (TypeOK /\ Total)'
  BY Split, StepTypes DEF IInv
<1>2. ASSUME NEW r \in Requests, Steps(r), NEW q \in Requests
      PROVE  Sound(q)'
  <2>1. CASE q # r
    BY <1>1, <1>2, <2>1, Others, SparedSound DEF IInv
  <2>2. CASE q = r
    <3>1. Sound(r) /\ Life(r)'
      BY <1>1, <1>2, Lives DEF IInv, Sound
    <3>2. CASE Accept(r) \/ Upload(r) \/ LogInfo(r) \/ Load(r) \/ Call(r)
      BY <1>1, <2>2, <3>1, <3>2, PreparingSound
    <3>3. CASE Open(r) \/ Write(r) \/ ReadAll(r) \/ ReadLines(r)
      BY <1>1, <2>2, <3>1, <3>3, FileSound
    <3>4. CASE Clear(r) \/ Generate(r) \/ ReturnUuid(r) \/ Put(r) \/ PutLost(r)
                 \/ SetView(r) \/ Render(r)
      BY <1>1, <2>2, <3>1, <3>4, ModelSound
    <3>5. CASE Send(r) \/ SendHalts(r) \/ Merge(r) \/ Fail(r) \/ CallFails(r)
      BY <1>1, <2>2, <3>1, <3>5, AnswerSound
    <3> QED BY <1>2, <3>2, <3>3, <3>4, <3>5 DEF Steps, Work, Remote
  <2> QED BY <2>1, <2>2
<1>3. CASE UNCHANGED vars
  <2>1. ASSUME NEW q \in Requests PROVE Sound(q)'
    <3>1. Spares(q)
      BY <1>3 DEF vars, private, shared, Spares
    <3> QED BY <3>1, SparedSound DEF IInv
  <2> QED BY <1>1, <2>1 DEF IInv
<1> QED BY <1>1, <1>2, <1>3 DEF Next, Idle, Steps, IInv

\* A request whose map, view, generator or output file no other one wrote while
\* it depended on them gets its own answer.
THEOREM UndisturbedCorrect == Spec => []UndisturbedAnswersOwn
<1>1. IInv => UndisturbedAnswersOwn
  BY DEF IInv, Sound, AnswersOwn, UndisturbedAnswersOwn
<1> QED BY InitInv, StepInv, <1>1, PTL DEF Spec
=============================================================================
