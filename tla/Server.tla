------------------------------- MODULE Server -------------------------------
(***************************************************************************)
(* The request handlers of Server.java, with the classes they call, as     *)
(* Spark runs them: each on a thread of its own, at most Threads at a      *)
(* time, over static state that nothing locks.  A handler is the sequence  *)
(* of its statements that touch shared state or can fail; every statement  *)
(* is a step of the request that runs it.                                  *)
(***************************************************************************)
EXTENDS Integers, Sequences, FiniteSets

CONSTANTS
  Requests,  \* HTTP requests made to the server
  Size,      \* Size[r]: chunks in the document r uploads, and in its results
  Threads,   \* threads the embedded Jetty gives to handlers
  Leftovers, \* what an earlier run may have left in out.xml and resp.xml
  Nobody     \* whose bytes a file holds that no request of this run wrote

ASSUME ThreadsAssumption == Threads \in Nat \ {0}
ASSUME NobodyAssumption == Nobody \notin Requests
ASSUME SizesAssumption == Size \in [Requests -> Nat \ {0}]
ASSUME LeftoversAssumption == Leftovers \subseteq Seq([of : {Nobody}, part : Nat])

VARIABLES
  route,     \* route[r]: the route r is for
  todo,      \* todo[r]: statements of the handler still to run
  started,   \* requests that have been given a thread
  answer,    \* answer[r]: what the client received
  stored,    \* stored[r]: chunks in the temporary file of upload()
  local,     \* local[r]: the handler's local variable (arr, lines, the uuid)
  looked,    \* looked[r]: the template of the view that render() was passed
  pos,       \* pos[r]: where r's FileOutputStream writes next
  model,     \* static modelDependency
  view,      \* static view, by the name of its template
  uuid,      \* the field timeBasedUUID.uuid of the shared generator
  file,      \* the files "out.xml" and "resp.xml" in the working directory
  disturbed  \* history: requests that others wrote to shared state under

shared  == <<model, view, uuid, file>>
private == <<stored, local, looked, pos>>
vars    == <<route, todo, started, answer, private, shared, disturbed>>

Active(r) == todo[r] # <<>>
Remains(r, stmt) == \E i \in DOMAIN todo[r] : todo[r][i] = stmt
At(r, stmt) == Active(r) /\ Head(todo[r]) = stmt

Promise == INSTANCE Service WITH calling <- \E r \in Requests : At(r, "call")

Routes == Promise!Routes
Hole   == [of |-> Nobody, part |-> 0]

\* Seeded fault: the hash is put before the map is cleared.
ClearsTooLate ==
  [home      |-> <<"clear", "view", "render", "merge">>,
   page      |-> <<"clear", "put", "view", "render", "merge">>,
   uuid      |-> <<"clear", "generate", "return", "put", "view", "render", "merge">>,
   hash      |-> <<"upload", "logInfo", "load", "put", "clear", "view", "render", "merge">>,
   transform |-> <<"upload", "logInfo", "open", "write", "readAll", "send">>,
   soap      |-> <<"upload", "logInfo", "call", "open", "write", "clear", "readLines",
                   "put", "view", "render", "merge">>]

\* The statements of the lambda of each route.
Handler ==
  [home      |-> <<"clear", "view", "render", "merge">>,
   page      |-> <<"clear", "put", "view", "render", "merge">>,
   uuid      |-> <<"clear", "generate", "return", "put", "view", "render", "merge">>,
   hash      |-> <<"upload", "logInfo", "load", "clear", "put", "view", "render", "merge">>,
   transform |-> <<"upload", "logInfo", "open", "write", "readAll", "send">>,
   soap      |-> <<"upload", "logInfo", "call", "open", "write", "clear", "readLines",
                   "put", "view", "render", "merge">>]

FileOf(r) == IF route[r] = "soap" THEN "resp.xml" ELSE "out.xml"

KeyOf(r) == CASE route[r] = "uuid" -> "UUID"
              [] route[r] = "page" -> "message"
              [] OTHER             -> "response"

TemplateOf(r) == CASE route[r] = "home" -> "index"
                   [] route[r] = "page" -> "soap"
                   [] route[r] = "uuid" -> "uuid"
                   [] OTHER             -> "response"

\* What a template shows of the model; $name is left as it is without a value.
Shown(template) == CASE template = "uuid"     -> model["UUID"]
                     [] template = "response" -> model["response"]
                     [] OTHER                 -> Promise!Nothing

-----------------------------------------------------------------------------
(* The steps of a handler, and the history variable.                       *)

\* The shared objects r depends on: it has begun to write them and has not
\* yet read back what it wrote.
Holds(r) ==
  (IF Remains(r, "merge") /\ ~Remains(r, "clear") THEN {"model"} ELSE {})
  \cup (IF \/ route[r] = "transform" /\ Remains(r, "readAll") /\ ~Remains(r, "open")
           \/ route[r] = "soap" /\ Remains(r, "readLines") /\ ~Remains(r, "open")
        THEN {FileOf(r)} ELSE {})

Writes(r) == CASE Head(todo[r]) \in {"clear", "generate", "put", "view"} -> {"model"}
               [] Head(todo[r]) \in {"open", "write"}                  -> {FileOf(r)}
               [] OTHER                                                -> {}

Disturbs(r) == {q \in Requests \ {r} : Writes(r) \cap Holds(q) # {}}

Continue(r, rest) ==
  /\ todo' = [todo EXCEPT ![r] = rest]
  /\ disturbed' = disturbed \cup Disturbs(r)
  /\ UNCHANGED <<route, started, answer>>

Advance(r) == Continue(r, Tail(todo[r]))

Respond(r, a) ==
  /\ answer' = [answer EXCEPT ![r] = a]
  /\ todo' = [todo EXCEPT ![r] = <<>>]
  /\ UNCHANGED <<route, started, disturbed>>

-----------------------------------------------------------------------------
Init ==
  /\ route \in [Requests -> Routes]
  /\ todo = [r \in Requests |-> <<>>]
  /\ started = {}
  /\ answer = [r \in Requests |-> Promise!NoAnswer]
  /\ stored = [r \in Requests |-> Promise!NoFile]
  /\ local = [r \in Requests |-> Promise!Nothing]
  /\ looked = [r \in Requests |-> "none"]
  /\ pos = [r \in Requests |-> 0]
  /\ model = [k \in {"UUID", "message", "response"} |-> Promise!Nothing]
  /\ view = "none"
  /\ uuid = Promise!Nothing
  /\ file \in [{"out.xml", "resp.xml"} -> Leftovers]
  /\ disturbed = {}

\* Jetty takes a queued request when a thread is free.  The example message
\* of the three upload pages is a local variable of their handlers.
Accept(r) ==
  /\ r \notin started
  /\ Cardinality({q \in Requests : Active(q)}) < Threads
  /\ started' = started \cup {r}
  /\ todo' = [todo EXCEPT ![r] = Handler[route[r]]]
  /\ local' = [local EXCEPT ![r] = IF route[r] = "page"
                                   THEN Promise!Value("message", <<>>) ELSE @]
  /\ UNCHANGED <<route, answer, stored, looked, pos, shared, disturbed>>

\* Files.copy is inside the try: when it fails part way, its IOException is
\* printed and the handler goes on with whatever the copy left behind.
Upload(r) ==
  /\ At(r, "upload")
  /\ \E n \in Promise!NoFile..Size[r] : stored' = [stored EXCEPT ![r] = n]
  /\ Advance(r)
  /\ UNCHANGED <<local, looked, pos, shared>>

LogInfo(r) == At(r, "logInfo") /\ Advance(r) /\ UNCHANGED <<private, shared>>

\* Files.readAllBytes of the temporary file; hasher has no state.
Load(r) ==
  /\ At(r, "load")
  /\ stored[r] # Promise!NoFile
  /\ local' = [local EXCEPT ![r] = Promise!Hash(Promise!Uploaded(r))]
  /\ Advance(r)
  /\ UNCHANGED <<stored, looked, pos, shared>>

\* SAAJ.send up to the reply: a torn upload is not a message.
Call(r) ==
  /\ At(r, "call")
  /\ stored[r] = Size[r]
  /\ Advance(r)
  /\ UNCHANGED <<private, shared>>

\* Seeded fault: the file is opened without being truncated.
OpenKeeping(r) ==
  /\ At(r, "open")
  /\ stored[r] # Promise!NoFile
  /\ pos' = [pos EXCEPT ![r] = 0]
  /\ Advance(r)
  /\ UNCHANGED <<stored, local, looked, shared>>

\* new FileOutputStream(name) truncates the file.
Open(r) ==
  /\ At(r, "open")
  /\ stored[r] # Promise!NoFile
  /\ file' = [file EXCEPT ![FileOf(r)] = <<>>]
  /\ pos' = [pos EXCEPT ![r] = 0]
  /\ Advance(r)
  /\ UNCHANGED <<stored, local, looked, model, view, uuid>>

\* The file with chunk written at offset i, which may be past its end.
Overwritten(f, i, chunk) ==
  [k \in 1..(IF Len(f) > i THEN Len(f) ELSE i + 1) |->
     IF k = i + 1 THEN chunk ELSE IF k <= Len(f) THEN f[k] ELSE Hole]

\* Seeded fault: the offset is advanced twice for one buffer.
WriteSkipping(r) ==
  /\ At(r, "write")
  /\ IF pos[r] < Size[r]
     THEN /\ pos[r] < stored[r]
          /\ file' = [file EXCEPT ![FileOf(r)] =
                        Overwritten(@, pos[r], Promise!Document(r)[pos[r] + 1])]
          /\ pos' = [pos EXCEPT ![r] = @ + 2]
          /\ Continue(r, todo[r])
     ELSE Advance(r) /\ UNCHANGED <<file, pos>>
  /\ UNCHANGED <<stored, local, looked, model, view, uuid>>

\* One buffer of trans.process or of Transformer.transform goes out.  The
\* stream that reads a torn upload breaks off before its end tag.
Write(r) ==
  /\ At(r, "write")
  /\ IF pos[r] < Size[r]
     THEN /\ pos[r] < stored[r]
          /\ file' = [file EXCEPT ![FileOf(r)] =
                        Overwritten(@, pos[r], Promise!Document(r)[pos[r] + 1])]
          /\ pos' = [pos EXCEPT ![r] = @ + 1]
          /\ Continue(r, todo[r])
     ELSE Advance(r) /\ UNCHANGED <<file, pos>>
  /\ UNCHANGED <<stored, local, looked, model, view, uuid>>

ReadAll(r) ==
  /\ At(r, "readAll")
  /\ local' = [local EXCEPT ![r] = Promise!Value("file", file["out.xml"])]
  /\ Advance(r)
  /\ UNCHANGED <<stored, looked, pos, shared>>

\* The IOException of readAllLines is printed and lines stays null.
ReadLines(r) ==
  /\ At(r, "readLines")
  /\ local' \in {[local EXCEPT ![r] = Promise!Lines(file["resp.xml"])],
                 [local EXCEPT ![r] = Promise!Nothing]}
  /\ Advance(r)
  /\ UNCHANGED <<stored, looked, pos, shared>>

Send(r) ==
  /\ At(r, "send")
  /\ Respond(r, Promise!Page("out.xml", local[r]))
  /\ UNCHANGED <<private, shared>>

\* The IOException of the download is caught by the handler: halt() answers
\* 200 with an empty body.
SendHalts(r) ==
  /\ At(r, "send")
  /\ Respond(r, Promise!Halted)
  /\ UNCHANGED <<private, shared>>

\* Seeded fault: saa.send holds the lock that guards the model.
ClearUnderLock(r) ==
  /\ At(r, "clear")
  /\ \A q \in Requests : ~At(q, "call")
  /\ model' = [k \in DOMAIN model |-> Promise!Nothing]
  /\ Advance(r)
  /\ UNCHANGED <<private, view, uuid, file>>

Clear(r) ==
  /\ At(r, "clear")
  /\ model' = [k \in DOMAIN model |-> Promise!Nothing]
  /\ Advance(r)
  /\ UNCHANGED <<private, view, uuid, file>>

\* timeBasedUUID.generate() assigns its field and then returns the field.
Generate(r) ==
  /\ At(r, "generate")
  /\ uuid' = Promise!Uuid(r)
  /\ Advance(r)
  /\ UNCHANGED <<private, model, view, file>>

ReturnUuid(r) ==
  /\ At(r, "return")
  /\ local' = [local EXCEPT ![r] = uuid]
  /\ Advance(r)
  /\ UNCHANGED <<stored, looked, pos, shared>>

Put(r) ==
  /\ At(r, "put")
  /\ model' = [model EXCEPT ![KeyOf(r)] = local[r]]
  /\ Advance(r)
  /\ UNCHANGED <<private, view, uuid, file>>

\* HashMap is not synchronized: a put may be lost while another thread is in
\* an operation of the map (both resize the table, or the entry is unlinked).
PutLost(r) ==
  /\ At(r, "put")
  /\ \E q \in Requests \ {r} : At(q, "put") \/ At(q, "clear")
  /\ todo' = [todo EXCEPT ![r] = Tail(@)]
  /\ disturbed' = disturbed \cup {r}
  /\ UNCHANGED <<route, started, answer, private, shared>>

SetView(r) ==
  /\ At(r, "view")
  /\ view' = TemplateOf(r)
  /\ Advance(r)
  /\ UNCHANGED <<private, model, uuid, file>>

\* template.render(view): the static field is read for the argument ...
Render(r) ==
  /\ At(r, "render")
  /\ looked' = [looked EXCEPT ![r] = view]
  /\ Advance(r)
  /\ UNCHANGED <<stored, local, pos, shared>>

\* ... and its model, the shared map itself, when the template is merged.
Merge(r) ==
  /\ At(r, "merge")
  /\ Respond(r, Promise!Page(looked[r], Shown(looked[r])))
  /\ UNCHANGED <<private, shared>>

\* An exception leaves the handler: Spark answers 500 and the state stays as
\* it is.  Of the socket (upload, logInfo), of the file (load, open, readAll)
\* or of the document and the transformer (write).
Fail(r) ==
  /\ \E stmt \in {"upload", "logInfo", "load", "open", "write", "readAll"} : At(r, stmt)
  /\ Respond(r, Promise!Failed)
  /\ UNCHANGED <<private, shared>>

\* The SOAPException of a connection that is refused or closed.
CallFails(r) ==
  /\ At(r, "call")
  /\ Respond(r, Promise!Failed)
  /\ UNCHANGED <<private, shared>>

Work(r) ==
  \/ Upload(r) \/ LogInfo(r) \/ Load(r) \/ Open(r) \/ Write(r)
  \/ ReadAll(r) \/ ReadLines(r) \/ Send(r) \/ SendHalts(r) \/ Clear(r)
  \/ Generate(r) \/ ReturnUuid(r) \/ Put(r) \/ PutLost(r) \/ SetView(r)
  \/ Render(r) \/ Merge(r) \/ Fail(r)

Remote(r) == Call(r) \/ CallFails(r)

Answered(r) == answer[r] # Promise!NoAnswer

Idle == (\A r \in Requests : Answered(r)) /\ UNCHANGED vars

Next == (\E r \in Requests : Accept(r) \/ Work(r) \/ Remote(r)) \/ Idle

\* The operating system runs every thread and Jetty's queue every request;
\* the call has no timeout, so nothing makes the remote system answer it.
Fairness == \A r \in Requests : WF_vars(Accept(r)) /\ WF_vars(Work(r))

Spec == Init /\ [][Next]_vars /\ Fairness

-----------------------------------------------------------------------------
Chunk  == [of : Requests \cup {Nobody}, part : Nat]
Values == [kind : {"nothing", "uuid", "hash", "lines", "file", "message"},
           parts : Seq(Chunk)]
Templates == {"none", "index", "soap", "uuid", "response"}

\* Every request is somewhere in the statements of its own handler, and no
\* output stream has written past the document it writes.
TypeOK ==
  /\ route \in [Requests -> Routes]
  /\ \A r \in Requests : \E s \in 1..(Len(Handler[route[r]]) + 1) :
       todo[r] = SubSeq(Handler[route[r]], s, Len(Handler[route[r]]))
  /\ started \subseteq Requests
  /\ answer \in [Requests -> [template : Templates \cup {"500", "halt", "out.xml"},
                              value : Values]]
  /\ \A r \in Requests : stored[r] \in Promise!NoFile..Size[r]
  /\ local \in [Requests -> Values]
  /\ looked \in [Requests -> Templates]
  /\ \A r \in Requests : pos[r] \in 0..Size[r]
  /\ model \in [{"UUID", "message", "response"} -> Values]
  /\ view \in Templates
  /\ uuid \in Values
  /\ file \in [{"out.xml", "resp.xml"} -> Seq(Chunk)]
  /\ disturbed \subseteq Requests

\* A request whose shared map, view, generator or output file no other one
\* wrote between its own first write and its last read gets its own answer,
\* whatever earlier requests, answered or failed, left in that state.
UndisturbedAnswersOwn ==
  \A r \in Requests \ disturbed :
    Answered(r) => answer[r] \in Promise!Own(r) \cup Promise!MayFail(r)

\* Requests wait for no lock: one that has a thread and does not call SMEV is
\* answered, even when every call to SMEV hangs forever.
HandlersDoNotBlock ==
  \A r \in Requests : (Active(r) /\ route[r] # "soap") ~> Answered(r)

\* One request at a time, the handlers implement what the page promises, and
\* only a call that SMEV leaves unanswered keeps the others waiting.
ImplementsService == Promise!Spec

\* index.html:39 "tranform - преобразовать xml" (transform the xml): the file
\* a user receives is the transformation of the file that user uploaded.
TransformAnswersOwn ==
  \A r \in Requests : (route[r] = "transform" /\ Answered(r)) =>
    answer[r] \in Promise!Own(r) \cup Promise!MayFail(r)

\* index.html:40 "hash вычислить base64 хеш ... любого файла" (compute the
\* hash of any file): no page shows a hash of the file of another user.
HashOfOwnFile ==
  \A r \in Requests : (route[r] = "hash" /\ answer[r].value.kind = "hash") =>
    \A i \in DOMAIN answer[r].value.parts : answer[r].value.parts[i].of = r

\* The same line: what is hashed is the file, not the part of it that was
\* stored before an error.
HashOfWholeFile ==
  \A r \in Requests : (route[r] = "hash" /\ Answered(r)) =>
    answer[r] \in {Promise!Page("response", Promise!Hash(Promise!Document(r))),
                   Promise!Failed}
=============================================================================
