------------------------------ MODULE Service ------------------------------
(***************************************************************************)
(* What the web page of the service promises (templates/index.html:39-40): *)
(* every request is answered once, from the file its own user uploaded, or *)
(* is told that it failed; the plain pages never fail.  One request does   *)
(* not exist for another, except that all wait while a call to SMEV is     *)
(* outstanding: nothing bounds the time SMEV takes.                        *)
(***************************************************************************)
EXTENDS Integers, Sequences

CONSTANTS
  Requests,  \* HTTP requests
  Size       \* Size[r]: chunks in the document r uploads, and in its results

VARIABLES
  route,   \* route[r]: the route the request is for
  stored,  \* stored[r]: chunks of r's document in its temporary file, or NoFile
  answer,  \* answer[r]: what the client received, or NoAnswer
  calling  \* whether a call to SMEV is outstanding

vars == <<route, stored, answer, calling>>

Routes == {"home", "page", "uuid", "hash", "transform", "soap"}
NoFile == -1

\* A document is a sequence of chunks, each marked with whose it is.
Document(r) == [k \in 1..Size[r] |-> [of |-> r, part |-> k]]
Uploaded(r) == SubSeq(Document(r), 1, stored[r])

Value(kind, parts) == [kind |-> kind, parts |-> parts]
Nothing     == Value("nothing", <<>>)
Uuid(r)     == Value("uuid", <<[of |-> r, part |-> 0]>>)
Hash(doc)   == Value("hash", doc)
Lines(doc)  == Value("lines", doc)

Page(template, value) == [template |-> template, value |-> value]
File(doc)    == Page("out.xml", Value("file", doc))
NoAnswer     == Page("none", Nothing)
Failed       == Page("500", Nothing)
Halted       == Page("halt", Nothing)  \* a download that broke off

\* The answers that are r's own.  A reply that cannot be read back is shown
\* as an empty response.
Own(r) ==
  CASE route[r] = "home" -> {Page("index", Nothing)}
    [] route[r] = "page" -> {Page("soap", Nothing)}
    [] route[r] = "uuid" -> {Page("uuid", Uuid(r))}
    [] route[r] = "hash" ->
         IF stored[r] = NoFile THEN {} ELSE {Page("response", Hash(Uploaded(r)))}
    [] route[r] = "transform" ->
         IF stored[r] = Size[r] THEN {File(Document(r))} ELSE {}
    [] route[r] = "soap" ->
         IF stored[r] = Size[r]
         THEN {Page("response", Lines(Document(r))), Page("response", Nothing)}
         ELSE {}

MayFail(r) == (IF route[r] \in {"hash", "transform", "soap"} THEN {Failed} ELSE {})
              \cup (IF route[r] = "transform" THEN {Halted} ELSE {})

Init ==
  /\ route \in [Requests -> Routes]
  /\ stored = [r \in Requests |-> NoFile]
  /\ answer = [r \in Requests |-> NoAnswer]
  /\ calling = FALSE

Store(r) ==
  /\ answer[r] = NoAnswer
  /\ \E n \in NoFile..Size[r] : stored' = [stored EXCEPT ![r] = n]
  /\ UNCHANGED <<route, answer, calling>>

BeginCall(r) ==
  /\ route[r] = "soap" /\ answer[r] = NoAnswer
  /\ ~calling /\ calling' = TRUE
  /\ UNCHANGED <<route, stored, answer>>

EndCall ==
  /\ calling /\ calling' = FALSE
  /\ UNCHANGED <<route, stored, answer>>

\* A call that fails ends with the answer that says so.
Answer(r) ==
  /\ answer[r] = NoAnswer
  /\ \E a \in Own(r) \cup MayFail(r) : answer' = [answer EXCEPT ![r] = a]
  /\ calling' = FALSE
  /\ UNCHANGED <<route, stored>>

Next == EndCall \/ \E r \in Requests : Store(r) \/ BeginCall(r) \/ Answer(r)

Fairness == \A r \in Requests : WF_vars(~calling /\ Answer(r))

Spec == Init /\ [][Next]_vars /\ Fairness
=============================================================================
