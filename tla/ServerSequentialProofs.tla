----------------------- MODULE ServerSequentialProofs -----------------------
(***************************************************************************)
(* What Server would do with a single thread: proofs that it then takes    *)
(* only the steps of Service, and that the races the runs exhibit are gone.*)
(***************************************************************************)
EXTENDS ServerProofs, FiniteSetTheorems

\* At most one handler runs, so that nobody is disturbed.
Alone ==
  /\ \A q, r \in Requests : Active(q) /\ Active(r) => q = r
  /\ disturbed = {}

\* Only a handler of the soap route calls SMEV, when logInfo is done.
CallPlace ==
  \A r \in Requests : At(r, "call") => route[r] = "soap" /\ ~Remains(r, "logInfo")

\* The place of an outstanding call follows from the types and the ranks.
LEMMA PlaceOfCall == TypeOK /\ Total => CallPlace
<1> SUFFICES ASSUME TypeOK, Total, NEW r \in Requests, At(r, "call")
             PROVE  route[r] = "soap" /\ ~Remains(r, "logInfo")
  BY DEF CallPlace
<1>1. Control /\ Data
  BY Split
<1>2. {"call", "logInfo"} \subseteq DOMAIN Rank /\ Rank["logInfo"] = 2 /\ Rank["call"] = 4
  BY DEF Rank
<1>3. /\ route[r] \in Routes /\ "call" \in Statements(route[r])
      /\ Remains(r, "logInfo") => Rank["logInfo"] >= Rank["call"]
  BY <1>1, <1>2, Before
<1> QED BY <1>2, <1>3, StatementsOf DEF Routes, Promise!Routes

\* With one thread a request is only taken when no handler is at work.
LEMMA AcceptAlone ==
  ASSUME Threads = 1, Alone, NEW r \in Requests, Accept(r)
  PROVE  \A q \in Requests : ~Active(q)
<1> SUFFICES ASSUME NEW q \in Requests, Active(q) PROVE FALSE
  OBVIOUS
<1>1. {p \in Requests : Active(p)} = {q}
  BY DEF Alone
<1>2. Cardinality({q}) = 1
  BY FS_Singleton
<1>3. Cardinality({p \in Requests : Active(p)}) < 1
  BY DEF Accept
<1> QED BY <1>1, <1>2, <1>3

\* With one thread a step of a handler leaves nothing for others to disturb.
LEMMA StepAlone ==
  ASSUME Threads = 1, Control, Data, Alone, NEW r \in Requests, Steps(r)
  PROVE  Alone' /\ \A q \in Requests \ {r} : ~Active(q) /\ ~Active(q)'
<1>1. ASSUME NEW q \in Requests \ {r} PROVE ~Active(q)
  BY AcceptAlone, ActiveRuns DEF Alone
<1>2. ASSUME NEW q \in Requests \ {r} PROVE ~Active(q)'
  BY <1>1, Others DEF Spares, Active
<1>3. Disturbs(r) = {}
  <2>1. ASSUME NEW q \in Requests \ {r} PROVE Holds(q) = {}
    BY <1>1, <2>1 DEF Holds, Active, Remains
  <2> QED BY <2>1 DEF Disturbs
<1>4. disturbed' = {}
  <2>1. ~PutLost(r)
    BY <1>1 DEF PutLost, At
  <2>2. Accept(r) => disturbed' = disturbed
    BY DEF Accept
  <2>3. Steps(r) /\ ~Accept(r) /\ ~PutLost(r) =>
          disturbed' \in {disturbed, disturbed \cup Disturbs(r)}
    BY DEF Steps, Work, Remote, Upload, LogInfo, Load, Call, Open, Write, ReadAll,
           ReadLines, Send, SendHalts, Clear, Generate, ReturnUuid, Put, SetView, Render, Merge,
           Fail, CallFails, Advance, Continue, Respond
  <2> QED BY <1>3, <2>1, <2>2, <2>3 DEF Alone
<1> QED BY <1>1, <1>2, <1>4 DEF Alone

-----------------------------------------------------------------------------
\* A call to SMEV is outstanding, as Service sees it.
Calling == \E r \in Requests : At(r, "call")

\* A step that neither stores a file nor answers begins or ends a call, or
\* nothing that Service speaks of.
LEMMA QuietStep ==
  ASSUME IInv, IInv', CallPlace', UNCHANGED <<route, stored, answer>>
  PROVE  [Promise!Next]_(Promise!vars)
<1>1. CASE Calling' /\ ~Calling
  <2>1. PICK r \in Requests : At(r, "call")'
    BY <1>1 DEF Calling
  <2>2. route[r] = "soap"
    BY <2>1 DEF CallPlace
  <2>3. answer[r] = Promise!NoAnswer
    <3>1. Active(r)' /\ Life(r)'
      BY <2>1 DEF At, IInv, Sound
    <3> QED BY <3>1 DEF Life, Answered
  <2>4. Promise!BeginCall(r)
    BY <1>1, <2>2, <2>3 DEF Promise!BeginCall, Calling
  <2> QED BY <2>4 DEF Promise!Next
<1>2. CASE Calling /\ ~Calling'
  BY <1>2 DEF Promise!Next, Promise!EndCall, Calling
<1>3. CASE Calling' = Calling
  BY <1>3 DEF Promise!vars, Calling
<1> QED BY <1>1, <1>2, <1>3 DEF Calling

\* Storing the upload is a step of Service: no call begins or ends with it.
LEMMA UploadStores ==
  ASSUME Threads = 1, IInv, IInv', Alone, CallPlace', NEW r \in Requests, Upload(r)
  PROVE  Promise!Store(r)
<1>1. Control /\ Data /\ Steps(r)
  BY Split DEF IInv, Steps, Work
<1>2. /\ At(r, "upload") /\ Advance(r) /\ UNCHANGED <<route, answer>>
      /\ \E n \in Promise!NoFile..Size[r] : stored' = [stored EXCEPT ![r] = n]
  BY DEF Upload, Advance, Continue
<1>3. answer[r] = Promise!NoAnswer
  BY <1>2 DEF IInv, Sound, Life, Answered, At
<1>4. \A q \in Requests \ {r} : ~At(q, "call") /\ ~At(q, "call")'
  BY <1>1, StepAlone DEF At, Active
<1>5. ~At(r, "call") /\ ~At(r, "call")'
  <2>1. \A y \in DOMAIN Rank :
          Remains(r, y)' <=> y \in Statements(route[r]) /\ Rank[y] > Rank["upload"]
    BY <1>1, <1>2, After DEF Rank
  <2>2. route[r] \in Routes /\ "upload" \in Statements(route[r])
    BY <1>1, <1>2, Before DEF Rank
  <2>3. "logInfo" \in Statements(route[r])
    BY <2>2, StatementsOf DEF Routes, Promise!Routes
  <2>4. Remains(r, "logInfo")'
    BY <2>1, <2>3 DEF Rank
  <2>5. ~At(r, "call")
    BY <1>2 DEF At
  <2> QED BY <2>4, <2>5 DEF CallPlace
<1>6. ~Calling /\ ~Calling'
  BY <1>4, <1>5 DEF Calling
<1> QED BY <1>2, <1>3, <1>6 DEF Promise!Store, Calling

\* A handler that ends gives its own answer, and no call is outstanding then.
LEMMA RespondAnswers ==
  ASSUME Threads = 1, IInv, IInv', Alone, Alone', NEW r \in Requests, Steps(r),
         NEW a, Respond(r, a), UNCHANGED stored
  PROVE  Promise!Answer(r) \/ UNCHANGED <<route, stored, answer>>
<1>1. /\ Control /\ Data
      /\ answer' = [answer EXCEPT ![r] = a]
      /\ todo' = [todo EXCEPT ![r] = <<>>]
      /\ UNCHANGED route
  BY Split DEF IInv, Respond
<1>2. CASE a = answer[r]
  BY <1>1, <1>2 DEF Control
<1>3. CASE a # answer[r]
  <2>1. ~Accept(r)
    <3>1. Accept(r) => answer' = answer
      BY DEF Accept
    <3> QED BY <1>1, <1>3, <3>1 DEF Control
  <2>2. answer[r] = Promise!NoAnswer
    BY <2>1, ActiveRuns DEF IInv, Sound, Life, Answered
  <2>3. a \in Promise!Own(r) \cup Promise!MayFail(r)
    <3>1. answer'[r] = a
      BY <1>1 DEF Control
    <3>2. Answered(r)' /\ r \notin disturbed'
      BY <1>3, <2>2, <3>1 DEF Answered, Alone
    <3>3. AnswersOwn(r)'
      BY <3>2 DEF IInv, Sound
    <3> QED BY <1>1, <3>1, <3>2, <3>3
            DEF AnswersOwn, Promise!Own, Promise!MayFail, Promise!Uploaded
  <2>4. ~Calling'
    <3>1. \A q \in Requests \ {r} : ~At(q, "call")'
      BY <1>1, StepAlone DEF At, Active
    <3>2. ~At(r, "call")'
      BY <1>1 DEF At, Active, Control
    <3> QED BY <3>1, <3>2 DEF Calling
  <2> QED BY <1>1, <2>2, <2>3, <2>4 DEF Promise!Answer, Calling
<1> QED BY <1>2, <1>3

\* Every step of the server is a step of Service or a stutter.
LEMMA StepSimulates ==
  ASSUME Threads = 1, IInv, IInv', Alone, Alone', CallPlace', [Next]_vars
  PROVE  [Promise!Next]_(Promise!vars)
<1>1. ASSUME NEW r \in Requests, Upload(r)
      PROVE  [Promise!Next]_(Promise!vars)
  BY <1>1, UploadStores DEF Promise!Next
<1>2. ASSUME NEW r \in Requests, Send(r) \/ SendHalts(r) \/ Merge(r) \/ Fail(r) \/ CallFails(r)
      PROVE  [Promise!Next]_(Promise!vars)
  <2>1. Steps(r) /\ UNCHANGED stored
    BY <1>2 DEF Steps, Work, Remote, Send, SendHalts, Merge, Fail, CallFails, private
  <2>2. PICK a : Respond(r, a)
    BY <1>2 DEF Send, SendHalts, Merge, Fail, CallFails
  <2>3. Promise!Answer(r) \/ UNCHANGED <<route, stored, answer>>
    BY <2>1, <2>2, RespondAnswers
  <2> QED BY <2>3, QuietStep DEF Promise!Next
<1>3. ASSUME NEW r \in Requests,
             \/ Accept(r) \/ LogInfo(r) \/ Load(r) \/ Call(r) \/ Open(r) \/ Write(r)
             \/ ReadAll(r) \/ ReadLines(r)
      PROVE  [Promise!Next]_(Promise!vars)
  <2>1. UNCHANGED <<route, stored, answer>>
    BY <1>3 DEF Accept, LogInfo, Load, Call, Open, Write, ReadAll, ReadLines, Advance, Continue,
                private
  <2> QED BY <2>1, QuietStep
<1>4. ASSUME NEW r \in Requests,
             \/ Clear(r) \/ Generate(r) \/ ReturnUuid(r) \/ Put(r) \/ PutLost(r) \/ SetView(r)
             \/ Render(r)
      PROVE  [Promise!Next]_(Promise!vars)
  <2>1. UNCHANGED <<route, stored, answer>>
    BY <1>4 DEF Clear, Generate, ReturnUuid, Put, PutLost, SetView, Render, Advance, Continue,
                private
  <2> QED BY <2>1, QuietStep
<1>5. CASE UNCHANGED vars
  BY <1>5, QuietStep DEF vars, private
<1> QED BY <1>1, <1>2, <1>3, <1>4, <1>5 DEF Next, Idle, Work, Remote

\* Alone is kept by every step, given IInv.
LEMMA StepAloneInv ==
  ASSUME Threads = 1, IInv, Alone, [Next]_vars
  PROVE  Alone'
<1>1. Control /\ Data
  BY Split DEF IInv
<1>2. ASSUME NEW r \in Requests, Steps(r) PROVE Alone'
  BY <1>1, <1>2, StepAlone
<1>3. CASE UNCHANGED vars
  BY <1>3 DEF vars, Alone, Active
<1> QED BY <1>2, <1>3 DEF Next, Idle, Steps

\* Before the first request nothing is at work.
LEMMA InitAlone == Init => Alone
BY DEF Init, Alone, Active

-----------------------------------------------------------------------------
\* With one thread no request is ever disturbed.
THEOREM SequentialUndisturbed ==
  ASSUME Threads = 1
  PROVE  Spec => [](IInv /\ Alone)
<1>1. IInv /\ Alone /\ [Next]_vars => (IInv /\ Alone)'
  BY StepInv, StepAloneInv
<1> QED BY InitInv, InitAlone, <1>1, PTL DEF Spec

\* With one thread the handlers take only the steps that Service allows.
THEOREM SequentialService ==
  ASSUME Threads = 1
  PROVE  Spec => Promise!Init /\ [][Promise!Next]_(Promise!vars)
<1>1. Init => Promise!Init
  BY DEF Init, Promise!Init, At, Active, Promise!Routes, Routes
<1>2. IInv /\ Alone => CallPlace
  BY PlaceOfCall DEF IInv
<1>3. /\ IInv /\ Alone /\ CallPlace /\ (IInv /\ Alone /\ CallPlace)' /\ [Next]_vars
      => [Promise!Next]_(Promise!vars)
  BY StepSimulates
<1> QED BY <1>1, <1>2, <1>3, SequentialUndisturbed, PTL DEF Spec

\* With one thread the file a user receives is the transformation of the file
\* that user uploaded ...
THEOREM SequentialTransform ==
  ASSUME Threads = 1
  PROVE  Spec => []TransformAnswersOwn
<1>1. IInv /\ Alone => TransformAnswersOwn
  BY DEF IInv, Alone, Sound, AnswersOwn, TransformAnswersOwn, Promise!MayFail
<1> QED BY <1>1, SequentialUndisturbed, PTL

\* ... and no page shows a hash of the file of another user.
THEOREM SequentialHash ==
  ASSUME Threads = 1
  PROVE  Spec => []HashOfOwnFile
<1>1. IInv /\ Alone => HashOfOwnFile
  <2> SUFFICES ASSUME IInv, Alone, NEW r \in Requests, route[r] = "hash",
                      answer[r].value.kind = "hash"
               PROVE  \A i \in DOMAIN answer[r].value.parts : answer[r].value.parts[i].of = r
    BY DEF HashOfOwnFile
  <2>1. Answered(r)
    BY DEF Answered, Promise!NoAnswer, Promise!Nothing, Promise!Page, Promise!Value
  <2>2. answer[r] \in Promise!Own(r) \cup Promise!MayFail(r)
    BY <2>1 DEF IInv, Alone, Sound, AnswersOwn
  <2>3. answer[r] \notin {Promise!Failed, Promise!Halted}
    BY DEF Promise!Failed, Promise!Halted, Promise!Nothing, Promise!Page, Promise!Value
  <2>4. answer[r].value.parts = Promise!Uploaded(r) /\ stored[r] # Promise!NoFile
    BY <2>2, <2>3 DEF Promise!Own, Promise!MayFail, Promise!Page, Promise!Hash, Promise!Value
  <2>5. \A i \in DOMAIN Promise!Uploaded(r) : Promise!Uploaded(r)[i].of = r
    <3>1. Data
      BY Split DEF IInv
    <3>2. stored[r] \in 0..Size[r] /\ Size[r] \in Nat
      BY <2>4, <3>1, Documents DEF Data, Promise!NoFile
    <3>3. /\ \A k \in 1..Size[r] : Promise!Document(r)[k] \in Chunk
          /\ \A k \in 1..Size[r] : Promise!Document(r)[k].of = r
      BY Documents DEF Promise!Document
    <3>4. /\ Promise!Uploaded(r) \in Seq(Chunk) /\ Len(Promise!Uploaded(r)) = stored[r]
          /\ \A i \in 1..stored[r] : Promise!Uploaded(r)[i] = Promise!Document(r)[i]
      BY <3>2, <3>3, SubSeqProperties DEF Promise!Uploaded
    <3>5. DOMAIN Promise!Uploaded(r) = 1..stored[r]
      BY <3>4, LenProperties
    <3> QED BY <3>2, <3>3, <3>4, <3>5
  <2> QED BY <2>4, <2>5
<1> QED BY <1>1, SequentialUndisturbed, PTL
=============================================================================
