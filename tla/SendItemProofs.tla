--------------------------- MODULE SendItemProofs ---------------------------
(***************************************************************************)
(* Proofs about SendItem, for every set of calls: a timer that expires     *)
(* belongs to a request the page has not heard of.                         *)
(***************************************************************************)
EXTENDS SendItem, TLAPS

\* What the page knows of a call, it knows of one that was made.
HistoryOfCalls ==
  /\ heard \cup reported \subseteq called
  /\ \A c \in Clicks : readyState[c] # Unsent => c \in called

\* abort() leaves the request unsent, and no event moves it from there.
ReportedUnsent == \A c \in reported : readyState[c] = Unsent

IInv ==
  /\ TypeOK
  /\ TimersOutstanding
  /\ HeardNotReported
  /\ HistoryOfCalls
  /\ ReportedUnsent

\* What clearing one timer, or none, does to the timers.
LEMMA HandlerTimers ==
  ASSUME NEW timers \in [Clicks -> Nat], NEW c \in Clicks, NEW state
  PROVE  /\ onreadystatechange(timers, c, state) \in [Clicks -> Nat]
         /\ \A d \in Clicks : onreadystatechange(timers, c, state)[d] # 0 => timers[d] # 0
         /\ state # Done => onreadystatechange(timers, c, state)[c] = 0
BY DEF onreadystatechange

\* Before the first click nothing is armed, heard of or reported.
LEMMA InitInv == Init => IInv
BY DEF Init, IInv, TypeOK, TimersOutstanding, HeardNotReported, HistoryOfCalls,
       ReportedUnsent, Armed, Unsent

\* A click arms the timer of a call that was neither heard of nor reported.
LEMMA SendInv ==
  ASSUME IInv, NEW c \in Clicks, sendItem(c)
  PROVE  IInv'
<1> USE DEF Unsent, Opened
<1>1. CASE ~CanSend
  BY <1>1 DEF IInv, TypeOK, TimersOutstanding, HeardNotReported, HistoryOfCalls,
              ReportedUnsent, Armed, Sent, CanSend, getXmlHttp, sendItem
<1>2. CASE CanSend
  <2>1. PICK timers \in {xhrTimeout, onreadystatechange(xhrTimeout, c, Opened)} :
          xhrTimeout' = [timers EXCEPT ![c] = timersSet + 1]
    BY <1>2 DEF sendItem
  <2>2. /\ timers \in [Clicks -> Nat]
        /\ \A d \in Clicks : timers[d] # 0 => xhrTimeout[d] # 0
    BY <2>1, HandlerTimers DEF IInv, TypeOK
  <2>3. /\ page' = page /\ heard' = heard /\ reported' = reported /\ dialog' = dialog
        /\ called' = called \cup {c} /\ c \notin called
        /\ timersSet' = timersSet + 1
        /\ readyState' = [readyState EXCEPT ![c] = Opened]
    BY <1>2 DEF sendItem
  <2>4. CanSend'
    BY <1>2, <2>3 DEF CanSend, getXmlHttp
  <2>5. TypeOK'
    BY <2>1, <2>2, <2>3 DEF IInv, TypeOK
  <2>6. TimersOutstanding'
    BY <1>2, <2>1, <2>2, <2>3, <2>4
       DEF IInv, TypeOK, TimersOutstanding, HistoryOfCalls, Armed, Sent
  <2>7. (HeardNotReported /\ HistoryOfCalls /\ ReportedUnsent)'
    BY <2>3 DEF IInv, TypeOK, HeardNotReported, HistoryOfCalls, ReportedUnsent
  <2> QED BY <2>5, <2>6, <2>7 DEF IInv
<1> QED BY <1>1, <1>2

\* An event only reaches a request that was not given up, and the first one
\* that is not its end clears its timer.
LEMMA ChangeInv ==
  ASSUME IInv, NEW c \in Clicks, NEW from \in SUBSET {1, 2, 3}, NEW to \in {2, 3, 4},
         Change(c, from, to)
  PROVE  IInv'
<1> USE DEF Unsent, HeadersReceived, Loading
<1>1. /\ page' = page /\ called' = called /\ timersSet' = timersSet
      /\ reported' = reported /\ dialog' = dialog
      /\ readyState[c] \in from
      /\ readyState' = [readyState EXCEPT ![c] = to]
      /\ xhrTimeout' = onreadystatechange(xhrTimeout, c, to)
      /\ heard' = IF to \in {2, 3} THEN heard \cup {c} ELSE heard
  BY DEF Change
<1>2. c \notin reported /\ c \in called
  BY <1>1 DEF IInv, TypeOK, ReportedUnsent, HistoryOfCalls
<1>3. /\ xhrTimeout' \in [Clicks -> Nat]
      /\ \A d \in Clicks : xhrTimeout'[d] # 0 => xhrTimeout[d] # 0
      /\ to \in {2, 3} => xhrTimeout'[c] = 0
  BY <1>1, HandlerTimers DEF IInv, TypeOK, Done
<1>4. TypeOK'
  <2>1. readyState' \in [Clicks -> 0..4]
    BY <1>1 DEF IInv, TypeOK
  <2> QED BY <1>1, <1>3, <2>1 DEF IInv, TypeOK
<1>5. \A d : Sent(d)' <=> Sent(d)
  BY <1>1 DEF Sent, CanSend, getXmlHttp
<1>6. TimersOutstanding'
  BY <1>1, <1>3, <1>5 DEF IInv, TimersOutstanding, Armed
<1>7. (HeardNotReported /\ HistoryOfCalls /\ ReportedUnsent)'
  BY <1>1, <1>2 DEF IInv, TypeOK, HeardNotReported, HistoryOfCalls, ReportedUnsent
<1> QED BY <1>4, <1>6, <1>7 DEF IInv

\* A timer that expires was armed, so that its call has not been heard of.
LEMMA TimeoutInv ==
  ASSUME IInv, NEW c \in Clicks, Timeout(c)
  PROVE  IInv'
<1> USE DEF Unsent
<1>1. /\ page' = page /\ called' = called /\ timersSet' = timersSet /\ heard' = heard
      /\ xhrTimeout' = [xhrTimeout EXCEPT ![c] = 0]
      /\ readyState' = [readyState EXCEPT ![c] = 0]
      /\ reported' = reported \cup {c} /\ dialog' = c
      /\ xhrTimeout[c] # 0
  BY DEF Timeout, Expire, Due, Armed
<1>2. c \in called /\ c \notin heard
  BY <1>1 DEF IInv, TimersOutstanding, Armed, Sent
<1>3. TypeOK'
  BY <1>1 DEF IInv, TypeOK
<1>4. \A d : Sent(d)' <=> Sent(d)
  BY <1>1 DEF Sent, CanSend, getXmlHttp
<1>5. TimersOutstanding'
  BY <1>1, <1>4 DEF IInv, TypeOK, TimersOutstanding, Armed
<1>6. (HeardNotReported /\ HistoryOfCalls /\ ReportedUnsent)'
  BY <1>1, <1>2 DEF IInv, TypeOK, HeardNotReported, HistoryOfCalls, ReportedUnsent
<1> QED BY <1>3, <1>5, <1>6 DEF IInv

\* No step leads out of the invariant.
LEMMA StepInv == IInv /\ [Next]_vars => IInv'
<1> SUFFICES ASSUME IInv, [Next]_vars PROVE IInv'
  OBVIOUS
<1>1. ASSUME NEW c \in Clicks, sendItem(c) PROVE IInv'
  BY <1>1, SendInv
<1>2. ASSUME NEW c \in Clicks, Headers(c) PROVE IInv'
  <2>1. Change(c, {1}, 2)
    BY <1>2 DEF Headers, Opened, HeadersReceived
  <2> QED BY <2>1, ChangeInv
<1>3. ASSUME NEW c \in Clicks, Data(c) PROVE IInv'
  <2>1. Change(c, {2, 3}, 3)
    BY <1>3 DEF Data, HeadersReceived, Loading
  <2> QED BY <2>1, ChangeInv
<1>4. ASSUME NEW c \in Clicks, Complete(c) PROVE IInv'
  <2>1. Change(c, {2, 3}, 4)
    BY <1>4 DEF Complete, HeadersReceived, Loading, Done
  <2> QED BY <2>1, ChangeInv
<1>5. ASSUME NEW c \in Clicks, NetworkError(c) PROVE IInv'
  <2>1. Change(c, {1, 2, 3}, 4)
    BY <1>5 DEF NetworkError, Opened, HeadersReceived, Loading, Done
  <2> QED BY <2>1, ChangeInv
<1>6. ASSUME NEW c \in Clicks, Timeout(c) PROVE IInv'
  BY <1>6, TimeoutInv
<1>7. CASE Dismiss
  BY <1>7 DEF Dismiss, IInv, TypeOK, TimersOutstanding, HeardNotReported, HistoryOfCalls,
              ReportedUnsent, Armed, Sent, CanSend, getXmlHttp
<1>8. CASE UNCHANGED vars
  BY <1>8 DEF vars, IInv, TypeOK, TimersOutstanding, HeardNotReported, HistoryOfCalls,
              ReportedUnsent, Armed, Sent, CanSend, getXmlHttp
<1> QED BY <1>1, <1>2, <1>3, <1>4, <1>5, <1>6, <1>7, <1>8 DEF Next, Quiet

\* sendItem() keeps its variables in their types for every set of calls.
THEOREM TypeCorrect == Spec => []TypeOK
<1>1. IInv => TypeOK
  BY DEF IInv
<1> QED BY InitInv, StepInv, <1>1, PTL DEF Spec

\* Whatever calls overlap, a timer is only armed for a request that was sent
\* and of which the page has not heard.
THEOREM TimersAlwaysOutstanding == Spec => []TimersOutstanding
<1>1. IInv => TimersOutstanding
  BY DEF IInv
<1> QED BY InitInv, StepInv, <1>1, PTL DEF Spec

\* A call whose headers the page has heard is never reported as timed out,
\* and a reported one is never heard of.
THEOREM HeardNeverReported == Spec => []HeardNotReported
<1>1. IInv => HeardNotReported
  BY DEF IInv
<1> QED BY InitInv, StepInv, <1>1, PTL DEF Spec
=============================================================================
