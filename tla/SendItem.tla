------------------------------ MODULE SendItem ------------------------------
(***************************************************************************)
(* sendItem() of util.js: a click sends a request and arms a timer of ten  *)
(* seconds that aborts the request and reports "Timeout", unless the       *)
(* handler of onreadystatechange has cleared it.  Scripts of a page run on *)
(* one thread: each action is one task of the browser's event loop, and    *)
(* none runs while an alert is open.  Time is not modelled; timers, which  *)
(* all have the same delay, come due in the order they were set in.        *)
(***************************************************************************)
EXTENDS Integers

CONSTANTS
  Clicks,   \* calls of sendItem()
  NoClick   \* no alert is open

ASSUME NoClickAssumption == NoClick \notin Clicks

VARIABLES
  page,        \* what the page and the browser offer to sendItem()
  called,      \* the calls that were made
  readyState,  \* readyState[c]: of the xhr of call c
  xhrTimeout,  \* xhrTimeout[c]: when the timer of c comes due, 0 if it is off
  timersSet,   \* timers set so far
  heard,       \* history: calls whose response headers reached the handler
  reported,    \* calls reported to the user by handleError()
  dialog       \* the call whose alert is open

vars == <<page, called, readyState, xhrTimeout, timersSet, heard, reported,
          dialog>>

Unsent == 0
Opened == 1
HeadersReceived == 2
Loading == 3
Done == 4

Armed == {c \in Clicks : xhrTimeout[c] # 0}

\* The request object: ActiveXObject is tried first, XMLHttpRequest second.
getXmlHttp ==
  CASE "ActiveXObject" \in page.objects  -> "ActiveXObject"
    [] "XMLHttpRequest" \in page.objects -> "XMLHttpRequest"
    [] OTHER                             -> "false"

\* Without the input field line 12 throws, without a request object line 16.
CanSend == page.quantity /\ getXmlHttp # "false"

Sent(c) == c \in called /\ CanSend

Init ==
  /\ page \in [quantity : BOOLEAN, objects : SUBSET {"ActiveXObject", "XMLHttpRequest"}]
  /\ called = {}
  /\ readyState = [c \in Clicks |-> Unsent]
  /\ xhrTimeout = [c \in Clicks |-> 0]
  /\ timersSet = 0
  /\ heard = {} /\ reported = {}
  /\ dialog = NoClick

\* Seeded fault: without var, xhrTimeout is one variable of the page.
SharedTimeout(timers, c, state) ==
  IF state # Done
  THEN [d \in Clicks |-> IF timers[d] = timersSet THEN 0 ELSE timers[d]]
  ELSE timers

\* The timers after call c's handler has seen its request in a state.
onreadystatechange(timers, c, state) ==
  IF state # Done THEN [timers EXCEPT ![c] = 0] ELSE timers

\* Seeded fault: the timer is set before the request is sent.
ArmThenSend(c) ==
  /\ dialog = NoClick /\ c \notin called
  /\ called' = called \cup {c}
  /\ IF CanSend
     THEN /\ readyState' = [readyState EXCEPT ![c] = Opened]
          /\ timersSet' = timersSet + 1
          /\ LET armed == [xhrTimeout EXCEPT ![c] = timersSet + 1]
             IN  xhrTimeout' \in {armed, onreadystatechange(armed, c, Opened)}
     ELSE UNCHANGED <<readyState, timersSet, xhrTimeout>>
  /\ UNCHANGED <<page, heard, reported, dialog>>

\* Some browsers fire readystatechange inside send(), before the timer is set.
sendItem(c) ==
  /\ dialog = NoClick /\ c \notin called
  /\ called' = called \cup {c}
  /\ IF CanSend
     THEN /\ readyState' = [readyState EXCEPT ![c] = Opened]
          /\ timersSet' = timersSet + 1
          /\ \E timers \in {xhrTimeout, onreadystatechange(xhrTimeout, c, Opened)} :
               xhrTimeout' = [timers EXCEPT ![c] = timersSet + 1]
     ELSE UNCHANGED <<readyState, timersSet, xhrTimeout>>
  /\ UNCHANGED <<page, heard, reported, dialog>>

\* The browser moves a request to another state and calls the handler.
Change(c, from, to) ==
  /\ dialog = NoClick
  /\ readyState[c] \in from
  /\ readyState' = [readyState EXCEPT ![c] = to]
  /\ xhrTimeout' = onreadystatechange(xhrTimeout, c, to)
  /\ heard' = IF to \in {HeadersReceived, Loading} THEN heard \cup {c} ELSE heard
  /\ UNCHANGED <<page, called, timersSet, reported, dialog>>

Headers(c)      == Change(c, {Opened}, HeadersReceived)
Data(c)         == Change(c, {HeadersReceived, Loading}, Loading)
Complete(c)     == Change(c, {HeadersReceived, Loading}, Done)
NetworkError(c) == Change(c, {Opened, HeadersReceived, Loading}, Done)

Due(c) == c \in Armed /\ \A d \in Armed : xhrTimeout[c] <= xhrTimeout[d]

\* xhr.abort() leaves the object unsent; the event it fires on the way has
\* the state Done, for which the handler does nothing.
Expire(c, timers) ==
  /\ dialog = NoClick
  /\ Due(c)
  /\ xhrTimeout' = timers
  /\ readyState' = [readyState EXCEPT ![c] = Unsent]
  /\ reported' = reported \cup {c}
  /\ dialog' = c
  /\ UNCHANGED <<page, called, timersSet, heard>>

\* Seeded fault: setInterval in place of setTimeout.
ExpireAndRepeat(c) == Expire(c, xhrTimeout)

Timeout(c) == Expire(c, [xhrTimeout EXCEPT ![c] = 0])

\* The user closes the alert.
Dismiss ==
  /\ dialog # NoClick
  /\ dialog' = NoClick
  /\ UNCHANGED <<page, called, readyState, xhrTimeout, timersSet, heard, reported>>

\* Nothing is left to come: no call, no event, no timer, no alert.
Quiet ==
  /\ called = Clicks /\ Armed = {} /\ dialog = NoClick
  /\ \A c \in Clicks : readyState[c] \in {Unsent, Done}
  /\ UNCHANGED vars

Next ==
  \/ \E c \in Clicks : sendItem(c) \/ Headers(c) \/ Data(c) \/ Complete(c)
                         \/ NetworkError(c) \/ Timeout(c)
  \/ Dismiss
  \/ Quiet

\* The browser runs the timers that are due; no server has to answer and no
\* user to close an alert.
Spec == Init /\ [][Next]_vars /\ WF_vars(\E c \in Clicks : Timeout(c))

-----------------------------------------------------------------------------
\* Every variable of sendItem() stays in its type, for any number of clicks.
TypeOK ==
  /\ page \in [quantity : BOOLEAN, objects : SUBSET {"ActiveXObject", "XMLHttpRequest"}]
  /\ called \subseteq Clicks
  /\ readyState \in [Clicks -> 0..4]
  /\ xhrTimeout \in [Clicks -> Nat]
  /\ timersSet \in Nat
  /\ heard \subseteq Clicks /\ reported \subseteq Clicks
  /\ dialog \in Clicks \cup {NoClick}

\* A timer belongs to a request that was sent, has not been heard of and has
\* not been given up: what it aborts and reports is never settled already.
TimersOutstanding ==
  \A c \in Armed : Sent(c) /\ c \notin heard \cup reported

\* Once the response headers of a call have reached the page, that call is
\* never reported as timed out, whatever the other calls' answers and timers
\* do; and a reported call gets no answer any more.
HeardNotReported == heard \cap reported = {}

\* A user who closes the alerts learns of every request that is not answered,
\* lost ones and those that fail alike.
UnansweredReported ==
  []<>(dialog = NoClick) =>
    \A c \in Clicks : Sent(c) ~> c \in heard \cup reported
=============================================================================
