# Verification of demoSmev

demoSmev is a small web application (Spark on Jetty, port 7777) for people who
integrate with SMEV 3, the Russian interdepartmental message exchange. It
transforms XML to the canonical form that SMEV signatures are made over, sends
SOAP messages, hashes files and generates message identifiers. This directory
holds TLA+ models of its logic, the TLC runs that check them on small
instances, and TLAPS proofs of what can be shown for every instance.

All paths below are relative to the repository; `transFromSuckers.java`,
`SmevImportedTransForm.java`, `SAAJ.java` and `timeBasedUUID.java` are in
`src/main/java/util`, `Server.java` in `src/main/java`, `Crypto.java` and
`Demo.java` in `src/main/java/crypto`, `Executor.kt` and `InjectId.kt` in
`src/main/kotlin/DB` and `/util`, `ExecutorTest.kt` in `src/test/kotlin/DB`,
`util.js` in `src/main/resources/public/js`.

## 1. Inventory

| Component | State | Operations | Hard behaviour | What makes it correct |
|---|---|---|---|---|
| `transFromSuckers` (SMEV transformation) | stack of prefix mappings, prefix counter, reader, writer | `process`, `findPrefix`, attribute comparator | prefixes inherited, popped and looked up again over any nesting; order of attributes and declarations | the output means what the input meant; end tags match; one canonical order; the loop ends |
| `SmevImportedTransForm` (second copy) | the same, and a debug stream | the same with another comparator | the comparator is not an order; four closes in `finally`, each of which may throw; an exception masked in `finally` | as above; every stream has its close |
| `Server` (routes) | static map `modelDependency`, static `view`, files `out.xml`, `resp.xml`, temporary files | GET `/`, `/uuid`, `/soap`, `/transform`, `/hash`, `/soapg`; POST `/soap`, `/transform`, `/hash` | handlers of several requests interleave over unlocked state; exceptions leave state behind; a broken upload is swallowed | every user gets the result for the own file or an error; nobody blocks |
| `SAAJ` (SOAP client) | none between calls | `send` | a remote call without a time limit, a reply written in pieces | the reply read back is the reply received |
| `timeBasedUUID` | one field, one generator shared by all requests | `generate` | assign and return are two steps | a request gets the UUID it generated |
| Templates | - | merged with the live map | the map is read after the handler has finished with it | the page shows the handler's values |
| `InjectId` | - | `inject` (text, files), `getTagValue` | unbounded scan for `<`, works line by line | replaces the identifier and nothing else |
| `DB.Executor`, `buildArray`, `buildSql` | JDBC connection | `submit`, `getLenth`, `insert` | values of unknown type are skipped without counting | the i-th value is bound to the i-th parameter |
| Batch (`ExecutorTest.submit`) | the files of the directory `fetch`, the result set | for each waiting row: save, `inject`, `process` | any statement throws; old files of earlier runs; an exception masked by another | a transformed file is that of its row with a new identifier; no failed row is skipped; streams are closed |
| `Gost3411Hash` | - | hash, swap, base64 | leading zeros are lost in hexadecimal | the text denotes the digest |
| `Crypto`, `GOSTCrypto`, `Demo` | provider objects | issue certificate, sign, sign CAdES | the signature is taken twice | what is returned verifies |
| `TransXML` | - | string versions of single rules | only its tests use it | agrees with the rules |
| `util.js` (`sendItem`) | per call: request object, timer | click, `onreadystatechange`, timeout | the timer races the answer; several clicks; events inside `send()` | no answered request is reported as timed out; every unanswered one is |
| Styles, fonts, `build.gradle` | - | - | - | - |

How they interact. The browser posts a file; `Server.upload` stores it in a
temporary file. POST `/transform` streams it through `trans.process` into
`out.xml`, reads that file back and sends it. POST `/soap` passes the name of
the temporary file to `saa.send`, which calls SMEV and writes the reply to
`resp.xml`; the handler reads that file and shows it. POST `/hash` hashes the
bytes. Every page is rendered from the one map and the one view, by value of a
static field read at the end of the handler. Jetty gives each request a thread
and nothing is locked: this, and the nesting of namespaces in the
transformation, is where the program is hard to test, and where the first
models are.

Two more chains run outside the server. The batch reads waiting messages with
`Executor.submit`, saves each as `<key>.xml`, gives it a new identifier with
`InjectId.inject` in `<key>UUID.xml` and transforms that with
`SmevImportedTransForm.process` into `<key>__trans.xml`; it is written as a
test, but is the only code that uses these classes together. `Demo` issues two
certificates and signs with `Crypto`. `util.js` runs in the browser: no template
includes it and the server has no route `/addToBasket/`, so that it would be
answered with status 404, which the handler does not look at.

`PROJECT.json` lists the hazards line by line with the properties that cover
them.

## 2. Modules

| Module | Models |
|---|---|
| `SmevTransform` | the event loop of `process`, one action per branch, with both comparators; properties of the mapping stack |
| `SmevTransformProps` | what the written document means to a namespace-aware reader, and the rules of the canonical form |
| `SmevTransformProofs`, `SmevTransformPropsProofs` | TLAPS proofs about `SmevTransform`: the stack of mappings, and what is written |
| `MCSmevTransform` | the sets of names that instantiate it |
| `Service` | abstract: what the pages promise to the users |
| `Server` | the handlers, statement by statement, on concurrent threads, with `SAAJ` and `timeBasedUUID`; it implements `Service` when requests do not overlap |
| `MCServer` | its instances |
| `ServerTypeProofs`, `ServerProofs`, `ServerSequentialProofs` | TLAPS proofs about `Server`: its types; requests nobody disturbs; one thread and `Service` |
| `SendItem` | `sendItem` of `util.js` for several clicks |
| `SendItemProofs` | TLAPS proofs about it |
| `InjectId` | `inject` on one line, as operators over tokens |
| `Executor` | `insert` and `submit` on one table |
| `ProcessStreams` | the streams and the exception of one call of `process` |
| `Fetch` | the batch; composes the three modules above |
| `MCFetch` | its instance: message layouts and rows |
| `FetchLemmas`, `FetchProofs` | TLAPS proofs about the operators of the batch and about the batch |
| `Signing` | the protocol of the signer in `Crypto.sign` |

### SmevTransform

| Code | Model |
|---|---|
| `prefixMappingStack` (line 112) | `mappings`, a sequence of sequences of `[prefix, ns]` |
| `prefixCnt` | `prefixCnt`; prefix `"ns" + n` is the number `n` |
| `src`: the elements the reader has open | `open` |
| `dst`: the start tags the writer has open, the events written | `tags`, `out` |
| `srcAttributeList`, `dstAttributeList` | `todo`, `dstAttrs` |
| where the loop is | `phase` |

The document is not a parameter: at each step the environment chooses the next
event, so TLC visits every document up to the bound, and the proofs speak of
every document. `Characters`, `StartElement`, `EndElement`, `OtherEvent` are
the branches of the loop; the attribute loop is `MapAttribute`, one step per
attribute, then `WriteAttributes`. `EndOfInput` is `hasNext()` being false,
`StreamFault` an `XMLStreamException` anywhere. The exception of the end-tag
branch (204-206) is `phase = "unmapped"`. `infoset` is a history variable: the
events of the input as expanded names, with which the output is compared.

`Collections.sort` is not given an algorithm: `Sortings` allows every
permutation in which no two neighbours are the wrong way round, whichever of
the two the sort compared with the other. For a comparator that is an order
this is one list; for that of `SmevImportedTransForm`, which is not one, it is
several, as in the program, where the result depends on the order of arrival.

`Comparator` selects the class. `diff` of the two `process` methods shows no
other difference than the debug stream and the formatting.

### Server and Service

A handler is a sequence of statements, `Handler[route]`; `todo[r]` is what is
left of it and each statement of the code that touches shared state, or can
fail, is one action. GET `/soap`, `/transform` and `/hash` run the same
statements and are the route `page`. A document, and any file made from one, is
a sequence of chunks marked with their owner, so a mixture of two users' data
is visible, and a file is written one chunk at a time. Failures:

- `Upload` keeps any part of the file, or loses the temporary file
  (`Files.copy` with `REPLACE_EXISTING` deletes it first), and goes on: the
  exceptions are caught (153-157). `Load`, `Open` and `Call` need the file.
- `Write` needs the next chunk of the upload; a transformation of a torn
  document breaks off there.
- `Fail` is an exception that leaves the handler: status 500, state as it is.
- `SendHalts` is the `IOException` of the download, which the handler catches
  (104-105): `halt()` ends the request with status 200 and no page.
- `CallFails` is the `SOAPException` of the connection. `Call` and `CallFails`
  are the remote system's steps.
- `ReadLines` may leave `lines` null (72-74).
- `PutLost`: `HashMap` is not synchronized. While another thread is inside an
  operation of the map, a `put` may have no effect.
- Between `Render`, which reads the static `view`, and `Merge` the map can
  change: the `ModelAndView` holds the map itself and not a copy.

`out.xml` and `resp.xml` outlive the process: `Init` lets each of them hold any
member of `Leftovers`, a set of files that belong to nobody (`Nobody`).

The history variable `disturbed` collects the requests that another one wrote
to shared state under, between their first write and their last read of it.

`Service` is the abstract specification: a request is answered at most once,
with a value of its own or with a failure, the plain pages do not fail, and
while no call to SMEV is outstanding everybody is eventually answered.

### SendItem

Each action is one task of the page's event loop; an open `alert` blocks them
all. `sendItem(c)` is the call to the end of line 22: `open`, the handler,
`send`, `setTimeout`. Some browsers fire `readystatechange` inside `send()`:
the handler then clears a variable without a value, which the `\E timers`
allows and shows to be harmless. `Headers`, `Data`, `Complete`, `NetworkError`
are the browser's events, with the handler of lines 17-20 as part of each;
`Timeout` is the callback of line 22 with the alert. There is no clock: timers
of equal delay come due in the order they were set, and any number of events
may come before. `page` stands for what line 12 and lines 3-9 may find: no
input field or no request object, and the call throws.

### Fetch, with Executor, InjectId and ProcessStreams

| Code | Model |
|---|---|
| table `fns_files` | `table`; a row has the values stored and, as a history, the data `insert` was given |
| `res`, the result set and its cursor | `result`, `cursor` |
| `<key>.xml`, `<key>UUID.xml`, `<key>__trans.xml` | `saved`, `injected`, `transformed` |
| the next statement of the loop | `pc`; inside `process`, `phase` |
| `argSrc`, `argDst`, `src`, `dst` that are open | `streams` |
| the closes of `finally` that are done with, those that threw | `closed`, `unclosed` |
| `debugStream` | `debugStream` |

A line is a sequence of tokens; what matters to `inject` is whether a token
starts with `<` and whether it ends in `MessageID>`, which the end tag does
always and the start tag only when it has no attributes. A tag may be broken
over two lines. Its first part is a `head` and starts with `<`; what `inject`
sees of the rest, at the start of the next line, depends on where the break is:
`openTail` and `closeTail` have all of `MessageID>`, `cutTail` is the rest of a
start tag broken behind the `M`, `tail` the rest of any other. `inject` yields
the set of its results, empty when the scan of line 14 throws. `InjectLine`
writes one line without a separator (`InjectId.kt:24`), so that a broken tag is
one tag again in `<key>UUID.xml`.

The model does not parse the document: `process` may accept any and refuse any
(`Transform`, `TransformFails`). A property of whole files therefore holds for
those that a parser accepts, and for more.

An exception may leave any statement (`Save`, `InjectFails`, `StreamException`)
with any part of the current file written; it ends the run. The `finally` block
(210-246) is a step per close and one for what follows. `CloseOrder` is the order
of lines 211-234; each `Close` either is done, or throws, is logged and leaves its
stream open (`CloseFails`) and the next one is tried. Behind them `LogContent`
asks the logger a second time and reads the content of `debugStream`, which
throws when the stream was never created - because the reader failed first or
because the level was raised in between. The level can be set at any time, so
`DebugEnabled` is any truth value at each of the two tests. With `CallIsOver` the
caller has the result and nothing refers to the streams any more.

When the close of the writer or of the file throws, what they still held is
lost, and nobody is told: `CloseStreams` then takes back `whole` and sets `lost`.

Inside `process` the event loop is one step; its inside is `SmevTransform`. What
it does here is to drop blank texts. The other programs that fill the table are
`Insert`; a row with `f_stat` other than `'0'` is not selected.

### Signing

`written` is what the signer of the current call has been fed since its last
signature; Bouncy Castle's `ContentSigner.getSignature()` calls
`java.security.Signature.sign()`, which resets the object. `Println` and
`Return` are lines 72 and 73 (80 and 81 for strings). The signers of a
certificate and of CMS data are asked once.

## 3. Runs

| Run | Shows | Bounds |
|---|---|---|
| `transform_nesting` | `SameInfoset`, `EndTagMatchesStart`, `EndAlwaysMapped`, `OpenElementsMapped`, `ScopeInjective`, `PrefixesNumbered`, `TypeOK` | 3 elements in 3 namespaces, 1 attribute, 4 events besides end tags |
| `transform_attributes` | `AttributesSorted`, `DeclarationsCanonical`, `Terminates` | every list of up to 3 of 5 attributes, 2 events |
| `imported_order` | violated: the comparator of `SmevImportedTransForm` lets an unqualified attribute go first | the same |
| `unqualified_element` | violated: an element in no namespace is not refused | 2 elements, 2 attributes, 3 events |
| `server_overlap` | `UndisturbedAnswersOwn`, `HandlersDoNotBlock`, `TypeOK` | 2 requests to any two routes, 2 threads, documents of 1 and 2 chunks, leftover files of 0, 1 or 3 chunks |
| `server_sequential` | `ImplementsService` | the same with 1 thread |
| `server_transform_race` | violated: `out.xml` is shared | 2 requests, 2 threads |
| `server_hash_race` | violated: the map is shared | 2 requests, 2 threads |
| `client_timeout` | `TimersOutstanding`, `HeardNotReported`, `UnansweredReported` | 3 clicks |
| `fetch` | `InsertedAsGiven`, `OnlyIdentifiersChange`, `StoredIdentifierNeverSent`, `IdentifiersUnique`, `EarlierRowsDone`, `ProcessClosesStreams`, `Terminates`, `TypeOK` | 2 keys, 9 message layouts, 2 runs |
| `sign_twice` | violated: the signature returned covers the empty message | 2 key pairs, 2 messages |
| `server_torn_upload` | violated: the hash of a part of the file is shown as that of the file | 2 requests, 1 thread |

Why the bounds are enough. Nesting: with four events besides end tags an
element can have a parent, a child and a sibling, or a grandparent, all in the
same or in different namespaces, and a namespace can leave the scope and come
back; three namespaces give a mapping below, at and above the one looked up.
What does not depend on the bound at all is proved. Attributes: two qualified
namespaces besides the element's, and unqualified names that sort before and
after the qualified ones, reach all branches of both comparators; three
attributes are the fewest with which a comparator can fail to be transitive.
Server: the interference is between pairs; a short document overwriting a long
one, and the reverse, need sizes 1 and 2. The leftover files are
empty, shorter than a document of two chunks, or longer than any, so a file that
is not truncated shows.

Client: two calls can disturb each other's timers, the third lets a timer come
due behind an alert while the others go on. Batch: two rows make an earlier and
a later one; two runs make the files of one the leftovers of the next; the
layouts are the one of `InjectIdTest`, the indented one of `1.xml`, an
identifier on a line of its own, a tag with attributes, two elements on one
line, start, end and other tags broken over lines (`brokenTags`), a start tag
broken inside `MessageID>` (`cutStart`) and none; a stored body may also be null.
Each of the four closes may throw in each call. The data of
`insert` fit the table, or have a value of an unknown type, in a row of the
right length and in one that is too long.

`CHECK_DEADLOCK` is on everywhere: `Returned`, `Idle`, `Quiet` and `Done` are the
states in which `process`, the server, the page and the batch have nothing left
to do.

Each property of a passing run is broken by a plausible bug: the operators
marked "Seeded fault" in the modules, matched to properties in `PROJECT.json`.

### Fairness

`SmevTransform`: `WF_vars(Step)`, the thread that called `process` keeps
running it. A stream fault is never needed for it to end. The document is
finite (`MaxEvents`); the end of the loop is then a property of the code, which
has to consume one event or one attribute per step.

`Server`: weak fairness of `Accept(r)` and `Work(r)` for each request: the
operating system runs the threads and Jetty takes requests from its queue.
`Call` and `CallFails` have none, since `connection.call` has no timeout. So
`HandlersDoNotBlock` says that a request that has a thread and is not waiting
for SMEV is answered although others may wait for ever; a request without a
thread may wait for ever when SMEV holds all threads, which `Service` admits in
the fairness of `Answer` (`~calling`).

`SendItem`: weak fairness of `Timeout`: the browser runs timers that are due.
Nobody has to answer, and `UnansweredReported` assumes `[]<>(dialog =
NoClick)`, a user who closes the alerts: nothing runs behind an open one.

`Fetch`: `WF_vars(Batch)`, the thread of the batch keeps running; `Insert` is not
needed.

### Findings

1. `SmevImportedTransForm.java:272` tests `xNS` where it means `yNS`: the
   comparator is not an order and unqualified attributes may come first
   (`imported_order`).
2. `transFromSuckers.java:256` tests for null, but a QName without namespace
   has the empty string: elements in no namespace, "not supported" (136, 257),
   get `xmlns:nsN=""` (`unqualified_element`).
3. `Server.java:93`: overlapping POST `/transform` mix their results in
   `out.xml` (`server_transform_race`).
4. `Server.java:127`: overlapping POST `/hash` show each other's hash
   (`server_hash_race`). The same map serves `/uuid` and `/soap`.
5. `Server.java:155`: a broken upload is hashed as if complete
   (`server_torn_upload`).
6. `Crypto.java:73` (and 81): `sign` takes the signature a first time to print
   it, which empties the signer, and returns the signature of the empty message
   (`sign_twice`).

What the models of the batch and the script show beside their properties: a
MessageID element whose start tag has attributes keeps its identifier, and
`inject` writes the new one behind its end tag; so does one whose start tag is
broken as `<ns:MessageID` and `>`, although the joined lines are well-formed. A
second element on the same line keeps its own. A message whose identifier stands
on its own line stops the batch, and so does a null body. A file whose end is
lost in a failing close counts as transformed. Because `f_stat` is never updated
every run fetches the same rows again and gives them other identifiers. A failing
request of `util.js` is reported as "Timeout" ten seconds late, one that breaks
off after the headers never.

Met while reading, without a run: joining lines without a separator also merges
the last word of a text line with the first of the next; the stream of
`ExecutorTest.kt:34` is never read nor closed; both certificates of `Demo` have
the serial number 1 and the same issuer; `SmevImportedTransFormTest.processini1`
expects line breaks between elements to be kept (53-56), which neither class
does and `transFromSuckersTest.kt:86-89` rules out; the test is stale.

## 4. Proofs

Every theorem is about the specification that TLC runs, for every value of its
constants. The modules with proofs take nothing on trust but the assumptions on
constants, which TLC evaluates on its instances.

| Module | Theorem | States |
|---|---|---|
| `SmevTransformProofs` | `TypeCorrect` | `Spec => []TypeOK` |
| | `ScopeAlwaysInjective` | prefixes and namespaces in scope correspond one to one, and the prefixes the counter has still to generate are unused |
| | `OpenElementsAlwaysMapped` | the mapping an element was opened under stays in scope until it is closed |
| | `EndNeverUnmapped` | the exception of lines 204-206 is never thrown |
| | `EndTagsMatch` | each end tag carries the prefix and name of its start tag |
| `SmevTransformPropsProofs` | `InfosetKept` | a reader of the output finds the elements, attributes and non-blank text of the input, if it takes `xmlns:nsN=""` for what it says (finding 2) |
| | `DeclarationsAlwaysCanonical` | declarations are needed, used and in the order of first use |
| | `PrefixesAlwaysNumbered` | the prefixes are ns1, ns2, ... in the order of their declarations |
| | `AttributesAlwaysSorted` | with the comparator of `transFromSuckers` attributes are in the order of rule 3 |
| `SendItemProofs` | `TypeCorrect` | `Spec => []TypeOK` |
| | `TimersAlwaysOutstanding` | a timer is only armed for a request that was sent and neither heard of nor given up |
| | `HeardNeverReported` | no call is both heard of and reported |
| `ServerTypeProofs` | `TypeCorrect` | `Spec => []TypeOK` |
| `ServerProofs` | `UndisturbedCorrect` | a request that no other one wrote shared state under gets its own answer or a failure |
| `ServerSequentialProofs` | `SequentialUndisturbed`, `SequentialService`, `SequentialTransform`, `SequentialHash` | with one thread nobody is disturbed, the server takes only steps of `Service`, and both races are gone |
| `FetchProofs` | `FetchTypeCorrect`, `StoredAsGiven`, `StreamsClosed`, `BatchInOrder`, `IdentifiersDiffer`, `ContentKept`, `NeverStored` | the seven invariants of the run `fetch` |

### SmevTransform

For every set of elements, attributes and texts, every number of attributes and
every length of document, and for both comparators. The assumptions: names are
pairs of natural numbers, the bounds are natural numbers, `Comparator` is one of
two classes.

None of the properties is inductive alone. That the end tag's lookup succeeds
needs the mapping of the element to be still on the stack; that it finds the
*same* prefix needs the mapping of a namespace to be unique; that popping the
innermost list loses no mapping of an outer element needs each element to be
mapped at its own level or further out; and that a declaration made by an
attribute goes to the level of the element it belongs to needs an element to be
open in the attribute loop (`AttributesOfOpenElement`). Their conjunction `IInv`
is inductive. The lemmas follow the operators: `FindKnown` and `FindUnknown` say
what `findPrefix` returns, `PushEmpty`, `PopInnermost`, `DeclareOnTop` what push,
pop and declare do to the places of the stack, `ResolvedMaps` that a lookup with
declaration leaves the namespace mapped, and one lemma per action that it keeps
`IInv`.

### The written document

`SmevTransformPropsProofs` is about everything written so far, as a reader sees
it. The properties count positions: the k-th significant event of the output is
the one with k significant positions up to it (`UpTo`), and the j-th
declaration must have prefix number j. Depth is counted in the same way, and a
declaration is in force where the depth has not dropped below that of its tag.

The inductive invariant `OutInv`, which TLC also checked on the instances of
both transform runs, relates the document to the state of the loop:

- `TagsKnown`, `Numbered`, `Canonical` and `Sorted`: the document so far has the
  canonical form. `Numbered` makes prefixes unique in the document (`SamePrefix`),
  so of the declarations of a prefix that are in force there is one
  (`MeaningOf`), and what a reader has understood is not changed by what is
  written later (`OlderReading`);
- `LevelsDeclared`: the depth of the document is the number of open elements, and
  each mapping of a level is declared by the start tag of that level, which still
  encloses the end of the document. This makes a prefix of the stack mean its
  namespace to the reader (`MappingRead`);
- `InForceMapped`: conversely, a declaration in force at the end is a mapping of
  its level. With the stack injective, a namespace that is declared anew is
  declared nowhere around;
- `Counted`: the counter is ahead of the declarations written by those of the
  current tag, which carry the next numbers;
- `Pending`: between a start tag and its attributes the tag is the last event
  written, and the attributes mapped and those still to be mapped are, in their
  order, those the reader reported;
- `UsedInOrder`: each mapping of the current tag is used by the tag or an attribute
  mapped already, before every use of a later mapping;
- `ReadsBack`: what is written reads as what was read, but for that last tag.

One lemma per action shows that it is kept. `Append` of a tag or of text and the
block that `WriteAttributes` appends are treated once, as `Longer` and `Block`:
the lemmas `OneMore...` and `Block...` say what they do to positions, depths,
names and each part of the invariant. `AttributesAlwaysSorted` assumes
`Comparator = "transFromSuckers"`, since the other comparator refutes it in
`imported_order`; the other three theorems hold for both classes.

What the proof changed. `SmevTransformProps` used to pick the significant events
out with `SelectSeq`, which is recursive and of which the provers know nothing;
the properties now state the same by counting. `NsAt` was a `CASE` two of whose
guards can hold at once (no prefix, and no declaration of it); TLC takes the
first, logic does not say which, and the proof could not show that an unqualified
name is read as unqualified. It is now a conditional.

### SendItem

For every set of calls. The inductive invariant adds that what is heard of,
reported or under way was called (`HistoryOfCalls`) and that `abort()` leaves a
reported request unsent for good (`ReportedUnsent`): without the latter an event
after the timeout could make a reported call heard. `HandlerTimers` says what
the handler does to the timers, and one lemma per kind of action that it keeps
the invariant.

### Server

For every finite or infinite set of requests, every assignment of routes, every
number of threads and every size of document and of the files that earlier runs
left behind. `TypeOK` says that what a request has left to do is the end of its
route's handler. The proofs speak of a place in a handler as "the statement x is
still to come", `Remains(r, x)`. `Rank` numbers the statements in an order that
all handlers respect, so that from `At(r, y)` it follows which statements are
behind (`Before`), without a case per route and place.

The inductive invariant gives for each request (`Sound`):

- `Life`: it runs between its thread and its answer;
- `Private`: the stream it writes is within its document, and the hash it holds
  is that of its upload, whoever disturbs it;
- and while nobody has disturbed it, `Presents`: from its first write of the map,
  the view or the generator to its last read of them, they hold what it put
  there; `Fills`: the output file is a beginning of its own document, and what
  was read back is all of it; `AnswersOwn`: its answer is its own.

A step of request `r` is split in two. For any other request `q`, `Spares(q)`:
whatever `q` depends on is unchanged unless `q` is now in `disturbed`; this is
where the history variable earns its place, and the only lemma about pairs of
requests (`Others`). For `r` itself one lemma per statement.

`ServerSequentialProofs` assumes `Threads = 1`. `Alone` says that at most one
handler is at work and that `disturbed` is empty, and is inductive together with
`IInv`: a request is only accepted when nobody is at work, so no step finds
another request that holds anything. Then `UndisturbedAnswersOwn` is about every
request, and the two properties that `server_transform_race` and
`server_hash_race` refute for two threads hold. `SequentialService` is the step
refinement: `Upload` is `Store`, `Send`, `Merge` and `Fail` are `Answer`, arriving
at the statement `call` is `BeginCall`, leaving it is `EndCall` or, by its
exception, `Answer`, and all else is a stutter (`QuietStep`).

### Fetch

For every set of keys and messages, every message text, everything that is
inserted and any number of runs. Two assumptions: texts are sequences of lines
of tokens that carry no generated identifier; and data of the right number of
known types has a key and a message in the first two columns
(`InsertsAssumption`), which is what the columns of the table accept.

The inductive invariant `IInv` of `FetchProofs`, which TLC also checked on the
instance of `fetch`, follows a message on its way:

- `TableSound`: a row is stored as given; no two rows have the same key;
- `ResultSound`: the rows of the result set are rows of the table, and stay so
  while others insert;
- `StreamsSound`: no stream is closed before the `finally` block; in it, a stream
  whose turn has passed is closed or its close threw, the others are untouched,
  and the file stays open up to the last turn. `CloseNext` shows that a close keeps
  this, whether it throws or not;
- `CallSound`: when a call is over without exception, the file of the current row
  is of this run, and whole or lost in a close. With it a step past a row keeps
  `EarlierRowsDone`;
- `IdentifiersSound`: the identifiers in the two files of a key are generated
  ones and in no file of another key. It has to speak of `<key>UUID.xml` also,
  which is where the next transformed file takes them from;
- `InjectSound`: while `inject` runs, its output is made (`Rewriting`) from the
  first `n` lines and the others are still to be read;
- `WholeSound`: a whole file is made from the message of its row.

`Rewriting` states for a message of plain lines that the texts differ in
identifiers only, and for a message whose lines are `OneIdentifier` that each
start tag of MessageID is followed by a new one (`Renewed`). It is kept by one more line
(`RewritingLine`) and by dropping blanks (`RewritingWritten`).

The selection of rows, the values bound and the blanks dropped are one operator,
`Chosen`, and the lines are joined by `FlattenSeq`; both are passes over a
sequence, defined by recursive functions. What they compute for a sequence of
any length takes induction, and the induction theorems of the library cannot be
used. `FetchLemmas` proves induction in the form that can: a *set* of numbers
with 0 and with `n + 1` for each of its `n` contains every number
(`SetInduction`, from the well-foundedness of `<`). The lemmas then say that there
is such a pass (`PassExists`, `JoinExists`), that `Chosen` lists the elements at
the positions in their order (`ChosenLists`), the same positions for two
sequences of one length (`ChosenPair`), everything when all are chosen
(`ChosenAll`), and what `inject` does to a line (`InjectedLine`).

What the proof found. `Plain` and `OneIdentifier`, the preconditions of
`OnlyIdentifiersChange` and `StoredIdentifierNeverSent`, used to be weaker and
held on all layouts of the instance, but the proof of `InjectedRenewed` fails for
a line in which an end tag of MessageID comes before an opening one: `inject`
takes the first `MessageID>` for the start tag and puts the identifier behind the
end tag, and the opening tag after it keeps the stored one. TLC confirms it with
the message of two lines `<<"open", "tag">>, <<"close", "open", "text",
"close">>`. The preconditions now say that an end tag follows its opening tag on
the line. `OneIdentifier` also leaves out the two start tags that `inject` cannot
find on any line, with attributes or cut inside `MessageID>`: with either of them
the stored identifier is sent, and TLC finds it when they are let in. All other
tags may be broken over lines, the end tag among them.

### Only model-checked

- `Terminates` (of both modules), `HandlersDoNotBlock`, `UnansweredReported` and
  the fairness in `ImplementsService`: liveness under fairness is out of the
  prover's reach, as is ENABLED.

## 5. Not modelled

- Characters of names and texts, encodings, and what the StAX reader cuts into
  events: external. That one run of text may arrive in several events, and a
  blank piece of it be dropped, is listed as a hazard.
- The reserved namespace of `xml:lang`: all namespaces are alike in the model.
- GET `/soapg`, which returns its parameter; static files; the creation of the
  upload directory; temporary files that are never deleted.
- The digest and the signatures themselves: `Gost3411Hash` appears in `Server`
  as an injective function.
- `TransXML` and the hexadecimal forms of `Gost3411Hash`: pure functions on the
  characters of strings that only their tests call; a model would restate them
  index by index. `InjectId.getTagValue`, `Executor.convertDate2String` and
  `getLenth` have no caller; `buildArray` and `buildSql` hold strings.
- Names, serial numbers, validity and extensions of certificates.
- The `FileWriter`s and `FileInputStream`s of the batch that an exception leaves
  open: the test ends with it. The connection of `SAAJ.send` that a failed reply
  leaves open.
- The wording and the URL of `util.js`; styles, fonts and the build.

## 6. Plan

Order: the transformation first, since every signature made with the program
rests on it; then the server, whose shared state is its main hazard; then the
script of the browser, the batch and the signatures. All of these are done.

Every invariant and action property of a passing run is also a theorem; of the
refinement of `Service` it is the step. What could still be stated and proved:

- that `Sortings` leaves exactly one list when the comparator is that of
  `transFromSuckers`, so that the output is a function of the document;
- that `UnqualifiedRefused` holds for documents whose elements all have a
  namespace, which would show that finding 2 is the only way to break it;
- for `Signing`, that the value returned is that of the data when `sign` is the
  first use of a fresh signer.
