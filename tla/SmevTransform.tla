--------------------------- MODULE SmevTransform ---------------------------
(***************************************************************************)
(* The XML transformation "urn://smev-gov-ru/xmldsig/transform" as class   *)
(* transFromSuckers runs it: one pass over the StAX events of a document,  *)
(* rewriting every namespace prefix to a generated one, sorting the        *)
(* attributes and dropping blank text and everything that is not an        *)
(* element or text.  SmevImportedTransForm is the same loop with another   *)
(* attribute comparator, selected here by the constant Comparator.         *)
(*                                                                         *)
(* Namespace URIs and local names are numbers, in the order of             *)
(* String.compareTo; number 0 is the empty URI of an unqualified name.     *)
(* The generated prefix "ns" + n is the number n, and 0 stands for the     *)
(* null that findPrefix returns.  The text of a characters event is a      *)
(* number, 0 for text that trim() leaves empty.                            *)
(***************************************************************************)
EXTENDS Integers, Sequences

CONSTANTS
  Elements,    \* expanded names [ns, local] an element of the input may have
  Attributes,  \* expanded names [ns, local] an attribute may have
  Texts,       \* contents of the characters events
  MaxAttrs,    \* bound: attributes on one element
  MaxEvents,   \* bound: events the document has, its end tags not counted
  Comparator   \* which class's AttributeSortingComparator sorts

NoNs     == 0
NoPrefix == 0
Blank    == 0
Name     == [ns : Nat, local : Nat]

ASSUME NamesAssumption ==
  /\ Elements \subseteq Name
  /\ Attributes \subseteq Name
  /\ Texts \subseteq Nat
ASSUME BoundsAssumption == MaxAttrs \in Nat /\ MaxEvents \in Nat \ {0}
ASSUME ComparatorAssumption ==
  Comparator \in {"transFromSuckers", "SmevImportedTransForm"}

VARIABLES
  phase,      \* where process() is: at the next event, in the attribute
              \* loop, or gone through one of its exits
  open,       \* the elements the XMLEventReader has open, outermost first
  mappings,   \* prefixMappingStack, one list of mappings per open element
  prefixCnt,  \* prefixCnt, the number of the next generated prefix
  todo,       \* sorted source attributes the loop has still to map
  dstAttrs,   \* dstAttributeList
  tags,       \* the start tags the XMLEventWriter has open
  out,        \* everything written to dst, in order
  infoset,    \* history: the significant events read, by expanded name
  events      \* events read so far

vars == <<phase, open, mappings, prefixCnt, todo, dstAttrs, tags, out,
          infoset, events>>

-----------------------------------------------------------------------------
(* The attribute order.                                                    *)

ByNsThenLocal(x, y) == IF x.ns # y.ns THEN x.ns - y.ns ELSE x.local - y.local

\* Seeded fault: unqualified attributes first.
UnqualifiedFirst(x, y) ==
  CASE x.ns = NoNs /\ y.ns # NoNs -> -1
    [] x.ns # NoNs /\ y.ns = NoNs -> 1
    [] OTHER                      -> ByNsThenLocal(x, y)

CompareSuckers(x, y) ==
  CASE x.ns = NoNs /\ y.ns # NoNs -> 1
    [] x.ns # NoNs /\ y.ns = NoNs -> -1
    [] OTHER                      -> ByNsThenLocal(x, y)

\* The test that should make an unqualified x follow a qualified y looks at
\* xNS twice and never holds, so their local names decide.
CompareSmevImported(x, y) ==
  CASE x.ns = NoNs                -> x.local - y.local
    [] x.ns # NoNs /\ y.ns = NoNs -> -1
    [] OTHER                      -> ByNsThenLocal(x, y)

Compare(x, y) == IF Comparator = "transFromSuckers"
                 THEN CompareSuckers(x, y) ELSE CompareSmevImported(x, y)

\* The attribute lists an element can carry: names do not repeat.
AttributeLists ==
  {s \in UNION {[1..n -> Attributes] : n \in 0..MaxAttrs} :
     \A i, j \in DOMAIN s : s[i] = s[j] => i = j}

\* What Collections.sort may leave: a permutation in which the comparison
\* the sort made of any two neighbours did not put them the other way round.
\* A comparator that is an order leaves exactly one.
Sortings(list) ==
  {s \in AttributeLists :
     /\ {s[i] : i \in DOMAIN s} = {list[i] : i \in DOMAIN list}
     /\ \A i \in 1..(Len(s) - 1) :
          Compare(s[i], s[i+1]) < 0 \/ Compare(s[i+1], s[i]) >= 0}

-----------------------------------------------------------------------------
(* The stack of prefix mappings.                                           *)

Places(stack) ==
  UNION {{<<d, i>> : i \in DOMAIN stack[d]} : d \in DOMAIN stack}

MappingAt(stack, p) == stack[p[1]][p[2]]

PlacesOf(stack, ns) == {p \in Places(stack) : MappingAt(stack, p).ns = ns}

Before(p, q) == p[1] < q[1] \/ (p[1] = q[1] /\ p[2] <= q[2])

\* The lists are searched from the outermost element inwards.
findPrefix(stack, ns) ==
  IF PlacesOf(stack, ns) = {} THEN NoPrefix
  ELSE MappingAt(stack, CHOOSE p \in PlacesOf(stack, ns) :
                          \A q \in PlacesOf(stack, ns) : Before(p, q)).prefix

Declared(stack, ns, next) ==
  LET top == Len(stack)
  IN  [stack  |-> [stack EXCEPT ![top] =
                     Append(@, [prefix |-> prefixCnt, ns |-> ns])],
       cnt    |-> next,
       prefix |-> prefixCnt]

\* Seeded faults: a namespace is declared on every use; the counter stays.
AlwaysDeclared(stack, ns) == Declared(stack, ns, prefixCnt + 1)
CounterKept(stack, ns) ==
  LET known == findPrefix(stack, ns)
  IN  IF known # NoPrefix
      THEN [stack |-> stack, cnt |-> prefixCnt, prefix |-> known]
      ELSE Declared(stack, ns, prefixCnt)

\* The stack, the counter and the prefix in use once ns has been looked up
\* and, when it is not in scope, declared on the innermost element.
Resolved(stack, ns) ==
  LET known == findPrefix(stack, ns)
  IN  IF known # NoPrefix
      THEN [stack |-> stack, cnt |-> prefixCnt, prefix |-> known]
      ELSE Declared(stack, ns, prefixCnt + 1)

-----------------------------------------------------------------------------
(* process(): one action per branch of the event loop; the loop over the   *)
(* attributes of an element takes one step per attribute.                  *)

Written(kind, prefix, name) ==
  [kind |-> kind, prefix |-> prefix, name |-> name]

Read(kind, name, attrs) ==
  [kind |-> kind, ns |-> name.ns, local |-> name.local, attrs |-> attrs]

\* Seeded fault: the counter starts at 0.
InitAtZero ==
  /\ phase = "event"
  /\ open = <<>> /\ tags = <<>>
  /\ mappings = <<>> /\ prefixCnt = 0
  /\ todo = <<>> /\ dstAttrs = <<>>
  /\ out = <<>> /\ infoset = <<>>
  /\ events = 0

Init ==
  /\ phase = "event"
  /\ open = <<>> /\ tags = <<>>
  /\ mappings = <<>> /\ prefixCnt = 1
  /\ todo = <<>> /\ dstAttrs = <<>>
  /\ out = <<>> /\ infoset = <<>>
  /\ events = 0

NextEvent ==
  /\ phase = "event"
  /\ events < MaxEvents
  /\ events' = events + 1

Characters(text) ==
  /\ NextEvent
  /\ open # <<>>
  /\ IF text = Blank
     THEN UNCHANGED <<out, infoset>>
     ELSE /\ out' = Append(out, Written("text", NoPrefix, text))
          /\ infoset' = Append(infoset,
                          Read("text", [ns |-> NoNs, local |-> text], {}))
  /\ UNCHANGED <<phase, open, mappings, prefixCnt, todo, dstAttrs, tags>>

StartElement(name, attrs) ==
  /\ NextEvent
  /\ open = <<>> => infoset = <<>>          \* a document has one root
  /\ LET r == Resolved(Append(mappings, <<>>), name.ns)
     IN  /\ mappings' = r.stack
         /\ prefixCnt' = r.cnt
         /\ tags' = Append(tags, [prefix |-> r.prefix, local |-> name.local])
         /\ out' = Append(out, Written("start", r.prefix, name.local))
  /\ todo' \in Sortings(attrs)
  /\ dstAttrs' = <<>>
  /\ open' = Append(open, name)
  /\ infoset' = Append(infoset,
                  Read("start", name, {attrs[i] : i \in DOMAIN attrs}))
  /\ phase' = "attributes"

\* Seeded fault: the loop does not get past an unqualified attribute.
MapQualifiedOnly ==
  /\ phase = "attributes"
  /\ todo # <<>> /\ Head(todo).ns # NoNs
  /\ LET r == Resolved(mappings, Head(todo).ns)
     IN  /\ mappings' = r.stack
         /\ prefixCnt' = r.cnt
         /\ dstAttrs' = Append(dstAttrs, Written("attr", r.prefix, Head(todo).local))
  /\ todo' = Tail(todo)
  /\ UNCHANGED <<phase, open, tags, out, infoset, events>>

MapAttribute ==
  /\ phase = "attributes"
  /\ todo # <<>>
  /\ LET attr == Head(todo)
         r    == IF attr.ns = NoNs
                 THEN [stack |-> mappings, cnt |-> prefixCnt, prefix |-> NoPrefix]
                 ELSE Resolved(mappings, attr.ns)
     IN  /\ mappings' = r.stack
         /\ prefixCnt' = r.cnt
         /\ dstAttrs' = Append(dstAttrs, Written("attr", r.prefix, attr.local))
  /\ todo' = Tail(todo)
  /\ UNCHANGED <<phase, open, tags, out, infoset, events>>

\* Seeded fault: each declaration is put in front of the ones before it.
DeclarationsReversed ==
  /\ phase = "attributes"
  /\ todo = <<>>
  /\ LET mine  == mappings[Len(mappings)]
         decls == [i \in DOMAIN mine |->
                     LET m == mine[Len(mine) + 1 - i]
                     IN  Written("decl", m.prefix, m.ns)]
     IN  out' = out \o decls \o dstAttrs
  /\ phase' = "event"
  /\ UNCHANGED <<open, mappings, prefixCnt, todo, dstAttrs, tags, infoset, events>>

\* The mappings made for this element are written before its attributes.
WriteAttributes ==
  /\ phase = "attributes"
  /\ todo = <<>>
  /\ LET mine  == mappings[Len(mappings)]
         decls == [i \in DOMAIN mine |-> Written("decl", mine[i].prefix, mine[i].ns)]
     IN  out' = out \o decls \o dstAttrs
  /\ phase' = "event"
  /\ UNCHANGED <<open, mappings, prefixCnt, todo, dstAttrs, tags, infoset, events>>

Outer(stack) == SubSeq(stack, 1, Len(stack) - 1)

\* The reader closes its innermost element.  Its prefix is looked up in
\* scope, and stack and counter are what is left after the element; a
\* namespace without mapping ends in a TransformationException.
Close(scope, stack, cnt) ==
  /\ phase = "event"
  /\ open # <<>>
  /\ LET name   == open[Len(open)]
         prefix == findPrefix(scope, name.ns)
     IN  /\ open' = Outer(open)
         /\ infoset' = Append(infoset, Read("end", name, {}))
         /\ IF prefix = NoPrefix
            THEN phase' = "unmapped" /\ UNCHANGED <<mappings, prefixCnt, tags, out>>
            ELSE /\ out' = Append(out, Written("end", prefix, name.local))
                 /\ mappings' = stack
                 /\ prefixCnt' = cnt
                 /\ tags' = Outer(tags)
                 /\ UNCHANGED phase
  /\ UNCHANGED <<todo, dstAttrs, events>>

\* Seeded faults: the list is not popped, is popped before the lookup, or
\* gives its prefixes back to the counter.
EndWithoutPop    == Close(mappings, mappings, prefixCnt)
EndPopsFirst     == Close(Outer(mappings), Outer(mappings), prefixCnt)
EndFreesPrefixes == Close(mappings, Outer(mappings),
                          prefixCnt - Len(mappings[Len(mappings)]))

EndElement == Close(mappings, Outer(mappings), prefixCnt)

\* Comments, processing instructions, the XML declaration and the DTD; the
\* last event before MaxEvents is left to the root element.
OtherEvent ==
  /\ NextEvent
  /\ infoset = <<>> => events + 1 < MaxEvents
  /\ UNCHANGED <<phase, open, mappings, prefixCnt, todo, dstAttrs, tags, out,
                 infoset>>

\* hasNext() is false once the root element has been closed.
EndOfInput ==
  /\ phase = "event"
  /\ open = <<>> /\ infoset # <<>>
  /\ phase' = "done"
  /\ UNCHANGED <<open, mappings, prefixCnt, todo, dstAttrs, tags, out, infoset,
                 events>>

\* An XMLStreamException of the reader (the document is not well formed) or
\* of the writer: rethrown as a TransformationException, streams closed.
StreamFault ==
  /\ phase \in {"event", "attributes"}
  /\ phase' = "failed"
  /\ UNCHANGED <<open, mappings, prefixCnt, todo, dstAttrs, tags, out, infoset,
                 events>>

Step ==
  \/ \E text \in Texts : Characters(text)
  \/ \E name \in Elements, attrs \in AttributeLists : StartElement(name, attrs)
  \/ MapAttribute
  \/ WriteAttributes
  \/ EndElement
  \/ OtherEvent
  \/ EndOfInput

Returned == phase \in {"done", "failed", "unmapped"} /\ UNCHANGED vars

\* SmevImportedTransForm.process() takes the same steps; its debug stream,
\* which copies what is written to a log, is left out.
Next == Step \/ StreamFault \/ Returned

\* The thread that called process() keeps running it.  No fault is needed to
\* get to the end of a document.
Spec == Init /\ [][Next]_vars /\ WF_vars(Step)

-----------------------------------------------------------------------------
(* Properties of the mapping stack.                                        *)

Mapping  == [prefix : Nat \ {0}, ns : Nat]
OutEvent == [kind : {"start", "decl", "attr", "text", "end"},
             prefix : Nat, name : Nat]

\* process() stays within its types: a generated prefix is never number 0,
\* which would read as "not found" in findPrefix.
TypeOK ==
  /\ phase \in {"event", "attributes", "done", "failed", "unmapped"}
  /\ open \in Seq(Name)
  /\ mappings \in Seq(Seq(Mapping))
  /\ prefixCnt \in Nat \ {0}
  /\ todo \in Seq(Name)
  /\ dstAttrs \in Seq(OutEvent)
  /\ tags \in Seq([prefix : Nat \ {0}, local : Nat])
  /\ out \in Seq(OutEvent)
  /\ events \in 0..MaxEvents

Injective(stack, cnt) ==
  \A p, q \in Places(stack) :
    LET m == MappingAt(stack, p)
        n == MappingAt(stack, q)
    IN  /\ m.prefix < cnt
        /\ (m.ns = n.ns \/ m.prefix = n.prefix) => p = q

\* In scope, prefixes and namespaces correspond one to one, and no prefix the
\* counter can still generate is taken: "outermost first" in findPrefix and
\* "innermost first" in a reader of the output name the same namespace.
ScopeInjective == Injective(mappings, prefixCnt)

MappedFrom(stack, d, name, tag) ==
  /\ tag.local = name.local
  /\ \E p \in Places(stack) :
       /\ p[1] <= d
       /\ MappingAt(stack, p) = [prefix |-> tag.prefix, ns |-> name.ns]

\* The mapping an element was opened under is in scope until it is closed,
\* on its own level of the stack or further out.
OpenElementsMapped ==
  phase # "unmapped" =>
    /\ Len(mappings) = Len(open) /\ Len(tags) = Len(open)
    /\ \A d \in DOMAIN open : MappedFrom(mappings, d, open[d], tags[d])

\* The "prefix mapping is not found" exception of the end-tag branch is
\* unreachable for every event stream the reader can deliver.
EndAlwaysMapped == phase # "unmapped"

\* An end tag carries the prefix and the local name of the start tag it
\* closes, although it is looked up anew when it is read.
EndTagMatchesStart ==
  [][\A d \in DOMAIN tags :
       Len(tags') < d =>
         /\ d = Len(tags)
         /\ out' = Append(out, Written("end", tags[d].prefix, tags[d].local))]_vars

\* Every document is transformed or refused: the loops come to an end.
Terminates == <>(phase \in {"done", "failed", "unmapped"})
=============================================================================
