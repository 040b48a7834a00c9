------------------------- MODULE SmevTransformProps -------------------------
(***************************************************************************)
(* What a written document means to a namespace-aware XML reader, read off *)
(* its events alone, and the rules of the canonical form that the comments *)
(* of transFromSuckersTest and SmevImportedTransFormTest list.  A property *)
(* here never looks at the mapping stack.                                  *)
(***************************************************************************)
EXTENDS SmevTransform, FiniteSetsExt

Undeclared == -1

At(doc, kind) == {i \in DOMAIN doc : doc[i].kind = kind}

\* How many of the positions S are not behind i.
UpTo(S, i) == Cardinality({k \in S : k <= i})

\* The start tag that the declaration or attribute at i belongs to.
TagOf(doc, i) == Max({s \in At(doc, "start") : s <= i})

Depth(doc, i) == UpTo(At(doc, "start"), i) - UpTo(At(doc, "end"), i)

\* The element whose start tag is at s encloses position i.
Encloses(doc, s, i) == s <= i /\ \A k \in s..(i - 1) : Depth(doc, k) >= Depth(doc, s)

\* The declarations of the prefix at position i that are in force there.
InForce(doc, i) ==
  {j \in At(doc, "decl") : /\ doc[j].prefix = doc[i].prefix
                           /\ Encloses(doc, TagOf(doc, j), i)}

\* The namespace a reader gives that prefix: the innermost declaration wins.
NsAt(doc, i) ==
  IF doc[i].prefix = NoPrefix THEN NoNs
  ELSE IF InForce(doc, i) = {} THEN Undeclared
  ELSE doc[Max(InForce(doc, i))].name

ExpandedName(doc, i) == [ns |-> NsAt(doc, i), local |-> doc[i].name]

AttributesOf(doc, s) == {i \in At(doc, "attr") : TagOf(doc, i) = s}

\* What a reader reports: tags and texts, a start tag with its attributes.
Significant(doc) == {i \in DOMAIN doc : doc[i].kind \notin {"decl", "attr"}}

Reported(doc, i) ==
  Read(doc[i].kind, ExpandedName(doc, i),
       IF doc[i].kind = "start"
       THEN {ExpandedName(doc, j) : j \in AttributesOf(doc, i)} ELSE {})

\* The tags and attributes of its start tag that have the prefix of declaration j.
Uses(doc, j) ==
  {i \in {TagOf(doc, j)} \cup AttributesOf(doc, TagOf(doc, j)) : doc[i].prefix = doc[j].prefix}

-----------------------------------------------------------------------------
\* Prefix rewriting changes no name: read by the namespace rules of XML, the
\* output has the elements, attributes and non-blank text of the input.
SameInfoset ==
  phase \in {"event", "done"} =>
    /\ Len(infoset) = Cardinality(Significant(out))
    /\ \A i \in Significant(out) : infoset[UpTo(Significant(out), i)] = Reported(out, i)

Precedes(x, y) ==
  \/ x.ns # NoNs /\ y.ns = NoNs
  \/ x.ns # NoNs /\ x.ns < y.ns
  \/ x.ns = y.ns /\ x.local < y.local

\* Rule 3 (transFromSuckersTest.kt:197-198, SmevImportedTransFormTest.kt:
\* 175-176): qualified attributes first, by namespace and then local name;
\* unqualified ones after them, by local name.
AttributesSorted ==
  phase \in {"event", "done"} =>
    \A i \in At(out, "attr") : (i + 1) \in At(out, "attr") =>
      Precedes(ExpandedName(out, i), ExpandedName(out, i + 1))

\* Rules 4, 5 and 8: a namespace is declared only where no declaration of it
\* is in force and only if the tag uses it; the declarations of a tag are in
\* the order of first use, the element before its attributes.
DeclarationsCanonical ==
  phase \in {"event", "done"} =>
    \A j \in At(out, "decl") :
      /\ \A k \in At(out, "decl") \ {j} :
           out[k].name = out[j].name => ~Encloses(out, TagOf(out, k), j)
      /\ Uses(out, j) # {}
      /\ \A k \in At(out, "decl") : j < k /\ TagOf(out, k) = TagOf(out, j) =>
           \E first \in Uses(out, j) : \A i \in Uses(out, k) : first < i

\* Rule 6: the prefixes of a document are ns1, ns2, ... in the order of their
\* declarations, so none is ever bound twice, not even in sibling elements.
PrefixesNumbered ==
  \A j \in At(out, "decl") : out[j].prefix = UpTo(At(out, "decl"), j)

\* transFromSuckers.java:136,257: elements in unqualified form are refused,
\* so no prefix is ever declared for the empty namespace.
UnqualifiedRefused == \A i \in At(out, "decl") : out[i].name # NoNs
=============================================================================
