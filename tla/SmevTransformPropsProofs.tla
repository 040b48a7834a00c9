---------------------- MODULE SmevTransformPropsProofs ----------------------
(***************************************************************************)
(* Proofs about SmevTransformProps, for every set of names and texts and   *)
(* every length of document: what a reader makes of the output, and its    *)
(* canonical form.                                                         *)
(***************************************************************************)
EXTENDS SmevTransformProps, SmevTransformProofs, FiniteSetTheorems

\* Declarations and attributes stand behind the start tag they belong to.
TagsKnown(doc) ==
  \A j \in At(doc, "decl") \cup At(doc, "attr") :
    TagOf(doc, j) \in At(doc, "start") /\ TagOf(doc, j) < j

Numbered(doc) == \A j \in At(doc, "decl") : doc[j].prefix = UpTo(At(doc, "decl"), j)

\* From the start tag at s to position n the document is within an element
\* of depth d.
Stands(doc, s, n, d) ==
  s \in At(doc, "start") /\ Depth(doc, s) = d /\ \A k \in s..n : Depth(doc, k) >= d

\* The start tag at s declares the mapping m.
Declares(doc, s, m) ==
  \E j \in At(doc, "decl") : doc[j].prefix = m.prefix /\ doc[j].name = m.ns /\ TagOf(doc, j) = s

\* The mappings of the outer top levels are declared by the start tags of
\* those levels.
LevelsWritten(doc, stack, top) ==
  \A d \in 1..top :
    \E s \in At(doc, "start") :
      Stands(doc, s, Len(doc), d) /\ \A i \in DOMAIN stack[d] : Declares(doc, s, stack[d][i])

\* While the document is written, its depth is that of the reader, and all
\* levels are declared but that of an element whose attributes are being mapped.
LevelsDeclared ==
  /\ phase \in {"event", "attributes"} => Depth(out, Len(out)) = Len(open)
  /\ phase = "event" => LevelsWritten(out, mappings, Len(open))
  /\ phase = "attributes" => LevelsWritten(out, mappings, Len(open) - 1)

\* A declaration that is in force at the end is a mapping of its level.
ForceMapped(doc, stack) ==
  \A j \in At(doc, "decl") :
    Stands(doc, TagOf(doc, j), Len(doc), Depth(doc, TagOf(doc, j))) =>
      \E p \in Places(stack) :
        /\ p[1] = Depth(doc, TagOf(doc, j))
        /\ MappingAt(stack, p) = [prefix |-> doc[j].prefix, ns |-> doc[j].name]

InForceMapped == phase \in {"event", "attributes"} => ForceMapped(out, mappings)

Mine == mappings[Len(mappings)]

\* The counter is ahead of the declarations written by those still to write.
Counted ==
  /\ phase = "event" => prefixCnt = Cardinality(At(out, "decl")) + 1
  /\ phase = "attributes" =>
       /\ prefixCnt = Cardinality(At(out, "decl")) + Len(Mine) + 1
       /\ \A i \in DOMAIN Mine : Mine[i].prefix = Cardinality(At(out, "decl")) + i

\* The attribute w, with a prefix of the stack, stands for the name a.
Means(stack, w, a) ==
  /\ w.kind = "attr" /\ w.name = a.local
  /\ IF a.ns = NoNs THEN w.prefix = NoPrefix
     ELSE \E p \in Places(stack) : MappingAt(stack, p) = [prefix |-> w.prefix, ns |-> a.ns]

\* While the attributes of a tag are mapped, that tag is the last event
\* written, and the names of all its attributes, mapped or not, are those read.
Pending ==
  phase = "attributes" =>
    /\ out # <<>>
    /\ out[Len(out)] = Written("start", tags[Len(open)].prefix, open[Len(open)].local)
    /\ \E all \in [1..(Len(dstAttrs) + Len(todo)) -> Attributes] :
         /\ \A i \in 1..Len(dstAttrs) : Means(mappings, dstAttrs[i], all[i])
         /\ \A i \in 1..Len(todo) : todo[i] = all[Len(dstAttrs) + i]
         /\ infoset[Len(infoset)] = Read("start", open[Len(open)], {all[i] : i \in DOMAIN all})
         /\ Comparator = "transFromSuckers" =>
              \A i \in 1..(Len(dstAttrs) + Len(todo) - 1) : Precedes(all[i], all[i + 1])

\* The prefixes that the tag, at 0, and its attributes use so far.
PrefixUses ==
  [y \in 0..Len(dstAttrs) |-> IF y = 0 THEN tags[Len(tags)].prefix ELSE dstAttrs[y].prefix]

\* Each mapping is used, and before those that follow it.
FirstUses(mine, uses) ==
  \A x \in DOMAIN mine :
    \E y \in DOMAIN uses :
      /\ uses[y] = mine[x].prefix
      /\ \A z \in DOMAIN mine : x < z =>
           \A w \in DOMAIN uses : uses[w] = mine[z].prefix => y < w

UsedInOrder == phase = "attributes" => FirstUses(Mine, PrefixUses)

Reports == [kind : {"start", "text", "end"}, ns : Nat, local : Nat, attrs : SUBSET Name]

\* The reports are those of the document, or all but the last are.
ReadAs(read, doc) ==
  /\ read \in Seq(Reports) /\ Len(read) = Cardinality(Significant(doc))
  /\ \A i \in Significant(doc) : read[UpTo(Significant(doc), i)] = Reported(doc, i)

ReadButLast(read, doc) ==
  /\ read \in Seq(Reports) /\ Len(read) = Cardinality(Significant(doc))
  /\ \A i \in Significant(doc) :
       i < Len(doc) => read[UpTo(Significant(doc), i)] = Reported(doc, i)

\* What is written so far reads as what was read so far, but for a start tag
\* whose attributes are not written yet.
ReadsBack ==
  /\ phase \in {"event", "done"} => ReadAs(infoset, out)
  /\ phase = "attributes" => ReadButLast(infoset, out)

\* Neighbouring attributes are in order.
Sorted(doc) ==
  \A i \in At(doc, "attr") : (i + 1) \in At(doc, "attr") =>
    Precedes(ExpandedName(doc, i), ExpandedName(doc, i + 1))

\* The declaration at j is needed, used, and before those used later.
CanonicalAt(doc, j) ==
  /\ \A k \in At(doc, "decl") \ {j} :
       doc[k].name = doc[j].name => ~Encloses(doc, TagOf(doc, k), j)
  /\ Uses(doc, j) # {}
  /\ \A k \in At(doc, "decl") : j < k /\ TagOf(doc, k) = TagOf(doc, j) =>
       \E first \in Uses(doc, j) : \A i \in Uses(doc, k) : first < i

Canonical(doc) == \A j \in At(doc, "decl") : CanonicalAt(doc, j)

\* The invariant of the output.
OutInv ==
  /\ TagsKnown(out) /\ Numbered(out) /\ Canonical(out)
  /\ Comparator = "transFromSuckers" => Sorted(out)
  /\ LevelsDeclared /\ InForceMapped /\ Counted
  /\ Pending /\ UsedInOrder /\ ReadsBack

------------------------------------------------------------------------------
(* Counting positions.                                                      *)

\* UpTo counts one more at each position of the set.
LEMMA UpToCounts ==
  ASSUME NEW n \in Nat, NEW S \in SUBSET (1..n), NEW i \in Nat
  PROVE  /\ IsFiniteSet(S) /\ Cardinality(S) \in Nat /\ UpTo(S, i) \in Nat
         /\ i + 1 \in S => UpTo(S, i + 1) = UpTo(S, i) + 1
         /\ i + 1 \notin S => UpTo(S, i + 1) = UpTo(S, i)
         /\ n <= i => UpTo(S, i) = Cardinality(S)
<1> DEFINE before == {k \in S : k <= i}
           upto == {k \in S : k <= i + 1}
<1>1. \A k \in S : k \in Int /\ k <= n
  OBVIOUS
<1>2. IsFiniteSet(S) /\ Cardinality(S) \in Nat
  <2>1. IsFiniteSet(1..n)
    BY FS_Interval, 1 \in Int
  <2>2. IsFiniteSet(S)
    BY <2>1, FS_Subset
  <2> QED BY <2>2, FS_CardinalityType
<1>3. IsFiniteSet(before) /\ Cardinality(before) \in Nat
  <2>1. before \in SUBSET S
    OBVIOUS
  <2> QED BY <1>2, <2>1, FS_Subset, FS_CardinalityType
<1>4. i + 1 \notin before
  OBVIOUS
<1>5. ASSUME i + 1 \in S PROVE UpTo(S, i + 1) = UpTo(S, i) + 1
  <2>1. ASSUME NEW k \in S PROVE k <= i + 1 <=> k <= i \/ k = i + 1
    BY <1>1
  <2>2. upto = before \cup {i + 1}
    BY <2>1, <1>5
  <2> HIDE DEF before, upto
  <2>3. Cardinality(before \cup {i + 1}) = Cardinality(before) + 1
    BY <1>3, <1>4, FS_AddElement
  <2>4. Cardinality(upto) = Cardinality(before) + 1
    BY <2>2, <2>3
  <2> QED BY <2>4 DEF UpTo, before, upto
<1>6. ASSUME i + 1 \notin S PROVE UpTo(S, i + 1) = UpTo(S, i)
  <2>1. ASSUME NEW k \in S PROVE k <= i + 1 <=> k <= i
    BY <1>1, <1>6
  <2>2. upto = before
    BY <2>1
  <2> QED BY <2>2 DEF UpTo
<1>7. ASSUME n <= i PROVE UpTo(S, i) = Cardinality(S)
  <2>1. ASSUME NEW k \in S PROVE k <= i
    BY <1>1, <1>7
  <2>2. before = S
    BY <2>1
  <2> QED BY <2>2 DEF UpTo
<1>8. UpTo(S, i) \in Nat
  BY <1>3 DEF UpTo
<1> QED BY <1>2, <1>5, <1>6, <1>7, <1>8

\* It tells the positions of the set apart.
LEMMA UpToIncreases ==
  ASSUME NEW n \in Nat, NEW S \in SUBSET (1..n), NEW i \in Nat, NEW j \in S, i < j
  PROVE  UpTo(S, i) < UpTo(S, j)
<1> DEFINE before == {k \in S : k <= i}
           upto == {k \in S : k <= j}
<1>1. \A k \in S : k \in Int
  OBVIOUS
<1>2. IsFiniteSet(S)
  BY UpToCounts
<1>3. /\ upto \in SUBSET S /\ j \in upto
      /\ \A k \in before : k \in upto /\ k # j
  BY <1>1
<1>4. UpTo(S, i) = Cardinality(before) /\ UpTo(S, j) = Cardinality(upto)
  BY DEF UpTo
<1> HIDE DEF before, upto
<1>5. IsFiniteSet(upto) /\ Cardinality(upto) \in Nat
  BY <1>2, <1>3, FS_Subset, FS_CardinalityType
<1>6. IsFiniteSet(upto \ {j}) /\ Cardinality(upto \ {j}) = Cardinality(upto) - 1
  BY <1>3, <1>5, FS_RemoveElement
<1>7. before \in SUBSET (upto \ {j})
  BY <1>3
<1>8. Cardinality(before) <= Cardinality(upto \ {j}) /\ Cardinality(before) \in Nat
  BY <1>6, <1>7, FS_Subset, FS_CardinalityType
<1> QED BY <1>4, <1>5, <1>6, <1>8

\* It only depends on the positions up to i.
LEMMA UpToSame ==
  ASSUME NEW S, NEW T, NEW i, \A k : k \in S /\ k <= i <=> k \in T /\ k <= i
  PROVE  UpTo(S, i) = UpTo(T, i)
<1>1. {k \in S : k <= i} = {k \in T : k <= i}
  OBVIOUS
<1> QED BY <1>1 DEF UpTo

\* The greatest element of a set of numbers.
LEMMA MaxIs ==
  ASSUME NEW S \in SUBSET Int, NEW x \in S, \A y \in S : y <= x
  PROVE  Max(S) = x
<1>1. \A y \in S : x >= y
  OBVIOUS
<1>2. \A z \in S : (\A y \in S : z >= y) => z = x
  OBVIOUS
<1> QED BY <1>1, <1>2 DEF Max

------------------------------------------------------------------------------
(* A document and the one it is the beginning of.                           *)

Docs == Seq(OutEvent)

Extends(big, doc) == Len(doc) <= Len(big) /\ \A i \in 1..Len(doc) : big[i] = doc[i]

\* Positions of a document.
LEMMA Positions ==
  ASSUME NEW doc \in Docs
  PROVE  /\ Len(doc) \in Nat /\ DOMAIN doc = 1..Len(doc)
         /\ \A kind : At(doc, kind) \in SUBSET (1..Len(doc))
         /\ Significant(doc) \in SUBSET (1..Len(doc))
         /\ \A i \in Nat : Depth(doc, i) \in Int
         /\ \A i \in 1..Len(doc) : /\ doc[i].kind \in {"start", "decl", "attr", "text", "end"}
                                   /\ doc[i].prefix \in Nat /\ doc[i].name \in Nat
<1>1. Len(doc) \in Nat /\ DOMAIN doc = 1..Len(doc)
  BY DEF Docs
<1>2. /\ \A kind : At(doc, kind) \in SUBSET (1..Len(doc))
      /\ Significant(doc) \in SUBSET (1..Len(doc))
  BY <1>1 DEF At, Significant
<1>3. ASSUME NEW i \in Nat PROVE Depth(doc, i) \in Int
  <2>1. UpTo(At(doc, "start"), i) \in Nat /\ UpTo(At(doc, "end"), i) \in Nat
    BY <1>1, <1>2, UpToCounts
  <2> QED BY <2>1 DEF Depth
<1>4. ASSUME NEW i \in 1..Len(doc)
      PROVE  /\ doc[i].kind \in {"start", "decl", "attr", "text", "end"}
             /\ doc[i].prefix \in Nat /\ doc[i].name \in Nat
  <2>1. doc[i] \in OutEvent
    BY ElementOfSeq DEF Docs
  <2> QED BY <2>1 DEF OutEvent
<1> QED BY <1>1, <1>2, <1>3, <1>4

\* Depth steps up at start tags and down at end tags.
LEMMA DepthSteps ==
  ASSUME NEW doc \in Docs, NEW i \in Nat
  PROVE  Depth(doc, i + 1) = Depth(doc, i) + (IF i + 1 \in At(doc, "start") THEN 1 ELSE 0)
                                           - (IF i + 1 \in At(doc, "end") THEN 1 ELSE 0)
<1> DEFINE S == At(doc, "start")
           E == At(doc, "end")
<1>1. Len(doc) \in Nat /\ S \in SUBSET (1..Len(doc)) /\ E \in SUBSET (1..Len(doc))
  BY Positions
<1> HIDE DEF S, E
<1> DEFINE n == Len(doc)
<1> HIDE DEF n
<1>2. /\ UpTo(S, i) \in Nat
      /\ i + 1 \in S => UpTo(S, i + 1) = UpTo(S, i) + 1
      /\ i + 1 \notin S => UpTo(S, i + 1) = UpTo(S, i)
  <2>1. n \in Nat /\ S \in SUBSET (1..n)
    BY <1>1 DEF n
  <2> QED BY <2>1, UpToCounts
<1>3. /\ UpTo(E, i) \in Nat
      /\ i + 1 \in E => UpTo(E, i + 1) = UpTo(E, i) + 1
      /\ i + 1 \notin E => UpTo(E, i + 1) = UpTo(E, i)
  <2>1. n \in Nat /\ E \in SUBSET (1..n)
    BY <1>1 DEF n
  <2> QED BY <2>1, UpToCounts
<1>4. /\ Depth(doc, i) = UpTo(S, i) - UpTo(E, i)
      /\ Depth(doc, i + 1) = UpTo(S, i + 1) - UpTo(E, i + 1)
  BY DEF Depth, S, E
<1>5. Depth(doc, i + 1) = Depth(doc, i) + (IF i + 1 \in S THEN 1 ELSE 0)
                                        - (IF i + 1 \in E THEN 1 ELSE 0)
  BY <1>2, <1>3, <1>4
<1> QED BY <1>5 DEF S, E

\* What is said of a position does not depend on what follows it.
LEMMA OlderPart ==
  ASSUME NEW doc \in Docs, NEW big \in Docs, Extends(big, doc)
  PROVE  /\ \A kind : \A i \in 1..Len(doc) : i \in At(big, kind) <=> i \in At(doc, kind)
         /\ \A kind : At(doc, kind) \subseteq At(big, kind)
         /\ \A i \in 1..Len(doc) : i \in Significant(big) <=> i \in Significant(doc)
         /\ \A i \in 0..Len(doc) : Depth(big, i) = Depth(doc, i)
         /\ \A i \in 1..Len(doc) : TagOf(big, i) = TagOf(doc, i)
         /\ \A i \in 1..Len(doc) : \A s \in 1..Len(doc) :
              Encloses(big, s, i) <=> Encloses(doc, s, i)
<1>1. /\ Len(doc) \in Nat /\ DOMAIN doc = 1..Len(doc)
      /\ Len(big) \in Nat /\ DOMAIN big = 1..Len(big) /\ Len(doc) <= Len(big)
      /\ \A i \in 1..Len(doc) : big[i] = doc[i]
  BY Positions DEF Extends
<1>2. /\ \A kind : \A i \in 1..Len(doc) : i \in At(big, kind) <=> i \in At(doc, kind)
      /\ \A i \in 1..Len(doc) : i \in Significant(big) <=> i \in Significant(doc)
  BY <1>1 DEF At, Significant
<1>3. \A kind : At(doc, kind) \subseteq At(big, kind)
  BY <1>2, Positions
<1>4. ASSUME NEW kind, NEW i \in 0..Len(doc)
      PROVE  \A k : k \in At(big, kind) /\ k <= i <=> k \in At(doc, kind) /\ k <= i
  <2>1. \A k \in At(big, kind) : k \in 1..Len(big)
    BY Positions
  <2>2. \A k \in At(doc, kind) : k \in 1..Len(doc)
    BY Positions
  <2> QED BY <1>1, <1>2, <2>1, <2>2
<1>5. ASSUME NEW i \in 0..Len(doc) PROVE Depth(big, i) = Depth(doc, i)
  BY <1>4, UpToSame DEF Depth
<1>6. ASSUME NEW i \in 1..Len(doc) PROVE TagOf(big, i) = TagOf(doc, i)
  <2>1. i \in 0..Len(doc)
    BY <1>1
  <2>2. {s \in At(big, "start") : s <= i} = {s \in At(doc, "start") : s <= i}
    BY <1>4, <2>1
  <2> QED BY <2>2 DEF TagOf
<1>7. ASSUME NEW i \in 1..Len(doc), NEW s \in 1..Len(doc)
      PROVE  Encloses(big, s, i) <=> Encloses(doc, s, i)
  <2>1. \A k \in s..(i - 1) : k \in 0..Len(doc)
    BY <1>1
  <2>2. s \in 0..Len(doc)
    BY <1>1
  <2> QED BY <1>5, <2>1, <2>2 DEF Encloses
<1> QED BY <1>2, <1>3, <1>5, <1>6, <1>7


------------------------------------------------------------------------------
(* What a longer document says of the older part.                           *)

\* No two declarations have the same prefix.
LEMMA SamePrefix ==
  ASSUME NEW doc \in Docs, Numbered(doc), NEW j \in At(doc, "decl"),
         NEW k \in At(doc, "decl"), doc[j].prefix = doc[k].prefix
  PROVE  j = k
<1> DEFINE n == Len(doc)
           S == At(doc, "decl")
<1>1. n \in Nat /\ S \in SUBSET (1..n) /\ j \in S /\ k \in S
  BY Positions
<1>2. UpTo(S, k) = UpTo(S, j)
  BY DEF Numbered
<1>3. k \in Nat /\ j \in Nat
  BY <1>1
<1> HIDE DEF n, S
<1>4. UpTo(S, j) \in Nat
  BY <1>1, <1>3, UpToCounts
<1>5. ~(k < j)
  <2> SUFFICES ASSUME k < j PROVE FALSE
    OBVIOUS
  <2>1. UpTo(S, k) < UpTo(S, j)
    BY <1>1, <1>3, UpToIncreases
  <2> QED BY <2>1, <1>2, <1>4
<1>6. ~(j < k)
  <2> SUFFICES ASSUME j < k PROVE FALSE
    OBVIOUS
  <2>1. UpTo(S, j) < UpTo(S, k)
    BY <1>1, <1>3, UpToIncreases
  <2> QED BY <2>1, <1>2, <1>4
<1> QED BY <1>3, <1>5, <1>6

\* A declaration that is in force gives the prefix its meaning.
LEMMA MeaningOf ==
  ASSUME NEW doc \in Docs, Numbered(doc), NEW i, NEW j \in InForce(doc, i)
  PROVE  NsAt(doc, i) = doc[j].name
<1> DEFINE n == Len(doc)
           S == At(doc, "decl")
<1>1. j \in S /\ doc[j].prefix = doc[i].prefix
  BY DEF InForce
<1>2. n \in Nat /\ S \in SUBSET (1..n) /\ j \in S /\ j \in 1..n
  BY <1>1, Positions
<1>3. ASSUME NEW k \in InForce(doc, i) PROVE k = j
  BY <1>1, <1>3, SamePrefix DEF InForce
<1>4. doc[i].prefix # NoPrefix
  <2>1. doc[i].prefix = UpTo(S, j)
    BY <1>1 DEF Numbered
  <2> HIDE DEF n, S
  <2>2. 0 \in Nat /\ 0 < j
    BY <1>2
  <2>3. UpTo(S, 0) \in Nat /\ UpTo(S, 0) < UpTo(S, j)
    BY <1>2, <2>2, UpToCounts, UpToIncreases
  <2> QED BY <2>1, <2>3 DEF NoPrefix
<1>5. Max(InForce(doc, i)) = j
  <2>1. InForce(doc, i) = {j} /\ j \in Int
    <3>1. j \in Int
      BY <1>2
    <3> QED BY <3>1, <1>3
  <2>2. {j} \in SUBSET Int /\ \A y \in {j} : y <= j
    BY <2>1
  <2>3. Max({j}) = j
    BY <2>2, MaxIs
  <2> QED BY <2>1, <2>3
<1> QED BY <1>4, <1>5 DEF NsAt

\* Declarations and attributes of doc are not behind m, and those behind doc
\* belong to tags behind m.
Settled(big, doc, m) ==
  /\ \A j \in At(doc, "decl") \cup At(doc, "attr") : j <= m
  /\ \A j \in At(big, "decl") \cup At(big, "attr") : Len(doc) < j => m < TagOf(big, j)

\* Up to m names mean the same, and tags have the same attributes.
LEMMA OlderNames ==
  ASSUME NEW doc \in Docs, NEW big \in Docs, Extends(big, doc),
         TagsKnown(doc), TagsKnown(big), Numbered(doc), Numbered(big),
         NEW m \in 0..Len(doc), Settled(big, doc, m)
  PROVE  /\ \A i \in 1..m : ExpandedName(big, i) = ExpandedName(doc, i)
         /\ \A s \in 1..m : AttributesOf(big, s) = AttributesOf(doc, s)
<1>1. /\ Len(doc) \in Nat /\ Len(big) \in Nat /\ DOMAIN big = 1..Len(big)
      /\ \A i \in 1..Len(doc) : big[i] = doc[i]
      /\ \A k \in 1..m : k \in 1..Len(doc)
  BY Positions DEF Extends
<1>2. ASSUME NEW kind \in {"decl", "attr"}, NEW j \in At(doc, kind)
      PROVE  /\ j \in At(big, kind) /\ j \in 1..Len(doc) /\ j <= m
             /\ TagOf(big, j) = TagOf(doc, j) /\ TagOf(doc, j) \in 1..Len(doc)
  <2>1. j \in At(big, kind) /\ j \in 1..Len(doc) /\ j <= m
    BY OlderPart, Positions DEF Settled
  <2>2. TagOf(big, j) = TagOf(doc, j)
    BY <2>1, OlderPart
  <2>3. TagOf(doc, j) \in At(doc, "start")
    BY DEF TagsKnown
  <2>4. TagOf(doc, j) \in 1..Len(doc)
    BY <2>3, Positions
  <2> QED BY <2>1, <2>2, <2>4
<1>3. ASSUME NEW kind \in {"decl", "attr"}, NEW j \in At(big, kind), ~(m < TagOf(big, j))
      PROVE  j \in At(doc, kind)
  <2>1. j \in 1..Len(big) /\ ~(Len(doc) < j)
    BY <1>1, <1>3, Positions DEF Settled
  <2>2. j \in 1..Len(doc)
    BY <1>1, <2>1
  <2> QED BY <2>2, OlderPart
<1>4. ASSUME NEW i \in 1..m PROVE InForce(big, i) = InForce(doc, i)
  <2>1. ASSUME NEW j \in InForce(big, i) PROVE j \in InForce(doc, i)
    <3>1. /\ j \in At(big, "decl") /\ big[j].prefix = big[i].prefix
          /\ Encloses(big, TagOf(big, j), i) /\ TagOf(big, j) <= i
      BY <2>1 DEF InForce, Encloses
    <3>2. j \in At(doc, "decl")
      <4>1. CASE m < TagOf(big, j)
        <5>1. TagOf(big, j) \in 1..Len(big)
          <6>1. TagOf(big, j) \in At(big, "start")
            BY <3>1 DEF TagsKnown
          <6> QED BY <6>1, Positions
        <5> QED BY <3>1, <4>1, <5>1, <1>1
      <4> QED BY <4>1, <3>1, <1>3
    <3>3. /\ j \in 1..Len(doc) /\ i \in 1..Len(doc)
          /\ TagOf(big, j) = TagOf(doc, j) /\ TagOf(doc, j) \in 1..Len(doc)
      BY <1>1, <1>2, <3>2
    <3>4. Encloses(doc, TagOf(doc, j), i)
      BY <3>1, <3>3, OlderPart
    <3>5. doc[j].prefix = doc[i].prefix
      BY <3>1, <3>3, <1>1
    <3> QED BY <3>2, <3>4, <3>5 DEF InForce
  <2>2. ASSUME NEW j \in InForce(doc, i) PROVE j \in InForce(big, i)
    <3>1. /\ j \in At(doc, "decl") /\ doc[j].prefix = doc[i].prefix
          /\ Encloses(doc, TagOf(doc, j), i)
      BY <2>2 DEF InForce
    <3>2. /\ j \in At(big, "decl") /\ j \in 1..Len(doc) /\ i \in 1..Len(doc)
          /\ TagOf(big, j) = TagOf(doc, j) /\ TagOf(doc, j) \in 1..Len(doc)
      BY <1>1, <1>2, <3>1
    <3>3. Encloses(big, TagOf(big, j), i)
      BY <3>1, <3>2, OlderPart
    <3>4. big[j].prefix = big[i].prefix
      BY <3>1, <3>2, <1>1
    <3> QED BY <3>2, <3>3, <3>4 DEF InForce
  <2> QED BY <2>1, <2>2
<1>5. ASSUME NEW i \in 1..m PROVE ExpandedName(big, i) = ExpandedName(doc, i)
  <2>1. big[i] = doc[i] /\ InForce(big, i) = InForce(doc, i)
    BY <1>1, <1>4
  <2>2. NsAt(big, i) = NsAt(doc, i)
    <3>1. CASE InForce(doc, i) = {}
      BY <2>1, <3>1 DEF NsAt
    <3>2. CASE InForce(doc, i) # {}
      <4>1. PICK j \in InForce(doc, i) : TRUE
        BY <3>2
      <4>2. j \in 1..Len(doc) /\ j \in InForce(big, i)
        BY <4>1, <2>1, <1>2 DEF InForce
      <4>3. NsAt(doc, i) = doc[j].name /\ NsAt(big, i) = big[j].name
        BY <4>1, <4>2, MeaningOf
      <4> QED BY <4>2, <4>3, <1>1
    <3> QED BY <3>1, <3>2
  <2> QED BY <2>1, <2>2 DEF ExpandedName
<1>6. ASSUME NEW s \in 1..m PROVE AttributesOf(big, s) = AttributesOf(doc, s)
  <2>1. ASSUME NEW i \in AttributesOf(big, s) PROVE i \in AttributesOf(doc, s)
    <3>1. i \in At(big, "attr") /\ TagOf(big, i) = s
      BY <2>1 DEF AttributesOf
    <3>2. i \in At(doc, "attr")
      BY <3>1, <1>1, <1>3
    <3> QED BY <3>1, <3>2, <1>2 DEF AttributesOf
  <2>2. ASSUME NEW i \in AttributesOf(doc, s) PROVE i \in AttributesOf(big, s)
    BY <2>2, <1>2 DEF AttributesOf
  <2> QED BY <2>1, <2>2
<1> QED BY <1>5, <1>6

\* A start tag reads as before, a declaration is as canonical as before, and
\* neighbouring attributes are still in order.
LEMMA OlderReading ==
  ASSUME NEW doc \in Docs, NEW big \in Docs, Extends(big, doc),
         TagsKnown(doc), TagsKnown(big), Numbered(doc), Numbered(big),
         NEW m \in 0..Len(doc), Settled(big, doc, m)
  PROVE  /\ \A i \in 1..m : Reported(big, i) = Reported(doc, i)
         /\ \A j \in At(doc, "decl") : CanonicalAt(doc, j) => CanonicalAt(big, j)
         /\ \A i \in At(doc, "attr") : (i + 1) \in At(doc, "attr") =>
              ExpandedName(big, i) = ExpandedName(doc, i)
              /\ ExpandedName(big, i + 1) = ExpandedName(doc, i + 1)
<1>1. /\ Len(doc) \in Nat /\ Len(big) \in Nat /\ DOMAIN big = 1..Len(big)
      /\ \A i \in 1..Len(doc) : big[i] = doc[i]
      /\ \A k \in 1..m : k \in 1..Len(doc)
  BY Positions DEF Extends
<1>2. /\ \A i \in 1..m : ExpandedName(big, i) = ExpandedName(doc, i)
      /\ \A s \in 1..m : AttributesOf(big, s) = AttributesOf(doc, s)
  BY OlderNames
<1>3. ASSUME NEW kind \in {"decl", "attr"}, NEW j \in At(doc, kind)
      PROVE  /\ j \in 1..m /\ j \in At(big, kind) /\ TagOf(big, j) = TagOf(doc, j)
             /\ TagOf(doc, j) \in 1..m /\ TagOf(doc, j) < j
  <2>1. j \in 1..Len(doc) /\ j <= m /\ j \in At(big, kind)
    BY Positions, OlderPart DEF Settled
  <2>2. TagOf(doc, j) \in At(doc, "start") /\ TagOf(doc, j) < j
    BY DEF TagsKnown
  <2>3. TagOf(doc, j) \in 1..Len(doc)
    BY <2>2, Positions
  <2>4. TagOf(big, j) = TagOf(doc, j)
    BY <2>1, OlderPart
  <2> QED BY <1>1, <2>1, <2>2, <2>3, <2>4
<1>4. ASSUME NEW i \in 1..m PROVE Reported(big, i) = Reported(doc, i)
  <2>1. big[i] = doc[i] /\ AttributesOf(big, i) = AttributesOf(doc, i)
    BY <1>1, <1>2
  <2>2. ASSUME NEW j \in AttributesOf(doc, i)
        PROVE  ExpandedName(big, j) = ExpandedName(doc, j)
    BY <1>2, <1>3, <2>2 DEF AttributesOf
  <2>3. {ExpandedName(big, j) : j \in AttributesOf(big, i)}
          = {ExpandedName(doc, j) : j \in AttributesOf(doc, i)}
    BY <2>1, <2>2
  <2> QED BY <2>1, <2>3, <1>2 DEF Reported
<1>5. ASSUME NEW j \in At(doc, "decl") PROVE Uses(big, j) = Uses(doc, j)
  <2>1. /\ TagOf(big, j) = TagOf(doc, j) /\ TagOf(doc, j) \in 1..m
        /\ big[j] = doc[j]
    BY <1>1, <1>3
  <2>2. AttributesOf(big, TagOf(big, j)) = AttributesOf(doc, TagOf(doc, j))
    BY <2>1, <1>2
  <2>3. ASSUME NEW i \in {TagOf(doc, j)} \cup AttributesOf(doc, TagOf(doc, j))
        PROVE  big[i] = doc[i]
    BY <2>1, <1>1, <1>3, <2>3 DEF AttributesOf
  <2> QED BY <2>1, <2>2, <2>3 DEF Uses
<1>6. ASSUME NEW k \in At(big, "decl"), ~(m < TagOf(big, k)) PROVE k \in At(doc, "decl")
  <2>1. k \in 1..Len(big) /\ ~(Len(doc) < k)
    BY <1>1, <1>6, Positions DEF Settled
  <2>2. k \in 1..Len(doc)
    BY <1>1, <2>1
  <2> QED BY <2>2, OlderPart
<1>7. ASSUME NEW j \in At(doc, "decl"), CanonicalAt(doc, j) PROVE CanonicalAt(big, j)
  <2>1. /\ j \in 1..m /\ TagOf(big, j) = TagOf(doc, j) /\ TagOf(doc, j) \in 1..m
        /\ j \in 1..Len(doc) /\ big[j] = doc[j]
    BY <1>1, <1>3
  <2>2. ASSUME NEW k \in At(big, "decl") \ {j}, big[k].name = big[j].name,
               Encloses(big, TagOf(big, k), j)
        PROVE  FALSE
    <3>1. TagOf(big, k) \in 1..Len(big) /\ TagOf(big, k) <= j
      <4>1. TagOf(big, k) \in At(big, "start")
        BY DEF TagsKnown
      <4> QED BY <4>1, <2>2, Positions DEF Encloses
    <3>2. k \in At(doc, "decl")
      BY <3>1, <2>1, <1>1, <1>6
    <3>3. /\ TagOf(big, k) = TagOf(doc, k) /\ TagOf(doc, k) \in 1..Len(doc)
          /\ k \in 1..Len(doc) /\ big[k] = doc[k]
      BY <3>2, <1>1, <1>3
    <3>4. Encloses(doc, TagOf(doc, k), j)
      BY <2>2, <3>3, <2>1, OlderPart
    <3> QED BY <3>2, <3>3, <3>4, <2>1, <2>2, <1>7 DEF CanonicalAt
  <2>3. Uses(big, j) = Uses(doc, j) /\ Uses(doc, j) # {}
    BY <1>5, <1>7 DEF CanonicalAt
  <2>4. ASSUME NEW k \in At(big, "decl"), j < k, TagOf(big, k) = TagOf(big, j)
        PROVE  \E first \in Uses(big, j) : \A i \in Uses(big, k) : first < i
    <3>1. k \in At(doc, "decl")
      BY <2>1, <2>4, <1>1, <1>6
    <3>2. TagOf(doc, k) = TagOf(doc, j)
      BY <3>1, <2>1, <2>4, <1>3
    <3>3. Uses(big, k) = Uses(doc, k)
      BY <3>1, <1>5
    <3>4. \E first \in Uses(doc, j) : \A i \in Uses(doc, k) : first < i
      BY <3>1, <3>2, <2>4, <1>7 DEF CanonicalAt
    <3> QED BY <3>3, <3>4, <2>3
  <2> QED BY <2>2, <2>3, <2>4 DEF CanonicalAt
<1>8. ASSUME NEW i \in At(doc, "attr"), (i + 1) \in At(doc, "attr")
      PROVE  /\ ExpandedName(big, i) = ExpandedName(doc, i)
             /\ ExpandedName(big, i + 1) = ExpandedName(doc, i + 1)
  <2>1. i \in 1..m /\ i + 1 \in 1..m
    BY <1>3, <1>8
  <2> QED BY <2>1, <1>2
<1> QED BY <1>4, <1>7, <1>8

\* big is the document doc with a tag or a text written behind it.
Longer(big, doc, e) ==
  /\ doc \in Docs /\ TagsKnown(doc) /\ Numbered(doc)
  /\ e \in OutEvent /\ e.kind \in {"start", "text", "end"}
  /\ big = Append(doc, e)

\* Such a document is as well-formed as the one before.
LEMMA OneMore ==
  ASSUME NEW doc, NEW e, NEW big, Longer(big, doc, e)
  PROVE  /\ big \in Docs /\ Len(big) = Len(doc) + 1 /\ big[Len(doc) + 1] = e
         /\ Extends(big, doc) /\ Settled(big, doc, Len(doc))
         /\ \A kind \in {"decl", "attr"} : At(big, kind) = At(doc, kind)
         /\ TagsKnown(big) /\ Numbered(big)
         /\ Canonical(doc) => Canonical(big)
         /\ Sorted(doc) => Sorted(big)
<1> DEFINE n == Len(doc)
<1>1. /\ doc \in Docs /\ TagsKnown(doc) /\ Numbered(doc)
      /\ e \in OutEvent /\ e.kind \in {"start", "text", "end"} /\ big = Append(doc, e)
  BY DEF Longer
<1>2. /\ n \in Nat /\ Len(big) = n + 1 /\ big[n + 1] = e /\ big \in Docs
      /\ \A i \in 1..n : big[i] = doc[i]
  BY <1>1, AppendProperties DEF Docs
<1>3. Extends(big, doc)
  BY <1>2 DEF Extends
<1>4. ASSUME NEW kind \in {"decl", "attr"} PROVE At(big, kind) = At(doc, kind)
  <2>1. ASSUME NEW i \in At(big, kind) PROVE i \in At(doc, kind)
    <3>1. i \in 1..(n + 1) /\ big[i].kind = kind
      BY <1>1, <1>2, <2>1, Positions DEF At
    <3>2. i # n + 1
      BY <3>1, <1>1, <1>2
    <3>3. i \in 1..n
      BY <3>1, <3>2, <1>2
    <3> QED BY <3>3, <2>1, <1>1, <1>2, <1>3, OlderPart
  <2>2. At(doc, kind) \subseteq At(big, kind)
    BY <1>1, <1>2, <1>3, OlderPart
  <2> QED BY <2>1, <2>2
<1>5. \A kind : At(doc, kind) \in SUBSET (1..n)
  BY <1>1, Positions
<1>6. Settled(big, doc, n)
  BY <1>1, <1>2, <1>4, <1>5 DEF Settled
<1>7. TagsKnown(big)
  <2> SUFFICES ASSUME NEW j \in At(doc, "decl") \cup At(doc, "attr")
      PROVE  TagOf(big, j) \in At(big, "start") /\ TagOf(big, j) < j
    BY <1>4 DEF TagsKnown
  <2>1. TagOf(doc, j) \in At(doc, "start") /\ TagOf(doc, j) < j /\ j \in 1..n
    BY <1>1, <1>5 DEF TagsKnown
  <2>2. TagOf(big, j) = TagOf(doc, j)
    BY <2>1, <1>1, <1>2, <1>3, OlderPart
  <2> QED BY <2>1, <2>2, <1>1, <1>2, <1>3, OlderPart
<1>8. Numbered(big)
  <2> SUFFICES ASSUME NEW j \in At(doc, "decl")
      PROVE  big[j].prefix = UpTo(At(doc, "decl"), j)
    BY <1>4 DEF Numbered
  <2>1. j \in 1..n
    BY <1>5
  <2> QED BY <2>1, <1>1, <1>2 DEF Numbered
<1>9. n \in 0..n
  BY <1>2
<1>10. Canonical(doc) => Canonical(big)
  BY <1>1, <1>2, <1>3, <1>4, <1>6, <1>7, <1>8, <1>9, OlderReading DEF Canonical
<1>11. Sorted(doc) => Sorted(big)
  BY <1>1, <1>2, <1>3, <1>4, <1>6, <1>7, <1>8, <1>9, OlderReading DEF Sorted
<1> QED BY <1>2, <1>3, <1>4, <1>6, <1>7, <1>8, <1>10, <1>11

\* Its depth.
LEMMA OneMoreDepth ==
  ASSUME NEW doc, NEW e, NEW big, Longer(big, doc, e)
  PROVE  /\ Depth(doc, Len(doc)) \in Int
         /\ e.kind = "start" => Depth(big, Len(doc) + 1) = Depth(doc, Len(doc)) + 1
         /\ e.kind = "text" => Depth(big, Len(doc) + 1) = Depth(doc, Len(doc))
         /\ e.kind = "end" => Depth(big, Len(doc) + 1) = Depth(doc, Len(doc)) - 1
<1> DEFINE n == Len(doc)
<1>1. /\ n \in Nat /\ doc \in Docs /\ big \in Docs /\ Len(big) = n + 1 /\ big[n + 1] = e
      /\ Extends(big, doc)
  BY OneMore, Positions DEF Longer
<1>2. /\ n + 1 \in At(big, "start") <=> e.kind = "start"
      /\ n + 1 \in At(big, "end") <=> e.kind = "end"
  BY <1>1, Positions DEF At
<1>3. Depth(big, n + 1) = Depth(big, n) + (IF n + 1 \in At(big, "start") THEN 1 ELSE 0)
                                        - (IF n + 1 \in At(big, "end") THEN 1 ELSE 0)
  BY <1>1, DepthSteps
<1>4. Depth(big, n) = Depth(doc, n) /\ Depth(doc, n) \in Int
  <2>1. n \in 0..n
    BY <1>1
  <2> QED BY <2>1, <1>1, OlderPart, Positions
<1> QED BY <1>2, <1>3, <1>4

\* What is reported of it.
LEMMA OneMoreReads ==
  ASSUME NEW doc, NEW e, NEW big, Longer(big, doc, e)
  PROVE  /\ Significant(big) = Significant(doc) \cup {Len(doc) + 1}
         /\ Cardinality(Significant(doc)) \in Nat
         /\ Cardinality(Significant(big)) = Cardinality(Significant(doc)) + 1
         /\ UpTo(Significant(big), Len(doc) + 1) = Cardinality(Significant(doc)) + 1
         /\ \A i \in Significant(doc) :
              /\ i \in 1..Len(doc)
              /\ UpTo(Significant(big), i) = UpTo(Significant(doc), i)
              /\ UpTo(Significant(doc), i) \in 1..Cardinality(Significant(doc))
              /\ Reported(big, i) = Reported(doc, i)
<1> DEFINE n == Len(doc)
           S == Significant(doc)
           T == Significant(big)
<1>1. /\ n \in Nat /\ doc \in Docs /\ big \in Docs /\ Len(big) = n + 1 /\ big[n + 1] = e
      /\ Extends(big, doc) /\ Settled(big, doc, n) /\ n \in 0..n
      /\ TagsKnown(big) /\ Numbered(big) /\ TagsKnown(doc) /\ Numbered(doc)
      /\ e.kind \notin {"decl", "attr"}
  <2>1. /\ doc \in Docs /\ TagsKnown(doc) /\ Numbered(doc) /\ e.kind \notin {"decl", "attr"}
    BY DEF Longer
  <2>2. n \in Nat /\ n \in 0..n
    BY <2>1 DEF Docs
  <2>3. /\ big \in Docs /\ Len(big) = n + 1 /\ big[n + 1] = e
        /\ Extends(big, doc) /\ Settled(big, doc, n)
        /\ TagsKnown(big) /\ Numbered(big)
    BY OneMore
  <2> QED BY <2>1, <2>2, <2>3
<1>2. /\ S \in SUBSET (1..n) /\ T \in SUBSET (1..(n + 1))
      /\ n + 1 \in T
      /\ \A i \in 1..n : i \in T <=> i \in S
  BY <1>1, Positions, OlderPart DEF Significant
<1>3. T = S \cup {n + 1} /\ n + 1 \notin S
  BY <1>1, <1>2
<1>4. \A i \in S : i \in 1..n /\ Reported(big, i) = Reported(doc, i)
  BY <1>1, <1>2, OlderReading
<1> HIDE DEF n, S, T
<1>5. /\ IsFiniteSet(S) /\ Cardinality(S) \in Nat /\ UpTo(S, n) = Cardinality(S)
  BY <1>1, <1>2, UpToCounts
<1>6. ASSUME NEW i \in S PROVE UpTo(S, i) \in 1..Cardinality(S)
  <2>1. i \in Nat /\ 0 < i /\ i <= n
    BY <1>1, <1>2
  <2>2. UpTo(S, i) \in Nat /\ UpTo(S, 0) \in Nat /\ UpTo(S, 0) < UpTo(S, i)
    BY <1>1, <1>2, <2>1, UpToCounts, UpToIncreases
  <2>3. UpTo(S, i) <= Cardinality(S)
    <3>1. {k \in S : k <= i} \in SUBSET S
      OBVIOUS
    <3>2. Cardinality({k \in S : k <= i}) <= Cardinality(S)
      BY <1>5, <3>1, FS_Subset
    <3> QED BY <3>2 DEF UpTo
  <2> QED BY <2>2, <2>3, <1>5
<1>7. ASSUME NEW i \in 0..n PROVE UpTo(T, i) = UpTo(S, i)
  <2>1. ~(n + 1 <= i)
    BY <1>1
  <2>2. \A k : k \in T /\ k <= i <=> k \in S /\ k <= i
    BY <1>3, <2>1
  <2> QED BY <2>2, UpToSame
<1>8. UpTo(T, n + 1) = Cardinality(S) + 1 /\ Cardinality(T) = Cardinality(S) + 1
  <2> DEFINE k == n + 1
  <2>1. k \in Nat /\ T \in SUBSET (1..k) /\ n \in 0..n /\ k <= n + 1
    BY <1>1, <1>2
  <2> HIDE DEF k
  <2>2. UpTo(T, n + 1) = UpTo(T, n) + 1
    BY <1>1, <1>2, <2>1, UpToCounts
  <2>3. UpTo(T, n + 1) = Cardinality(T)
    BY <1>1, <2>1, UpToCounts
  <2> QED BY <2>1, <2>2, <2>3, <1>5, <1>7
<1>9. \A i \in S : UpTo(T, i) = UpTo(S, i)
  <2>1. \A i \in S : i \in 0..n
    BY <1>1, <1>2
  <2> QED BY <1>7, <2>1
<1> QED BY <1>3, <1>4, <1>5, <1>6, <1>8, <1>9 DEF n, S, T

------------------------------------------------------------------------------
(* A start tag completed: its declarations and attributes written behind it. *)

Block(big, doc, mine, attrs) ==
  /\ doc \in Docs /\ doc # <<>> /\ doc[Len(doc)].kind = "start"
  /\ TagsKnown(doc) /\ Numbered(doc)
  /\ mine \in Seq(Mapping) /\ attrs \in Docs
  /\ \A x \in 1..Len(mine) : mine[x].prefix = Cardinality(At(doc, "decl")) + x
  /\ \A y \in 1..Len(attrs) : attrs[y].kind = "attr"
  /\ big \in Docs /\ Len(big) = Len(doc) + Len(mine) + Len(attrs)
  /\ Extends(big, doc)
  /\ \A x \in 1..Len(mine) :
       big[Len(doc) + x] = Written("decl", mine[x].prefix, mine[x].ns)
  /\ \A y \in 1..Len(attrs) : big[Len(doc) + Len(mine) + y] = attrs[y]

\* Concatenation makes one.
LEMMA BlockWritten ==
  ASSUME NEW doc \in Docs, doc # <<>>, doc[Len(doc)].kind = "start",
         TagsKnown(doc), Numbered(doc), NEW mine \in Seq(Mapping), NEW attrs \in Docs,
         \A x \in 1..Len(mine) : mine[x].prefix = Cardinality(At(doc, "decl")) + x,
         \A y \in 1..Len(attrs) : attrs[y].kind = "attr",
         NEW decls, decls = [i \in DOMAIN mine |-> Written("decl", mine[i].prefix, mine[i].ns)],
         NEW big, big = doc \o decls \o attrs
  PROVE  Block(big, doc, mine, attrs)
<1>1. /\ Len(doc) \in Nat /\ Len(mine) \in Nat /\ Len(attrs) \in Nat
      /\ DOMAIN mine = 1..Len(mine)
  BY DEF Docs
<1>2. ASSUME NEW x \in 1..Len(mine) PROVE decls[x] \in OutEvent
  <2>1. mine[x] \in Mapping
    BY ElementOfSeq
  <2>2. mine[x].prefix \in Nat /\ mine[x].ns \in Nat
    BY <2>1 DEF Mapping
  <2> QED BY <2>2, <1>1, WrittenIsOut
<1>3. decls \in Docs /\ Len(decls) = Len(mine)
  BY <1>1, <1>2 DEF Docs
<1> PICK tag : tag = doc \o decls
  OBVIOUS
<1>4. /\ tag \in Docs /\ Len(tag) = Len(doc) + Len(decls)
      /\ \A i \in 1..(Len(doc) + Len(decls)) :
           tag[i] = IF i <= Len(doc) THEN doc[i] ELSE decls[i - Len(doc)]
  BY <1>3, ConcatProperties DEF Docs
<1>5. big = tag \o attrs /\ tag \in Seq(OutEvent) /\ attrs \in Seq(OutEvent)
  BY <1>4 DEF Docs
<1>6. /\ big \in Docs /\ Len(big) = Len(tag) + Len(attrs)
      /\ \A i \in 1..(Len(tag) + Len(attrs)) :
           big[i] = IF i <= Len(tag) THEN tag[i] ELSE attrs[i - Len(tag)]
  <2>1. /\ tag \o attrs \in Seq(OutEvent)
        /\ Len(tag \o attrs) = Len(tag) + Len(attrs)
        /\ \A i \in 1..(Len(tag) + Len(attrs)) :
             (tag \o attrs)[i] = IF i <= Len(tag) THEN tag[i] ELSE attrs[i - Len(tag)]
    BY <1>5, ConcatProperties
  <2> QED BY <1>5, <2>1 DEF Docs
<1>7. ASSUME NEW i \in 1..Len(doc) PROVE big[i] = doc[i]
  <2>1. i \in 1..(Len(doc) + Len(decls)) /\ i <= Len(doc)
    BY <1>1, <1>3
  <2>2. i \in 1..(Len(tag) + Len(attrs)) /\ i <= Len(tag)
    BY <1>1, <1>4, <2>1
  <2> QED BY <2>1, <2>2, <1>4, <1>6
<1>8. ASSUME NEW x \in 1..Len(mine)
      PROVE  big[Len(doc) + x] = Written("decl", mine[x].prefix, mine[x].ns)
  <2> DEFINE i == Len(doc) + x
  <2>1. i \in 1..(Len(doc) + Len(decls)) /\ ~(i <= Len(doc)) /\ i - Len(doc) = x
    BY <1>1, <1>3
  <2>2. i \in 1..(Len(tag) + Len(attrs)) /\ i <= Len(tag)
    BY <1>1, <1>4, <2>1
  <2> HIDE DEF i
  <2>3. big[i] = decls[x]
    BY <2>1, <2>2, <1>4, <1>6
  <2> QED BY <2>3, <1>1 DEF i
<1>9. ASSUME NEW y \in 1..Len(attrs) PROVE big[Len(doc) + Len(mine) + y] = attrs[y]
  <2> DEFINE i == Len(doc) + Len(mine) + y
  <2>1. /\ i \in 1..(Len(tag) + Len(attrs)) /\ ~(i <= Len(tag)) /\ i - Len(tag) = y
    BY <1>1, <1>3, <1>4
  <2> HIDE DEF i
  <2>2. big[i] = attrs[y]
    BY <2>1, <1>6
  <2> QED BY <2>2 DEF i
<1>10. Extends(big, doc)
  BY <1>1, <1>3, <1>4, <1>6, <1>7 DEF Extends
<1> QED BY <1>3, <1>4, <1>6, <1>8, <1>9, <1>10 DEF Block

\* Where the parts of a block are.
LEMMA BlockParts ==
  ASSUME NEW big, NEW doc, NEW mine, NEW attrs, Block(big, doc, mine, attrs)
  PROVE  /\ doc \in Docs /\ big \in Docs /\ Extends(big, doc)
         /\ Len(doc) \in Nat \ {0} /\ Len(mine) \in Nat /\ Len(attrs) \in Nat
         /\ Len(big) = Len(doc) + Len(mine) + Len(attrs)
         /\ \A i \in 1..Len(doc) : big[i] = doc[i]
         /\ \A i \in At(big, "decl") :
              \/ i \in At(doc, "decl")
              \/ i \in (Len(doc) + 1)..(Len(doc) + Len(mine))
         /\ \A i \in At(big, "attr") :
              \/ i \in At(doc, "attr")
              \/ i \in (Len(doc) + Len(mine) + 1)..Len(big)
         /\ \A i \in (Len(doc) + 1)..(Len(doc) + Len(mine)) : i \in At(big, "decl")
         /\ \A i \in (Len(doc) + Len(mine) + 1)..Len(big) : i \in At(big, "attr")
<1> DEFINE n == Len(doc)
           a == Len(mine)
           b == Len(attrs)
<1>1. /\ doc \in Docs /\ big \in Docs /\ Extends(big, doc) /\ doc # <<>>
      /\ mine \in Seq(Mapping) /\ attrs \in Docs
      /\ Len(big) = n + a + b
      /\ \A x \in 1..a : big[n + x] = Written("decl", mine[x].prefix, mine[x].ns)
      /\ \A y \in 1..b : big[n + a + y] = attrs[y] /\ attrs[y].kind = "attr"
  BY DEF Block
<1>2. n \in Nat \ {0} /\ a \in Nat /\ b \in Nat
  BY <1>1 DEF Docs
<1>3. /\ DOMAIN big = 1..Len(big) /\ \A i \in 1..n : big[i] = doc[i]
      /\ \A kind : At(big, kind) \in SUBSET (1..Len(big))
      /\ \A kind : \A i \in 1..n : i \in At(big, kind) <=> i \in At(doc, kind)
  BY <1>1, Positions, OlderPart DEF Extends
<1> HIDE DEF n, a, b
<1>4. ASSUME NEW i \in (n + 1)..(n + a)
      PROVE  /\ i \in 1..Len(big) /\ big[i].kind = "decl"
             /\ i \in At(big, "decl") /\ i \notin At(big, "attr")
  <2>1. PICK x : x = i - n
    OBVIOUS
  <2>2. x \in 1..a /\ n + x = i /\ i \in 1..Len(big)
    BY <1>1, <1>2, <2>1
  <2>3. big[i] = Written("decl", mine[x].prefix, mine[x].ns)
    BY <2>2, <1>1
  <2>4. big[i].kind = "decl"
    BY <2>3 DEF Written
  <2> QED BY <2>2, <2>4, <1>3 DEF At
<1>5. ASSUME NEW i \in (n + a + 1)..Len(big)
      PROVE  /\ i \in 1..Len(big) /\ big[i].kind = "attr"
             /\ i \in At(big, "attr") /\ i \notin At(big, "decl")
  <2>1. PICK y : y = i - n - a
    OBVIOUS
  <2>2. y \in 1..b /\ n + a + y = i /\ i \in 1..Len(big)
    BY <1>1, <1>2, <2>1
  <2>3. big[i] = attrs[y] /\ attrs[y].kind = "attr"
    BY <2>2, <1>1
  <2> QED BY <2>2, <2>3, <1>3 DEF At
<1>6. ASSUME NEW i \in 1..Len(big), ~(i \in 1..n), ~(i \in (n + 1)..(n + a))
      PROVE  i \in (n + a + 1)..Len(big)
  BY <1>1, <1>2, <1>6
<1>7. ASSUME NEW i \in At(big, "decl")
      PROVE  i \in At(doc, "decl") \/ i \in (n + 1)..(n + a)
  BY <1>3, <1>5, <1>6
<1>8. ASSUME NEW i \in At(big, "attr")
      PROVE  i \in At(doc, "attr") \/ i \in (n + a + 1)..Len(big)
  BY <1>3, <1>4, <1>6
<1> QED BY <1>1, <1>2, <1>3, <1>4, <1>5, <1>7, <1>8 DEF n, a, b

\* A block belongs to its start tag, at the depth of that tag, and its
\* declarations are numbered on.
LEMMA BlockCounts ==
  ASSUME NEW big, NEW doc, NEW mine, NEW attrs, Block(big, doc, mine, attrs)
  PROVE  /\ Len(doc) \in At(big, "start") /\ Len(doc) \in At(doc, "start")
         /\ \A i \in Len(doc)..Len(big) : /\ TagOf(big, i) = Len(doc)
                                          /\ Depth(big, i) = Depth(doc, Len(doc))
         /\ Significant(big) = Significant(doc)
         /\ Cardinality(At(doc, "decl")) \in Nat
         /\ Cardinality(At(big, "decl")) = Cardinality(At(doc, "decl")) + Len(mine)
         /\ \A x \in 1..Len(mine) :
              UpTo(At(big, "decl"), Len(doc) + x) = Cardinality(At(doc, "decl")) + x
<1> DEFINE n == Len(doc)
           a == Len(mine)
           D == At(doc, "decl")
           E == At(big, "decl")
<1>1. /\ doc \in Docs /\ big \in Docs /\ Extends(big, doc)
      /\ n \in Nat \ {0} /\ a \in Nat /\ Len(attrs) \in Nat
      /\ Len(big) = n + a + Len(attrs)
      /\ \A i \in 1..n : big[i] = doc[i]
  BY BlockParts
<1>2. /\ \A kind : At(big, kind) \in SUBSET (1..Len(big))
      /\ \A kind : At(doc, kind) \in SUBSET (1..n)
      /\ \A kind : \A i \in 1..n : i \in At(big, kind) <=> i \in At(doc, kind)
      /\ \A kind : At(doc, kind) \subseteq At(big, kind)
  BY <1>1, Positions, OlderPart
<1>3. /\ \A i \in E : i \in D \/ i \in (n + 1)..(n + a)
      /\ \A i \in (n + 1)..(n + a) : i \in E
  BY BlockParts
<1>4. \A i \in (n + 1)..Len(big) : big[i].kind \in {"decl", "attr"}
  <2> SUFFICES ASSUME NEW i \in (n + 1)..Len(big) PROVE big[i].kind \in {"decl", "attr"}
    OBVIOUS
  <2>1. i \in (n + 1)..(n + a) \/ i \in (n + a + 1)..Len(big)
    BY <1>1
  <2>2. i \in At(big, "decl") \/ i \in At(big, "attr")
    BY <2>1, BlockParts
  <2> QED BY <2>2 DEF At
<1>5. ASSUME NEW kind, kind \notin {"decl", "attr"}
      PROVE  At(big, kind) = At(doc, kind)
  <2>1. ASSUME NEW i \in At(big, kind) PROVE i \in At(doc, kind)
    <3>1. i \in 1..Len(big) /\ big[i].kind = kind
      BY <1>2 DEF At
    <3>2. i \notin (n + 1)..Len(big)
      BY <3>1, <1>4, <1>5
    <3>3. i \in 1..n
      BY <3>1, <3>2, <1>1
    <3> QED BY <3>3, <1>2
  <2> QED BY <2>1, <1>2
<1>6. n \in At(doc, "start") /\ n \in At(big, "start")
  <2>1. n \in 1..n /\ DOMAIN doc = 1..n /\ doc[n].kind = "start"
    BY <1>1, Positions DEF Block
  <2> QED BY <2>1, <1>5 DEF At
<1>7. ASSUME NEW i \in n..Len(big) PROVE TagOf(big, i) = n
  <2> DEFINE T == {s \in At(big, "start") : s <= i}
  <2>1. At(big, "start") = At(doc, "start")
    BY <1>5
  <2>2. \A s \in At(big, "start") : s \in Int /\ s <= n
    BY <2>1, <1>1, <1>2
  <2>3. T \in SUBSET Int /\ n \in T /\ \A s \in T : s <= n
    BY <2>2, <1>1, <1>6
  <2> HIDE DEF T
  <2>4. Max(T) = n
    BY <2>3, MaxIs
  <2> QED BY <2>4 DEF TagOf, T
<1>8. ASSUME NEW i \in n..Len(big) PROVE Depth(big, i) = Depth(doc, n)
  <2>1. ASSUME NEW kind \in {"start", "end"}
        PROVE  UpTo(At(big, kind), i) = UpTo(At(doc, kind), n)
    <3>1. At(big, kind) = At(doc, kind)
      BY <1>5
    <3>2. \A k \in At(doc, kind) : k <= n /\ k <= i
      BY <1>1, <1>2
    <3>3. {k \in At(big, kind) : k <= i} = {k \in At(doc, kind) : k <= n}
      BY <3>1, <3>2
    <3> QED BY <3>3 DEF UpTo
  <2> QED BY <2>1 DEF Depth
<1>9. Significant(big) = Significant(doc)
  <2>1. \A i \in 1..n : i \in Significant(big) <=> i \in Significant(doc)
    BY <1>1, OlderPart
  <2>2. Significant(big) \in SUBSET (1..Len(big)) /\ Significant(doc) \in SUBSET (1..n)
    BY <1>1, Positions
  <2>3. \A i \in Significant(big) : i \in 1..n
    <3> SUFFICES ASSUME NEW i \in Significant(big) PROVE i \in 1..n
      OBVIOUS
    <3>1. i \in 1..Len(big) /\ i \notin (n + 1)..Len(big)
      BY <2>2, <1>4 DEF Significant
    <3> QED BY <3>1, <1>1
  <2> QED BY <2>1, <2>2, <2>3
<1>10. IsFiniteSet(D) /\ Cardinality(D) \in Nat
  <2> HIDE DEF n, D
  <2>1. n \in Nat /\ D \in SUBSET (1..n)
    BY <1>1, <1>2 DEF n, D
  <2> QED BY <2>1, UpToCounts
<1>11. ASSUME NEW x \in 0..a
       PROVE  /\ Cardinality({k \in E : k <= n + x}) = Cardinality(D) + x
              /\ x = a => {k \in E : k <= n + x} = E
  <2> DEFINE new == (n + 1)..(n + x)
  <2>1. \A k \in E : k <= n + x <=> k \in D \/ k \in new
    <3> SUFFICES ASSUME NEW k \in E PROVE k <= n + x <=> k \in D \/ k \in new
      OBVIOUS
    <3>1. k \in D => k \in Int /\ k <= n
      BY <1>1, <1>2
    <3>2. k \notin D => k \in (n + 1)..(n + a)
      BY <1>3
    <3> QED BY <3>1, <3>2, <1>1
  <2>2. \A k \in D : k \in E /\ k \notin new
    BY <1>1, <1>2
  <2>3. \A k \in new : k \in E
    BY <1>1, <1>3
  <2>4. {k \in E : k <= n + x} = D \cup new /\ D \cap new = {}
    BY <2>1, <2>2, <2>3
  <2>5. IsFiniteSet(new) /\ Cardinality(new) = x
    <3>1. n + 1 \in Int /\ n + x \in Int
      BY <1>1
    <3>2. /\ IsFiniteSet((n + 1)..(n + x))
          /\ Cardinality((n + 1)..(n + x))
               = IF n + 1 > n + x THEN 0 ELSE (n + x) - (n + 1) + 1
      BY <3>1, FS_Interval
    <3>3. (IF n + 1 > n + x THEN 0 ELSE (n + x) - (n + 1) + 1) = x
      BY <1>1
    <3> QED BY <3>2, <3>3
  <2>6. x = a => \A k \in E : k <= n + x
    <3> SUFFICES ASSUME x = a, NEW k \in E PROVE k <= n + x
      OBVIOUS
    <3>1. k \in D => k \in Int /\ k <= n
      BY <1>1, <1>2
    <3> QED BY <3>1, <1>1, <1>3
  <2> HIDE DEF new
  <2>7. Cardinality(D \cup new) = Cardinality(D) + x - Cardinality(D \cap new)
    BY <1>10, <2>5, FS_Union
  <2>8. Cardinality(D \cap new) = 0
    BY <2>4, FS_EmptySet
  <2>9. Cardinality(D \cup new) = Cardinality(D) + x
    BY <2>7, <2>8, <1>10
  <2> QED BY <2>4, <2>6, <2>9
<1>12. Cardinality(E) = Cardinality(D) + a
  <2>1. a \in 0..a
    BY <1>1
  <2> QED BY <2>1, <1>11
<1>13. \A x \in 1..a : UpTo(E, n + x) = Cardinality(D) + x
  BY <1>11 DEF UpTo
<1> QED BY <1>6, <1>7, <1>8, <1>9, <1>10, <1>12, <1>13

\* So what was said of doc can be said of the document with the block.
LEMMA BlockSettled ==
  ASSUME NEW big, NEW doc, NEW mine, NEW attrs, Block(big, doc, mine, attrs)
  PROVE  /\ TagsKnown(big) /\ Numbered(big) /\ Settled(big, doc, Len(doc) - 1)
         /\ Len(doc) - 1 \in 0..Len(doc)
         /\ \A j \in At(doc, "decl") \cup At(doc, "attr") :
              /\ j \in 1..(Len(doc) - 1) /\ TagOf(big, j) = TagOf(doc, j)
              /\ TagOf(doc, j) \in At(doc, "start") /\ TagOf(doc, j) < j
<1> DEFINE n == Len(doc)
           a == Len(mine)
<1>1. /\ doc \in Docs /\ big \in Docs /\ Extends(big, doc)
      /\ n \in Nat \ {0} /\ a \in Nat /\ Len(attrs) \in Nat
      /\ Len(big) = n + a + Len(attrs)
      /\ \A i \in 1..n : big[i] = doc[i]
      /\ \A i \in At(big, "decl") : i \in At(doc, "decl") \/ i \in (n + 1)..(n + a)
      /\ \A i \in At(big, "attr") : i \in At(doc, "attr") \/ i \in (n + a + 1)..Len(big)
  BY BlockParts
<1>2. /\ n \in At(big, "start") /\ n \in At(doc, "start")
      /\ \A i \in n..Len(big) : TagOf(big, i) = n
      /\ \A x \in 1..a : UpTo(At(big, "decl"), n + x) = Cardinality(At(doc, "decl")) + x
  BY BlockCounts
<1>3. TagsKnown(doc) /\ Numbered(doc)
  BY DEF Block
<1>4. ASSUME NEW j \in At(doc, "decl") \cup At(doc, "attr")
      PROVE  /\ j \in 1..(n - 1) /\ j \in 1..n /\ TagOf(big, j) = TagOf(doc, j)
             /\ TagOf(doc, j) \in At(doc, "start") /\ TagOf(doc, j) < j
  <2>1. j \in 1..n
    BY <1>1, Positions
  <2>2. j # n
    BY <1>2, <1>4 DEF At
  <2> QED BY <1>1, <1>3, <2>1, <2>2, OlderPart DEF TagsKnown
<1>5. ASSUME NEW j \in At(big, "decl") \cup At(big, "attr")
      PROVE  \/ j \in At(doc, "decl") \cup At(doc, "attr")
             \/ j \in (n + 1)..Len(big) /\ TagOf(big, j) = n
  <2>1. \/ j \in At(doc, "decl") \cup At(doc, "attr")
        \/ j \in (n + 1)..(n + a) \/ j \in (n + a + 1)..Len(big)
    BY <1>1, <1>5
  <2>2. ASSUME j \in (n + 1)..(n + a) \/ j \in (n + a + 1)..Len(big)
        PROVE  j \in (n + 1)..Len(big) /\ j \in n..Len(big)
    BY <1>1, <2>2
  <2> QED BY <2>1, <2>2, <1>2
<1>6. TagsKnown(big)
  <2> SUFFICES ASSUME NEW j \in At(big, "decl") \cup At(big, "attr")
      PROVE  TagOf(big, j) \in At(big, "start") /\ TagOf(big, j) < j
    BY DEF TagsKnown
  <2>1. CASE j \in At(doc, "decl") \cup At(doc, "attr")
    BY <2>1, <1>1, <1>4, OlderPart
  <2>2. CASE j \in (n + 1)..Len(big) /\ TagOf(big, j) = n
    BY <2>2, <1>1, <1>2
  <2> QED BY <2>1, <2>2, <1>5
<1>7. Numbered(big)
  <2> SUFFICES ASSUME NEW j \in At(big, "decl")
      PROVE  big[j].prefix = UpTo(At(big, "decl"), j)
    BY DEF Numbered
  <2>1. CASE j \in At(doc, "decl")
    <3>1. j \in 1..n /\ big[j] = doc[j]
      BY <2>1, <1>1, <1>4
    <3>2. \A k : k \in At(big, "decl") /\ k <= j <=> k \in At(doc, "decl") /\ k <= j
      <4>1. \A k \in At(doc, "decl") : k \in At(big, "decl")
        BY <1>1, OlderPart
      <4>2. \A k \in At(big, "decl") : k <= j => k \in At(doc, "decl")
        BY <3>1, <1>1
      <4> QED BY <4>1, <4>2
    <3>3. UpTo(At(big, "decl"), j) = UpTo(At(doc, "decl"), j)
      BY <3>2, UpToSame
    <3> QED BY <3>1, <3>3, <2>1, <1>3 DEF Numbered
  <2>2. CASE j \in (n + 1)..(n + a)
    <3>1. PICK x : x = j - n
      OBVIOUS
    <3>2. x \in 1..a /\ j = n + x
      BY <2>2, <3>1, <1>1
    <3>3. /\ big[j] = Written("decl", mine[x].prefix, mine[x].ns)
          /\ mine[x].prefix = Cardinality(At(doc, "decl")) + x
      BY <3>2 DEF Block
    <3>4. big[j].prefix = mine[x].prefix
      BY <3>3 DEF Written
    <3> QED BY <3>2, <3>3, <3>4, <1>2
  <2> QED BY <2>1, <2>2, <1>1
<1>8. Settled(big, doc, n - 1)
  <2>1. \A j \in At(doc, "decl") \cup At(doc, "attr") : j <= n - 1
    BY <1>1, <1>4
  <2>2. ASSUME NEW j \in At(big, "decl") \cup At(big, "attr"), n < j
        PROVE  n - 1 < TagOf(big, j)
    <3>1. j \notin At(doc, "decl") \cup At(doc, "attr")
      <4> SUFFICES ASSUME j \in At(doc, "decl") \cup At(doc, "attr") PROVE FALSE
        OBVIOUS
      <4>1. j \in 1..n
        BY <1>4
      <4> QED BY <4>1, <2>2, <1>1
    <3> QED BY <3>1, <1>1, <1>5
  <2> QED BY <2>1, <2>2 DEF Settled
<1>9. n - 1 \in 0..n
  BY <1>1
<1> QED BY <1>4, <1>6, <1>7, <1>8, <1>9

------------------------------------------------------------------------------
(* The mapping stack, as a reader finds it in the document.                 *)

\* Where the levels of the stack are declared, a prefix of the stack is read
\* as the namespace it was mapped from.
LEMMA MappingRead ==
  ASSUME NEW doc \in Docs, NEW big \in Docs, Extends(big, doc), TagsKnown(doc),
         Numbered(big), NEW stack \in Stacks, LevelsWritten(doc, stack, Len(stack)),
         NEW p \in Places(stack), NEW i \in 1..(Len(doc) + 1),
         \A s \in At(doc, "start") : s <= i,
         big[i].prefix = MappingAt(stack, p).prefix
  PROVE  NsAt(big, i) = MappingAt(stack, p).ns
<1> DEFINE m == MappingAt(stack, p)
<1>1. p[1] \in 1..Len(stack) /\ p[2] \in DOMAIN stack[p[1]] /\ m = stack[p[1]][p[2]]
  BY MappingOfStack DEF MappingAt, Stacks
<1>2. PICK s \in At(doc, "start") : Stands(doc, s, Len(doc), p[1]) /\ Declares(doc, s, m)
  BY <1>1 DEF LevelsWritten
<1>3. PICK j \in At(doc, "decl") :
        doc[j].prefix = m.prefix /\ doc[j].name = m.ns /\ TagOf(doc, j) = s
  BY <1>2 DEF Declares
<1>4. /\ Len(doc) \in Nat /\ s \in 1..Len(doc) /\ j \in 1..Len(doc) /\ big[j] = doc[j]
  BY Positions DEF Extends
<1>5. j \in At(big, "decl") /\ TagOf(big, j) = s
  BY <1>3, <1>4, OlderPart
<1>6. Encloses(big, s, i)
  <2>1. s <= i /\ \A k \in s..(i - 1) : k \in s..Len(doc) /\ k \in 0..Len(doc)
    BY <1>4
  <2>2. \A k \in s..(i - 1) : Depth(big, k) = Depth(doc, k)
    BY <2>1, OlderPart
  <2>3. s \in 0..Len(doc)
    BY <1>4
  <2>4. Depth(big, s) = p[1] /\ \A k \in s..Len(doc) : Depth(doc, k) >= p[1]
    BY <1>2, <2>3, OlderPart DEF Stands
  <2> QED BY <2>1, <2>2, <2>4 DEF Encloses
<1>7. j \in InForce(big, i)
  BY <1>3, <1>4, <1>5, <1>6 DEF InForce
<1> QED BY <1>3, <1>4, <1>7, MeaningOf

\* What an element of the stack's depth stands for.
LEMMA StandsBehind ==
  ASSUME NEW doc \in Docs, NEW big \in Docs, Extends(big, doc),
         NEW s \in 1..Len(doc), NEW d \in Int
  PROVE  /\ Stands(big, s, Len(big), d) => Stands(doc, s, Len(doc), d)
         /\ Stands(doc, s, Len(doc), d)
              /\ (\A k \in (Len(doc) + 1)..Len(big) : Depth(big, k) >= d)
              => Stands(big, s, Len(big), d)
<1>1. /\ Len(doc) \in Nat /\ Len(big) \in Nat /\ Len(doc) <= Len(big)
      /\ s \in 0..Len(doc)
  BY Positions DEF Extends
<1>2. /\ s \in At(big, "start") <=> s \in At(doc, "start")
      /\ \A k \in 0..Len(doc) : Depth(big, k) = Depth(doc, k)
  BY OlderPart
<1>3. \A k \in s..Len(doc) : k \in 0..Len(doc) /\ k \in s..Len(big)
  BY <1>1
<1>4. ASSUME Stands(big, s, Len(big), d) PROVE Stands(doc, s, Len(doc), d)
  BY <1>1, <1>2, <1>3, <1>4 DEF Stands
<1>5. ASSUME Stands(doc, s, Len(doc), d),
             \A k \in (Len(doc) + 1)..Len(big) : Depth(big, k) >= d
      PROVE  Stands(big, s, Len(big), d)
  <2>1. ASSUME NEW k \in s..Len(big) PROVE Depth(big, k) >= d
    <3>1. k \in s..Len(doc) \/ k \in (Len(doc) + 1)..Len(big)
      BY <1>1
    <3> QED BY <3>1, <1>2, <1>3, <1>5 DEF Stands
  <2> QED BY <2>1, <1>1, <1>2, <1>5 DEF Stands
<1> QED BY <1>4, <1>5

\* A level that is declared stays declared while its element stays open.
LEMMA LevelStays ==
  ASSUME NEW doc \in Docs, NEW big \in Docs, Extends(big, doc), NEW stack, NEW new,
         NEW top \in Nat, LevelsWritten(doc, stack, top),
         \A d \in 1..top : new[d] = stack[d],
         \A k \in (Len(doc) + 1)..Len(big) : Depth(big, k) \in Int /\ Depth(big, k) >= top
  PROVE  LevelsWritten(big, new, top)
<1> SUFFICES ASSUME NEW d \in 1..top
    PROVE \E s \in At(big, "start") :
            /\ Stands(big, s, Len(big), d)
            /\ \A i \in DOMAIN new[d] : Declares(big, s, new[d][i])
  BY DEF LevelsWritten
<1>1. PICK s \in At(doc, "start") :
        /\ Stands(doc, s, Len(doc), d)
        /\ \A i \in DOMAIN stack[d] : Declares(doc, s, stack[d][i])
  BY DEF LevelsWritten
<1>2. s \in 1..Len(doc) /\ s \in At(big, "start") /\ d \in Int /\ new[d] = stack[d]
  BY Positions, OlderPart
<1>3. \A k \in (Len(doc) + 1)..Len(big) : Depth(big, k) >= d
  OBVIOUS
<1>4. Stands(big, s, Len(big), d)
  BY <1>1, <1>2, <1>3, StandsBehind
<1>5. ASSUME NEW i \in DOMAIN stack[d] PROVE Declares(big, s, stack[d][i])
  <2>1. PICK j \in At(doc, "decl") : /\ doc[j].prefix = stack[d][i].prefix
                                     /\ doc[j].name = stack[d][i].ns /\ TagOf(doc, j) = s
    BY <1>1, <1>5 DEF Declares
  <2>2. j \in 1..Len(doc) /\ big[j] = doc[j]
    BY Positions DEF Extends
  <2>3. j \in At(big, "decl") /\ TagOf(big, j) = s
    BY <2>1, <2>2, OlderPart
  <2> QED BY <2>1, <2>2, <2>3 DEF Declares
<1> QED BY <1>2, <1>4, <1>5

\* With its block written, the level of a start tag is declared as well.
LEMMA BlockLevels ==
  ASSUME NEW stack \in Stacks, stack # <<>>, NEW big, NEW doc, NEW attrs,
         Block(big, doc, stack[Len(stack)], attrs),
         Depth(doc, Len(doc)) = Len(stack), LevelsWritten(doc, stack, Len(stack) - 1)
  PROVE  /\ \A k \in Len(doc)..Len(big) : Depth(big, k) = Len(stack)
         /\ LevelsWritten(big, stack, Len(stack))
<1> DEFINE n == Len(doc)
           mine == stack[Len(stack)]
<1>1. Len(stack) \in Nat \ {0} /\ Len(stack) - 1 \in Nat
  BY DEF Stacks
<1>2. /\ doc \in Docs /\ big \in Docs /\ Extends(big, doc)
      /\ n \in Nat \ {0} /\ Len(mine) \in Nat /\ Len(attrs) \in Nat
      /\ Len(big) = n + Len(mine) + Len(attrs)
      /\ \A i \in (n + 1)..(n + Len(mine)) : i \in At(big, "decl")
  BY BlockParts
<1>3. /\ n \in At(big, "start")
      /\ \A i \in n..Len(big) : TagOf(big, i) = n /\ Depth(big, i) = Len(stack)
  BY BlockCounts
<1>4. LevelsWritten(big, stack, Len(stack) - 1)
  <2>1. ASSUME NEW k \in (n + 1)..Len(big)
        PROVE  Depth(big, k) \in Int /\ Depth(big, k) >= Len(stack) - 1
    <3>1. k \in n..Len(big)
      BY <1>2
    <3> QED BY <3>1, <1>1, <1>3
  <2> DEFINE top == Len(stack) - 1
  <2>2. top \in Nat /\ LevelsWritten(doc, stack, top)
        /\ \A k \in (n + 1)..Len(big) : Depth(big, k) \in Int /\ Depth(big, k) >= top
    BY <1>1, <2>1
  <2> HIDE DEF top
  <2>3. LevelsWritten(big, stack, top)
    BY <1>2, <2>2, LevelStays
  <2> QED BY <2>3 DEF top
<1>5. ASSUME NEW d \in 1..Len(stack)
      PROVE  \E s \in At(big, "start") :
               /\ Stands(big, s, Len(big), d)
               /\ \A i \in DOMAIN stack[d] : Declares(big, s, stack[d][i])
  <2>1. CASE d \in 1..(Len(stack) - 1)
    BY <2>1, <1>4 DEF LevelsWritten
  <2>2. CASE d = Len(stack)
    <3>1. Stands(big, n, Len(big), d)
      BY <2>2, <1>1, <1>2, <1>3 DEF Stands
    <3>2. ASSUME NEW i \in DOMAIN mine PROVE Declares(big, n, mine[i])
      <4>1. i \in 1..Len(mine)
        BY DEF Block
      <4>2. big[n + i] = Written("decl", mine[i].prefix, mine[i].ns)
        BY <4>1 DEF Block
      <4>3. n + i \in At(big, "decl") /\ TagOf(big, n + i) = n
        <5> HIDE DEF n, mine
        <5>1. n + i \in (n + 1)..(n + Len(mine)) /\ n + i \in n..Len(big)
          BY <4>1, <1>2
        <5> QED BY <5>1, <1>2, <1>3
      <4> QED BY <4>2, <4>3 DEF Declares, Written
    <3> QED BY <3>1, <3>2, <2>2, <1>3
  <2> QED BY <2>1, <2>2, <1>1
<1>6. LevelsWritten(big, stack, Len(stack))
  BY <1>5 DEF LevelsWritten
<1> QED BY <1>3, <1>6

\* The declarations of a block are mappings of its level.
LEMMA BlockForced ==
  ASSUME NEW stack \in Stacks, stack # <<>>, NEW big, NEW doc, NEW attrs,
         Block(big, doc, stack[Len(stack)], attrs),
         Depth(doc, Len(doc)) = Len(stack), ForceMapped(doc, stack)
  PROVE  ForceMapped(big, stack)
<1> DEFINE n == Len(doc)
           mine == stack[Len(stack)]
<1>1. Len(stack) \in Nat \ {0} /\ mine \in Seq(Mapping)
  BY DEF Stacks
<1>2. /\ doc \in Docs /\ big \in Docs /\ Extends(big, doc)
      /\ n \in Nat \ {0} /\ Len(mine) \in Nat /\ Len(attrs) \in Nat
      /\ Len(big) = n + Len(mine) + Len(attrs)
      /\ \A i \in At(big, "decl") : i \in At(doc, "decl") \/ i \in (n + 1)..(n + Len(mine))
      /\ \A i \in 1..n : big[i] = doc[i]
  BY BlockParts
<1>3. /\ n \in At(big, "start")
      /\ \A i \in n..Len(big) : TagOf(big, i) = n /\ Depth(big, i) = Len(stack)
  BY BlockCounts
<1> SUFFICES ASSUME NEW j \in At(big, "decl"),
                    Stands(big, TagOf(big, j), Len(big), Depth(big, TagOf(big, j)))
    PROVE \E p \in Places(stack) :
            /\ p[1] = Depth(big, TagOf(big, j))
            /\ MappingAt(stack, p) = [prefix |-> big[j].prefix, ns |-> big[j].name]
  BY DEF ForceMapped
<1>4. CASE j \in At(doc, "decl")
  <2>1. j \in 1..(n - 1) /\ TagOf(big, j) = TagOf(doc, j) /\ TagOf(doc, j) \in At(doc, "start")
    BY <1>4, BlockSettled
  <2>2. TagOf(doc, j) \in 1..n /\ TagOf(doc, j) \in 0..n /\ j \in 1..n /\ big[j] = doc[j]
    <3>1. TagOf(doc, j) \in 1..n
      BY <1>2, <2>1, Positions
    <3> QED BY <3>1, <2>1, <1>2
  <2>3. /\ Depth(big, TagOf(doc, j)) = Depth(doc, TagOf(doc, j))
        /\ Depth(doc, TagOf(doc, j)) \in Int
    BY <1>2, <2>2, OlderPart, Positions
  <2>4. Stands(doc, TagOf(doc, j), n, Depth(doc, TagOf(doc, j)))
    BY <1>2, <2>1, <2>2, <2>3, StandsBehind
  <2> QED BY <1>4, <2>1, <2>2, <2>3, <2>4 DEF ForceMapped
<1>5. CASE j \in (n + 1)..(n + Len(mine))
  <2>1. PICK x : x = j - n
    OBVIOUS
  <2>2. x \in 1..Len(mine) /\ x \in DOMAIN mine /\ j = n + x /\ j \in n..Len(big)
    BY <2>1, <1>1, <1>2, <1>5
  <2>3. /\ big[j] = Written("decl", mine[x].prefix, mine[x].ns)
        /\ TagOf(big, j) = n /\ Depth(big, n) = Len(stack)
    <3>1. big[j] = Written("decl", mine[x].prefix, mine[x].ns)
      BY <2>2 DEF Block
    <3>2. n \in n..Len(big)
      BY <1>2
    <3> QED BY <3>1, <3>2, <2>2, <1>3
  <2>4. mine[x] = [prefix |-> big[j].prefix, ns |-> big[j].name]
    <3>1. mine[x] \in Mapping
      BY <2>2, <1>1, ElementOfSeq
    <3> QED BY <3>1, <2>3 DEF Mapping, Written
  <2>5. <<Len(stack), x>> \in Places(stack)
    <3>1. Len(stack) \in DOMAIN stack
      BY <1>1 DEF Stacks
    <3> QED BY <3>1, <2>2, PlaceOfStack
  <2> QED BY <2>3, <2>4, <2>5 DEF MappingAt
<1> QED BY <1>2, <1>4, <1>5

\* By the stack, the last tag of the document is named name, and the attributes
\* to be written behind it have the names all.
Named(stack, doc, attrs, name, all) ==
  /\ name \in Name /\ doc[Len(doc)].name = name.local
  /\ \E p \in Places(stack) :
       MappingAt(stack, p) = [prefix |-> doc[Len(doc)].prefix, ns |-> name.ns]
  /\ all \in [1..Len(attrs) -> Name]
  /\ \A y \in 1..Len(attrs) : Means(stack, attrs[y], all[y])

\* A reader finds the same names in what is written.
NamesRead(big, doc, mine, attrs, name, all) ==
  /\ \A y \in 1..Len(attrs) : ExpandedName(big, Len(doc) + Len(mine) + y) = all[y]
  /\ Reported(big, Len(doc)) = Read("start", name, {all[y] : y \in DOMAIN all})

Ascending(all, n) == \A y \in 1..(n - 1) : Precedes(all[y], all[y + 1])

\* The start tag of a block and its attributes have the names that were meant.
LEMMA BlockReads ==
  ASSUME NEW stack \in Stacks, stack # <<>>, NEW big, NEW doc, NEW attrs,
         Block(big, doc, stack[Len(stack)], attrs),
         Depth(doc, Len(doc)) = Len(stack), LevelsWritten(doc, stack, Len(stack) - 1),
         NEW name, NEW all, Named(stack, doc, attrs, name, all)
  PROVE  NamesRead(big, doc, stack[Len(stack)], attrs, name, all)
<1> SUFFICES ASSUME name \in Name, doc[Len(doc)].name = name.local,
                    \E p \in Places(stack) :
                      MappingAt(stack, p) = [prefix |-> doc[Len(doc)].prefix, ns |-> name.ns],
                    all \in [1..Len(attrs) -> Name],
                    \A y \in 1..Len(attrs) : Means(stack, attrs[y], all[y])
             PROVE  /\ \A y \in 1..Len(attrs) :
                         ExpandedName(big, Len(doc) + Len(stack[Len(stack)]) + y) = all[y]
                    /\ Reported(big, Len(doc)) = Read("start", name, {all[y] : y \in DOMAIN all})
  BY DEF Named, NamesRead
<1> DEFINE n == Len(doc)
           mine == stack[Len(stack)]
           a == n + Len(mine)
           b == Len(attrs)
<1>1. /\ doc \in Docs /\ big \in Docs /\ Extends(big, doc)
      /\ n \in Nat \ {0} /\ Len(mine) \in Nat /\ b \in Nat
      /\ Len(big) = n + Len(mine) + b
      /\ \A i \in At(big, "attr") : i \in At(doc, "attr") \/ i \in (n + Len(mine) + 1)..Len(big)
      /\ \A i \in (n + Len(mine) + 1)..Len(big) : i \in At(big, "attr")
      /\ big[n] = doc[n]
  <2>1. Len(doc) \in 1..Len(doc)
    BY BlockParts
  <2> QED BY <2>1, BlockParts
<1>2. /\ \A i \in n..Len(big) : TagOf(big, i) = n
      /\ \A i \in At(doc, "attr") : TagOf(big, i) < n
      /\ At(big, "start") \subseteq 1..n
      /\ TagsKnown(big) /\ Numbered(big) /\ LevelsWritten(big, stack, Len(stack))
  <2>1. \A i \in n..Len(big) : TagOf(big, i) = n
    BY BlockCounts
  <2>2. /\ TagsKnown(big) /\ Numbered(big) /\ LevelsWritten(big, stack, Len(stack))
    BY BlockSettled, BlockLevels
  <2>3. ASSUME NEW i \in At(doc, "attr") PROVE TagOf(big, i) < n
    <3>1. /\ i \in 1..(n - 1) /\ TagOf(big, i) \in At(doc, "start") /\ TagOf(big, i) < i
      BY BlockSettled
    <3>2. TagOf(big, i) \in 1..n
      BY <3>1, <1>1, Positions
    <3> QED BY <3>1, <3>2, <1>1
  <2>4. ASSUME NEW s \in At(big, "start") PROVE s \in 1..n
    <3>1. s \in 1..Len(big) /\ s \notin At(big, "decl") /\ s \notin At(big, "attr")
      BY <1>1, Positions DEF At
    <3>2. s \notin (n + 1)..(n + Len(mine)) /\ s \notin (n + Len(mine) + 1)..Len(big)
      BY <3>1, BlockParts
    <3> HIDE DEF n, mine
    <3> QED BY <3>1, <3>2, <1>1
  <2> QED BY <2>1, <2>2, <2>3, <2>4
<1>3. ASSUME NEW i \in n..Len(big), NEW p \in Places(stack),
             big[i].prefix = MappingAt(stack, p).prefix
      PROVE  NsAt(big, i) = MappingAt(stack, p).ns
  <2>1. i \in 1..(Len(big) + 1) /\ \A s \in At(big, "start") : s <= i
    BY <1>1, <1>2
  <2>2. Extends(big, big)
    BY <1>1, Positions DEF Extends
  <2> QED BY <2>1, <2>2, <1>1, <1>2, <1>3, MappingRead
<1>4. ExpandedName(big, n) = name
  <2>1. PICK p \in Places(stack) : MappingAt(stack, p) = [prefix |-> doc[n].prefix, ns |-> name.ns]
    OBVIOUS
  <2>2. n \in n..Len(big)
    BY <1>1
  <2>3. NsAt(big, n) = name.ns
    BY <2>1, <2>2, <1>1, <1>3
  <2> QED BY <2>3, <1>1 DEF ExpandedName, Name
<1>5. ASSUME NEW y \in 1..b
      PROVE  a + y \in a + 1..Len(big) /\ a + y \in n..Len(big) /\ big[a + y] = attrs[y]
  <2>1. big[a + y] = attrs[y]
    BY DEF Block
  <2> HIDE DEF mine
  <2> QED BY <2>1, <1>1
<1>6. ASSUME NEW y \in 1..b PROVE ExpandedName(big, a + y) = all[y]
  <2>1. /\ big[a + y].name = all[y].local
        /\ IF all[y].ns = NoNs THEN big[a + y].prefix = NoPrefix
           ELSE \E p \in Places(stack) :
                  MappingAt(stack, p) = [prefix |-> big[a + y].prefix, ns |-> all[y].ns]
    BY <1>5 DEF Means
  <2>2. NsAt(big, a + y) = all[y].ns
    <3>1. CASE all[y].ns = NoNs
      <4>1. big[a + y].prefix = NoPrefix
        BY <3>1, <2>1
      <4> HIDE DEF a
      <4>2. NsAt(big, a + y) = NoNs
        BY <4>1 DEF NsAt
      <4> QED BY <3>1, <4>2
    <3>2. CASE all[y].ns # NoNs
      <4>1. PICK p \in Places(stack) :
              MappingAt(stack, p) = [prefix |-> big[a + y].prefix, ns |-> all[y].ns]
        BY <3>2, <2>1
      <4>2. /\ big[a + y].prefix = MappingAt(stack, p).prefix
            /\ all[y].ns = MappingAt(stack, p).ns
        BY <4>1
      <4> QED BY <4>2, <1>3, <1>5
    <3> QED BY <3>1, <3>2
  <2>3. all[y] \in Name
    OBVIOUS
  <2> QED BY <2>1, <2>2, <2>3 DEF ExpandedName, Name
<1>7. ASSUME NEW i \in AttributesOf(big, n) PROVE \E y \in 1..b : i = a + y
  <2>1. i \in At(big, "attr") /\ TagOf(big, i) = n
    BY <1>7 DEF AttributesOf
  <2>2. i \notin At(doc, "attr")
    <3> SUFFICES ASSUME i \in At(doc, "attr") PROVE FALSE
      OBVIOUS
    <3>1. n < n
      BY <2>1, <1>2
    <3> QED BY <3>1, <1>1
  <2> HIDE DEF n, mine
  <2>3. i \in (n + Len(mine) + 1)..Len(big)
    BY <2>1, <2>2, <1>1
  <2>4. PICK y : y = i - n - Len(mine)
    OBVIOUS
  <2>5. y \in 1..b /\ i = a + y
    BY <2>3, <2>4, <1>1
  <2> QED BY <2>5
<1>8. ASSUME NEW y \in 1..b PROVE a + y \in AttributesOf(big, n)
  BY <1>1, <1>2, <1>5 DEF AttributesOf
<1>9. {ExpandedName(big, i) : i \in AttributesOf(big, n)} = {all[y] : y \in DOMAIN all}
  <2> HIDE DEF a, n, b
  <2>1. ASSUME NEW i \in AttributesOf(big, n)
        PROVE  \E y \in 1..b : ExpandedName(big, i) = all[y]
    BY <1>6, <1>7
  <2>2. ASSUME NEW y \in 1..b
        PROVE  \E i \in AttributesOf(big, n) : ExpandedName(big, i) = all[y]
    BY <1>6, <1>8
  <2>3. DOMAIN all = 1..b
    BY DEF b
  <2> QED BY <2>1, <2>2, <2>3
<1>10. Reported(big, n) = Read("start", name, {all[y] : y \in DOMAIN all})
  <2>1. big[n].kind = "start"
    BY <1>1 DEF Block
  <2> QED BY <2>1, <1>4, <1>9 DEF Reported
<1> QED BY <1>6, <1>10

\* Where the use y stands in a block.
UseAt(doc, mine, y) == IF y = 0 THEN Len(doc) ELSE Len(doc) + Len(mine) + y

\* The prefixes of a tag and the attributes to be written behind it.
UsedPrefixes(uses, doc, attrs) ==
  /\ DOMAIN uses = 0..Len(attrs) /\ uses[0] = doc[Len(doc)].prefix
  /\ \A y \in 1..Len(attrs) : uses[y] = attrs[y].prefix

\* Where the uses of a block's declarations stand.
LEMMA BlockUses ==
  ASSUME NEW big, NEW doc, NEW mine, NEW attrs, Block(big, doc, mine, attrs),
         NEW uses, UsedPrefixes(uses, doc, attrs)
  PROVE  \A x \in 1..Len(mine) :
           \A i : i \in Uses(big, Len(doc) + x) <=>
                   \E y \in 0..Len(attrs) :
                     i = UseAt(doc, mine, y) /\ uses[y] = mine[x].prefix
<1> SUFFICES ASSUME NEW x \in 1..Len(mine)
    PROVE \A i : i \in Uses(big, Len(doc) + x) <=>
                   \E y \in 0..Len(attrs) :
                     i = UseAt(doc, mine, y) /\ uses[y] = mine[x].prefix
  OBVIOUS
<1> DEFINE n == Len(doc)
           a == Len(mine)
           b == Len(attrs)
           at(y) == UseAt(doc, mine, y)
<1>1. /\ n \in Nat \ {0} /\ a \in Nat /\ b \in Nat /\ Len(big) = n + a + b
      /\ n \in 1..n /\ doc \in Docs
      /\ \A i \in At(big, "attr") : i \in At(doc, "attr") \/ i \in (n + a + 1)..Len(big)
      /\ \A i \in (n + a + 1)..Len(big) : i \in At(big, "attr")
      /\ \A i \in 1..n : big[i] = doc[i]
  BY BlockParts
<1>2. /\ \A i \in n..Len(big) : TagOf(big, i) = n
      /\ \A i \in At(doc, "attr") : TagOf(big, i) # n
  <2>1. \A i \in n..Len(big) : TagOf(big, i) = n
    BY BlockCounts
  <2>2. ASSUME NEW i \in At(doc, "attr") PROVE TagOf(big, i) # n
    <3>1. /\ i \in 1..(n - 1) /\ TagOf(big, i) \in At(doc, "start") /\ TagOf(big, i) < i
      BY BlockSettled
    <3>2. TagOf(big, i) \in 1..n
      BY <3>1, <1>1, Positions
    <3> QED BY <3>1, <3>2, <1>1
  <2> QED BY <2>1, <2>2
<1>3. big[n] = doc[n] /\ uses[0] = big[n].prefix
  BY <1>1 DEF UsedPrefixes
<1>4. ASSUME NEW y \in 1..b
      PROVE  big[n + a + y] = attrs[y] /\ uses[y] = big[n + a + y].prefix
  BY DEF Block, UsedPrefixes
<1>5. TagOf(big, n + x) = n /\ big[n + x].prefix = mine[x].prefix
  <2>1. big[n + x] = Written("decl", mine[x].prefix, mine[x].ns)
    BY DEF Block
  <2> HIDE DEF n, a, b
  <2>2. n + x \in n..Len(big)
    BY <1>1 DEF a
  <2> QED BY <2>1, <2>2, <1>2 DEF Written
<1> HIDE DEF n, a, b, at
<1>6. at(0) = n /\ \A y \in 1..b : at(y) = n + a + y
  BY <1>1 DEF n, a, b, at, UseAt
<1>7. ASSUME NEW i \in AttributesOf(big, n) PROVE \E y \in 1..b : i = n + a + y
  <2>1. i \in At(big, "attr") /\ i \notin At(doc, "attr")
    BY <1>2, <1>7 DEF AttributesOf
  <2>2. i \in (n + a + 1)..Len(big)
    BY <2>1, <1>1
  <2>3. PICK y : y = i - n - a
    OBVIOUS
  <2>4. y \in 1..b /\ i = n + a + y
    BY <2>2, <2>3, <1>1
  <2> QED BY <2>4
<1>8. ASSUME NEW y \in 1..b PROVE n + a + y \in AttributesOf(big, n)
  <2>1. n + a + y \in (n + a + 1)..Len(big) /\ n + a + y \in n..Len(big)
    BY <1>1
  <2> QED BY <2>1, <1>1, <1>2 DEF AttributesOf
<1>9. ASSUME NEW i \in Uses(big, n + x)
      PROVE  \E y \in 0..b : i = at(y) /\ uses[y] = mine[x].prefix
  <2>1. i \in {n} \cup AttributesOf(big, n) /\ big[i].prefix = mine[x].prefix
    BY <1>5, <1>9 DEF Uses
  <2>2. CASE i = n
    <3>1. 0 \in 0..b /\ i = at(0) /\ uses[0] = mine[x].prefix
      BY <2>1, <2>2, <1>1, <1>3, <1>6
    <3> QED BY <3>1
  <2>3. CASE i \in AttributesOf(big, n)
    <3>1. PICK y \in 1..b : i = n + a + y
      BY <2>3, <1>7
    <3>2. y \in 0..b
      BY <1>1
    <3>3. i = at(y) /\ uses[y] = mine[x].prefix
      BY <2>1, <3>1, <1>4, <1>6
    <3> QED BY <3>2, <3>3
  <2> QED BY <2>1, <2>2, <2>3
<1>10. ASSUME NEW y \in 0..b, uses[y] = mine[x].prefix PROVE at(y) \in Uses(big, n + x)
  <2>1. CASE y = 0
    BY <2>1, <1>3, <1>5, <1>6, <1>10 DEF Uses
  <2>2. CASE y \in 1..b
    <3>1. at(y) \in AttributesOf(big, n) /\ uses[y] = big[at(y)].prefix
      BY <2>2, <1>4, <1>6, <1>8
    <3> QED BY <3>1, <1>5, <1>10 DEF Uses
  <2> QED BY <2>1, <2>2, <1>1
<1> QED BY <1>9, <1>10 DEF n, a, b, at

\* Attributes mapped in order are written in order.
LEMMA BlockSorted ==
  ASSUME NEW big, NEW doc, NEW mine, NEW attrs, Block(big, doc, mine, attrs), Sorted(doc),
         NEW name, NEW all, NamesRead(big, doc, mine, attrs, name, all),
         Ascending(all, Len(attrs))
  PROVE  Sorted(big)
<1> SUFFICES ASSUME \A y \in 1..Len(attrs) : ExpandedName(big, Len(doc) + Len(mine) + y) = all[y],
                    \A y \in 1..(Len(attrs) - 1) : Precedes(all[y], all[y + 1])
             PROVE  Sorted(big)
  BY DEF NamesRead, Ascending
<1> DEFINE n == Len(doc)
           a == Len(mine)
           b == Len(attrs)
<1>1. /\ n \in Nat \ {0} /\ a \in Nat /\ b \in Nat /\ Len(big) = n + a + b
      /\ doc \in Docs /\ big \in Docs /\ Extends(big, doc)
      /\ \A i \in At(big, "attr") : i \in At(doc, "attr") \/ i \in (n + a + 1)..Len(big)
  BY BlockParts
<1>2. /\ TagsKnown(doc) /\ Numbered(doc) /\ TagsKnown(big) /\ Numbered(big)
      /\ Settled(big, doc, n - 1) /\ n - 1 \in 0..n
      /\ \A j \in At(doc, "attr") : j \in 1..(n - 1)
  BY BlockSettled DEF Block
<1> SUFFICES ASSUME NEW i \in At(big, "attr"), (i + 1) \in At(big, "attr")
    PROVE Precedes(ExpandedName(big, i), ExpandedName(big, i + 1))
  BY DEF Sorted
<1>3. CASE i \in At(doc, "attr")
  <2>1. i + 1 \in 1..n
    BY <1>1, <1>2, <1>3
  <2>2. i + 1 \in At(doc, "attr")
    BY <2>1, <1>1, OlderPart
  <2>3. /\ ExpandedName(big, i) = ExpandedName(doc, i)
        /\ ExpandedName(big, i + 1) = ExpandedName(doc, i + 1)
    BY <2>2, <1>1, <1>2, <1>3, OlderReading
  <2> QED BY <2>2, <2>3, <1>3 DEF Sorted
<1>4. CASE i \in (n + a + 1)..Len(big)
  <2>1. PICK y : y = i - n - a
    OBVIOUS
  <2>2. i + 1 \in 1..Len(big)
    BY <1>1, Positions
  <2> HIDE DEF n, a, b
  <2>3. /\ y \in 1..(b - 1) /\ y \in 1..b /\ y + 1 \in 1..b
        /\ i = n + a + y /\ i + 1 = n + a + (y + 1)
    BY <2>1, <2>2, <1>1, <1>4
  <2> QED BY <2>3 DEF n, a, b
<1> QED BY <1>1, <1>3, <1>4

\* A block declares what its tag needs, uses it, and in the order of first use.
LEMMA BlockCanonical ==
  ASSUME NEW stack \in Stacks, stack # <<>>, NEW cnt, Injective(stack, cnt),
         NEW big, NEW doc, NEW attrs, Block(big, doc, stack[Len(stack)], attrs),
         Depth(doc, Len(doc)) = Len(stack), ForceMapped(doc, stack), Canonical(doc),
         NEW uses, UsedPrefixes(uses, doc, attrs),
         FirstUses(stack[Len(stack)], uses)
  PROVE  Canonical(big)
<1> DEFINE n == Len(doc)
           mine == stack[Len(stack)]
           a == Len(mine)
           b == Len(attrs)
           at(y) == UseAt(doc, mine, y)
<1>1. /\ n \in Nat \ {0} /\ a \in Nat /\ b \in Nat /\ Len(big) = n + a + b
      /\ doc \in Docs /\ big \in Docs /\ Extends(big, doc)
      /\ \A i \in At(big, "decl") : i \in At(doc, "decl") \/ i \in (n + 1)..(n + a)
  BY BlockParts
<1>2. /\ TagsKnown(doc) /\ Numbered(doc) /\ TagsKnown(big) /\ Numbered(big)
      /\ Settled(big, doc, n - 1) /\ n - 1 \in 0..n
      /\ \A j \in At(doc, "decl") : TagOf(big, j) \in 1..n /\ TagOf(big, j) # n
  <2>1. /\ TagsKnown(doc) /\ Numbered(doc) /\ TagsKnown(big) /\ Numbered(big)
        /\ Settled(big, doc, n - 1) /\ n - 1 \in 0..n
    BY BlockSettled DEF Block
  <2>2. ASSUME NEW j \in At(doc, "decl") PROVE TagOf(big, j) \in 1..n /\ TagOf(big, j) # n
    <3>1. /\ j \in 1..(n - 1) /\ TagOf(big, j) \in At(doc, "start") /\ TagOf(big, j) < j
      BY BlockSettled
    <3>2. TagOf(big, j) \in 1..n
      BY <3>1, <1>1, Positions
    <3> QED BY <3>1, <3>2, <1>1
  <2> QED BY <2>1, <2>2
<1>3. /\ \A i \in n..Len(big) : TagOf(big, i) = n /\ Depth(big, i) = Len(stack)
      /\ Len(stack) \in Nat \ {0} /\ mine \in Seq(Mapping) /\ DOMAIN mine = 1..a
  BY BlockCounts DEF Stacks
<1>4. ForceMapped(big, stack)
  BY BlockForced
<1>5. \A x \in 1..a :
        \A i : i \in Uses(big, n + x) <=>
                \E y \in 0..b : i = at(y) /\ uses[y] = mine[x].prefix
  <2>1. Block(big, doc, mine, attrs)
    OBVIOUS
  <2> HIDE DEF mine
  <2> QED BY <2>1, BlockUses
<1>6. ASSUME NEW y \in 0..b, NEW w \in 0..b, y < w PROVE at(y) < at(w)
  <2>1. at(w) = n + a + w
    BY <1>1, <1>6 DEF UseAt
  <2>2. at(y) = n \/ at(y) = n + a + y
    BY <1>6 DEF UseAt
  <2> HIDE DEF n, a, b, at
  <2> QED BY <2>1, <2>2, <1>1, <1>6
<1>7. ASSUME NEW j \in (n + 1)..(n + a)
      PROVE  \E x \in 1..a : j = n + x /\ big[j] = Written("decl", mine[x].prefix, mine[x].ns)
  <2>1. PICK x : x = j - n
    OBVIOUS
  <2>2. x \in 1..a /\ j = n + x
    <3> HIDE DEF n, a
    <3> QED BY <2>1, <1>1, <1>7
  <2> QED BY <2>2 DEF Block
<1> HIDE DEF at
<1>8. ASSUME NEW j \in (n + 1)..(n + a) PROVE CanonicalAt(big, j)
  <2>1. PICK x \in 1..a : j = n + x /\ big[j] = Written("decl", mine[x].prefix, mine[x].ns)
    BY <1>7
  <2>2. /\ j \in n..Len(big) /\ TagOf(big, j) = n
        /\ big[j].prefix = mine[x].prefix /\ big[j].name = mine[x].ns
    <3>1. j \in n..Len(big)
      <4> HIDE DEF n, a, b
      <4> QED BY <1>1
    <3> QED BY <3>1, <2>1, <1>3 DEF Written
  <2>3. ASSUME NEW k \in At(big, "decl") \ {j}, big[k].name = big[j].name,
               Encloses(big, TagOf(big, k), j)
        PROVE  FALSE
    <3>1. PICK t : t = TagOf(big, k)
      OBVIOUS
    <3>2. t \in At(big, "start") /\ t \in 1..n
      <4>1. CASE k \in At(doc, "decl")
        BY <4>1, <3>1, <1>2 DEF TagsKnown
      <4>2. CASE k \in (n + 1)..(n + a)
        <5>1. k \in n..Len(big)
          <6> HIDE DEF n, a, b
          <6> QED BY <1>1, <4>2
        <5>2. n \in 1..n
          BY <1>1
        <5> QED BY <5>1, <5>2, <3>1, <1>2, <1>3 DEF TagsKnown
      <4> QED BY <4>1, <4>2, <1>1
    <3>3. t <= j /\ \A i \in t..(j - 1) : Depth(big, i) >= Depth(big, t)
      BY <2>3, <3>1 DEF Encloses
    <3>4. Stands(big, t, Len(big), Depth(big, t))
      <4> HIDE DEF n, a, b, mine
      <4>1. n \in t..(j - 1) /\ n \in n..Len(big)
        BY <1>1, <3>2, <2>1
      <4>2. Depth(big, n) >= Depth(big, t)
        BY <4>1, <3>3
      <4>3. ASSUME NEW i \in t..Len(big) PROVE Depth(big, i) >= Depth(big, t)
        <5>1. i \in t..(j - 1) \/ i \in n..Len(big)
          BY <1>1, <3>2, <2>1
        <5> QED BY <5>1, <4>1, <4>2, <3>3, <1>3
      <4> QED BY <4>3, <3>2 DEF Stands
    <3>5. PICK p \in Places(stack) :
            MappingAt(stack, p) = [prefix |-> big[k].prefix, ns |-> big[k].name]
      BY <3>1, <3>4, <1>4 DEF ForceMapped
    <3>6. PICK q \in Places(stack) : MappingAt(stack, q) = mine[x]
      <4>1. Len(stack) \in DOMAIN stack /\ x \in DOMAIN mine
        BY <1>3 DEF Stacks
      <4>2. <<Len(stack), x>> \in Places(stack)
        BY <4>1, PlaceOfStack
      <4> QED BY <4>2 DEF MappingAt
    <3>7. MappingAt(stack, p).ns = MappingAt(stack, q).ns
      BY <3>5, <3>6, <2>2, <2>3
    <3>8. p = q
      BY <3>7 DEF Injective
    <3>9. big[k].prefix = big[j].prefix
      BY <3>5, <3>6, <3>8, <2>2
    <3>10. j \in At(big, "decl")
      BY BlockParts
    <3> QED BY <3>9, <3>10, <2>3, <1>1, <1>2, SamePrefix
  <2>4. PICK y \in 0..b :
          /\ uses[y] = mine[x].prefix
          /\ \A z \in 1..a : x < z => \A w \in 0..b : uses[w] = mine[z].prefix => y < w
    <3>1. DOMAIN uses = 0..b /\ DOMAIN mine = 1..a /\ x \in DOMAIN mine
      BY <1>3 DEF UsedPrefixes
    <3> HIDE DEF mine, a, b
    <3>2. FirstUses(mine, uses)
      BY DEF mine
    <3>3. \E y \in DOMAIN uses :
            /\ uses[y] = mine[x].prefix
            /\ \A z \in DOMAIN mine : x < z =>
                 \A w \in DOMAIN uses : uses[w] = mine[z].prefix => y < w
      BY <3>1, <3>2 DEF FirstUses
    <3> QED BY <3>1, <3>3
  <2>5. at(y) \in Uses(big, j)
    BY <2>1, <2>4, <1>5
  <2>6. ASSUME NEW k \in At(big, "decl"), j < k, TagOf(big, k) = TagOf(big, j)
        PROVE  \E first \in Uses(big, j) : \A i \in Uses(big, k) : first < i
    <3>1. k \in (n + 1)..(n + a)
      BY <2>2, <2>6, <1>1, <1>2
    <3>2. PICK z \in 1..a : k = n + z
      BY <3>1, <1>7
    <3>3. x < z
      <4> HIDE DEF n, a
      <4> QED BY <2>1, <2>6, <3>2, <1>1
    <3>4. ASSUME NEW i \in Uses(big, k) PROVE at(y) < i
      <4>1. PICK w \in 0..b : i = at(w) /\ uses[w] = mine[z].prefix
        BY <3>2, <3>4, <1>5
      <4>2. y < w
        BY <4>1, <3>3, <2>4
      <4> QED BY <4>1, <4>2, <1>6
    <3> QED BY <3>4, <2>5
  <2> QED BY <2>3, <2>5, <2>6 DEF CanonicalAt
<1>9. ASSUME NEW j \in At(doc, "decl") PROVE CanonicalAt(big, j)
  BY <1>1, <1>2, OlderReading DEF Canonical
<1> QED BY <1>1, <1>8, <1>9 DEF Canonical

------------------------------------------------------------------------------
(* One more tag or text: what it does to the levels and to what was read.   *)

\* The stack new has the mappings of stack up to the level d.
Keeps(stack, new, d) == \A p \in Places(stack) : p[1] <= d => SameAt(stack, new, p)

\* The lists of the outer top levels are the same.
SameLevels(stack, new, top) == \A d \in 1..top : new[d] = stack[d]

\* The declarations in force are mappings of a stack that keeps the levels
\* the new event leaves open.
LEMMA MoreForced ==
  ASSUME NEW doc, NEW e, NEW big, Longer(big, doc, e),
         NEW stack \in Stacks, ForceMapped(doc, stack), NEW new,
         Keeps(stack, new, Depth(big, Len(doc) + 1))
  PROVE  ForceMapped(big, new)
<1>1. /\ big \in Docs /\ Len(big) = Len(doc) + 1 /\ Extends(big, doc)
      /\ At(big, "decl") = At(doc, "decl")
  BY OneMore
<1>2. doc \in Docs /\ TagsKnown(doc)
  BY DEF Longer
<1> SUFFICES ASSUME NEW j \in At(doc, "decl"),
                    Stands(big, TagOf(big, j), Len(big), Depth(big, TagOf(big, j)))
    PROVE \E p \in Places(new) :
            /\ p[1] = Depth(big, TagOf(big, j))
            /\ MappingAt(new, p) = [prefix |-> big[j].prefix, ns |-> big[j].name]
  BY <1>1 DEF ForceMapped
<1>3. /\ Len(doc) \in Nat /\ j \in 1..Len(doc) /\ big[j] = doc[j]
      /\ TagOf(doc, j) \in At(doc, "start")
  BY <1>2, <1>1, Positions DEF Extends, TagsKnown
<1>4. TagOf(doc, j) \in 1..Len(doc) /\ TagOf(doc, j) \in 0..Len(doc)
  <2>1. TagOf(doc, j) \in 1..Len(doc)
    BY <1>2, <1>3, Positions
  <2> QED BY <2>1
<1>5. /\ TagOf(big, j) = TagOf(doc, j)
      /\ Depth(big, TagOf(doc, j)) = Depth(doc, TagOf(doc, j))
      /\ Depth(doc, TagOf(doc, j)) \in Int
  BY <1>2, <1>1, <1>3, <1>4, OlderPart, Positions
<1>6. Stands(doc, TagOf(doc, j), Len(doc), Depth(doc, TagOf(doc, j)))
  BY <1>2, <1>1, <1>4, <1>5, StandsBehind
<1>7. PICK p \in Places(stack) :
        /\ p[1] = Depth(doc, TagOf(doc, j))
        /\ MappingAt(stack, p) = [prefix |-> doc[j].prefix, ns |-> doc[j].name]
  BY <1>6 DEF ForceMapped
<1>8. p[1] <= Depth(big, Len(doc) + 1)
  <2>1. Len(doc) + 1 \in TagOf(doc, j)..Len(big)
    BY <1>1, <1>3, <1>4
  <2>2. Depth(big, Len(doc) + 1) >= p[1] /\ Depth(big, Len(doc) + 1) \in Int
    BY <2>1, <1>1, <1>3, <1>5, <1>7, Positions DEF Stands
  <2> QED BY <2>2, <1>5, <1>7
<1>9. SameAt(stack, new, p)
  BY <1>8 DEF Keeps
<1> QED BY <1>3, <1>5, <1>7, <1>9 DEF SameAt

\* The levels the new event leaves open stay declared.
LEMMA MoreLevels ==
  ASSUME NEW doc, NEW e, NEW big, Longer(big, doc, e),
         NEW stack, NEW new, NEW top \in Nat, LevelsWritten(doc, stack, top),
         SameLevels(stack, new, top), Depth(big, Len(doc) + 1) >= top
  PROVE  LevelsWritten(big, new, top)
<1>1. /\ doc \in Docs /\ big \in Docs /\ Len(big) = Len(doc) + 1
      /\ Extends(big, doc) /\ Len(doc) \in Nat
  BY OneMore, Positions DEF Longer
<1>2. Depth(big, Len(doc) + 1) \in Int
  BY <1>1, Positions
<1>3. \A k \in (Len(doc) + 1)..Len(big) : Depth(big, k) \in Int /\ Depth(big, k) >= top
  BY <1>1, <1>2
<1> QED BY <1>1, <1>3, LevelStays DEF SameLevels

\* What was read so far is read from the longer document, and of its last
\* event the last report.
LEMMA MoreRead ==
  ASSUME NEW doc, NEW e, NEW big, Longer(big, doc, e),
         NEW read, ReadAs(read, doc),
         NEW r \in Reports, NEW more, more = Append(read, r)
  PROVE  /\ ReadButLast(more, big)
         /\ r = Reported(big, Len(big)) => ReadAs(more, big)
<1> DEFINE n == Len(doc)
           S == Significant(doc)
           T == Significant(big)
           c == Cardinality(S)
<1>1. /\ c \in Nat /\ T = S \cup {n + 1} /\ Cardinality(T) = c + 1 /\ UpTo(T, n + 1) = c + 1
      /\ \A i \in S : /\ i \in 1..n /\ UpTo(T, i) = UpTo(S, i) /\ UpTo(S, i) \in 1..c
                      /\ Reported(big, i) = Reported(doc, i)
  BY OneMoreReads
<1>2. Len(big) = n + 1 /\ n \in Nat
  BY OneMore, Positions DEF Longer
<1>3. /\ more \in Seq(Reports) /\ Len(more) = c + 1 /\ more[c + 1] = r
      /\ \A x \in 1..c : more[x] = read[x]
  BY AppendProperties DEF ReadAs
<1> HIDE DEF n, S, T, c
<1>4. ASSUME NEW i \in S PROVE more[UpTo(T, i)] = Reported(big, i)
  <2>1. UpTo(T, i) = UpTo(S, i) /\ UpTo(S, i) \in 1..c /\ Reported(big, i) = Reported(doc, i)
    BY <1>1
  <2>2. more[UpTo(S, i)] = read[UpTo(S, i)]
    BY <2>1, <1>3
  <2>3. read[UpTo(S, i)] = Reported(doc, i)
    BY DEF S, ReadAs
  <2> QED BY <2>1, <2>2, <2>3
<1>5. more \in Seq(Reports) /\ Len(more) = Cardinality(T)
  BY <1>1, <1>3
<1>6. ReadButLast(more, big)
  <2>1. \A i \in T : i < Len(big) => i \in S
    BY <1>1, <1>2
  <2> QED BY <2>1, <1>4, <1>5 DEF T, ReadButLast
<1>7. ASSUME r = Reported(big, Len(big)) PROVE ReadAs(more, big)
  <2>1. more[UpTo(T, n + 1)] = Reported(big, n + 1)
    BY <1>1, <1>2, <1>3, <1>7
  <2>2. \A i \in T : more[UpTo(T, i)] = Reported(big, i)
    BY <2>1, <1>1, <1>4
  <2> QED BY <2>2, <1>5 DEF T, ReadAs
<1> QED BY <1>6, <1>7

\* The prefix of a namespace is one that the stack has, or the new one of a
\* mapping put behind those of the innermost level.
Either(stack, ns, r) ==
  /\ DOMAIN r.stack = DOMAIN stack
  /\ \A d \in DOMAIN stack : d # Len(stack) => r.stack[d] = stack[d]
  /\ \/ /\ r.stack = stack /\ r.cnt = prefixCnt
        /\ r.prefix \in Nat \ {0} /\ r.prefix < prefixCnt
     \/ /\ r.stack[Len(stack)]
             = Append(stack[Len(stack)], [prefix |-> prefixCnt, ns |-> ns])
        /\ r.cnt = prefixCnt + 1 /\ r.prefix = prefixCnt

LEMMA ResolvedEither ==
  ASSUME prefixCnt \in Nat \ {0}, NEW stack \in Stacks, stack # <<>>,
         NEW ns \in Nat, Injective(stack, prefixCnt)
  PROVE  Either(stack, ns, Resolved(stack, ns))
<1> PICK r : r = Resolved(stack, ns)
  OBVIOUS
<1> DEFINE known == findPrefix(stack, ns)
<1>1. CASE known # NoPrefix
  <2>1. r = [stack |-> stack, cnt |-> prefixCnt, prefix |-> known]
    BY <1>1 DEF Resolved
  <2>2. PlacesOf(stack, ns) # {}
    BY <1>1 DEF findPrefix
  <2>3. PICK p \in Places(stack) : MappingAt(stack, p).ns = ns
    BY <2>2 DEF PlacesOf
  <2>4. MappingAt(stack, p) \in Mapping /\ known = MappingAt(stack, p).prefix
    BY <2>3, FindKnown, MappingOfStack
  <2>5. known \in Nat \ {0} /\ known < prefixCnt
    BY <2>3, <2>4 DEF Mapping, Injective
  <2> QED BY <2>1, <2>5 DEF Either
<1>2. CASE known = NoPrefix
  <2>1. r = Declared(stack, ns, prefixCnt + 1)
    BY <1>2 DEF Resolved
  <2>2. Len(stack) \in DOMAIN stack
    BY DEF Stacks
  <2> QED BY <2>1, <2>2 DEF Declared, Either
<1> QED BY <1>1, <1>2

------------------------------------------------------------------------------
(* The invariant of the output: one lemma per action.                       *)

\* A document that is not begun satisfies it.
LEMMA InitOut == Init => OutInv
<1> SUFFICES ASSUME Init PROVE OutInv
  OBVIOUS
<1>1. /\ phase = "event" /\ open = <<>> /\ mappings = <<>> /\ prefixCnt = 1
      /\ out = <<>> /\ infoset = <<>>
  BY DEF Init
<1>2. (\A kind : At(out, kind) = {}) /\ Significant(out) = {} /\ Len(out) = 0
  BY <1>1 DEF At, Significant
<1>3. Cardinality({}) = 0
  BY FS_EmptySet
<1>4. TagsKnown(out) /\ Numbered(out) /\ Canonical(out) /\ Sorted(out)
  BY <1>2 DEF TagsKnown, Numbered, Canonical, Sorted
<1>5. LevelsDeclared
  <2>1. UpTo({}, 0) = 0
    BY <1>3 DEF UpTo
  <2>2. Depth(out, 0) = 0
    <3>1. At(out, "start") = {} /\ At(out, "end") = {}
      BY <1>2
    <3> QED BY <2>1, <3>1 DEF Depth
  <2>3. LevelsWritten(out, mappings, Len(open))
    BY <1>1 DEF LevelsWritten
  <2> QED BY <2>2, <2>3, <1>1, <1>2 DEF LevelsDeclared
<1>6. InForceMapped /\ Counted /\ Pending /\ UsedInOrder
  <2>1. InForceMapped /\ Pending /\ UsedInOrder
    BY <1>1, <1>2 DEF InForceMapped, ForceMapped, Pending, UsedInOrder
  <2>2. Cardinality(At(out, "decl")) = 0
    BY <1>2, <1>3
  <2> QED BY <1>1, <2>1, <2>2 DEF Counted
<1>7. ReadsBack
  BY <1>1, <1>2, <1>3 DEF ReadsBack, ReadAs
<1> QED BY <1>4, <1>5, <1>6, <1>7 DEF OutInv

\* Steps that write nothing and leave the stack alone keep it, and so do the
\* exits of process().
LEMMA NothingWrittenOut ==
  ASSUME OutInv,
         UNCHANGED <<open, mappings, prefixCnt, todo, dstAttrs, tags, out, infoset>>,
         \/ phase' = phase
         \/ phase = "event" /\ phase' = "done"
         \/ phase' = "failed"
  PROVE  OutInv'
<1>1. /\ TagsKnown(out)' /\ Numbered(out)' /\ Canonical(out)'
      /\ Comparator = "transFromSuckers" => Sorted(out)'
  BY DEF OutInv
<1>2. LevelsDeclared' /\ InForceMapped' /\ Counted'
  BY DEF OutInv, LevelsDeclared, InForceMapped, Counted, Mine
<1>3. Pending' /\ UsedInOrder'
  BY DEF OutInv, Pending, UsedInOrder, Mine, PrefixUses
<1>4. ReadsBack'
  BY DEF OutInv, ReadsBack
<1> QED BY <1>1, <1>2, <1>3, <1>4 DEF OutInv

\* Text written keeps it.
LEMMA TextOut ==
  ASSUME IInv, OutInv, NEW text \in Texts, Characters(text), text # Blank
  PROVE  OutInv'
<1> DEFINE e == Written("text", NoPrefix, text)
           r == Read("text", [ns |-> NoNs, local |-> text], {})
<1> PICK big : big = out'
  OBVIOUS
<1> PICK more : more = infoset'
  OBVIOUS
<1>1. /\ big = Append(out, e) /\ more = Append(infoset, r)
      /\ UNCHANGED <<phase, open, mappings, prefixCnt, todo, dstAttrs, tags>>
      /\ phase = "event"
  BY DEF Characters, NextEvent
<1>2. /\ text \in Nat /\ r \in Reports
      /\ e \in OutEvent /\ e.kind \in {"start", "text", "end"} /\ e.kind = "text"
      /\ e.prefix = NoPrefix /\ e.name = text
  BY NamesAssumption DEF Written, OutEvent, NoPrefix, Read, Reports, NoNs
<1>3. /\ out \in Docs /\ mappings \in Stacks /\ open \in Seq(Name)
      /\ Len(mappings) = Len(open)
  BY <1>1 DEF IInv, TypeOK, Docs, Stacks, OpenElementsMapped
<1>4. /\ TagsKnown(out) /\ Numbered(out) /\ Canonical(out)
      /\ Comparator = "transFromSuckers" => Sorted(out)
      /\ Depth(out, Len(out)) = Len(open) /\ LevelsWritten(out, mappings, Len(open))
      /\ ForceMapped(out, mappings)
      /\ prefixCnt = Cardinality(At(out, "decl")) + 1
      /\ ReadAs(infoset, out)
  BY <1>1 DEF OutInv, LevelsDeclared, InForceMapped, Counted, ReadsBack
<1>5. Len(open) \in Nat /\ Len(out) \in Nat
  BY <1>3 DEF Docs
<1>6. Longer(big, out, e)
  BY <1>1, <1>2, <1>3, <1>4 DEF Longer
<1> HIDE DEF e, r
<1>7. /\ big \in Docs /\ Len(big) = Len(out) + 1 /\ big[Len(out) + 1] = e
      /\ At(big, "decl") = At(out, "decl")
      /\ TagsKnown(big) /\ Numbered(big) /\ Canonical(big)
      /\ Comparator = "transFromSuckers" => Sorted(big)
  BY <1>6, <1>4, OneMore
<1>8. Depth(big, Len(out) + 1) = Len(open)
  BY <1>6, <1>2, <1>4, OneMoreDepth
<1>9. LevelsDeclared'
  <2>1. SameLevels(mappings, mappings, Len(open)) /\ Depth(big, Len(out) + 1) >= Len(open)
    BY <1>5, <1>8 DEF SameLevels
  <2>2. LevelsWritten(big, mappings, Len(open))
    BY <2>1, <1>6, <1>4, <1>5, MoreLevels
  <2> QED BY <2>2, <1>1, <1>7, <1>8 DEF LevelsDeclared
<1>10. InForceMapped'
  <2>1. Keeps(mappings, mappings, Depth(big, Len(out) + 1))
    BY DEF Keeps, SameAt
  <2>2. ForceMapped(big, mappings)
    BY <2>1, <1>6, <1>3, <1>4, MoreForced
  <2> QED BY <2>2, <1>1 DEF InForceMapped
<1>11. Counted' /\ Pending' /\ UsedInOrder'
  BY <1>1, <1>4, <1>7 DEF Counted, Pending, UsedInOrder
<1>12. ReadsBack'
  <2>1. r = Reported(big, Len(big))
    <3>1. big[Len(big)] = e
      BY <1>7
    <3>2. ExpandedName(big, Len(big)) = [ns |-> NoNs, local |-> text]
      BY <3>1, <1>2 DEF ExpandedName, NsAt
    <3> QED BY <3>1, <3>2, <1>2 DEF Reported, r
  <2>2. ReadAs(more, big)
    BY <2>1, <1>6, <1>1, <1>2, <1>4, MoreRead
  <2> QED BY <2>2, <1>1 DEF ReadsBack
<1> QED BY <1>7, <1>9, <1>10, <1>11, <1>12 DEF OutInv

\* The attributes of an element stand in the order of their comparator.
LEMMA SortedAttributes ==
  ASSUME NEW attrs \in AttributeLists, NEW all \in Sortings(attrs)
  PROVE  /\ Len(all) \in Nat /\ all \in [1..Len(all) -> Attributes] /\ all \in Seq(Name)
         /\ {all[i] : i \in DOMAIN all} = {attrs[i] : i \in DOMAIN attrs}
         /\ Comparator = "transFromSuckers" =>
              \A i \in 1..(Len(all) - 1) : Precedes(all[i], all[i + 1])
<1>1. /\ all \in AttributeLists
      /\ {all[i] : i \in DOMAIN all} = {attrs[i] : i \in DOMAIN attrs}
      /\ \A i \in 1..(Len(all) - 1) :
           Compare(all[i], all[i + 1]) < 0 \/ Compare(all[i + 1], all[i]) >= 0
  BY DEF Sortings
<1>2. all \in Seq(Name)
  BY <1>1, AttributeListsAreSeqs
<1>3. PICK n \in 0..MaxAttrs : all \in [1..n -> Attributes]
  BY <1>1 DEF AttributeLists
<1>4. Len(all) = n /\ Len(all) \in Nat /\ DOMAIN all = 1..n
  BY <1>2, <1>3, BoundsAssumption
<1>5. \A i, j \in DOMAIN all : all[i] = all[j] => i = j
  BY <1>1 DEF AttributeLists
<1>6. ASSUME Comparator = "transFromSuckers", NEW i \in 1..(Len(all) - 1)
      PROVE  Precedes(all[i], all[i + 1])
  <2>1. PICK x, y : x = all[i] /\ y = all[i + 1]
    OBVIOUS
  <2>2. i \in DOMAIN all /\ i + 1 \in DOMAIN all /\ i # i + 1
    BY <1>4
  <2>3. x # y /\ x \in Name /\ y \in Name
    <3>1. i \in 1..Len(all) /\ i + 1 \in 1..Len(all)
      BY <1>4
    <3> QED BY <2>1, <2>2, <1>2, <1>5, <3>1, ElementOfSeq
  <2>4. /\ x.ns \in Nat /\ x.local \in Nat /\ y.ns \in Nat /\ y.local \in Nat
        /\ x.ns # y.ns \/ x.local # y.local
    BY <2>3 DEF Name
  <2>5. CompareSuckers(x, y) < 0 \/ CompareSuckers(y, x) >= 0
    BY <2>1, <1>1, <1>6 DEF Compare
  <2>6. Precedes(x, y)
    BY <2>4, <2>5 DEF CompareSuckers, ByNsThenLocal, Precedes, NoNs
  <2> QED BY <2>1, <2>6
<1> QED BY <1>1, <1>2, <1>3, <1>4, <1>6

\* A start tag keeps it.
LEMMA StartOut ==
  ASSUME IInv, OutInv, NEW name \in Elements, NEW attrs \in AttributeLists,
         StartElement(name, attrs)
  PROVE  OutInv'
<1> PICK pushed : pushed = Append(mappings, <<>>)
  OBVIOUS
<1> PICK r : r = Resolved(pushed, name.ns)
  OBVIOUS
<1> DEFINE e == Written("start", r.prefix, name.local)
           report == Read("start", name, {attrs[i] : i \in DOMAIN attrs})
           n == Len(open)
<1>1. /\ mappings' = r.stack /\ prefixCnt' = r.cnt
      /\ tags' = Append(tags, [prefix |-> r.prefix, local |-> name.local])
      /\ out' = Append(out, e) /\ infoset' = Append(infoset, report)
      /\ open' = Append(open, name) /\ phase' = "attributes" /\ phase = "event"
      /\ dstAttrs' = <<>> /\ todo' \in Sortings(attrs)
  BY DEF StartElement, NextEvent
<1>2. /\ mappings \in Stacks /\ prefixCnt \in Nat \ {0} /\ name \in Name
      /\ open \in Seq(Name) /\ tags \in Seq([prefix : Nat \ {0}, local : Nat])
      /\ out \in Docs /\ Injective(mappings, prefixCnt)
      /\ Len(mappings) = n /\ Len(tags) = n /\ n \in Nat
  BY <1>1, NamesAssumption
     DEF IInv, TypeOK, Stacks, Docs, ScopeInjective, OpenElementsMapped
<1>3. /\ pushed \in Stacks /\ Places(pushed) = Places(mappings)
      /\ Len(pushed) = n + 1 /\ pushed # <<>>
      /\ \A p \in Places(mappings) : SameAt(mappings, pushed, p)
      /\ \A d \in 1..n : pushed[d] = mappings[d] /\ d \in DOMAIN pushed
      /\ pushed[n + 1] = <<>> /\ n + 1 \in DOMAIN pushed
  <2>1. /\ pushed \in Stacks /\ Places(pushed) = Places(mappings)
        /\ Len(pushed) = n + 1
        /\ \A p \in Places(mappings) : SameAt(mappings, pushed, p)
    BY <1>2, PushEmpty
  <2>2. pushed # <<>> /\ DOMAIN pushed = 1..(n + 1)
    BY <2>1, <1>2 DEF Stacks
  <2>3. pushed[n + 1] = <<>> /\ \A d \in 1..n : pushed[d] = mappings[d]
    BY <1>2 DEF Stacks
  <2> QED BY <2>1, <2>2, <2>3, <1>2
<1>4. Injective(pushed, prefixCnt)
  BY <1>2, <1>3, SubStackInjective
<1>5. name.ns \in Nat /\ name.local \in Nat
  BY <1>2 DEF Name
<1>6. /\ r.stack \in Stacks /\ Len(r.stack) = n + 1
      /\ r.prefix \in Nat \ {0}
      /\ \A p \in Places(mappings) : SameAt(mappings, r.stack, p)
  <2>1. /\ r.stack \in Stacks /\ Len(r.stack) = Len(pushed) /\ r.prefix \in Nat \ {0}
        /\ \A p \in Places(pushed) : SameAt(pushed, r.stack, p)
    BY <1>2, <1>3, <1>4, <1>5, ResolvedMaps
  <2> QED BY <2>1, <1>3 DEF SameAt
<1>7. /\ \A d \in 1..n : r.stack[d] = mappings[d]
      /\ \/ r.stack[n + 1] = <<>> /\ r.cnt = prefixCnt
         \/ /\ r.stack[n + 1] = <<[prefix |-> prefixCnt, ns |-> name.ns]>>
            /\ r.cnt = prefixCnt + 1 /\ r.prefix = prefixCnt
  <2>1. /\ \A d \in DOMAIN pushed : d # n + 1 => r.stack[d] = pushed[d]
        /\ \/ r.stack = pushed /\ r.cnt = prefixCnt
           \/ /\ r.stack[n + 1]
                   = Append(pushed[n + 1], [prefix |-> prefixCnt, ns |-> name.ns])
              /\ r.cnt = prefixCnt + 1 /\ r.prefix = prefixCnt
    <3>1. Len(pushed) = n + 1
      BY <1>3
    <3> HIDE DEF n
    <3>2. /\ \A d \in DOMAIN pushed : d # Len(pushed) => r.stack[d] = pushed[d]
          /\ \/ r.stack = pushed /\ r.cnt = prefixCnt
             \/ /\ r.stack[Len(pushed)]
                     = Append(pushed[Len(pushed)], [prefix |-> prefixCnt, ns |-> name.ns])
                /\ r.cnt = prefixCnt + 1 /\ r.prefix = prefixCnt
      <4>1. /\ prefixCnt \in Nat \ {0} /\ pushed \in Stacks /\ pushed # <<>>
            /\ name.ns \in Nat /\ Injective(pushed, prefixCnt)
        BY <1>2, <1>3, <1>4, <1>5
      <4>2. Either(pushed, name.ns, r)
        BY <4>1, ResolvedEither
      <4> QED BY <4>2 DEF Either
    <3> QED BY <3>1, <3>2
  <2>2. Append(<<>>, [prefix |-> prefixCnt, ns |-> name.ns])
          = <<[prefix |-> prefixCnt, ns |-> name.ns]>>
    OBVIOUS
  <2>3. \A d \in 1..n : d # n + 1
    BY <1>2
  <2> QED BY <2>1, <2>2, <2>3, <1>3
<1>8. /\ TagsKnown(out) /\ Numbered(out) /\ Canonical(out)
      /\ Comparator = "transFromSuckers" => Sorted(out)
      /\ Depth(out, Len(out)) = n /\ LevelsWritten(out, mappings, n)
      /\ ForceMapped(out, mappings)
      /\ prefixCnt = Cardinality(At(out, "decl")) + 1
      /\ ReadAs(infoset, out)
  BY <1>1 DEF OutInv, LevelsDeclared, InForceMapped, Counted, ReadsBack
<1>9. /\ Len(todo') \in Nat /\ todo' \in [1..Len(todo') -> Attributes]
      /\ {todo'[i] : i \in DOMAIN todo'} = {attrs[i] : i \in DOMAIN attrs}
      /\ Comparator = "transFromSuckers" =>
           \A i \in 1..(Len(todo') - 1) : Precedes(todo'[i], todo'[i + 1])
  BY <1>1, SortedAttributes
<1>10. report \in Reports
  <2>1. attrs \in Seq(Name)
    BY AttributeListsAreSeqs
  <2>2. {attrs[i] : i \in DOMAIN attrs} \in SUBSET Name
    BY <2>1
  <2> QED BY <2>2, <1>5 DEF Read, Reports
<1> PICK big : big = out'
  OBVIOUS
<1> PICK more : more = infoset'
  OBVIOUS
<1>11. /\ e \in OutEvent /\ e.kind = "start" /\ e.prefix = r.prefix /\ e.name = name.local
       /\ Longer(big, out, e)
  <2>1. /\ e \in OutEvent /\ e.kind = "start" /\ e.prefix = r.prefix /\ e.name = name.local
    BY <1>5, <1>6 DEF Written, OutEvent
  <2> QED BY <2>1, <1>1, <1>2, <1>8 DEF Longer
<1> HIDE DEF e, report, n
<1>12. /\ big \in Docs /\ Len(big) = Len(out) + 1 /\ big[Len(out) + 1] = e
       /\ At(big, "decl") = At(out, "decl")
       /\ TagsKnown(big) /\ Numbered(big) /\ Canonical(big)
       /\ Comparator = "transFromSuckers" => Sorted(big)
  BY <1>8, <1>11, OneMore
<1>13. /\ Len(open') = n + 1 /\ Len(mappings') = n + 1 /\ Len(tags') = n + 1
       /\ open'[n + 1] = name
       /\ tags'[n + 1] = [prefix |-> r.prefix, local |-> name.local]
  <2>1. [prefix |-> r.prefix, local |-> name.local] \in [prefix : Nat \ {0}, local : Nat]
    BY <1>5, <1>6
  <2> QED BY <2>1, <1>1, <1>2, <1>6 DEF n
<1>14. LevelsDeclared'
  <2>1. Depth(big, Len(out) + 1) = n + 1
    BY <1>8, <1>11, OneMoreDepth
  <2>2. SameLevels(mappings, r.stack, n) /\ Depth(big, Len(out) + 1) >= n
    BY <2>1, <1>2, <1>7 DEF SameLevels
  <2>3. LevelsWritten(big, r.stack, n)
    BY <2>2, <1>2, <1>8, <1>11, MoreLevels
  <2>4. Len(open') - 1 = n /\ mappings' = r.stack /\ phase' = "attributes"
    BY <1>1, <1>2, <1>13
  <2>5. Depth(out', Len(out')) = Len(open')
    <3>1. Depth(big, Len(big)) = n + 1
      BY <2>1, <1>12
    <3>2. Depth(out', Len(out')) = n + 1
      BY <3>1
    <3> QED BY <3>2, <1>13
  <2>6. LevelsWritten(out', mappings', Len(open') - 1)
    BY <2>3, <2>4
  <2> QED BY <2>4, <2>5, <2>6 DEF LevelsDeclared
<1>15. InForceMapped'
  <2>1. Keeps(mappings, r.stack, Depth(big, Len(out) + 1))
    BY <1>6 DEF Keeps
  <2>2. ForceMapped(big, r.stack)
    BY <2>1, <1>2, <1>8, <1>11, MoreForced
  <2> QED BY <2>2, <1>1 DEF InForceMapped
<1>16. Mine' = r.stack[n + 1]
  BY <1>1, <1>13 DEF Mine
<1>17. Counted'
  <2>1. /\ Mine' = <<>> /\ prefixCnt' = prefixCnt
        \/ /\ Mine' = <<[prefix |-> prefixCnt, ns |-> name.ns]>>
           /\ prefixCnt' = prefixCnt + 1
    BY <1>1, <1>7, <1>16
  <2>2. Cardinality(At(big, "decl")) = prefixCnt - 1 /\ prefixCnt \in Nat
    <3>1. /\ Len(big) \in Nat /\ At(big, "decl") \in SUBSET (1..Len(big))
      BY <1>12, Positions
    <3>2. Cardinality(At(big, "decl")) \in Nat
      BY <3>1, UpToCounts
    <3> PICK c : c = Cardinality(At(big, "decl"))
      OBVIOUS
    <3>3. c \in Nat /\ prefixCnt = c + 1
      BY <3>2, <1>8, <1>12
    <3>4. c = prefixCnt - 1 /\ prefixCnt \in Nat
      BY <3>3
    <3> QED BY <3>4
  <2> PICK c : c = Cardinality(At(big, "decl"))
    OBVIOUS
  <2>3. /\ prefixCnt' = Cardinality(At(big, "decl")) + Len(Mine') + 1
        /\ \A i \in DOMAIN Mine' : Mine'[i].prefix = Cardinality(At(big, "decl")) + i
    <3>1. CASE Mine' = <<>> /\ prefixCnt' = prefixCnt
      BY <3>1, <2>2
    <3>2. CASE /\ Mine' = <<[prefix |-> prefixCnt, ns |-> name.ns]>>
               /\ prefixCnt' = prefixCnt + 1
      <4>1. Len(Mine') = 1 /\ DOMAIN Mine' = {1} /\ Mine'[1].prefix = prefixCnt
        BY <3>2
      <4>2. c = prefixCnt - 1 /\ prefixCnt \in Nat
        BY <2>2
      <4>3. prefixCnt' = c + 1 + 1 /\ prefixCnt = c + 1
        BY <4>2, <3>2
      <4> QED BY <4>1, <4>3
    <3> QED BY <3>1, <3>2, <2>1
  <2> QED BY <2>3, <1>1 DEF Counted
<1>18. Pending'
  <2>1. /\ out' # <<>>
        /\ out'[Len(out')] = Written("start", tags'[Len(open')].prefix, open'[Len(open')].local)
    <3>1. big # <<>> /\ big[Len(big)] = e
      BY <1>2, <1>12 DEF Docs
    <3> QED BY <3>1, <1>13 DEF e
  <2>2. infoset'[Len(infoset')] = report
    BY <1>1, <1>8, <1>10 DEF ReadAs
  <2>3. Len(dstAttrs') = 0
    BY <1>1
  <2>4. Len(dstAttrs') + Len(todo') = Len(todo') /\ DOMAIN todo' = 1..Len(todo')
    BY <2>3, <1>9
  <2>5. PICK all : all = todo'
    OBVIOUS
  <2>6. all \in [1..(Len(dstAttrs') + Len(todo')) -> Attributes]
    BY <2>4, <2>5, <1>9
  <2>7. /\ \A i \in 1..Len(dstAttrs') : Means(mappings', dstAttrs'[i], all[i])
        /\ \A i \in 1..Len(todo') : todo'[i] = all[Len(dstAttrs') + i]
    BY <2>3, <2>5, <1>9
  <2>8. infoset'[Len(infoset')] = Read("start", open'[Len(open')], {all[i] : i \in DOMAIN all})
    BY <2>2, <2>5, <1>9, <1>13 DEF report
  <2>9. Comparator = "transFromSuckers" =>
          \A i \in 1..(Len(dstAttrs') + Len(todo') - 1) : Precedes(all[i], all[i + 1])
    BY <2>4, <2>5, <1>9
  <2> QED BY <2>1, <2>6, <2>7, <2>8, <2>9 DEF Pending
<1>19. UsedInOrder'
  <2>1. PrefixUses'[0] = r.prefix /\ 0 \in DOMAIN PrefixUses'
    BY <1>1, <1>13 DEF PrefixUses
  <2>2. CASE Mine' = <<>>
    BY <2>2 DEF UsedInOrder, FirstUses
  <2>3. CASE Mine' = <<[prefix |-> prefixCnt, ns |-> name.ns]>> /\ r.prefix = prefixCnt
    <3>1. DOMAIN Mine' = {1} /\ Mine'[1].prefix = r.prefix
      BY <2>3
    <3>2. \A x, z \in DOMAIN Mine' : ~(x < z)
      BY <3>1
    <3>3. FirstUses(Mine', PrefixUses')
      BY <3>1, <3>2, <2>1 DEF FirstUses
    <3> QED BY <3>3 DEF UsedInOrder
  <2> QED BY <2>2, <2>3, <1>7, <1>16
<1>20. ReadsBack'
  <2>1. ReadButLast(more, big)
    BY <1>1, <1>8, <1>10, <1>11, MoreRead
  <2> QED BY <2>1, <1>1 DEF ReadsBack
<1> QED BY <1>12, <1>14, <1>15, <1>17, <1>18, <1>19, <1>20 DEF OutInv


\* An end tag keeps it: read by the declarations in force, the tag has the
\* name that the reader closes.
LEMMA EndOut ==
  ASSUME IInv, OutInv, EndElement PROVE OutInv'
<1> DEFINE n == Len(open)
           e == Written("end", tags[n].prefix, tags[n].local)
           name == open[n]
           r == Read("end", name, {})
<1> PICK big : big = out'
  OBVIOUS
<1> PICK more : more = infoset'
  OBVIOUS
<1>1. /\ open # <<>> /\ open' = Outer(open) /\ mappings' = Outer(mappings)
      /\ big = Append(out, e) /\ more = Append(infoset, r)
      /\ phase = "event" /\ phase' = "event" /\ prefixCnt' = prefixCnt
  BY EndElementStep DEF EndElement, Close
<1>2. /\ tags[n].prefix \in Nat \ {0} /\ tags[n].local = name.local
      /\ Len(tags) = n /\ Len(mappings) = n /\ n \in DOMAIN open
  BY <1>1, EndPrefix
<1>3. /\ open \in Seq(Name) /\ mappings \in Stacks /\ out \in Docs
      /\ MappedFrom(mappings, n, name, tags[n])
  BY <1>1, <1>2 DEF IInv, TypeOK, Docs, Stacks, OpenElementsMapped
<1>4. /\ n \in Nat /\ n >= 1 /\ mappings # <<>> /\ name \in Name
      /\ name.ns \in Nat /\ name.local \in Nat
  <2>1. n \in Nat /\ n >= 1 /\ name \in Name
    BY <1>2, <1>3
  <2> HIDE DEF name
  <2>2. name.ns \in Nat /\ name.local \in Nat
    BY <2>1 DEF Name
  <2> QED BY <2>1, <2>2, <1>2
<1>5. /\ TagsKnown(out) /\ Numbered(out) /\ Canonical(out)
      /\ Comparator = "transFromSuckers" => Sorted(out)
      /\ Depth(out, Len(out)) = n /\ LevelsWritten(out, mappings, n)
      /\ ForceMapped(out, mappings)
      /\ prefixCnt = Cardinality(At(out, "decl")) + 1
      /\ ReadAs(infoset, out)
  BY <1>1 DEF OutInv, LevelsDeclared, InForceMapped, Counted, ReadsBack
<1> HIDE DEF name
<1>6. /\ e \in OutEvent /\ e.kind = "end" /\ e.prefix = tags[n].prefix
      /\ e.name = name.local /\ r \in Reports
  BY <1>2, <1>4 DEF Written, OutEvent, Read, Reports
<1>7. Longer(big, out, e)
  BY <1>1, <1>3, <1>5, <1>6 DEF Longer
<1> HIDE DEF e, r, n
<1>8. /\ big \in Docs /\ Len(big) = Len(out) + 1 /\ big[Len(out) + 1] = e
      /\ Extends(big, out) /\ At(big, "decl") = At(out, "decl")
      /\ TagsKnown(big) /\ Numbered(big) /\ Canonical(big)
      /\ Comparator = "transFromSuckers" => Sorted(big)
  BY <1>5, <1>7, OneMore
<1>9. Depth(big, Len(out) + 1) = n - 1 /\ n - 1 \in Nat
  BY <1>4, <1>5, <1>6, <1>7, OneMoreDepth
<1>10. /\ Len(open') = n - 1
       /\ SameLevels(mappings, mappings', n - 1) /\ Keeps(mappings, mappings', n - 1)
  <2>1. n = Len(open) /\ open # <<>>
    BY <1>1 DEF n
  <2>2. Len(open') = n - 1
    BY <2>1, <1>1, <1>3, OuterOfSeq
  <2>3. \A d \in 1..(n - 1) : mappings'[d] = mappings[d]
    BY <1>1, <1>2, <1>3, <1>4, OuterOfSeq DEF Stacks
  <2>4. \A p \in Places(mappings) : p[1] < n => SameAt(mappings, mappings', p)
    BY <1>1, <1>2, <1>3, <1>4, PopInnermost
  <2>5. ASSUME NEW p \in Places(mappings), p[1] <= n - 1 PROVE p[1] < n
    <3>1. p[1] \in 1..Len(mappings)
      BY <1>3, MappingOfStack
    <3> QED BY <3>1, <2>5, <1>2, <1>4
  <2> QED BY <2>2, <2>3, <2>4, <2>5 DEF SameLevels, Keeps
<1>11. LevelsDeclared'
  <2>1. LevelsWritten(out, mappings, n - 1)
    <3>1. \A d \in 1..(n - 1) : d \in 1..n
      BY <1>4
    <3> QED BY <3>1, <1>5 DEF LevelsWritten
  <2>2. Depth(big, Len(out) + 1) >= n - 1
    BY <1>9
  <2>3. LevelsWritten(big, mappings', n - 1)
    BY <2>1, <2>2, <1>7, <1>9, <1>10, MoreLevels
  <2>4. Depth(big, Len(big)) = n - 1
    BY <1>8, <1>9
  <2> QED BY <2>3, <2>4, <1>1, <1>10 DEF LevelsDeclared
<1>12. InForceMapped'
  <2>1. Keeps(mappings, mappings', Depth(big, Len(out) + 1))
    BY <1>9, <1>10
  <2>2. ForceMapped(big, mappings')
    BY <2>1, <1>3, <1>5, <1>7, MoreForced
  <2> QED BY <2>2, <1>1 DEF InForceMapped
<1>13. Counted' /\ Pending' /\ UsedInOrder'
  BY <1>1, <1>5, <1>8 DEF Counted, Pending, UsedInOrder
<1>14. ReadsBack'
  <2>1. PICK p \in Places(mappings) :
          MappingAt(mappings, p) = [prefix |-> tags[n].prefix, ns |-> name.ns]
    BY <1>3 DEF MappedFrom
  <2> PICK i : i = Len(out) + 1
    OBVIOUS
  <2>2. i \in 1..(Len(out) + 1) /\ \A s \in At(out, "start") : s <= i
    BY <1>3, Positions
  <2>3. big[i].prefix = MappingAt(mappings, p).prefix
    BY <2>1, <1>6, <1>8
  <2>4. LevelsWritten(out, mappings, Len(mappings))
    BY <1>2, <1>5
  <2>5. NsAt(big, i) = name.ns
    BY <2>1, <2>2, <2>3, <2>4, <1>3, <1>5, <1>8, MappingRead
  <2>6. big[i] = e /\ i = Len(big)
    BY <1>8
  <2>7. ExpandedName(big, i) = [ns |-> name.ns, local |-> name.local]
    BY <2>5, <2>6, <1>6 DEF ExpandedName
  <2>8. r = Reported(big, Len(big))
    <3>1. Reported(big, i) = Read("end", [ns |-> name.ns, local |-> name.local], {})
      BY <2>6, <2>7, <1>6 DEF Reported
    <3>2. Read("end", [ns |-> name.ns, local |-> name.local], {}) = r
      BY DEF Read, r
    <3> QED BY <3>1, <3>2, <2>6
  <2>9. ReadAs(more, big)
    BY <2>8, <1>1, <1>5, <1>6, <1>7, MoreRead
  <2> QED BY <2>9, <1>1 DEF ReadsBack
<1> QED BY <1>8, <1>11, <1>12, <1>13, <1>14 DEF OutInv

\* The prefixes used once another attribute is mapped, which may be the first
\* one to use a mapping put behind the others.
OneMoreUse(mine, uses, newMine, newUses, k, m) ==
  /\ k \in Nat /\ m \in Nat
  /\ DOMAIN mine = 1..k /\ DOMAIN uses = 0..m /\ DOMAIN newUses = 0..(m + 1)
  /\ \A y \in 0..m : newUses[y] = uses[y]
  /\ \/ newMine = mine
     \/ /\ DOMAIN newMine = 1..(k + 1)
        /\ \A x \in 1..k : newMine[x] = mine[x]
        /\ newMine[k + 1].prefix = newUses[m + 1]
        /\ \A y \in 0..m : uses[y] # newUses[m + 1]

LEMMA StillFirstUses ==
  ASSUME NEW mine, NEW uses, NEW newMine, NEW newUses, NEW k, NEW m,
         OneMoreUse(mine, uses, newMine, newUses, k, m), FirstUses(mine, uses)
  PROVE  FirstUses(newMine, newUses)
<1>1. /\ k \in Nat /\ m \in Nat /\ DOMAIN mine = 1..k
      /\ DOMAIN uses = 0..m /\ DOMAIN newUses = 0..(m + 1)
      /\ \A y \in 0..m : newUses[y] = uses[y]
  BY DEF OneMoreUse
<1>2. \A w \in 0..(m + 1) : w \in 0..m \/ w = m + 1
  BY <1>1
<1>3. \A y \in 0..m : y < m + 1 /\ y \in 0..(m + 1)
  BY <1>1
<1>4. CASE newMine = mine
  <2>1. ASSUME NEW x \in DOMAIN mine
        PROVE  \E y \in DOMAIN newUses :
                 /\ newUses[y] = mine[x].prefix
                 /\ \A z \in DOMAIN mine : x < z =>
                      \A w \in DOMAIN newUses : newUses[w] = mine[z].prefix => y < w
    <3>1. PICK y \in 0..m :
            /\ uses[y] = mine[x].prefix
            /\ \A z \in DOMAIN mine : x < z =>
                 \A w \in DOMAIN uses : uses[w] = mine[z].prefix => y < w
      BY <1>1 DEF FirstUses
    <3>2. ASSUME NEW z \in DOMAIN mine, x < z,
                 NEW w \in DOMAIN newUses, newUses[w] = mine[z].prefix
          PROVE  y < w
      <4>1. CASE w \in 0..m
        BY <4>1, <3>1, <3>2, <1>1
      <4>2. CASE w = m + 1
        BY <4>2, <1>3
      <4> QED BY <4>1, <4>2, <1>1, <1>2
    <3>3. newUses[y] = mine[x].prefix /\ y \in DOMAIN newUses
      BY <3>1, <1>1, <1>3
    <3> QED BY <3>2, <3>3
  <2> QED BY <2>1, <1>4 DEF FirstUses
<1>5. ASSUME /\ DOMAIN newMine = 1..(k + 1)
             /\ \A x \in 1..k : newMine[x] = mine[x]
             /\ newMine[k + 1].prefix = newUses[m + 1]
             /\ \A y \in 0..m : uses[y] # newUses[m + 1]
      PROVE  FirstUses(newMine, newUses)
  <2>1. \A x \in 1..(k + 1) : x \in 1..k \/ x = k + 1
    BY <1>1
  <2>2. ASSUME NEW x \in 1..k
        PROVE  \E y \in DOMAIN newUses :
                 /\ newUses[y] = newMine[x].prefix
                 /\ \A z \in DOMAIN newMine : x < z =>
                      \A w \in DOMAIN newUses : newUses[w] = newMine[z].prefix => y < w
    <3>1. PICK y \in 0..m :
            /\ uses[y] = mine[x].prefix
            /\ \A z \in DOMAIN mine : x < z =>
                 \A w \in DOMAIN uses : uses[w] = mine[z].prefix => y < w
      BY <1>1 DEF FirstUses
    <3>2. ASSUME NEW z \in DOMAIN newMine, x < z,
                 NEW w \in DOMAIN newUses, newUses[w] = newMine[z].prefix
          PROVE  y < w
      <4>1. CASE w = m + 1
        BY <4>1, <1>3
      <4>2. CASE w \in 0..m /\ z \in 1..k
        BY <4>2, <3>1, <3>2, <1>1, <1>5
      <4>3. CASE w \in 0..m /\ z = k + 1
        BY <4>3, <3>2, <1>1, <1>5
      <4> QED BY <4>1, <4>2, <4>3, <2>1, <1>1, <1>2, <1>5
    <3>3. newUses[y] = newMine[x].prefix /\ y \in DOMAIN newUses
      BY <3>1, <1>1, <1>3, <1>5
    <3> QED BY <3>2, <3>3
  <2>3. /\ newUses[m + 1] = newMine[k + 1].prefix /\ m + 1 \in DOMAIN newUses
        /\ \A z \in DOMAIN newMine : ~(k + 1 < z)
    BY <1>1, <1>5
  <2> QED BY <2>1, <2>2, <2>3, <1>5 DEF FirstUses
<1> QED BY <1>4, <1>5 DEF OneMoreUse

\* What mapping an attribute does to the stack and the counter: nothing, or
\* one mapping more of the innermost element.
LEMMA AttributeMapped ==
  ASSUME IInv, MapAttribute,
         NEW n, n = Len(mappings), NEW attr, attr = Head(todo), NEW w,
         w = dstAttrs'[Len(dstAttrs) + 1]
  PROVE  /\ mappings \in Stacks /\ mappings' \in Stacks /\ n \in Nat \ {0}
         /\ n = Len(open) /\ Len(mappings') = n /\ Len(tags) = n
         /\ \A d \in 1..n : d # n => mappings'[d] = mappings[d]
         /\ \A p \in Places(mappings) : SameAt(mappings, mappings', p)
         /\ \/ mappings'[n] = mappings[n] /\ prefixCnt' = prefixCnt
            \/ /\ mappings'[n] = Append(mappings[n], [prefix |-> w.prefix, ns |-> attr.ns])
               /\ w.prefix = prefixCnt /\ prefixCnt' = prefixCnt + 1
         /\ attr \in Name /\ Means(mappings', w, attr)
         /\ dstAttrs' = Append(dstAttrs, w)
<1> DEFINE r == IF attr.ns = NoNs
                THEN [stack |-> mappings, cnt |-> prefixCnt, prefix |-> NoPrefix]
                ELSE Resolved(mappings, attr.ns)
<1>1. /\ mappings \in Stacks /\ prefixCnt \in Nat \ {0}
      /\ open \in Seq(Name) /\ open # <<>> /\ dstAttrs \in Docs
      /\ Len(mappings) = Len(open) /\ Len(tags) = Len(open)
      /\ todo \in Seq(Name) /\ todo # <<>> /\ Injective(mappings, prefixCnt)
  BY DEF IInv, TypeOK, Stacks, Docs, MapAttribute, OpenElementsMapped,
         AttributesOfOpenElement, ScopeInjective
<1>2. attr \in Name /\ attr.ns \in Nat
  <2>1. attr \in Name
    BY <1>1, HeadTailProperties
  <2> QED BY <2>1 DEF Name
<1>3. n \in Nat \ {0} /\ mappings # <<>> /\ n \in DOMAIN mappings /\ DOMAIN mappings = 1..n
  <2>1. Len(open) \in Nat \ {0}
    BY <1>1
  <2>2. n \in Nat \ {0} /\ mappings # <<>> /\ DOMAIN mappings = 1..n
    BY <2>1, <1>1 DEF Stacks
  <2> QED BY <2>2
<1>4. /\ mappings' = r.stack /\ prefixCnt' = r.cnt
      /\ dstAttrs' = Append(dstAttrs, Written("attr", r.prefix, attr.local))
  BY DEF MapAttribute
<1>5. w = Written("attr", r.prefix, attr.local)
  BY <1>1, <1>4 DEF Docs
<1>6. w.kind = "attr" /\ w.prefix = r.prefix /\ w.name = attr.local
  BY <1>5 DEF Written
<1>7. CASE attr.ns = NoNs
  <2>1. r = [stack |-> mappings, cnt |-> prefixCnt, prefix |-> NoPrefix]
    BY <1>7
  <2> HIDE DEF r
  <2>2. mappings' = mappings /\ prefixCnt' = prefixCnt /\ w.prefix = NoPrefix
    BY <2>1, <1>4, <1>6
  <2>3. Means(mappings', w, attr)
    BY <2>2, <1>6, <1>7 DEF Means
  <2>4. \A p \in Places(mappings) : SameAt(mappings, mappings', p)
    BY <2>2 DEF SameAt
  <2> QED BY <2>2, <2>3, <2>4, <1>1, <1>2, <1>3, <1>4, <1>5
<1>8. CASE attr.ns # NoNs
  <2>1. r = Resolved(mappings, attr.ns)
    BY <1>8
  <2> HIDE DEF r
  <2>2. /\ r.stack \in Stacks /\ Len(r.stack) = Len(mappings)
        /\ \A p \in Places(mappings) : SameAt(mappings, r.stack, p)
        /\ \E p \in Places(r.stack) :
             MappingAt(r.stack, p) = [prefix |-> r.prefix, ns |-> attr.ns]
    BY <2>1, <1>1, <1>2, <1>3, ResolvedMaps
  <2>3. Either(mappings, attr.ns, r)
    BY <2>1, <1>1, <1>2, <1>3, ResolvedEither
  <2>4. Means(mappings', w, attr)
    BY <2>2, <1>4, <1>6, <1>8 DEF Means
  <2>5. /\ \A d \in 1..n : d # n => mappings'[d] = mappings[d]
        /\ \/ mappings'[n] = mappings[n] /\ prefixCnt' = prefixCnt
           \/ /\ mappings'[n] = Append(mappings[n], [prefix |-> w.prefix, ns |-> attr.ns])
              /\ w.prefix = prefixCnt /\ prefixCnt' = prefixCnt + 1
    BY <2>3, <1>3, <1>4, <1>6 DEF Either
  <2> QED BY <2>2, <2>4, <2>5, <1>1, <1>2, <1>3, <1>4, <1>5
<1> QED BY <1>7, <1>8

\* Mapping an attribute keeps it.
LEMMA MapAttributeOut ==
  ASSUME IInv, OutInv, MapAttribute PROVE OutInv'
<1> PICK n : n = Len(mappings)
  OBVIOUS
<1> PICK attr : attr = Head(todo)
  OBVIOUS
<1> PICK w : w = dstAttrs'[Len(dstAttrs) + 1]
  OBVIOUS
<1>1. /\ mappings \in Stacks /\ mappings' \in Stacks /\ n \in Nat \ {0}
      /\ n = Len(open) /\ Len(mappings') = n /\ Len(tags) = n
      /\ \A d \in 1..n : d # n => mappings'[d] = mappings[d]
      /\ \A p \in Places(mappings) : SameAt(mappings, mappings', p)
      /\ \/ mappings'[n] = mappings[n] /\ prefixCnt' = prefixCnt
         \/ /\ mappings'[n] = Append(mappings[n], [prefix |-> w.prefix, ns |-> attr.ns])
            /\ w.prefix = prefixCnt /\ prefixCnt' = prefixCnt + 1
      /\ attr \in Name /\ Means(mappings', w, attr)
      /\ dstAttrs' = Append(dstAttrs, w)
  BY AttributeMapped
<1>2. /\ phase = "attributes" /\ todo # <<>> /\ todo' = Tail(todo)
      /\ UNCHANGED <<phase, open, tags, out, infoset>>
  BY DEF MapAttribute
<1>3. /\ prefixCnt \in Nat \ {0} /\ dstAttrs \in Docs /\ todo \in Seq(Name)
      /\ out \in Docs /\ Injective(mappings, prefixCnt)
  BY DEF IInv, TypeOK, Docs, ScopeInjective
<1>4. /\ TagsKnown(out) /\ Numbered(out) /\ Canonical(out)
      /\ Comparator = "transFromSuckers" => Sorted(out)
      /\ Depth(out, Len(out)) = n /\ LevelsWritten(out, mappings, n - 1)
      /\ ForceMapped(out, mappings)
      /\ FirstUses(Mine, PrefixUses)
      /\ ReadButLast(infoset, out)
  BY <1>1, <1>2 DEF OutInv, LevelsDeclared, InForceMapped, UsedInOrder, ReadsBack
<1>5. LevelsDeclared'
  <2>1. \A d \in 1..(n - 1) : d \in 1..n /\ d # n
    BY <1>1
  <2>2. LevelsWritten(out, mappings', n - 1)
    BY <2>1, <1>1, <1>4 DEF LevelsWritten
  <2> QED BY <2>2, <1>1, <1>2, <1>4 DEF LevelsDeclared
<1>6. InForceMapped'
  <2>1. ForceMapped(out, mappings')
    BY <1>1, <1>4 DEF ForceMapped, SameAt
  <2> QED BY <2>1, <1>2 DEF InForceMapped
<1>7. Mine = mappings[n] /\ Mine' = mappings'[n] /\ Mine \in Seq(Mapping)
  <2>1. Mine = mappings[n] /\ Mine' = mappings'[n]
    BY <1>1 DEF Mine
  <2>2. n \in 1..Len(mappings)
    BY <1>1
  <2> QED BY <2>1, <2>2, <1>1, ElementOfSeq DEF Stacks
<1> PICK m : m = Len(dstAttrs)
  OBVIOUS
<1> PICK k : k = Len(Mine)
  OBVIOUS
<1>8. /\ m \in Nat /\ k \in Nat /\ DOMAIN Mine = 1..k /\ Len(dstAttrs') = m + 1
      /\ \A y \in 1..m : dstAttrs'[y] = dstAttrs[y]
      /\ dstAttrs'[m + 1] = w
  BY <1>1, <1>3, <1>7 DEF Docs
<1>9. \/ Mine' = Mine /\ prefixCnt' = prefixCnt
      \/ /\ DOMAIN Mine' = 1..(k + 1) /\ Len(Mine') = k + 1
         /\ \A x \in 1..k : Mine'[x] = Mine[x]
         /\ Mine'[k + 1].prefix = prefixCnt /\ w.prefix = prefixCnt
         /\ prefixCnt' = prefixCnt + 1
  <2>1. CASE mappings'[n] = mappings[n] /\ prefixCnt' = prefixCnt
    BY <2>1, <1>7
  <2>2. CASE /\ mappings'[n] = Append(mappings[n], [prefix |-> w.prefix, ns |-> attr.ns])
             /\ w.prefix = prefixCnt /\ prefixCnt' = prefixCnt + 1
    <3> PICK new : new = [prefix |-> w.prefix, ns |-> attr.ns]
      OBVIOUS
    <3>1. Mine' = Append(Mine, new) /\ new.prefix = prefixCnt
      BY <2>2, <1>7
    <3>2. /\ DOMAIN Append(Mine, new) = 1..(k + 1) /\ Len(Append(Mine, new)) = k + 1
          /\ \A x \in 1..k : Append(Mine, new)[x] = Mine[x]
          /\ Append(Mine, new)[k + 1] = new
      BY <1>7, <1>8
    <3> QED BY <3>1, <3>2, <2>2
  <2> QED BY <2>1, <2>2, <1>1
<1>10. Counted'
  <2> PICK c : c = Cardinality(At(out, "decl"))
    OBVIOUS
  <2>1. c \in Nat
    BY <1>3, Positions, UpToCounts
  <2>2. prefixCnt = c + k + 1 /\ \A x \in 1..k : Mine[x].prefix = c + x
    BY <1>2, <1>8 DEF OutInv, Counted
  <2>3. prefixCnt' = c + Len(Mine') + 1 /\ \A x \in DOMAIN Mine' : Mine'[x].prefix = c + x
    <3>1. CASE Mine' = Mine /\ prefixCnt' = prefixCnt
      BY <3>1, <2>2, <1>8
    <3>2. CASE /\ DOMAIN Mine' = 1..(k + 1) /\ Len(Mine') = k + 1
               /\ \A x \in 1..k : Mine'[x] = Mine[x]
               /\ Mine'[k + 1].prefix = prefixCnt
               /\ prefixCnt' = prefixCnt + 1
      <4>1. prefixCnt' = c + (k + 1) + 1 /\ prefixCnt = c + (k + 1)
        BY <3>2, <2>1, <2>2, <1>8
      <4>2. \A x \in 1..(k + 1) : x \in 1..k \/ x = k + 1
        BY <1>8
      <4> QED BY <4>1, <4>2, <3>2, <2>2
    <3> QED BY <3>1, <3>2, <1>9
  <2> QED BY <2>3, <1>2 DEF Counted
<1>11. PICK all \in [1..(m + Len(todo)) -> Attributes] :
         /\ \A i \in 1..m : Means(mappings, dstAttrs[i], all[i])
         /\ \A i \in 1..Len(todo) : todo[i] = all[m + i]
         /\ infoset[Len(infoset)] = Read("start", open[Len(open)], {all[i] : i \in DOMAIN all})
         /\ Comparator = "transFromSuckers" =>
              \A i \in 1..(m + Len(todo) - 1) : Precedes(all[i], all[i + 1])
  BY <1>2 DEF OutInv, Pending
<1>12. \A i \in 1..m : Means(mappings', dstAttrs[i], all[i])
  BY <1>1, <1>11 DEF Means, SameAt
<1>13. Pending'
  <2>1. /\ Len(todo) \in Nat \ {0} /\ Len(todo') = Len(todo) - 1 /\ attr = todo[1]
        /\ \A i \in 1..Len(todo') : todo'[i] = todo[i + 1]
    BY <1>2, <1>3, HeadTailProperties
  <2>2. Len(dstAttrs') + Len(todo') = m + Len(todo)
    BY <2>1, <1>8
  <2>3. \A i \in 1..Len(dstAttrs') : Means(mappings', dstAttrs'[i], all[i])
    <3>1. attr = all[m + 1]
      BY <2>1, <1>11
    <3>2. \A i \in 1..(m + 1) : i \in 1..m \/ i = m + 1
      BY <1>8
    <3> QED BY <3>1, <3>2, <1>1, <1>8, <1>12
  <2>4. ASSUME NEW i \in 1..Len(todo') PROVE todo'[i] = all[Len(dstAttrs') + i]
    <3> PICK l : l = Len(todo)
      OBVIOUS
    <3>1. l \in Nat \ {0} /\ Len(todo') = l - 1 /\ i \in 1..(l - 1)
      BY <2>1
    <3>2. i \in Nat /\ i + 1 \in 1..l /\ m + (i + 1) = m + 1 + i
      BY <3>1, <1>8
    <3>3. todo[i + 1] = all[m + (i + 1)]
      BY <3>2, <1>11
    <3>4. todo'[i] = todo[i + 1]
      BY <2>1
    <3> QED BY <3>2, <3>3, <3>4, <1>8
  <2>5. /\ out' # <<>>
        /\ out'[Len(out')] = Written("start", tags'[Len(open')].prefix, open'[Len(open')].local)
    BY <1>2 DEF OutInv, Pending
  <2>6. infoset'[Len(infoset')] = Read("start", open'[Len(open')], {all[i] : i \in DOMAIN all})
    BY <1>2, <1>11
  <2>7. /\ all \in [1..(Len(dstAttrs') + Len(todo')) -> Attributes]
        /\ Comparator = "transFromSuckers" =>
             \A i \in 1..(Len(dstAttrs') + Len(todo') - 1) : Precedes(all[i], all[i + 1])
    BY <2>2, <1>11
  <2> QED BY <2>3, <2>4, <2>5, <2>6, <2>7 DEF Pending
<1>14. UsedInOrder'
  <2>1. /\ DOMAIN PrefixUses = 0..m /\ DOMAIN PrefixUses' = 0..(m + 1)
        /\ PrefixUses[0] = tags[Len(tags)].prefix
        /\ \A y \in 1..m : PrefixUses[y] = dstAttrs[y].prefix
        /\ \A y \in 0..m : PrefixUses'[y] = PrefixUses[y]
        /\ PrefixUses'[m + 1] = w.prefix
    BY <1>2, <1>8 DEF PrefixUses
  <2>2. \A y \in 0..m : PrefixUses[y] # prefixCnt
    <3>1. \A p \in Places(mappings) : MappingAt(mappings, p).prefix < prefixCnt
      BY <1>3 DEF Injective
    <3>2. \A p \in Places(mappings) : MappingAt(mappings, p).prefix # prefixCnt
      <4>1. \A p \in Places(mappings) : MappingAt(mappings, p).prefix \in Nat
        BY <1>1, MappingOfStack DEF Mapping
      <4> QED BY <4>1, <3>1, <1>3
    <3>3. PrefixUses[0] # prefixCnt
      <4>1. n \in DOMAIN open
        <5>1. open \in Seq(Name)
          BY DEF IInv, TypeOK
        <5> QED BY <5>1, <1>1
      <4>2. MappedFrom(mappings, n, open[n], tags[n])
        BY <4>1, <1>2 DEF IInv, OpenElementsMapped
      <4>3. PICK p \in Places(mappings) :
              MappingAt(mappings, p) = [prefix |-> tags[n].prefix, ns |-> open[n].ns]
        BY <4>2 DEF MappedFrom
      <4> QED BY <4>3, <3>2, <2>1, <1>1
    <3>4. ASSUME NEW y \in 1..m PROVE PrefixUses[y] # prefixCnt
      <4>1. Means(mappings, dstAttrs[y], all[y])
        BY <1>11
      <4>2. CASE dstAttrs[y].prefix = NoPrefix
        BY <4>2, <2>1, <1>3 DEF NoPrefix
      <4>3. CASE \E p \in Places(mappings) :
                   MappingAt(mappings, p) = [prefix |-> dstAttrs[y].prefix, ns |-> all[y].ns]
        BY <4>3, <3>2, <2>1
      <4> QED BY <4>1, <4>2, <4>3 DEF Means
    <3>5. \A y \in 0..m : y = 0 \/ y \in 1..m
      BY <1>8
    <3> QED BY <3>3, <3>4, <3>5
  <2> PICK newMine : newMine = Mine'
    OBVIOUS
  <2> PICK newUses : newUses = PrefixUses'
    OBVIOUS
  <2>3. OneMoreUse(Mine, PrefixUses, newMine, newUses, k, m)
    BY <2>1, <2>2, <1>8, <1>9 DEF OneMoreUse
  <2>4. FirstUses(newMine, newUses)
    BY <2>3, <1>4, StillFirstUses
  <2> QED BY <2>4 DEF UsedInOrder
<1>15. ReadsBack'
  BY <1>2, <1>4 DEF ReadsBack
<1> QED BY <1>2, <1>4, <1>5, <1>6, <1>10, <1>13, <1>14, <1>15 DEF OutInv

\* Writing the declarations and the attributes of a tag keeps it.
LEMMA WriteAttributesOut ==
  ASSUME IInv, OutInv, WriteAttributes PROVE OutInv'
<1> DEFINE n == Len(mappings)
           decls == [i \in DOMAIN Mine |-> Written("decl", Mine[i].prefix, Mine[i].ns)]
<1> PICK big : big = out'
  OBVIOUS
<1>1. /\ phase = "attributes" /\ todo = <<>> /\ phase' = "event"
      /\ big = out \o decls \o dstAttrs
      /\ UNCHANGED <<open, mappings, prefixCnt, todo, dstAttrs, tags, infoset>>
  BY DEF WriteAttributes, Mine
<1>2. /\ mappings \in Stacks /\ open \in Seq(Name) /\ open # <<>> /\ n = Len(open)
      /\ n = Len(tags) /\ out \in Docs /\ dstAttrs \in Docs /\ Injective(mappings, prefixCnt)
      /\ \A d \in DOMAIN open : MappedFrom(mappings, d, open[d], tags[d])
  BY <1>1 DEF IInv, TypeOK, Stacks, Docs, OpenElementsMapped, AttributesOfOpenElement,
              ScopeInjective
<1> HIDE DEF decls
<1>3. n \in Nat \ {0} /\ mappings # <<>> /\ n \in DOMAIN open /\ open[n] \in Name
  <2>1. Len(open) \in Nat \ {0} /\ DOMAIN open = 1..Len(open)
    <3>1. open \in Seq(Name) /\ open # <<>>
      BY <1>2
    <3> HIDE DEF n
    <3> QED BY <3>1
  <2>2. n \in Nat \ {0} /\ mappings # <<>> /\ n \in DOMAIN open
    BY <2>1, <1>2
  <2> QED BY <2>2, <1>2
<1>4. Mine = mappings[n] /\ Mine \in Seq(Mapping)
  <2>1. n \in 1..Len(mappings)
    BY <1>3
  <2> QED BY <2>1, <1>2, ElementOfSeq DEF Stacks, Mine
<1> HIDE DEF n
<1>5. /\ TagsKnown(out) /\ Numbered(out) /\ Canonical(out)
      /\ Comparator = "transFromSuckers" => Sorted(out)
      /\ Depth(out, Len(out)) = n /\ LevelsWritten(out, mappings, n - 1)
      /\ ForceMapped(out, mappings)
      /\ prefixCnt = Cardinality(At(out, "decl")) + Len(Mine) + 1
      /\ \A x \in DOMAIN Mine : Mine[x].prefix = Cardinality(At(out, "decl")) + x
      /\ FirstUses(Mine, PrefixUses) /\ ReadButLast(infoset, out)
      /\ out # <<>> /\ out[Len(out)] = Written("start", tags[n].prefix, open[n].local)
  BY <1>1, <1>2 DEF OutInv, LevelsDeclared, InForceMapped, Counted, UsedInOrder, ReadsBack,
                    Pending
<1>6. /\ out[Len(out)].kind = "start" /\ out[Len(out)].prefix = tags[n].prefix
      /\ out[Len(out)].name = open[n].local
  BY <1>5 DEF Written
<1>7. PICK all \in [1..Len(dstAttrs) -> Attributes] :
        /\ \A i \in 1..Len(dstAttrs) : Means(mappings, dstAttrs[i], all[i])
        /\ infoset[Len(infoset)] = Read("start", open[n], {all[i] : i \in DOMAIN all})
        /\ Comparator = "transFromSuckers" =>
             \A i \in 1..(Len(dstAttrs) - 1) : Precedes(all[i], all[i + 1])
  <2> PICK m : m = Len(dstAttrs) + Len(todo)
    OBVIOUS
  <2>1. m = Len(dstAttrs)
    BY <1>1, <1>2 DEF Docs
  <2>2. PICK all \in [1..(Len(dstAttrs) + Len(todo)) -> Attributes] :
          /\ \A i \in 1..Len(dstAttrs) : Means(mappings, dstAttrs[i], all[i])
          /\ infoset[Len(infoset)] = Read("start", open[Len(open)], {all[i] : i \in DOMAIN all})
          /\ Comparator = "transFromSuckers" =>
               \A i \in 1..(Len(dstAttrs) + Len(todo) - 1) : Precedes(all[i], all[i + 1])
    BY <1>1 DEF OutInv, Pending
  <2>3. /\ all \in [1..m -> Attributes]
        /\ Comparator = "transFromSuckers" =>
             \A i \in 1..(m - 1) : Precedes(all[i], all[i + 1])
    BY <2>2
  <2> QED BY <2>1, <2>2, <2>3, <1>2
<1>8. Block(big, out, Mine, dstAttrs)
  <2>1. \A x \in 1..Len(Mine) : Mine[x].prefix = Cardinality(At(out, "decl")) + x
    BY <1>4, <1>5
  <2>2. \A y \in 1..Len(dstAttrs) : dstAttrs[y].kind = "attr"
    BY <1>7 DEF Means
  <2>3. decls = [i \in DOMAIN Mine |-> Written("decl", Mine[i].prefix, Mine[i].ns)]
    BY DEF decls
  <2>4. \A mine : mine = Mine => Block(big, out, mine, dstAttrs)
    <3> SUFFICES ASSUME NEW mine, mine = Mine PROVE Block(big, out, mine, dstAttrs)
      OBVIOUS
    <3> QED BY <2>1, <2>2, <2>3, <1>1, <1>2, <1>4, <1>5, <1>6, BlockWritten
  <2> QED BY <2>4
<1>9. Block(big, out, mappings[Len(mappings)], dstAttrs)
  BY <1>8 DEF Mine
<1>10. /\ TagsKnown(big) /\ Numbered(big) /\ Settled(big, out, Len(out) - 1)
       /\ Len(out) - 1 \in 0..Len(out)
  BY <1>8, BlockSettled
<1>11. UsedPrefixes(PrefixUses, out, dstAttrs)
  <2>1. 0 \in 0..Len(dstAttrs) /\ \A y \in 1..Len(dstAttrs) : y \in 0..Len(dstAttrs) /\ y # 0
    BY <1>2 DEF Docs
  <2> QED BY <2>1, <1>2, <1>6 DEF UsedPrefixes, PrefixUses
<1>12. Canonical(big)
  <2>1. FirstUses(mappings[Len(mappings)], PrefixUses) /\ Depth(out, Len(out)) = Len(mappings)
    BY <1>4, <1>5 DEF n
  <2> QED BY <2>1, <1>2, <1>3, <1>5, <1>9, <1>11, BlockCanonical
<1>13. Named(mappings, out, dstAttrs, open[n], all)
  <2>1. \E p \in Places(mappings) :
          MappingAt(mappings, p) = [prefix |-> out[Len(out)].prefix, ns |-> open[n].ns]
    BY <1>2, <1>3, <1>6 DEF MappedFrom
  <2>2. all \in [1..Len(dstAttrs) -> Name]
    BY NamesAssumption
  <2> QED BY <2>1, <2>2, <1>3, <1>6, <1>7 DEF Named
<1>14. NamesRead(big, out, mappings[Len(mappings)], dstAttrs, open[n], all)
  <2>1. Depth(out, Len(out)) = Len(mappings) /\ LevelsWritten(out, mappings, Len(mappings) - 1)
    BY <1>5 DEF n
  <2> QED BY <2>1, <1>2, <1>3, <1>9, <1>13, BlockReads
<1>15. Reported(big, Len(out)) = Read("start", open[n], {all[y] : y \in DOMAIN all})
  BY <1>14 DEF NamesRead
<1>16. Comparator = "transFromSuckers" => Sorted(big)
  <2> SUFFICES ASSUME Comparator = "transFromSuckers" PROVE Sorted(big)
    OBVIOUS
  <2>1. Sorted(out) /\ Ascending(all, Len(dstAttrs))
    BY <1>5, <1>7 DEF Ascending
  <2> QED BY <2>1, <1>9, <1>14, BlockSorted
<1>17. LevelsDeclared'
  <2>1. Depth(out, Len(out)) = Len(mappings) /\ LevelsWritten(out, mappings, Len(mappings) - 1)
    BY <1>5 DEF n
  <2>2. /\ \A k \in Len(out)..Len(big) : Depth(big, k) = Len(mappings)
        /\ LevelsWritten(big, mappings, Len(mappings))
    BY <2>1, <1>2, <1>3, <1>9, BlockLevels
  <2>3. Len(big) \in Len(out)..Len(big)
    BY <1>8, BlockParts
  <2> QED BY <2>2, <2>3, <1>1, <1>2 DEF LevelsDeclared, n
<1>18. InForceMapped'
  <2>1. Depth(out, Len(out)) = Len(mappings)
    BY <1>5 DEF n
  <2>2. ForceMapped(big, mappings)
    BY <2>1, <1>2, <1>3, <1>5, <1>9, BlockForced
  <2> QED BY <2>2, <1>1 DEF InForceMapped
<1>19. /\ Significant(big) = Significant(out)
       /\ Cardinality(At(big, "decl")) = Cardinality(At(out, "decl")) + Len(Mine)
  BY <1>8, BlockCounts
<1>20. Counted' /\ Pending' /\ UsedInOrder'
  BY <1>1, <1>5, <1>19 DEF Counted, Pending, UsedInOrder
<1>21. ReadsBack'
  <2>1. /\ infoset \in Seq(Reports) /\ Len(infoset) = Cardinality(Significant(out))
        /\ \A i \in Significant(out) :
             i < Len(out) => infoset[UpTo(Significant(out), i)] = Reported(out, i)
    BY <1>5 DEF ReadButLast
  <2>2. Len(out) \in Nat /\ Significant(out) \in SUBSET (1..Len(out))
    BY <1>2, Positions
  <2>3. UpTo(Significant(out), Len(out)) = Cardinality(Significant(out))
    <3> PICK l : l = Len(out)
      OBVIOUS
    <3> PICK S : S = Significant(out)
      OBVIOUS
    <3>1. l \in Nat /\ S \in SUBSET (1..l) /\ l <= l
      BY <2>2
    <3>2. UpTo(S, l) = Cardinality(S)
      BY <3>1, UpToCounts
    <3> QED BY <3>2
  <2>4. \A i \in 1..(Len(out) - 1) : Reported(big, i) = Reported(out, i)
    <3> PICK m : m = Len(out) - 1
      OBVIOUS
    <3>1. /\ m \in 0..Len(out) /\ Settled(big, out, m) /\ TagsKnown(big) /\ Numbered(big)
          /\ TagsKnown(out) /\ Numbered(out)
      BY <1>5, <1>10
    <3>2. out \in Docs /\ big \in Docs /\ Extends(big, out)
      BY <1>8, BlockParts
    <3>3. \A i \in 1..m : Reported(big, i) = Reported(out, i)
      BY <3>1, <3>2, OlderReading
    <3> QED BY <3>3
  <2>5. ASSUME NEW i \in Significant(out)
        PROVE  infoset[UpTo(Significant(out), i)] = Reported(big, i)
    <3>1. (i \in 1..(Len(out) - 1) /\ i < Len(out)) \/ i = Len(out)
      BY <2>2
    <3>2. CASE i \in 1..(Len(out) - 1) /\ i < Len(out)
      BY <3>2, <2>1, <2>4
    <3>3. CASE i = Len(out)
      BY <3>3, <2>1, <2>3, <1>7, <1>15
    <3> QED BY <3>1, <3>2, <3>3
  <2>6. ReadAs(infoset, big)
    BY <2>1, <2>5, <1>19 DEF ReadAs
  <2> QED BY <2>6, <1>1 DEF ReadsBack
<1> QED BY <1>10, <1>12, <1>16, <1>17, <1>18, <1>20, <1>21 DEF OutInv

\* Every step of process() keeps the invariant of the output.
LEMMA NextOut == IInv /\ OutInv /\ [Next]_vars => OutInv'
<1> SUFFICES ASSUME IInv, OutInv, [Next]_vars PROVE OutInv'
  OBVIOUS
<1>1. ASSUME NEW text \in Texts, Characters(text) PROVE OutInv'
  <2>1. CASE text = Blank
    BY <1>1, <2>1, NothingWrittenOut DEF Characters
  <2>2. CASE text # Blank
    BY <1>1, <2>2, TextOut
  <2> QED BY <2>1, <2>2
<1>2. CASE \E name \in Elements, attrs \in AttributeLists : StartElement(name, attrs)
  BY <1>2, StartOut
<1>3. CASE MapAttribute
  BY <1>3, MapAttributeOut
<1>4. CASE WriteAttributes
  BY <1>4, WriteAttributesOut
<1>5. CASE EndElement
  BY <1>5, EndOut
<1>6. CASE OtherEvent
  BY <1>6, NothingWrittenOut DEF OtherEvent
<1>7. CASE EndOfInput
  BY <1>7, NothingWrittenOut DEF EndOfInput
<1>8. CASE StreamFault
  BY <1>8, NothingWrittenOut DEF StreamFault
<1>9. CASE Returned \/ UNCHANGED vars
  <2>1. UNCHANGED vars
    BY <1>9 DEF Returned
  <2> QED BY <2>1, NothingWrittenOut DEF vars
<1> QED BY <1>1, <1>2, <1>3, <1>4, <1>5, <1>6, <1>7, <1>8, <1>9 DEF Next, Step

------------------------------------------------------------------------------
(* What the invariants say of the output.                                   *)

\* The invariant of the output holds in every state of process().
THEOREM OutputInvariant == Spec => []OutInv
<1>1. Init => OutInv
  BY InitOut
<1>2. IInv /\ OutInv /\ [Next]_vars => OutInv'
  BY NextOut
<1> QED BY <1>1, <1>2, InductiveInvariant, PTL DEF Spec

\* The generated prefixes of a document are ns1, ns2, ... in the order of
\* their declarations, whatever its length and depth (rule 6; the counter of
\* transFromSuckers.java:142,169).
THEOREM PrefixesAlwaysNumbered == Spec => []PrefixesNumbered
<1>1. OutInv => PrefixesNumbered
  BY DEF OutInv, Numbered, PrefixesNumbered
<1> QED BY <1>1, OutputInvariant, PTL

\* A namespace-aware reader of the output finds the elements, attributes and
\* non-blank text of the input: rewriting the prefixes changes no name.
THEOREM InfosetKept == Spec => []SameInfoset
<1>1. OutInv => SameInfoset
  BY DEF OutInv, ReadsBack, ReadAs, SameInfoset
<1> QED BY <1>1, OutputInvariant, PTL

\* With the comparator of transFromSuckers the attributes of every tag are
\* written in the order of rule 3; with that of SmevImportedTransForm they
\* need not be, as the run imported_order shows.
THEOREM AttributesAlwaysSorted ==
  Comparator = "transFromSuckers" => (Spec => []AttributesSorted)
<1> SUFFICES ASSUME Comparator = "transFromSuckers" PROVE Spec => []AttributesSorted
  OBVIOUS
<1>1. OutInv => AttributesSorted
  BY DEF OutInv, Sorted, AttributesSorted
<1> QED BY <1>1, OutputInvariant, PTL

\* A namespace is declared only where no declaration of it is in force, only
\* if the tag uses it, and in the order of first use (rules 4, 5 and 8).
THEOREM DeclarationsAlwaysCanonical == Spec => []DeclarationsCanonical
<1>1. OutInv => DeclarationsCanonical
  BY DEF OutInv, Canonical, CanonicalAt, DeclarationsCanonical
<1> QED BY <1>1, OutputInvariant, PTL
=============================================================================
