------------------------ MODULE SmevTransformProofs ------------------------
(***************************************************************************)
(* Proofs about SmevTransform, for every set of names and texts and every  *)
(* length of document.                                                     *)
(***************************************************************************)
EXTENDS SmevTransform, SequenceTheorems, TLAPS

Stacks == Seq(Seq(Mapping))

\* A place of a stack is a level and a position on that level.
LEMMA PlaceOfStack ==
  ASSUME NEW stack, NEW p
  PROVE  p \in Places(stack) <=>
           \E d \in DOMAIN stack : \E i \in DOMAIN stack[d] : p = <<d, i>>
BY DEF Places

\* What stands at a place of a stack of mappings.
LEMMA MappingOfStack ==
  ASSUME NEW stack \in Stacks, NEW p \in Places(stack)
  PROVE  /\ p[1] \in 1..Len(stack) /\ p[2] \in 1..Len(stack[p[1]])
         /\ p = <<p[1], p[2]>>
         /\ MappingAt(stack, p) \in Mapping
<1>1. PICK d \in DOMAIN stack : \E i \in DOMAIN stack[d] : p = <<d, i>>
  BY PlaceOfStack
<1>2. stack[d] \in Seq(Mapping)
  BY DEF Stacks
<1> QED BY <1>1, <1>2 DEF Stacks, MappingAt

\* findPrefix returns the prefix of the one mapping of its namespace.
LEMMA FindKnown ==
  ASSUME NEW stack \in Stacks, NEW cnt \in Nat, Injective(stack, cnt),
         NEW p \in Places(stack)
  PROVE  findPrefix(stack, MappingAt(stack, p).ns) = MappingAt(stack, p).prefix
<1> DEFINE ns == MappingAt(stack, p).ns
<1>1. PlacesOf(stack, ns) = {p}
  <2>1. p \in PlacesOf(stack, ns)
    BY DEF PlacesOf
  <2>2. ASSUME NEW q \in PlacesOf(stack, ns) PROVE q = p
    BY <2>2 DEF PlacesOf, Injective
  <2> QED BY <2>1, <2>2
<1>2. Before(p, p)
  <2>1. p[1] \in Int /\ p[2] \in Int
    BY MappingOfStack
  <2> QED BY <2>1 DEF Before
<1>3. (CHOOSE q \in PlacesOf(stack, ns) :
         \A x \in PlacesOf(stack, ns) : Before(q, x)) = p
  BY <1>1, <1>2
<1> QED BY <1>1, <1>3 DEF findPrefix

\* findPrefix returns NoPrefix only for a namespace that nothing maps.
LEMMA FindUnknown ==
  ASSUME NEW stack \in Stacks, NEW cnt \in Nat, Injective(stack, cnt),
         NEW ns, findPrefix(stack, ns) = NoPrefix
  PROVE  PlacesOf(stack, ns) = {}
<1> SUFFICES ASSUME NEW p \in PlacesOf(stack, ns) PROVE FALSE
  OBVIOUS
<1>1. p \in Places(stack) /\ MappingAt(stack, p).ns = ns
  BY DEF PlacesOf
<1>2. findPrefix(stack, ns) = MappingAt(stack, p).prefix
  BY <1>1, FindKnown
<1>3. MappingAt(stack, p).prefix # NoPrefix
  BY <1>1, MappingOfStack DEF Mapping, NoPrefix
<1> QED BY <1>2, <1>3

\* Outer drops the last element of a sequence.
LEMMA OuterOfSeq ==
  ASSUME NEW S, NEW s \in Seq(S), s # <<>>
  PROVE  /\ Outer(s) \in Seq(S)
         /\ Len(Outer(s)) = Len(s) - 1
         /\ \A d \in 1..(Len(s) - 1) : Outer(s)[d] = s[d]
<1>1. Len(s) \in Nat /\ Len(s) >= 1
  OBVIOUS
<1>2. \A d \in 1..(Len(s) - 1) : s[d] \in S
  BY <1>1, ElementOfSeq
<1> DEFINE m == 1
           n == Len(s) - 1
<1>3. m \in Int /\ n \in Int /\ \A d \in m..n : s[d] \in S
  BY <1>1, <1>2
<1> HIDE DEF m, n
<1>4. /\ SubSeq(s, m, n) \in Seq(S)
      /\ Len(SubSeq(s, m, n)) = IF m <= n THEN n - m + 1 ELSE 0
      /\ \A d \in 1..(n - m + 1) : SubSeq(s, m, n)[d] = s[m + d - 1]
  BY <1>3, SubSeqProperties
<1>5. Outer(s) = SubSeq(s, m, n)
  BY DEF Outer, m, n
<1>6. (IF m <= n THEN n - m + 1 ELSE 0) = Len(s) - 1
  <2> DEFINE k == Len(s)
  <2>1. k \in Nat /\ k >= 1 /\ m = 1 /\ n = k - 1
    BY <1>1 DEF m, n
  <2> HIDE DEF k
  <2>2. (IF m <= n THEN n - m + 1 ELSE 0) = k - 1
    BY <2>1
  <2> QED BY <2>2 DEF k
<1>7. ASSUME NEW d \in 1..(Len(s) - 1) PROVE Outer(s)[d] = s[d]
  <2>1. d \in 1..(n - m + 1) /\ m + d - 1 = d
    BY <1>1 DEF m, n
  <2> QED BY <2>1, <1>4, <1>5
<1> QED BY <1>4, <1>5, <1>6, <1>7

\* Two stacks agree at p.
SameAt(s, t, p) ==
  p \in Places(s) /\ p \in Places(t) /\ MappingAt(s, p) = MappingAt(t, p)

\* Pushing an empty list adds no place.
LEMMA PushEmpty ==
  ASSUME NEW stack \in Stacks
  PROVE  /\ Append(stack, <<>>) \in Stacks
         /\ Len(Append(stack, <<>>)) = Len(stack) + 1
         /\ Places(Append(stack, <<>>)) = Places(stack)
         /\ \A p \in Places(stack) : SameAt(stack, Append(stack, <<>>), p)
<1> DEFINE pushed == Append(stack, <<>>)
<1>1. pushed \in Stacks
  BY DEF Stacks
<1>2. /\ DOMAIN pushed = 1..(Len(stack) + 1) /\ Len(pushed) = Len(stack) + 1
      /\ pushed[Len(stack) + 1] = <<>>
      /\ \A d \in DOMAIN stack : pushed[d] = stack[d]
  BY DEF Stacks
<1>3. ASSUME NEW p \in Places(stack) PROVE SameAt(stack, pushed, p)
  <2>1. p[1] \in DOMAIN stack /\ p[2] \in DOMAIN stack[p[1]] /\ p = <<p[1], p[2]>>
    BY MappingOfStack DEF Stacks
  <2>2. pushed[p[1]] = stack[p[1]] /\ p[1] \in DOMAIN pushed
    BY <1>2, <2>1 DEF Stacks
  <2>3. p \in Places(pushed)
    BY <2>1, <2>2, PlaceOfStack
  <2> QED BY <2>2, <2>3 DEF SameAt, MappingAt
<1>4. ASSUME NEW p \in Places(pushed) PROVE p \in Places(stack)
  <2>1. /\ p[1] \in 1..Len(pushed) /\ p[2] \in 1..Len(pushed[p[1]])
        /\ p = <<p[1], p[2]>>
    BY <1>1, MappingOfStack
  <2>2. p[1] \in DOMAIN stack
    <3>1. CASE p[1] = Len(stack) + 1
      BY <2>1, <1>2, <3>1
    <3>2. CASE p[1] # Len(stack) + 1
      BY <2>1, <1>2, <3>2 DEF Stacks
    <3> QED BY <3>1, <3>2
  <2>3. p[2] \in DOMAIN stack[p[1]]
    BY <2>1, <2>2, <1>2 DEF Stacks
  <2> QED BY <2>1, <2>2, <2>3, PlaceOfStack
<1>5. Places(pushed) = Places(stack)
  BY <1>3, <1>4 DEF SameAt
<1> QED BY <1>1, <1>2, <1>3, <1>5

\* Popping the innermost list keeps the mappings of the outer levels.
LEMMA PopInnermost ==
  ASSUME NEW stack \in Stacks, stack # <<>>
  PROVE  /\ Outer(stack) \in Stacks
         /\ Len(Outer(stack)) = Len(stack) - 1
         /\ \A p \in Places(Outer(stack)) : SameAt(stack, Outer(stack), p)
         /\ \A p \in Places(stack) :
              p[1] < Len(stack) => SameAt(stack, Outer(stack), p)
<1> DEFINE outer == Outer(stack)
<1>1. Len(stack) \in Nat /\ Len(stack) >= 1
  BY DEF Stacks
<1>2. /\ outer \in Stacks /\ Len(outer) = Len(stack) - 1
      /\ \A d \in 1..(Len(stack) - 1) : outer[d] = stack[d]
  BY OuterOfSeq DEF Stacks
<1>3. ASSUME NEW d \in 1..(Len(stack) - 1), NEW i \in DOMAIN stack[d]
      PROVE  SameAt(stack, outer, <<d, i>>)
  <2>1. d \in DOMAIN stack /\ d \in DOMAIN outer /\ outer[d] = stack[d]
    BY <1>1, <1>2 DEF Stacks
  <2>2. <<d, i>> \in Places(stack) /\ <<d, i>> \in Places(outer)
    BY <2>1, PlaceOfStack
  <2> QED BY <2>1, <2>2 DEF SameAt, MappingAt
<1>4. ASSUME NEW p \in Places(outer) PROVE SameAt(stack, outer, p)
  <2>1. /\ p[1] \in 1..Len(outer) /\ p[2] \in 1..Len(outer[p[1]])
        /\ p = <<p[1], p[2]>>
    BY <1>2, MappingOfStack
  <2>2. p[1] \in 1..(Len(stack) - 1) /\ p[2] \in DOMAIN stack[p[1]]
    BY <2>1, <1>1, <1>2 DEF Stacks
  <2> QED BY <2>1, <2>2, <1>3
<1>5. ASSUME NEW p \in Places(stack), p[1] < Len(stack)
      PROVE  SameAt(stack, outer, p)
  <2>1. /\ p[1] \in 1..Len(stack) /\ p[2] \in 1..Len(stack[p[1]])
        /\ p = <<p[1], p[2]>>
    BY MappingOfStack
  <2>2. p[1] \in 1..(Len(stack) - 1) /\ p[2] \in DOMAIN stack[p[1]]
    BY <2>1, <1>1, <1>5 DEF Stacks
  <2> QED BY <2>1, <2>2, <1>3
<1> QED BY <1>2, <1>4, <1>5

\* A stack whose mappings all are those of another stack is as injective.
LEMMA SubStackInjective ==
  ASSUME NEW s, NEW t, NEW cnt, Injective(s, cnt),
         \A p \in Places(t) : SameAt(s, t, p)
  PROVE  Injective(t, cnt)
<1> SUFFICES ASSUME NEW p \in Places(t), NEW q \in Places(t)
    PROVE /\ MappingAt(t, p).prefix < cnt
          /\ (\/ MappingAt(t, p).ns = MappingAt(t, q).ns
              \/ MappingAt(t, p).prefix = MappingAt(t, q).prefix) => p = q
  BY DEF Injective
<1>1. SameAt(s, t, p) /\ SameAt(s, t, q)
  OBVIOUS
<1>2. /\ p \in Places(s) /\ q \in Places(s)
      /\ MappingAt(s, p) = MappingAt(t, p) /\ MappingAt(s, q) = MappingAt(t, q)
  BY <1>1 DEF SameAt
<1>3. /\ MappingAt(s, p).prefix < cnt
      /\ (\/ MappingAt(s, p).ns = MappingAt(s, q).ns
          \/ MappingAt(s, p).prefix = MappingAt(s, q).prefix) => p = q
  BY <1>2 DEF Injective
<1> QED BY <1>2, <1>3

\* A namespace that nothing maps can be declared on the innermost element
\* under the prefix of the counter.
LEMMA DeclareOnTop ==
  ASSUME prefixCnt \in Nat \ {0}, NEW stack \in Stacks, stack # <<>>,
         NEW ns \in Nat, Injective(stack, prefixCnt), PlacesOf(stack, ns) = {},
         NEW r, r = Declared(stack, ns, prefixCnt + 1)
  PROVE  /\ r.stack \in Stacks /\ Len(r.stack) = Len(stack)
         /\ r.cnt = prefixCnt + 1 /\ r.prefix = prefixCnt
         /\ Injective(r.stack, prefixCnt + 1)
         /\ \A p \in Places(stack) : SameAt(stack, r.stack, p)
         /\ \E p \in Places(r.stack) :
              MappingAt(r.stack, p) = [prefix |-> prefixCnt, ns |-> ns]
<1> DEFINE cnt == prefixCnt
           top == Len(stack)
           fresh == <<top, Len(stack[top]) + 1>>
           m == [prefix |-> cnt, ns |-> ns]
           t == r.stack
<1>0. /\ t = [stack EXCEPT ![top] = Append(stack[top], m)]
      /\ r.cnt = prefixCnt + 1 /\ r.prefix = prefixCnt
  BY DEF Declared
<1> HIDE DEF t
<1>1. top \in DOMAIN stack /\ stack[top] \in Seq(Mapping) /\ m \in Mapping
  BY DEF Stacks, Mapping
<1>2. /\ Append(stack[top], m) \in Seq(Mapping)
      /\ Len(Append(stack[top], m)) = Len(stack[top]) + 1
      /\ Append(stack[top], m)[Len(stack[top]) + 1] = m
      /\ \A i \in 1..Len(stack[top]) : Append(stack[top], m)[i] = stack[top][i]
  BY <1>1, AppendProperties
<1>3. /\ t \in Stacks /\ Len(t) = Len(stack) /\ DOMAIN t = DOMAIN stack
      /\ t[top] = Append(stack[top], m)
      /\ \A d \in DOMAIN stack : d # top => t[d] = stack[d]
  BY <1>0, <1>1, <1>2 DEF Stacks
<1>4. ASSUME NEW p \in Places(stack) PROVE SameAt(stack, t, p) /\ p # fresh
  <2>1. /\ p[1] \in DOMAIN stack /\ p[2] \in 1..Len(stack[p[1]])
        /\ p = <<p[1], p[2]>>
    BY MappingOfStack DEF Stacks
  <2>2. p[2] \in DOMAIN t[p[1]] /\ t[p[1]][p[2]] = stack[p[1]][p[2]]
    <3>1. CASE p[1] = top
      BY <2>1, <1>1, <1>2, <1>3, <3>1
    <3>2. CASE p[1] # top
      <4>1. t[p[1]] = stack[p[1]]
        BY <2>1, <1>3, <3>2
      <4>2. stack[p[1]] \in Seq(Mapping)
        BY <2>1 DEF Stacks
      <4> QED BY <2>1, <4>1, <4>2
    <3> QED BY <3>1, <3>2
  <2>3. p \in Places(t)
    BY <2>1, <2>2, <1>3, PlaceOfStack
  <2>4. p # fresh
    BY <2>1, <1>1
  <2> QED BY <2>2, <2>3, <2>4 DEF SameAt, MappingAt
<1>5. fresh \in Places(t) /\ MappingAt(t, fresh) = m
  <2>1. top \in DOMAIN t /\ Len(stack[top]) + 1 \in DOMAIN t[top]
    BY <1>1, <1>2, <1>3
  <2>2. fresh \in Places(t)
    BY <2>1, PlaceOfStack
  <2> QED BY <2>2, <1>2, <1>3 DEF MappingAt
<1>6. ASSUME NEW p \in Places(t), p # fresh PROVE p \in Places(stack)
  <2>1. /\ p[1] \in DOMAIN stack /\ p[2] \in 1..Len(t[p[1]])
        /\ p = <<p[1], p[2]>>
    <3>1. /\ p[1] \in 1..Len(t) /\ p[2] \in 1..Len(t[p[1]])
          /\ p = <<p[1], p[2]>>
      BY <1>3, MappingOfStack
    <3> QED BY <3>1, <1>3 DEF Stacks
  <2>2. stack[p[1]] \in Seq(Mapping)
    BY <2>1 DEF Stacks
  <2>3. p[2] \in DOMAIN stack[p[1]]
    <3>1. CASE p[1] = top
      <4>1. p[2] # Len(stack[top]) + 1
        BY <2>1, <3>1, <1>6
      <4>2. p[2] \in 1..(Len(stack[top]) + 1)
        BY <2>1, <3>1, <1>2, <1>3
      <4> QED BY <4>1, <4>2, <3>1, <2>2
    <3>2. CASE p[1] # top
      BY <2>1, <2>2, <1>3, <3>2
    <3> QED BY <3>1, <3>2
  <2> QED BY <2>1, <2>3, PlaceOfStack
<1>7. ASSUME NEW p \in Places(stack)
      PROVE  /\ MappingAt(stack, p) \in Mapping
             /\ MappingAt(stack, p).prefix < cnt /\ MappingAt(stack, p).ns # ns
  BY MappingOfStack DEF Injective, PlacesOf
<1>8. Injective(t, cnt + 1)
  <2> SUFFICES ASSUME NEW p \in Places(t), NEW q \in Places(t)
      PROVE /\ MappingAt(t, p).prefix < cnt + 1
            /\ (\/ MappingAt(t, p).ns = MappingAt(t, q).ns
                \/ MappingAt(t, p).prefix = MappingAt(t, q).prefix) => p = q
    BY DEF Injective
  <2>1. \A x \in Places(t) : x # fresh =>
          /\ x \in Places(stack) /\ MappingAt(t, x) = MappingAt(stack, x)
          /\ MappingAt(t, x) \in Mapping
          /\ MappingAt(t, x).prefix < cnt /\ MappingAt(t, x).ns # ns
    BY <1>4, <1>6, <1>7 DEF SameAt
  <2>2. MappingAt(t, fresh).prefix = cnt /\ MappingAt(t, fresh).ns = ns
    BY <1>5
  <2>3. MappingAt(t, p).prefix < cnt + 1
    <3>1. CASE p = fresh
      BY <2>2, <3>1
    <3>2. CASE p # fresh
      <4>1. MappingAt(t, p).prefix \in Nat /\ MappingAt(t, p).prefix < cnt
        BY <2>1, <3>2 DEF Mapping
      <4> QED BY <4>1
    <3> QED BY <3>1, <3>2
  <2>4. CASE p # fresh /\ q # fresh
    BY <2>1, <2>3, <2>4 DEF Injective
  <2>5. CASE p = fresh \/ q = fresh
    <3>1. \A x \in Places(t) : x # fresh =>
            /\ MappingAt(t, x).prefix # cnt
            /\ MappingAt(t, x).ns # ns
      <4> SUFFICES ASSUME NEW x \in Places(t), x # fresh
          PROVE MappingAt(t, x).prefix # cnt /\ MappingAt(t, x).ns # ns
        OBVIOUS
      <4>1. MappingAt(t, x).prefix \in Nat /\ MappingAt(t, x).prefix < cnt
        BY <2>1 DEF Mapping
      <4> QED BY <4>1, <2>1
    <3> HIDE DEF fresh
    <3>2. CASE p = fresh /\ q = fresh
      BY <2>3, <3>2
    <3>3. CASE p = fresh /\ q # fresh
      BY <3>1, <2>2, <2>3, <3>3
    <3>4. CASE p # fresh /\ q = fresh
      BY <3>1, <2>2, <2>3, <3>4
    <3> QED BY <3>2, <3>3, <3>4, <2>5
  <2> QED BY <2>4, <2>5
<1> QED BY <1>0, <1>3, <1>4, <1>5, <1>8 DEF t

\* Whether ns is looked up or declared, the stack stays injective, keeps its
\* mappings and has the one of ns afterwards.
LEMMA ResolvedMaps ==
  ASSUME prefixCnt \in Nat \ {0}, NEW stack \in Stacks, stack # <<>>,
         NEW ns \in Nat, Injective(stack, prefixCnt),
         NEW r, r = Resolved(stack, ns)
  PROVE  /\ r.stack \in Stacks /\ Len(r.stack) = Len(stack)
         /\ r.cnt \in Nat \ {0} /\ r.prefix \in Nat \ {0}
         /\ Injective(r.stack, r.cnt)
         /\ \A p \in Places(stack) : SameAt(stack, r.stack, p)
         /\ \E p \in Places(r.stack) :
              MappingAt(r.stack, p) = [prefix |-> r.prefix, ns |-> ns]
<1> DEFINE known == findPrefix(stack, ns)
<1>1. CASE known # NoPrefix
  <2>1. r = [stack |-> stack, cnt |-> prefixCnt, prefix |-> known]
    BY <1>1 DEF Resolved
  <2>2. PlacesOf(stack, ns) # {}
    BY <1>1 DEF findPrefix
  <2>3. PICK p \in Places(stack) : MappingAt(stack, p).ns = ns
    BY <2>2 DEF PlacesOf
  <2>4. MappingAt(stack, p) \in Mapping /\ known = MappingAt(stack, p).prefix
    BY <2>3, FindKnown, MappingOfStack
  <2>5. MappingAt(stack, p) = [prefix |-> known, ns |-> ns] /\ known \in Nat \ {0}
    BY <2>3, <2>4 DEF Mapping
  <2> QED BY <2>1, <2>5 DEF SameAt
<1>2. CASE known = NoPrefix
  <2>1. PlacesOf(stack, ns) = {}
    BY <1>2, FindUnknown
  <2>2. r = Declared(stack, ns, prefixCnt + 1)
    BY <1>2 DEF Resolved
  <2>3. /\ r.stack \in Stacks /\ Len(r.stack) = Len(stack)
        /\ r.cnt = prefixCnt + 1 /\ r.prefix = prefixCnt
        /\ Injective(r.stack, prefixCnt + 1)
        /\ \A p \in Places(stack) : SameAt(stack, r.stack, p)
        /\ \E p \in Places(r.stack) :
             MappingAt(r.stack, p) = [prefix |-> prefixCnt, ns |-> ns]
    BY <2>1, <2>2, DeclareOnTop
  <2>4. prefixCnt + 1 \in Nat \ {0}
    OBVIOUS
  <2> QED BY <2>3, <2>4
<1> QED BY <1>1, <1>2

-----------------------------------------------------------------------------
(* The inductive invariant: TypeOK, that the stack is injective, that every *)
(* open element is mapped from its own level outwards, and that the element *)
(* whose attributes are being mapped is open.                              *)

AttributesOfOpenElement == phase = "attributes" => open # <<>>

IInv ==
  /\ TypeOK
  /\ EndAlwaysMapped
  /\ ScopeInjective
  /\ OpenElementsMapped
  /\ AttributesOfOpenElement

\* A mapped element stays mapped in a stack that keeps the mappings of its
\* level and of those above.
LEMMA MappedStays ==
  ASSUME NEW s, NEW t, NEW d, NEW name, NEW tag, MappedFrom(s, d, name, tag),
         \A p \in Places(s) : p[1] <= d => SameAt(s, t, p)
  PROVE  MappedFrom(t, d, name, tag)
BY DEF MappedFrom, SameAt

\* Every list an element can carry, sorted or not, is a sequence of names.
LEMMA AttributeListsAreSeqs ==
  ASSUME NEW s \in AttributeLists PROVE s \in Seq(Name)
<1>1. PICK n \in 0..MaxAttrs : s \in [1..n -> Attributes]
  BY DEF AttributeLists
<1>2. n \in Nat /\ Attributes \subseteq Name
  BY NamesAssumption, BoundsAssumption
<1> QED BY <1>1, <1>2

\* Written makes an event of the output.
LEMMA WrittenIsOut ==
  ASSUME NEW kind \in {"start", "decl", "attr", "text", "end"},
         NEW prefix \in Nat, NEW name \in Nat
  PROVE  Written(kind, prefix, name) \in OutEvent
BY DEF Written, OutEvent

\* Before its first event process() satisfies the invariant.
LEMMA InitIInv == Init => IInv
<1> SUFFICES ASSUME Init PROVE IInv
  OBVIOUS
<1>1. Places(mappings) = {}
  BY DEF Init, Places
<1>2. TypeOK
  BY BoundsAssumption DEF Init, TypeOK, OutEvent
<1>3. ScopeInjective
  BY <1>1 DEF ScopeInjective, Injective
<1>4. OpenElementsMapped
  BY DEF Init, OpenElementsMapped
<1> QED BY <1>2, <1>3, <1>4 DEF Init, IInv, EndAlwaysMapped, AttributesOfOpenElement

\* A start tag keeps the invariant.
LEMMA StartElementIInv ==
  ASSUME IInv, NEW name \in Elements, NEW attrs \in AttributeLists,
         StartElement(name, attrs)
  PROVE  IInv'
<1> DEFINE pushed == Append(mappings, <<>>)
           r == Resolved(pushed, name.ns)
<1>1. /\ mappings \in Stacks /\ prefixCnt \in Nat \ {0} /\ name \in Name
      /\ Len(mappings) = Len(open) /\ Len(tags) = Len(open)
      /\ phase = "event" /\ events < MaxEvents
  BY NamesAssumption
     DEF IInv, TypeOK, Stacks, StartElement, NextEvent, OpenElementsMapped
<1>2. /\ pushed \in Stacks /\ Places(pushed) = Places(mappings)
      /\ \A p \in Places(mappings) : SameAt(mappings, pushed, p)
  BY <1>1, PushEmpty
<1>3. Injective(pushed, prefixCnt)
  BY <1>2, SubStackInjective DEF IInv, ScopeInjective
<1>4. /\ Len(pushed) = Len(mappings) + 1 /\ pushed # <<>>
      /\ name.ns \in Nat /\ name.local \in Nat
  <2>1. Len(pushed) = Len(mappings) + 1 /\ Len(mappings) \in Nat
    BY <1>1, PushEmpty DEF Stacks
  <2> QED BY <2>1, <1>1 DEF Name
<1> HIDE DEF pushed
<1>5. /\ r.stack \in Stacks /\ Len(r.stack) = Len(pushed)
      /\ r.cnt \in Nat \ {0} /\ r.prefix \in Nat \ {0}
      /\ Injective(r.stack, r.cnt)
      /\ \A p \in Places(pushed) : SameAt(pushed, r.stack, p)
      /\ \E p \in Places(r.stack) :
           MappingAt(r.stack, p) = [prefix |-> r.prefix, ns |-> name.ns]
  BY <1>1, <1>2, <1>3, <1>4, ResolvedMaps
<1>6. /\ mappings' = r.stack /\ prefixCnt' = r.cnt
      /\ tags' = Append(tags, [prefix |-> r.prefix, local |-> name.local])
      /\ out' = Append(out, Written("start", r.prefix, name.local))
      /\ open' = Append(open, name) /\ phase' = "attributes"
      /\ dstAttrs' = <<>> /\ todo' \in AttributeLists /\ events' = events + 1
  <2>1. todo' \in AttributeLists
    BY DEF StartElement, Sortings
  <2>2. r = Resolved(Append(mappings, <<>>), name.ns)
    BY DEF pushed
  <2> HIDE DEF r
  <2> QED BY <2>1, <2>2 DEF StartElement, NextEvent
<1> HIDE DEF r
<1>7. TypeOK'
  <2>1. todo' \in Seq(Name)
    BY <1>6, AttributeListsAreSeqs
  <2>2. Written("start", r.prefix, name.local) \in OutEvent
    BY <1>4, <1>5, WrittenIsOut
  <2>3. out' \in Seq(OutEvent) /\ dstAttrs' \in Seq(OutEvent)
    BY <1>6, <2>2 DEF IInv, TypeOK
  <2>4. events' \in 0..MaxEvents
    BY <1>1, <1>6, BoundsAssumption DEF IInv, TypeOK
  <2>5. open' \in Seq(Name) /\ tags' \in Seq([prefix : Nat \ {0}, local : Nat])
    BY <1>1, <1>4, <1>5, <1>6 DEF IInv, TypeOK
  <2> QED BY <1>5, <1>6, <2>1, <2>3, <2>4, <2>5 DEF TypeOK, Stacks
<1>8. OpenElementsMapped'
  <2>1. /\ open \in Seq(Name) /\ tags \in Seq([prefix : Nat \ {0}, local : Nat])
        /\ Len(open') = Len(open) + 1 /\ Len(tags') = Len(tags) + 1
    BY <1>6 DEF IInv, TypeOK
  <2>2. Len(mappings') = Len(open') /\ Len(tags') = Len(open')
    BY <1>1, <1>4, <1>5, <1>6, <2>1
  <2>3. ASSUME NEW d \in 1..Len(open)
        PROVE  MappedFrom(mappings', d, open'[d], tags'[d])
    <3>1. open'[d] = open[d] /\ tags'[d] = tags[d]
      BY <1>1, <1>6, <2>1
    <3>2. MappedFrom(mappings, d, open[d], tags[d])
      <4>1. d \in DOMAIN open
        BY <2>1
      <4> QED BY <4>1, <1>1 DEF IInv, OpenElementsMapped
    <3>3. \A p \in Places(mappings) : SameAt(mappings, mappings', p)
      BY <1>2, <1>5, <1>6 DEF SameAt
    <3> QED BY <3>1, <3>2, <3>3, MappedStays
  <2>4. MappedFrom(mappings', Len(open'), open'[Len(open')], tags'[Len(open')])
    <3>1. /\ open'[Len(open')] = name
          /\ tags'[Len(open')] = [prefix |-> r.prefix, local |-> name.local]
      BY <1>1, <1>6, <2>1
    <3>2. PICK p \in Places(mappings') :
            MappingAt(mappings', p) = [prefix |-> r.prefix, ns |-> name.ns]
      BY <1>5, <1>6
    <3>3. p[1] <= Len(open')
      <4>1. mappings' \in Stacks
        BY <1>5, <1>6
      <4>2. p[1] \in 1..Len(mappings')
        BY <4>1, <3>2, MappingOfStack
      <4> QED BY <4>2, <2>2
    <3> QED BY <3>1, <3>2, <3>3 DEF MappedFrom
  <2>5. DOMAIN open' = 1..(Len(open) + 1)
    BY <1>6, <2>1
  <2>6. ASSUME NEW d \in DOMAIN open'
        PROVE  MappedFrom(mappings', d, open'[d], tags'[d])
    BY <2>1, <2>3, <2>4, <2>5
  <2> QED BY <2>2, <2>6 DEF OpenElementsMapped
<1>9. EndAlwaysMapped'
  BY <1>6 DEF EndAlwaysMapped
<1>10. ScopeInjective'
  BY <1>5, <1>6 DEF ScopeInjective
<1>11. AttributesOfOpenElement'
  <2>1. open \in Seq(Name)
    BY DEF IInv, TypeOK
  <2> QED BY <2>1, <1>1, <1>6 DEF AttributesOfOpenElement
<1> QED BY <1>7, <1>8, <1>9, <1>10, <1>11 DEF IInv

\* Steps that touch neither the stack nor the open elements keep what the
\* invariant says of them.
LEMMA SameStackIInv ==
  ASSUME IInv, UNCHANGED <<open, mappings, prefixCnt, tags>>, phase' # "unmapped"
  PROVE  EndAlwaysMapped' /\ ScopeInjective' /\ OpenElementsMapped'
BY DEF IInv, EndAlwaysMapped, ScopeInjective, OpenElementsMapped

\* Text, kept or dropped, keeps the invariant.
LEMMA CharactersIInv ==
  ASSUME IInv, NEW text \in Texts, Characters(text) PROVE IInv'
<1>1. /\ UNCHANGED <<phase, open, mappings, prefixCnt, todo, dstAttrs, tags>>
      /\ phase = "event" /\ events < MaxEvents /\ events' = events + 1
  BY DEF Characters, NextEvent
<1>2. text \in Nat
  BY NamesAssumption
<1>3. Written("text", NoPrefix, text) \in OutEvent
  BY <1>2, WrittenIsOut DEF NoPrefix
<1>4. out' \in Seq(OutEvent)
  <2>1. out \in Seq(OutEvent)
    BY DEF IInv, TypeOK
  <2>2. out' = out \/ out' = Append(out, Written("text", NoPrefix, text))
    BY DEF Characters
  <2> QED BY <2>1, <2>2, <1>3
<1>5. events' \in 0..MaxEvents
  BY <1>1, BoundsAssumption DEF IInv, TypeOK
<1>6. TypeOK'
  BY <1>1, <1>4, <1>5 DEF IInv, TypeOK
<1>7. EndAlwaysMapped' /\ ScopeInjective' /\ OpenElementsMapped'
  BY <1>1, SameStackIInv
<1> QED BY <1>1, <1>6, <1>7 DEF IInv, AttributesOfOpenElement

\* An event that is skipped keeps the invariant.
LEMMA OtherEventIInv ==
  ASSUME IInv, OtherEvent PROVE IInv'
<1>1. /\ UNCHANGED <<phase, open, mappings, prefixCnt, todo, dstAttrs, tags, out>>
      /\ phase = "event" /\ events < MaxEvents /\ events' = events + 1
  BY DEF OtherEvent, NextEvent
<1>2. events' \in 0..MaxEvents
  BY <1>1, BoundsAssumption DEF IInv, TypeOK
<1>3. TypeOK'
  BY <1>1, <1>2 DEF IInv, TypeOK
<1>4. EndAlwaysMapped' /\ ScopeInjective' /\ OpenElementsMapped'
  BY <1>1, SameStackIInv
<1> QED BY <1>1, <1>3, <1>4 DEF IInv, AttributesOfOpenElement

\* The two exits change nothing but the phase.
LEMMA ExitIInv ==
  ASSUME IInv, EndOfInput \/ StreamFault PROVE IInv'
<1>1. /\ UNCHANGED <<open, mappings, prefixCnt, todo, dstAttrs, tags, out, events>>
      /\ phase' \in {"done", "failed"}
  BY DEF EndOfInput, StreamFault
<1>2. TypeOK'
  BY <1>1 DEF IInv, TypeOK
<1>3. EndAlwaysMapped' /\ ScopeInjective' /\ OpenElementsMapped'
  BY <1>1, SameStackIInv
<1> QED BY <1>1, <1>2, <1>3 DEF IInv, AttributesOfOpenElement

\* Mapping an attribute keeps the invariant.
LEMMA MapAttributeIInv ==
  ASSUME IInv, MapAttribute PROVE IInv'
<1> DEFINE attr == Head(todo)
           r == IF attr.ns = NoNs
                THEN [stack |-> mappings, cnt |-> prefixCnt, prefix |-> NoPrefix]
                ELSE Resolved(mappings, attr.ns)
<1>1. /\ mappings \in Stacks /\ prefixCnt \in Nat \ {0}
      /\ open \in Seq(Name) /\ open # <<>>
      /\ Len(mappings) = Len(open) /\ Len(tags) = Len(open)
      /\ todo \in Seq(Name) /\ todo # <<>> /\ phase = "attributes"
      /\ Injective(mappings, prefixCnt)
  BY DEF IInv, TypeOK, Stacks, MapAttribute, OpenElementsMapped,
         AttributesOfOpenElement, ScopeInjective
<1>2. /\ attr.ns \in Nat /\ attr.local \in Nat /\ Tail(todo) \in Seq(Name)
  <2>1. attr \in Name /\ Tail(todo) \in Seq(Name)
    BY <1>1, HeadTailProperties
  <2> HIDE DEF attr
  <2> QED BY <2>1 DEF Name
<1>3. mappings # <<>>
  <2>1. Len(open) # 0
    BY <1>1
  <2> QED BY <2>1, <1>1
<1>4. /\ r.stack \in Stacks /\ Len(r.stack) = Len(mappings)
      /\ r.cnt \in Nat \ {0} /\ r.prefix \in Nat
      /\ Injective(r.stack, r.cnt)
      /\ \A p \in Places(mappings) : SameAt(mappings, r.stack, p)
  <2>1. CASE attr.ns = NoNs
    <3>1. r = [stack |-> mappings, cnt |-> prefixCnt, prefix |-> NoPrefix]
      BY <2>1
    <3> HIDE DEF r
    <3> QED BY <3>1, <1>1 DEF SameAt, NoPrefix
  <2>2. CASE attr.ns # NoNs
    <3>1. r = Resolved(mappings, attr.ns)
      BY <2>2
    <3> HIDE DEF r, attr
    <3> QED BY <3>1, <1>1, <1>2, <1>3, ResolvedMaps
  <2> QED BY <2>1, <2>2
<1>5. /\ mappings' = r.stack /\ prefixCnt' = r.cnt
      /\ dstAttrs' = Append(dstAttrs, Written("attr", r.prefix, attr.local))
      /\ todo' = Tail(todo)
      /\ UNCHANGED <<phase, open, tags, out, events>>
  BY DEF MapAttribute
<1> HIDE DEF r, attr
<1>6. TypeOK'
  <2>1. Written("attr", r.prefix, attr.local) \in OutEvent
    BY <1>2, <1>4, WrittenIsOut
  <2>2. dstAttrs' \in Seq(OutEvent)
    BY <1>5, <2>1 DEF IInv, TypeOK
  <2> QED BY <1>2, <1>4, <1>5, <2>2 DEF IInv, TypeOK, Stacks
<1>7. OpenElementsMapped'
  <2>1. \A p \in Places(mappings) : SameAt(mappings, mappings', p)
    BY <1>4, <1>5
  <2>2. ASSUME NEW d \in DOMAIN open
        PROVE  MappedFrom(mappings', d, open[d], tags[d])
    <3>1. MappedFrom(mappings, d, open[d], tags[d])
      BY <1>1 DEF IInv, OpenElementsMapped
    <3> QED BY <3>1, <2>1, MappedStays
  <2> QED BY <2>2, <1>1, <1>4, <1>5 DEF OpenElementsMapped
<1>8. ScopeInjective'
  BY <1>4, <1>5 DEF ScopeInjective
<1> QED BY <1>1, <1>5, <1>6, <1>7, <1>8
    DEF IInv, EndAlwaysMapped, AttributesOfOpenElement

\* Writing the declarations and the attributes of a tag keeps the invariant.
LEMMA WriteAttributesIInv ==
  ASSUME IInv, WriteAttributes PROVE IInv'
<1> DEFINE mine == mappings[Len(mappings)]
           decls == [i \in DOMAIN mine |->
                       Written("decl", mine[i].prefix, mine[i].ns)]
<1>1. /\ mappings \in Stacks /\ open \in Seq(Name) /\ open # <<>>
      /\ Len(mappings) = Len(open)
      /\ phase = "attributes"
  BY DEF IInv, TypeOK, Stacks, WriteAttributes, OpenElementsMapped,
         AttributesOfOpenElement
<1>2. mine \in Seq(Mapping)
  <2>1. Len(open) # 0
    BY <1>1
  <2>2. Len(mappings) \in 1..Len(mappings)
    BY <2>1, <1>1 DEF Stacks
  <2> QED BY <2>2, <1>1, ElementOfSeq DEF Stacks
<1>3. /\ out' = out \o decls \o dstAttrs /\ phase' = "event"
      /\ UNCHANGED <<open, mappings, prefixCnt, todo, dstAttrs, tags, events>>
  BY DEF WriteAttributes
<1> HIDE DEF mine
<1>4. decls \in Seq(OutEvent)
  <2>1. ASSUME NEW i \in DOMAIN mine
        PROVE  Written("decl", mine[i].prefix, mine[i].ns) \in OutEvent
    <3>1. mine[i] \in Mapping
      BY <1>2
    <3>2. mine[i].prefix \in Nat /\ mine[i].ns \in Nat
      BY <3>1 DEF Mapping
    <3> QED BY <3>2, WrittenIsOut
  <2>2. DOMAIN mine = 1..Len(mine) /\ Len(mine) \in Nat
    BY <1>2
  <2> QED BY <2>1, <2>2
<1> HIDE DEF decls
<1>5. TypeOK'
  <2>1. out' \in Seq(OutEvent)
    BY <1>3, <1>4, ConcatProperties DEF IInv, TypeOK
  <2> QED BY <2>1, <1>3 DEF IInv, TypeOK
<1>6. EndAlwaysMapped' /\ ScopeInjective' /\ OpenElementsMapped'
  BY <1>3, SameStackIInv
<1> QED BY <1>3, <1>5, <1>6 DEF IInv, AttributesOfOpenElement

\* The last open element is mapped, so its end tag is written with the prefix
\* of its start tag.
LEMMA EndPrefix ==
  ASSUME IInv, phase = "event", open # <<>>
  PROVE  /\ findPrefix(mappings, open[Len(open)].ns) = tags[Len(open)].prefix
         /\ tags[Len(open)].local = open[Len(open)].local
         /\ tags[Len(open)].prefix \in Nat \ {0}
         /\ Len(tags) = Len(open) /\ Len(mappings) = Len(open)
         /\ Len(open) \in DOMAIN open
<1>1. /\ mappings \in Stacks /\ open \in Seq(Name)
      /\ tags \in Seq([prefix : Nat \ {0}, local : Nat])
      /\ Injective(mappings, prefixCnt) /\ prefixCnt \in Nat
      /\ Len(tags) = Len(open) /\ Len(mappings) = Len(open)
  BY DEF IInv, TypeOK, Stacks, ScopeInjective, OpenElementsMapped
<1>2. Len(open) \in 1..Len(open) /\ DOMAIN open = 1..Len(open)
  BY <1>1
<1>3. MappedFrom(mappings, Len(open), open[Len(open)], tags[Len(open)])
  BY <1>2 DEF IInv, OpenElementsMapped
<1>4. PICK p \in Places(mappings) :
        MappingAt(mappings, p) =
          [prefix |-> tags[Len(open)].prefix, ns |-> open[Len(open)].ns]
  BY <1>3 DEF MappedFrom
<1>5. findPrefix(mappings, MappingAt(mappings, p).ns) = MappingAt(mappings, p).prefix
  BY <1>1, FindKnown
<1>6. tags[Len(open)].prefix \in Nat \ {0}
  <2>1. tags[Len(open)] \in [prefix : Nat \ {0}, local : Nat]
    BY <1>1, <1>2, ElementOfSeq
  <2> QED BY <2>1
<1> QED BY <1>1, <1>2, <1>3, <1>4, <1>5, <1>6 DEF MappedFrom

\* What the end-tag branch does from a state of the invariant.
LEMMA EndElementStep ==
  ASSUME IInv, EndElement
  PROVE  /\ open # <<>>
         /\ open' = Outer(open) /\ mappings' = Outer(mappings)
         /\ tags' = Outer(tags)
         /\ out' = Append(out, Written("end", tags[Len(open)].prefix,
                                         tags[Len(open)].local))
         /\ UNCHANGED <<phase, prefixCnt, todo, dstAttrs, events>>
<1> DEFINE prefix == findPrefix(mappings, open[Len(open)].ns)
<1>1. phase = "event" /\ open # <<>>
  BY DEF EndElement, Close
<1>2. /\ prefix = tags[Len(open)].prefix /\ prefix # NoPrefix
      /\ tags[Len(open)].local = open[Len(open)].local
  BY <1>1, EndPrefix DEF NoPrefix
<1> QED BY <1>1, <1>2 DEF EndElement, Close

\* An end tag keeps the invariant.
LEMMA EndElementIInv ==
  ASSUME IInv, EndElement PROVE IInv'
<1> DEFINE n == Len(open)
<1>1. /\ open # <<>>
      /\ open' = Outer(open) /\ mappings' = Outer(mappings)
      /\ tags' = Outer(tags)
      /\ out' = Append(out, Written("end", tags[n].prefix, tags[n].local))
      /\ UNCHANGED <<phase, prefixCnt, todo, dstAttrs, events>>
      /\ phase = "event"
  BY EndElementStep DEF EndElement, Close
<1>2. /\ tags[n].prefix \in Nat \ {0} /\ tags[n].local = open[n].local
      /\ Len(tags) = n /\ Len(mappings) = n /\ n \in DOMAIN open
  BY <1>1, EndPrefix
<1>3. /\ open \in Seq(Name) /\ mappings \in Stacks
      /\ tags \in Seq([prefix : Nat \ {0}, local : Nat])
      /\ out \in Seq(OutEvent) /\ Injective(mappings, prefixCnt)
  BY DEF IInv, TypeOK, Stacks, ScopeInjective
<1>4. n \in Nat /\ n >= 1 /\ mappings # <<>> /\ tags # <<>>
  <2>1. n \in Nat /\ n >= 1
    BY <1>2, <1>3
  <2> QED BY <2>1, <1>2
<1>5. /\ open' \in Seq(Name) /\ Len(open') = n - 1
      /\ \A d \in 1..(n - 1) : open'[d] = open[d]
  BY <1>1, <1>3, OuterOfSeq
<1>6. /\ tags' \in Seq([prefix : Nat \ {0}, local : Nat]) /\ Len(tags') = n - 1
      /\ \A d \in 1..(n - 1) : tags'[d] = tags[d]
  BY <1>1, <1>2, <1>3, <1>4, OuterOfSeq
<1>7. /\ mappings' \in Stacks /\ Len(mappings') = n - 1
      /\ \A p \in Places(mappings') : SameAt(mappings, mappings', p)
      /\ \A p \in Places(mappings) : p[1] < n => SameAt(mappings, mappings', p)
  BY <1>1, <1>2, <1>3, <1>4, PopInnermost
<1>8. TypeOK'
  <2>1. open[n] \in Name
    BY <1>2, <1>3
  <2>2. tags[n].local \in Nat
    BY <2>1, <1>2 DEF Name
  <2>3. Written("end", tags[n].prefix, tags[n].local) \in OutEvent
    BY <2>2, <1>2, WrittenIsOut
  <2>4. out' \in Seq(OutEvent)
    BY <2>3, <1>1, <1>3
  <2> QED BY <2>4, <1>1, <1>5, <1>6, <1>7 DEF IInv, TypeOK, Stacks
<1>9. ScopeInjective'
  <2>1. Injective(mappings', prefixCnt)
    BY <1>3, <1>7, SubStackInjective
  <2> QED BY <2>1, <1>1 DEF ScopeInjective
<1>10. OpenElementsMapped'
  <2>1. ASSUME NEW d \in 1..(n - 1)
        PROVE  MappedFrom(mappings', d, open'[d], tags'[d])
    <3>1. d \in DOMAIN open
      BY <1>3, <1>4
    <3>2. MappedFrom(mappings, d, open[d], tags[d])
      BY <3>1, <1>1 DEF IInv, OpenElementsMapped
    <3>3. \A p \in Places(mappings) : p[1] <= d => SameAt(mappings, mappings', p)
      <4>1. ASSUME NEW p \in Places(mappings), p[1] <= d PROVE p[1] < n
        <5>1. p[1] \in 1..Len(mappings)
          BY <1>3, MappingOfStack
        <5> QED BY <5>1, <4>1, <1>2, <1>4
      <4> QED BY <4>1, <1>7
    <3>4. MappedFrom(mappings', d, open[d], tags[d])
      BY <3>2, <3>3, MappedStays
    <3> QED BY <3>4, <1>5, <1>6
  <2>2. DOMAIN open' = 1..(n - 1)
    BY <1>5
  <2> QED BY <2>1, <2>2, <1>5, <1>6, <1>7 DEF OpenElementsMapped
<1> QED BY <1>1, <1>8, <1>9, <1>10
    DEF IInv, EndAlwaysMapped, AttributesOfOpenElement

-----------------------------------------------------------------------------
\* Every step of process() keeps the invariant.
LEMMA NextIInv == IInv /\ [Next]_vars => IInv'
<1> SUFFICES ASSUME IInv, [Next]_vars PROVE IInv'
  OBVIOUS
<1>1. CASE \E text \in Texts : Characters(text)
  BY <1>1, CharactersIInv
<1>2. CASE \E name \in Elements, attrs \in AttributeLists : StartElement(name, attrs)
  BY <1>2, StartElementIInv
<1>3. CASE MapAttribute
  BY <1>3, MapAttributeIInv
<1>4. CASE WriteAttributes
  BY <1>4, WriteAttributesIInv
<1>5. CASE EndElement
  BY <1>5, EndElementIInv
<1>6. CASE OtherEvent
  BY <1>6, OtherEventIInv
<1>7. CASE EndOfInput \/ StreamFault
  BY <1>7, ExitIInv
<1>8. CASE Returned \/ UNCHANGED vars
  <2>1. UNCHANGED vars
    BY <1>8 DEF Returned
  <2> QED BY <2>1 DEF vars, IInv, TypeOK, EndAlwaysMapped, ScopeInjective,
                      OpenElementsMapped, AttributesOfOpenElement
<1> QED BY <1>1, <1>2, <1>3, <1>4, <1>5, <1>6, <1>7, <1>8 DEF Next, Step

\* The inductive invariant holds in every state of process().
THEOREM InductiveInvariant == Spec => []IInv
<1>1. Init => IInv
  BY InitIInv
<1>2. IInv /\ [Next]_vars => IInv'
  BY NextIInv
<1> QED BY <1>1, <1>2, PTL DEF Spec

\* process() never leaves its types.
THEOREM TypeCorrect == Spec => []TypeOK
<1>1. IInv => TypeOK
  BY DEF IInv
<1> QED BY <1>1, InductiveInvariant, PTL

\* In scope, prefixes and namespaces correspond one to one.
THEOREM ScopeAlwaysInjective == Spec => []ScopeInjective
<1>1. IInv => ScopeInjective
  BY DEF IInv
<1> QED BY <1>1, InductiveInvariant, PTL

\* The mapping of an element is in scope for as long as the element is open.
THEOREM OpenElementsAlwaysMapped == Spec => []OpenElementsMapped
<1>1. IInv => OpenElementsMapped
  BY DEF IInv
<1> QED BY <1>1, InductiveInvariant, PTL

\* The exception of the end-tag branch (transFromSuckers.java:204-206) is
\* never thrown.
THEOREM EndNeverUnmapped == Spec => []EndAlwaysMapped
<1>1. IInv => EndAlwaysMapped
  BY DEF IInv
<1> QED BY <1>1, InductiveInvariant, PTL

\* Only EndElement closes a tag of the writer.
LEMMA StepMatchesTags ==
  ASSUME IInv, [Next]_vars, NEW d \in DOMAIN tags, Len(tags') < d
  PROVE  /\ d = Len(tags)
         /\ out' = Append(out, Written("end", tags[d].prefix, tags[d].local))
<1>1. tags \in Seq([prefix : Nat \ {0}, local : Nat]) /\ d \in 1..Len(tags)
  BY DEF IInv, TypeOK
<1>2. tags' # tags
  BY <1>1
<1>3. ASSUME NEW name \in Elements, NEW attrs \in AttributeLists,
             StartElement(name, attrs)
      PROVE  FALSE
  <2>1. Len(tags') = Len(tags) + 1
    <3>1. IInv'
      BY <1>3, StartElementIInv
    <3>2. /\ Len(tags) = Len(open) /\ Len(tags') = Len(open')
          /\ open \in Seq(Name) /\ open' = Append(open, name)
      BY <1>3, <3>1 DEF IInv, TypeOK, OpenElementsMapped, EndAlwaysMapped, StartElement
    <3>3. name \in Name
      BY NamesAssumption
    <3> QED BY <3>2, <3>3
  <2> QED BY <2>1, <1>1
<1>4. CASE EndElement
  <2>1. /\ tags' = Outer(tags) /\ open # <<>> /\ phase = "event"
        /\ out' = Append(out, Written("end", tags[Len(open)].prefix,
                                        tags[Len(open)].local))
    BY <1>4, EndElementStep DEF EndElement, Close
  <2>2. Len(tags) = Len(open)
    BY <2>1, EndPrefix
  <2>3. Len(tags') = Len(tags) - 1
    <3>1. tags # <<>>
      BY <1>1
    <3> QED BY <3>1, <1>1, <2>1, OuterOfSeq
  <2>4. d = Len(tags)
    BY <2>3, <1>1
  <2> QED BY <2>1, <2>2, <2>4
<1>5. EndElement \/ \E name \in Elements, attrs \in AttributeLists : StartElement(name, attrs)
  BY <1>2 DEF Next, Step, vars, Characters, MapAttribute, WriteAttributes,
              OtherEvent, EndOfInput, StreamFault, Returned
<1> QED BY <1>3, <1>4, <1>5

\* Every end tag has the prefix and the name of the start tag it closes.
THEOREM EndTagsMatch == Spec => EndTagMatchesStart
<1> DEFINE Matches ==
      \A d \in DOMAIN tags :
        Len(tags') < d =>
          /\ d = Len(tags)
          /\ out' = Append(out, Written("end", tags[d].prefix, tags[d].local))
<1>1. IInv /\ [Next]_vars => [Matches]_vars
  BY StepMatchesTags
<1> QED BY <1>1, InductiveInvariant, PTL DEF Spec, EndTagMatchesStart
=============================================================================
