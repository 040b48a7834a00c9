---------------------------- MODULE FetchLemmas ----------------------------
(***************************************************************************)
(* What the operators of Executor, InjectId and Fetch compute, for every   *)
(* sequence: the passes of Chosen and FlattenSeq, one line of inject() and *)
(* what the event loop writes.  The inductions are over sets of numbers.   *)
(***************************************************************************)
EXTENDS Fetch, SequenceTheorems, WellFoundedInduction, TLAPS

\* Every set of natural numbers has a least element.
LEMMA LeastNumber ==
  ASSUME NEW T, T \subseteq Nat, T # {}
  PROVE  \E x \in T : \A y \in T : x <= y
<1>1. PICK x \in T : \A y \in T : ~ (<<y, x>> \in OpToRel(<, Nat))
  BY NatLessThanWellFounded, WFMin
<1>2. \A y \in T : ~ (y < x)
  BY <1>1 DEF OpToRel
<1> QED BY <1>2

\* What Min returns of them.
LEMMA MinOfSet ==
  ASSUME NEW T, T \subseteq Nat, T # {}
  PROVE  Min(T) \in T /\ \A y \in T : Min(T) <= y
BY LeastNumber DEF Min

\* Induction over the numbers for membership in a set.
LEMMA SetInduction ==
  ASSUME NEW S, 0 \in S, \A n \in Nat : n \in S => n + 1 \in S
  PROVE  \A n \in Nat : n \in S
<1> SUFFICES ASSUME NEW m \in Nat, m \notin S PROVE FALSE
  OBVIOUS
<1>1. PICK x \in {n \in Nat : n \notin S} : \A y \in {n \in Nat : n \notin S} : x <= y
  BY LeastNumber
<1>2. x # 0 /\ x - 1 \in Nat
  OBVIOUS
<1>3. x - 1 \in S
  BY <1>1, <1>2
<1>4. (x - 1) + 1 \in S
  BY <1>2, <1>3
<1> QED BY <1>1, <1>4

------------------------------------------------------------------------------
\* The pass of Chosen over the first N elements.
Keeps(f, s, I, N) ==
  f = [n \in 0..N |-> IF n = 0 THEN <<>>
                      ELSE IF n \in I THEN Append(f[n - 1], s[n]) ELSE f[n - 1]]

\* There is such a pass over any number of elements.
LEMMA PassExists ==
  ASSUME NEW s, NEW I
  PROVE  \A N \in Nat : \E f : Keeps(f, s, I, N)
<1> DEFINE D == {N \in Nat : \E f : Keeps(f, s, I, N)}
<1>1. 0 \in D
  <2>1. Keeps([n \in 0..0 |-> <<>>], s, I, 0)
    BY DEF Keeps
  <2> QED BY <2>1
<1>2. ASSUME NEW N \in Nat, N \in D PROVE N + 1 \in D
  <2>1. PICK f : Keeps(f, s, I, N)
    BY <1>2
  <2> DEFINE last == IF N + 1 \in I THEN Append(f[N], s[N + 1]) ELSE f[N]
             g == [n \in 0..(N + 1) |-> IF n = N + 1 THEN last ELSE f[n]]
  <2>2. ASSUME NEW n \in 0..(N + 1)
        PROVE  g[n] = IF n = 0 THEN <<>>
                      ELSE IF n \in I THEN Append(g[n - 1], s[n]) ELSE g[n - 1]
    <3>1. CASE n = N + 1
      <4>1. n # 0 /\ n - 1 = N /\ N \in 0..(N + 1) /\ N # N + 1
        BY <3>1
      <4>2. g[n] = last /\ g[n - 1] = f[N]
        BY <3>1, <4>1
      <4> HIDE DEF g
      <4> QED BY <3>1, <4>1, <4>2
    <3>2. CASE n \in 0..N
      <4>1. g[n] = f[n] /\ n # N + 1
        BY <3>2
      <4>2. n # 0 => g[n - 1] = f[n - 1]
        BY <3>2
      <4>3. f[n] = IF n = 0 THEN <<>>
                   ELSE IF n \in I THEN Append(f[n - 1], s[n]) ELSE f[n - 1]
        BY <2>1, <3>2 DEF Keeps
      <4> HIDE DEF g
      <4> QED BY <4>1, <4>2, <4>3
    <3> QED BY <3>1, <3>2
  <2>3. Keeps(g, s, I, N + 1)
    <3> g = [n \in 0..(N + 1) |-> g[n]]
      OBVIOUS
    <3> HIDE DEF g
    <3> QED BY <2>2 DEF Keeps
  <2> QED BY <2>3
<1> HIDE DEF D
<1>3. \A N \in Nat : N \in D
  BY <1>1, <1>2, SetInduction
<1> QED BY <1>3 DEF D

\* Chosen returns the last value of that pass.
LEMMA ChosenByPass ==
  ASSUME NEW s, NEW I, Len(s) \in Nat
  PROVE  \E f : /\ Chosen(s, I) = f[Len(s)]
                /\ f[0] = <<>>
                /\ \A n \in Nat : n < Len(s) =>
                     f[n + 1] = IF n + 1 \in I THEN Append(f[n], s[n + 1]) ELSE f[n]
<1> DEFINE f == CHOOSE f : Keeps(f, s, I, Len(s))
<1>1. Keeps(f, s, I, Len(s))
  BY PassExists
<1>2. Chosen(s, I) = f[Len(s)]
  BY DEF Chosen, Keeps
<1> HIDE DEF f
<1>3. f[0] = <<>>
  BY <1>1 DEF Keeps
<1>4. ASSUME NEW n \in Nat, n < Len(s)
      PROVE  f[n + 1] = IF n + 1 \in I THEN Append(f[n], s[n + 1]) ELSE f[n]
  <2>1. n + 1 \in 0..Len(s) /\ n + 1 # 0 /\ (n + 1) - 1 = n
    BY <1>4
  <2> QED BY <1>1, <2>1 DEF Keeps
<1> QED BY <1>2, <1>3, <1>4

\* p lists the numbers up to n that are in I, in their order.
Lists(p, m, I, n) ==
  /\ p \in [1..m -> {i \in 1..n : i \in I}]
  /\ \A i, j \in 1..m : i < j => p[i] < p[j]
  /\ \A k \in 1..n : k \in I => \E j \in 1..m : p[j] = k

\* One more number of I, or one more that is not in I.
LEMMA ListsOneMore ==
  ASSUME NEW m \in Nat, NEW n \in Nat, NEW I, NEW p, Lists(p, m, I, n)
  PROVE  /\ n + 1 \in I => Lists([j \in 1..(m + 1) |-> IF j = m + 1 THEN n + 1 ELSE p[j]],
                                 m + 1, I, n + 1)
         /\ n + 1 \notin I => Lists(p, m, I, n + 1)
<1>1. ASSUME n + 1 \in I
      PROVE  Lists([j \in 1..(m + 1) |-> IF j = m + 1 THEN n + 1 ELSE p[j]], m + 1, I, n + 1)
  <2> DEFINE q == [j \in 1..(m + 1) |-> IF j = m + 1 THEN n + 1 ELSE p[j]]
  <2>1. q[m + 1] = n + 1 /\ \A j \in 1..m : q[j] = p[j] /\ p[j] \in 1..n /\ p[j] \in I
    BY DEF Lists
  <2>2. q \in [1..(m + 1) -> {i \in 1..(n + 1) : i \in I}]
    BY <1>1, <2>1
  <2> HIDE DEF q
  <2>3. ASSUME NEW i \in 1..(m + 1), NEW j \in 1..(m + 1), i < j PROVE q[i] < q[j]
    <3>1. CASE j = m + 1
      BY <2>1, <2>3, <3>1
    <3>2. CASE j \in 1..m
      BY <2>1, <2>3, <3>2 DEF Lists
    <3> QED BY <3>1, <3>2
  <2>4. ASSUME NEW k \in 1..(n + 1), k \in I PROVE \E j \in 1..(m + 1) : q[j] = k
    <3>1. CASE k = n + 1
      BY <2>1, <3>1
    <3>2. CASE k \in 1..n
      <4>1. PICK j \in 1..m : p[j] = k
        BY <2>4, <3>2 DEF Lists
      <4> QED BY <2>1, <4>1
    <3> QED BY <3>1, <3>2
  <2>5. Lists(q, m + 1, I, n + 1)
    BY <2>2, <2>3, <2>4 DEF Lists
  <2> QED BY <2>5 DEF q
<1>2. ASSUME n + 1 \notin I PROVE Lists(p, m, I, n + 1)
  BY <1>2 DEF Lists
<1> QED BY <1>1, <1>2

\* From both s and t, Chosen keeps the m elements at the positions p lists.
SameChosen(p, m, s, t, I, S) ==
  /\ Lists(p, m, I, Len(s))
  /\ Chosen(s, I) \in Seq(S) /\ Len(Chosen(s, I)) = m
  /\ Chosen(t, I) \in Seq(S) /\ Len(Chosen(t, I)) = m
  /\ \A j \in 1..m : Chosen(s, I)[j] = s[p[j]] /\ Chosen(t, I)[j] = t[p[j]]

\* Chosen keeps the elements at the positions I and their order; of two
\* sequences of one length it keeps the same positions.
LEMMA ChosenPair ==
  ASSUME NEW S, NEW s \in Seq(S), NEW t \in Seq(S), Len(s) = Len(t), NEW I
  PROVE  \E m \in Nat : \E p : SameChosen(p, m, s, t, I, S)
<1>1. PICK f : /\ Chosen(s, I) = f[Len(s)]
               /\ f[0] = <<>>
               /\ \A n \in Nat : n < Len(s) =>
                    f[n + 1] = IF n + 1 \in I THEN Append(f[n], s[n + 1]) ELSE f[n]
  BY ChosenByPass
<1>2. PICK g : /\ Chosen(t, I) = g[Len(s)]
               /\ g[0] = <<>>
               /\ \A n \in Nat : n < Len(s) =>
                    g[n + 1] = IF n + 1 \in I THEN Append(g[n], t[n + 1]) ELSE g[n]
  BY ChosenByPass
<1> DEFINE Same(n, m, p) == /\ Lists(p, m, I, n)
                            /\ f[n] \in Seq(S) /\ Len(f[n]) = m
                            /\ g[n] \in Seq(S) /\ Len(g[n]) = m
                            /\ \A j \in 1..m : f[n][j] = s[p[j]] /\ g[n][j] = t[p[j]]
           D == {n \in Nat : n <= Len(s) => \E m \in Nat : \E p : Same(n, m, p)}
<1>3. 0 \in D
  <2>1. Same(0, 0, <<>>)
    BY <1>1, <1>2 DEF Lists
  <2> HIDE DEF Same
  <2> QED BY <2>1
<1>4. ASSUME NEW n \in Nat, n \in D PROVE n + 1 \in D
  <2> HIDE DEF Same
  <2> SUFFICES ASSUME n + 1 <= Len(s) PROVE \E m \in Nat : \E p : Same(n + 1, m, p)
    OBVIOUS
  <2>1. PICK m \in Nat : \E p : Same(n, m, p)
    BY <1>4
  <2>2. PICK p : Same(n, m, p)
    BY <2>1
  <2>3. n < Len(s) /\ n + 1 \in 1..Len(s) /\ s[n + 1] \in S /\ t[n + 1] \in S
    BY ElementOfSeq
  <2>4. CASE n + 1 \in I
    <3> DEFINE q == [j \in 1..(m + 1) |-> IF j = m + 1 THEN n + 1 ELSE p[j]]
    <3>1. f[n + 1] = Append(f[n], s[n + 1]) /\ g[n + 1] = Append(g[n], t[n + 1])
      BY <1>1, <1>2, <2>3, <2>4
    <3>2. f[n] \in Seq(S) /\ Len(f[n]) = m /\ g[n] \in Seq(S) /\ Len(g[n]) = m
      BY <2>2 DEF Same
    <3>3. /\ f[n + 1] \in Seq(S) /\ Len(f[n + 1]) = m + 1
          /\ \A j \in 1..m : f[n + 1][j] = f[n][j]
          /\ f[n + 1][m + 1] = s[n + 1]
      <4>1. PICK kept : kept = f[n]
        OBVIOUS
      <4>2. PICK e : e = s[n + 1]
        OBVIOUS
      <4>3. kept \in Seq(S) /\ Len(kept) = m /\ e \in S /\ f[n + 1] = Append(kept, e)
        BY <2>3, <3>1, <3>2, <4>1, <4>2
      <4>4. /\ Append(kept, e) \in Seq(S) /\ Len(Append(kept, e)) = m + 1
            /\ \A j \in 1..m : Append(kept, e)[j] = kept[j]
            /\ Append(kept, e)[m + 1] = e
        BY ZenonT(30), <4>3, AppendProperties
      <4> QED BY <4>1, <4>2, <4>3, <4>4
    <3>4. /\ g[n + 1] \in Seq(S) /\ Len(g[n + 1]) = m + 1
          /\ \A j \in 1..m : g[n + 1][j] = g[n][j]
          /\ g[n + 1][m + 1] = t[n + 1]
      <4>1. PICK kept : kept = g[n]
        OBVIOUS
      <4>2. PICK e : e = t[n + 1]
        OBVIOUS
      <4>3. kept \in Seq(S) /\ Len(kept) = m /\ e \in S /\ g[n + 1] = Append(kept, e)
        BY <2>3, <3>1, <3>2, <4>1, <4>2
      <4>4. /\ Append(kept, e) \in Seq(S) /\ Len(Append(kept, e)) = m + 1
            /\ \A j \in 1..m : Append(kept, e)[j] = kept[j]
            /\ Append(kept, e)[m + 1] = e
        BY ZenonT(30), <4>3, AppendProperties
      <4> QED BY <4>1, <4>2, <4>3, <4>4
    <3>5. q[m + 1] = n + 1 /\ \A j \in 1..m : q[j] = p[j]
      OBVIOUS
    <3>6. Lists(q, m + 1, I, n + 1)
      BY <2>2, <2>4, ListsOneMore DEF Same
    <3> HIDE DEF q
    <3>7. ASSUME NEW j \in 1..(m + 1)
          PROVE  f[n + 1][j] = s[q[j]] /\ g[n + 1][j] = t[q[j]]
      <4>1. CASE j = m + 1
        BY <3>3, <3>4, <3>5, <4>1
      <4>2. CASE j \in 1..m
        BY <2>2, <3>3, <3>4, <3>5, <4>2 DEF Same
      <4> QED BY <4>1, <4>2
    <3>8. Same(n + 1, m + 1, q)
      BY <3>3, <3>4, <3>6, <3>7 DEF Same
    <3> QED BY <3>8
  <2>5. CASE n + 1 \notin I
    <3>1. f[n + 1] = f[n] /\ g[n + 1] = g[n]
      BY <1>1, <1>2, <2>3, <2>5
    <3>2. Lists(p, m, I, n + 1)
      BY <2>2, <2>5, ListsOneMore DEF Same
    <3>3. Same(n + 1, m, p)
      BY <2>2, <3>1, <3>2 DEF Same
    <3> QED BY <3>3
  <2> QED BY <2>4, <2>5
<1>5. Len(s) \in Nat /\ Len(s) <= Len(s)
  OBVIOUS
<1> HIDE DEF D, Same
<1>6. Len(s) \in D
  BY <1>3, <1>4, <1>5, SetInduction
<1>7. \E m \in Nat : \E p : Same(Len(s), m, p)
  BY <1>5, <1>6 DEF D
<1> USE DEF Same
<1> QED BY <1>1, <1>2, <1>7 DEF SameChosen

\* The same for one sequence.
LEMMA ChosenLists ==
  ASSUME NEW S, NEW s \in Seq(S), NEW I
  PROVE  \E m \in Nat : \E p :
           /\ Lists(p, m, I, Len(s))
           /\ Chosen(s, I) \in Seq(S) /\ Len(Chosen(s, I)) = m
           /\ \A j \in 1..m : Chosen(s, I)[j] = s[p[j]]
<1>1. PICK m \in Nat : \E p : SameChosen(p, m, s, s, I, S)
  BY ChosenPair
<1> QED BY <1>1 DEF SameChosen

\* Nothing is left out when every position is in I ...
LEMMA ChosenAll ==
  ASSUME NEW S, NEW s \in Seq(S), NEW I, \A i \in 1..Len(s) : i \in I
  PROVE  Chosen(s, I) = s
<1>1. PICK f : /\ Chosen(s, I) = f[Len(s)]
               /\ f[0] = <<>>
               /\ \A n \in Nat : n < Len(s) =>
                    f[n + 1] = IF n + 1 \in I THEN Append(f[n], s[n + 1]) ELSE f[n]
  BY ChosenByPass
<1> DEFINE Copied(n) == f[n] \in Seq(S) /\ Len(f[n]) = n /\ \A j \in 1..n : f[n][j] = s[j]
           D == {n \in Nat : n <= Len(s) => Copied(n)}
<1>2. 0 \in D
  <2>1. f[0] \in Seq(S) /\ Len(f[0]) = 0
    BY <1>1, EmptySeq
  <2>2. Copied(0)
    BY <2>1
  <2> QED BY <2>2
<1>3. ASSUME NEW n \in Nat, n \in D PROVE n + 1 \in D
  <2> HIDE DEF Copied
  <2> SUFFICES ASSUME n + 1 <= Len(s) PROVE Copied(n + 1)
    OBVIOUS
  <2>1. n < Len(s) /\ n + 1 \in 1..Len(s) /\ s[n + 1] \in S /\ Copied(n)
    BY <1>3, ElementOfSeq
  <2>2. f[n + 1] = Append(f[n], s[n + 1])
    BY <1>1, <2>1
  <2>3. /\ Append(f[n], s[n + 1]) \in Seq(S)
        /\ Len(Append(f[n], s[n + 1])) = Len(f[n]) + 1
        /\ \A j \in 1..Len(f[n]) : Append(f[n], s[n + 1])[j] = f[n][j]
        /\ Append(f[n], s[n + 1])[Len(f[n]) + 1] = s[n + 1]
    BY <2>1, AppendProperties DEF Copied
  <2> QED BY <2>1, <2>2, <2>3 DEF Copied
<1>4. Len(s) \in Nat /\ Len(s) <= Len(s)
  OBVIOUS
<1> HIDE DEF D, Copied
<1>5. Len(s) \in D
  BY <1>2, <1>3, <1>4, SetInduction
<1>6. Copied(Len(s))
  BY <1>4, <1>5 DEF D
<1> QED BY <1>1, <1>4, <1>6, SeqEqual DEF Copied

\* ... and the length tells when something is.
LEMMA ChosenSome ==
  ASSUME NEW S, NEW s \in Seq(S), NEW I, Len(Chosen(s, I)) = Len(s)
  PROVE  Chosen(s, I) = s /\ \A i \in 1..Len(s) : i \in I
<1>1. PICK f : /\ Chosen(s, I) = f[Len(s)]
               /\ f[0] = <<>>
               /\ \A n \in Nat : n < Len(s) =>
                    f[n + 1] = IF n + 1 \in I THEN Append(f[n], s[n + 1]) ELSE f[n]
  BY ChosenByPass
<1> DEFINE Some(n) == /\ f[n] \in Seq(S) /\ Len(f[n]) <= n
                      /\ Len(f[n]) = n => \A i \in 1..n : i \in I
           D == {n \in Nat : n <= Len(s) => Some(n)}
<1>2. 0 \in D
  <2>1. f[0] \in Seq(S) /\ Len(f[0]) = 0
    BY <1>1, EmptySeq
  <2>2. Some(0)
    BY <2>1
  <2> QED BY <2>2
<1>3. ASSUME NEW n \in Nat, n \in D PROVE n + 1 \in D
  <2> HIDE DEF Some
  <2> SUFFICES ASSUME n + 1 <= Len(s) PROVE Some(n + 1)
    OBVIOUS
  <2>1. n < Len(s) /\ n + 1 \in 1..Len(s) /\ s[n + 1] \in S /\ Some(n)
    BY <1>3, ElementOfSeq
  <2>2. Len(f[n]) \in Nat
    BY <2>1 DEF Some
  <2>3. CASE n + 1 \in I
    <3>1. f[n + 1] = Append(f[n], s[n + 1])
      BY <1>1, <2>1, <2>3
    <3>2. /\ Append(f[n], s[n + 1]) \in Seq(S)
          /\ Len(Append(f[n], s[n + 1])) = Len(f[n]) + 1
      BY <2>1, AppendProperties DEF Some
    <3>3. ASSUME Len(f[n + 1]) = n + 1, NEW i \in 1..(n + 1) PROVE i \in I
      BY <2>1, <2>2, <2>3, <3>1, <3>2, <3>3 DEF Some
    <3> QED BY <2>1, <2>2, <3>1, <3>2, <3>3 DEF Some
  <2>4. CASE n + 1 \notin I
    <3>1. f[n + 1] = f[n]
      BY <1>1, <2>1, <2>4
    <3> QED BY <2>1, <2>2, <3>1 DEF Some
  <2> QED BY <2>3, <2>4
<1>4. Len(s) \in Nat /\ Len(s) <= Len(s)
  OBVIOUS
<1> HIDE DEF D, Some
<1>5. Len(s) \in D
  BY <1>2, <1>3, <1>4, SetInduction
<1>6. Some(Len(s))
  BY <1>4, <1>5 DEF D
<1> QED BY <1>1, <1>6, ChosenAll DEF Some

\* Neighbours that are both listed stay neighbours.
LEMMA ListsNeighbour ==
  ASSUME NEW m \in Nat, NEW n \in Nat, NEW I, NEW p, Lists(p, m, I, n),
         NEW j \in 1..m, NEW k \in 1..n, k \in I, p[j] = k + 1
  PROVE  j - 1 \in 1..m /\ p[j - 1] = k
<1>1. PICK i \in 1..m : p[i] = k
  BY DEF Lists
<1>2. \A l \in 1..m : p[l] \in 1..n
  BY DEF Lists
<1>3. i < j
  BY <1>1, <1>2 DEF Lists
<1>4. ~ (i < j - 1)
  <2> SUFFICES ASSUME i < j - 1 PROVE FALSE
    OBVIOUS
  <2>1. j - 1 \in 1..m /\ j - 1 < j
    BY <1>1
  <2>2. p[i] < p[j - 1] /\ p[j - 1] < p[j]
    BY <2>1 DEF Lists
  <2> QED BY <1>1, <1>2, <2>1, <2>2
<1>5. i = j - 1
  BY <1>3, <1>4
<1> QED BY <1>1, <1>5

------------------------------------------------------------------------------
\* The lines of a message joined, as FlattenSeq joins them, up to line n.
JoinedTo(msg, n) ==
  LET flatten[i \in 1..Len(msg)] == IF i = 1 THEN msg[i] ELSE flatten[i - 1] \o msg[i]
  IN  IF n = 0 THEN <<>> ELSE flatten[n]

\* The pass of FlattenSeq over the first N lines.
Joins(f, msg, N) ==
  f = [i \in 1..N |-> IF i = 1 THEN msg[i] ELSE f[i - 1] \o msg[i]]

\* There is such a pass over any number of lines.
LEMMA JoinExists ==
  ASSUME NEW msg
  PROVE  \A N \in Nat : \E f : Joins(f, msg, N)
<1> DEFINE D == {N \in Nat : \E f : Joins(f, msg, N)}
<1>1. 0 \in D
  <2>1. Joins([i \in 1..0 |-> <<>>], msg, 0)
    BY DEF Joins
  <2> QED BY <2>1
<1>2. ASSUME NEW N \in Nat, N \in D PROVE N + 1 \in D
  <2>1. PICK f : Joins(f, msg, N)
    BY <1>2
  <2> DEFINE last == IF N = 0 THEN msg[N + 1] ELSE f[N] \o msg[N + 1]
             g == [i \in 1..(N + 1) |-> IF i = N + 1 THEN last ELSE f[i]]
  <2>2. ASSUME NEW i \in 1..(N + 1)
        PROVE  g[i] = IF i = 1 THEN msg[i] ELSE g[i - 1] \o msg[i]
    <3>1. CASE i = N + 1
      <4>1. g[i] = last
        BY <3>1
      <4>2. i # 1 => N # 0 /\ i - 1 = N /\ g[N] = f[N]
        BY <3>1
      <4>3. i = 1 => N = 0
        BY <3>1
      <4> HIDE DEF g
      <4> QED BY <3>1, <4>1, <4>2, <4>3
    <3>2. CASE i \in 1..N
      <4>1. g[i] = f[i] /\ (i # 1 => g[i - 1] = f[i - 1])
        BY <3>2
      <4>2. f[i] = IF i = 1 THEN msg[i] ELSE f[i - 1] \o msg[i]
        BY <2>1, <3>2 DEF Joins
      <4> HIDE DEF g
      <4> QED BY <4>1, <4>2
    <3> QED BY <3>1, <3>2
  <2>3. Joins(g, msg, N + 1)
    <3> g = [i \in 1..(N + 1) |-> g[i]]
      OBVIOUS
    <3> HIDE DEF g
    <3> QED BY <2>2 DEF Joins
  <2> QED BY <2>3
<1> HIDE DEF D
<1>3. \A N \in Nat : N \in D
  BY <1>1, <1>2, SetInduction
<1> QED BY <1>3 DEF D

\* Line by line, up to what FlattenSeq returns.
LEMMA JoinedLines ==
  ASSUME NEW S, NEW msg \in Seq(Seq(S))
  PROVE  /\ JoinedTo(msg, 0) = <<>>
         /\ \A n \in Nat : n < Len(msg) =>
              JoinedTo(msg, n + 1) = JoinedTo(msg, n) \o msg[n + 1]
         /\ \A n \in 0..Len(msg) : JoinedTo(msg, n) \in Seq(S)
         /\ FlattenSeq(msg) = JoinedTo(msg, Len(msg))
<1> DEFINE f == CHOOSE f : Joins(f, msg, Len(msg))
<1>0. Len(msg) \in Nat
  OBVIOUS
<1>1. Joins(f, msg, Len(msg))
  BY <1>0, JoinExists
<1>2. \A n : JoinedTo(msg, n) = IF n = 0 THEN <<>> ELSE f[n]
  BY DEF JoinedTo, Joins
<1>3. FlattenSeq(msg) = IF Len(msg) = 0 THEN msg ELSE f[Len(msg)]
  BY DEF FlattenSeq, Joins
<1> HIDE DEF f
<1>4. \A i \in 1..Len(msg) : f[i] = IF i = 1 THEN msg[i] ELSE f[i - 1] \o msg[i]
  BY <1>1 DEF Joins
<1>5. \A i \in 1..Len(msg) : msg[i] \in Seq(S)
  BY ElementOfSeq
<1>6. ASSUME NEW n \in Nat, n < Len(msg), JoinedTo(msg, n) \in Seq(S)
      PROVE  JoinedTo(msg, n + 1) = JoinedTo(msg, n) \o msg[n + 1]
  <2>1. n + 1 \in 1..Len(msg) /\ n + 1 # 0 /\ (n + 1) - 1 = n /\ (n + 1 = 1 <=> n = 0)
    BY <1>0, <1>6
  <2>2. CASE n = 0
    <3>1. JoinedTo(msg, n + 1) = msg[n + 1] /\ JoinedTo(msg, n) = <<>>
      BY <1>2, <1>4, <2>1, <2>2
    <3>2. msg[n + 1] \in Seq(S)
      BY <1>5, <2>1
    <3> QED BY <3>1, <3>2, ConcatEmptySeq
  <2>3. CASE n # 0
    BY <1>2, <1>4, <2>1, <2>3
  <2> QED BY <2>2, <2>3
<1> DEFINE D == {n \in Nat : n <= Len(msg) => JoinedTo(msg, n) \in Seq(S)}
<1>7. 0 \in D
  BY <1>2, EmptySeq
<1>8. ASSUME NEW n \in Nat, n \in D PROVE n + 1 \in D
  <2> SUFFICES ASSUME n + 1 <= Len(msg) PROVE JoinedTo(msg, n + 1) \in Seq(S)
    OBVIOUS
  <2>1. n < Len(msg) /\ n + 1 \in 1..Len(msg) /\ JoinedTo(msg, n) \in Seq(S)
    BY <1>0, <1>8
  <2>2. msg[n + 1] \in Seq(S)
    BY <1>5, <2>1
  <2> QED BY <1>6, <2>1, <2>2, ConcatProperties
<1> HIDE DEF D
<1>9. \A n \in Nat : n \in D
  BY <1>7, <1>8, SetInduction
<1>10. \A n \in 0..Len(msg) : JoinedTo(msg, n) \in Seq(S)
  BY <1>0, <1>9 DEF D
<1>11. FlattenSeq(msg) = JoinedTo(msg, Len(msg))
  <2>1. Len(msg) = 0 => msg = <<>>
    OBVIOUS
  <2> QED BY <1>2, <1>3, <2>1
<1> QED BY <1>2, <1>6, <1>10, <1>11

------------------------------------------------------------------------------
\* new is line with a new text between its first tag of MessageID, the token
\* at first, and the next tag, the token at next.
Renamed(new, line, id, first, next) ==
  /\ first \in 1..Len(line) /\ EndsWithMessageId(line[first])
  /\ \A i \in 1..(first - 1) : ~EndsWithMessageId(line[i])
  /\ next \in (first + 1)..Len(line) /\ StartsWithLess(line[next])
  /\ \A i \in (first + 1)..(next - 1) : ~StartsWithLess(line[i])
  /\ Len(new) = first + 1 + (Len(line) - next + 1)
  /\ \A i \in 1..first : new[i] = line[i]
  /\ new[first + 1] = Generated(id)
  /\ \A i \in 1..(Len(line) - next + 1) : new[first + 1 + i] = line[next - 1 + i]

\* inject() returns a line without such a tag as it is, and renames another.
LEMMA InjectedLine ==
  ASSUME NEW S, NEW line \in Seq(S), NEW id, Generated(id) \in S,
         NEW new \in inject(line, id)
  PROVE  /\ new \in Seq(S)
         /\ \/ new = line /\ \A i \in 1..Len(line) : ~EndsWithMessageId(line[i])
            \/ \E first, next \in 1..Len(line) : Renamed(new, line, id, first, next)
<1> DEFINE F == FirstTag(line)
           N == NextTag(line)
           I == {i \in 1..Len(line) : EndsWithMessageId(line[i])}
           J == {i \in (F + 1)..Len(line) : StartsWithLess(line[i])}
<1>1. F = IF I # {} THEN Min(I) ELSE 0
  BY DEF FirstTag, SelectInSeq
<1>2. N = IF J # {} THEN Min(J) ELSE 0
  BY DEF NextTag, SelectInSubSeq
<1>3. CASE F = 0
  <2>1. new = line
    BY <1>3 DEF inject
  <2>2. I = {}
    <3>1. I # {} => Min(I) \in I
      BY MinOfSet
    <3> QED BY <1>1, <1>3, <3>1
  <2> QED BY <2>1, <2>2
<1>4. CASE F # 0
  <2>1. F \in I /\ \A i \in I : F <= i
    <3>1. I # {} /\ F = Min(I) /\ I \subseteq Nat
      BY <1>1, <1>4
    <3> HIDE DEF F, I
    <3> QED BY <3>1, MinOfSet
  <2>2. N # 0 /\ new = Replaced(line, N, id)
    BY <1>4 DEF inject
  <2>3. F \in 1..Len(line) /\ \A i \in 1..(F - 1) : ~EndsWithMessageId(line[i])
    BY <2>1
  <2>4. J \subseteq Nat
    BY <2>3
  <2>5. N \in J /\ \A i \in J : N <= i
    BY <1>2, <2>2, <2>4, MinOfSet
  <2>6. N \in (F + 1)..Len(line) /\ \A i \in (F + 1)..(N - 1) : ~StartsWithLess(line[i])
    BY <2>3, <2>5
  <2>7. new = (SubSeq(line, 1, F) \o <<Generated(id)>>) \o SubSeq(line, N, Len(line))
    BY <2>2 DEF Replaced
  <2>8. EndsWithMessageId(line[F]) /\ StartsWithLess(line[N])
    BY <2>1, <2>5
  <2> HIDE DEF F, N, I, J
  <2>9. \A i \in 1..Len(line) : line[i] \in S
    BY ElementOfSeq
  <2>10. /\ SubSeq(line, 1, F) \in Seq(S) /\ Len(SubSeq(line, 1, F)) = F
         /\ \A i \in 1..F : SubSeq(line, 1, F)[i] = line[i]
    BY <2>3, <2>9, SubSeqProperties
  <2>11. /\ SubSeq(line, N, Len(line)) \in Seq(S)
         /\ Len(SubSeq(line, N, Len(line))) = Len(line) - N + 1
         /\ \A i \in 1..(Len(line) - N + 1) :
              SubSeq(line, N, Len(line))[i] = line[N + i - 1]
    BY <2>3, <2>6, <2>9, SubSeqProperties
  <2> DEFINE front == SubSeq(line, 1, F) \o <<Generated(id)>>
  <2>12. /\ front \in Seq(S) /\ Len(front) = F + 1
         /\ \A i \in 1..F : front[i] = line[i]
         /\ front[F + 1] = Generated(id)
    BY <2>3, <2>10
  <2> HIDE DEF front
  <2>13. /\ new \in Seq(S)
         /\ Len(new) = F + 1 + (Len(line) - N + 1)
         /\ \A i \in 1..F : new[i] = line[i]
         /\ new[F + 1] = Generated(id)
         /\ \A i \in 1..(Len(line) - N + 1) : new[F + 1 + i] = line[N - 1 + i]
    <3> DEFINE rest == SubSeq(line, N, Len(line))
    <3>1. new = front \o rest /\ rest \in Seq(S) /\ Len(rest) = Len(line) - N + 1
      BY <2>7, <2>11 DEF front
    <3>2. \A i \in 1..(Len(line) - N + 1) : rest[i] = line[N + i - 1] /\ N + i - 1 = N - 1 + i
      BY <2>3, <2>6, <2>11
    <3> HIDE DEF rest
    <3>3. /\ new \in Seq(S)
          /\ Len(new) = Len(front) + Len(rest)
          /\ \A i \in 1..(Len(front) + Len(rest)) :
               new[i] = IF i <= Len(front) THEN front[i] ELSE rest[i - Len(front)]
      BY <2>12, <3>1, ConcatProperties
    <3>4. F \in Nat /\ Len(line) - N + 1 \in Nat
      BY <2>3, <2>6
    <3>5. \A i \in 1..(F + 1) : new[i] = front[i]
      BY <2>12, <3>1, <3>3, <3>4
    <3>6. ASSUME NEW i \in 1..(Len(line) - N + 1) PROVE new[F + 1 + i] = line[N - 1 + i]
      <4>1. PICK h \in Nat : h = F + 1 + i
        BY <3>4
      <4>2. new[F + 1 + i] = rest[i]
        <5>1. h \in 1..(Len(front) + Len(rest)) /\ ~ (h <= Len(front)) /\ h - Len(front) = i
          BY <2>12, <3>1, <3>4, <4>1
        <5>2. new[h] = rest[h - Len(front)]
          BY <3>3, <5>1
        <5> QED BY <4>1, <5>1, <5>2
      <4>3. rest[i] = line[N + i - 1] /\ N + i - 1 = N - 1 + i
        BY <3>2
      <4> QED BY <4>2, <4>3
    <3> QED BY <2>12, <3>1, <3>3, <3>4, <3>5, <3>6
  <2>14. Renamed(new, line, id, F, N)
    BY <2>3, <2>6, <2>8, <2>13 DEF Renamed
  <2>15. N \in 1..Len(line)
    BY <2>3, <2>6
  <2> QED BY <2>3, <2>13, <2>14, <2>15
<1> QED BY <1>3, <1>4

------------------------------------------------------------------------------
\* The tokens of a stored message and those of a file of the batch.
StoredTokens == [kind : TokenKinds, id : {0}]
Tokens == [kind : TokenKinds, id : Nat]

\* The types of a stored line and of a generated text.
LEMMA TokenTypes ==
  /\ \A line \in Seq(StoredTokens) :
       line \in Seq(Tokens) /\ \A i \in 1..Len(line) : line[i].id = 0
  /\ \A id \in Nat : /\ Generated(id) \in Tokens
                      /\ Generated(id).id = id /\ Generated(id).kind = "text"
<1>1. ASSUME NEW line \in Seq(StoredTokens) PROVE line \in Seq(Tokens)
  <2>1. StoredTokens \subseteq Tokens
    BY DEF StoredTokens, Tokens
  <2> QED BY <2>1, SeqMonotonic
<1>2. ASSUME NEW line \in Seq(StoredTokens), NEW i \in 1..Len(line) PROVE line[i].id = 0
  <2>1. line[i] \in StoredTokens
    BY ElementOfSeq
  <2> QED BY <2>1 DEF StoredTokens
<1>3. ASSUME NEW id \in Nat PROVE Generated(id) \in Tokens
  BY DEF Generated, Tokens, TokenKinds
<1>4. ASSUME NEW id \in Nat PROVE Generated(id).id = id /\ Generated(id).kind = "text"
  BY DEF Generated
<1> QED BY <1>1, <1>2, <1>3, <1>4

\* Every opening tag of MessageID is followed by a generated identifier.
Renewed(text) ==
  \A i \in 1..Len(text) : OpensMessageId(text[i]) =>
    i + 1 <= Len(text) /\ text[i + 1].kind = "text" /\ text[i + 1].id > 0

\* The token before which a line goes on is found behind the new text.
LEMMA BehindTheName ==
  ASSUME NEW line, Len(line) \in Nat, NEW id, NEW first \in 1..Len(line),
         NEW next \in 1..Len(line), NEW new, Renamed(new, line, id, first, next),
         NEW i \in 1..Len(new), i > first + 1
  PROVE  /\ \E k \in 1..Len(line) : k > first /\ new[i] = line[k]
         /\ next = first + 2 => new[i] = line[i]
<1>1. /\ Len(line) \in Nat /\ next \in (first + 1)..Len(line)
      /\ Len(new) = first + 1 + (Len(line) - next + 1)
      /\ \A h \in 1..(Len(line) - next + 1) : new[first + 1 + h] = line[next - 1 + h]
  BY DEF Renamed
<1>2. PICK h \in 1..(Len(line) - next + 1) : i = first + 1 + h
  <2>1. /\ i - first - 1 \in 1..(Len(line) - next + 1)
        /\ i = first + 1 + (i - first - 1)
    BY <1>1
  <2> QED BY <2>1
<1>3. PICK k \in 1..Len(line) : k = next - 1 + h
  BY <1>1, <1>2
<1>4. k > first /\ new[i] = line[k]
  BY <1>1, <1>2, <1>3
<1>5. next = first + 2 => k = i
  BY <1>1, <1>2, <1>3
<1> QED BY <1>3, <1>4, <1>5

\* What inject() writes are stored tokens and the new identifier, this only
\* when the line is not the same any more.
LEMMA InjectedTokens ==
  ASSUME NEW line \in Seq(StoredTokens), NEW id \in Nat \ {0}, NEW new \in inject(line, id)
  PROVE  /\ new \in Seq(Tokens)
         /\ \A i \in 1..Len(new) : new[i].id = 0 \/ (new[i].id = id /\ new # line)
<1>2. line \in Seq(Tokens)
  BY TokenTypes
<1>3. Generated(id) \in Tokens /\ Generated(id).id = id
  BY TokenTypes
<1>4. \A i \in 1..Len(line) : line[i].id = 0
  BY TokenTypes
<1>5. /\ new \in Seq(Tokens)
      /\ \/ new = line
         \/ \E first, next \in 1..Len(line) : Renamed(new, line, id, first, next)
  BY <1>2, <1>3, InjectedLine
<1>6. ASSUME NEW first \in 1..Len(line), NEW next \in 1..Len(line),
             Renamed(new, line, id, first, next), NEW i \in 1..Len(new)
      PROVE  new[i].id = 0 \/ (new[i].id = id /\ new # line)
  <2>1. CASE i \in 1..first
    BY <1>4, <1>6, <2>1 DEF Renamed
  <2>2. CASE i = first + 1
    <3>1. new[i].id = id
      BY <1>3, <1>6, <2>2 DEF Renamed
    <3>2. new = line => new[i].id = 0
      BY <1>4
    <3> QED BY <3>1, <3>2
  <2>3. CASE i > first + 1
    <3>1. PICK k \in 1..Len(line) : new[i] = line[k]
      BY <1>6, <2>3, BehindTheName
    <3> QED BY <1>4, <3>1
  <2> QED BY <2>1, <2>2, <2>3
<1> QED BY <1>4, <1>5, <1>6

\* In a plain line it is the text of MessageID that is replaced.
LEMMA InjectedPlain ==
  ASSUME NEW line \in Seq(StoredTokens), NEW id \in Nat \ {0}, NEW new \in inject(line, id),
         Plain(line)
  PROVE  SameButIdentifiers(new, line)
<1>1. line \in Seq(Tokens) /\ Generated(id) \in Tokens
  BY TokenTypes
<1>2. /\ new \in Seq(Tokens)
      /\ \/ new = line
         \/ \E first, next \in 1..Len(line) : Renamed(new, line, id, first, next)
  BY <1>1, InjectedLine
<1>3. ASSUME NEW first \in 1..Len(line), NEW next \in 1..Len(line),
             Renamed(new, line, id, first, next)
      PROVE  SameButIdentifiers(new, line)
  <2>1. line[first].kind = "open"
    <3> SUFFICES ASSUME line[first].kind = "close" PROVE FALSE
      <4>1. line[first].kind \notin Tails /\ EndsWithMessageId(line[first])
        BY <1>3 DEF Renamed, Plain
      <4> QED BY <4>1 DEF EndsWithMessageId, Tails
    <3>1. first > 2 /\ line[first - 2].kind = "open"
      BY DEF Plain
    <3>2. first - 2 \in 1..(first - 1)
      BY <3>1
    <3> QED BY <1>3, <3>1, <3>2 DEF Renamed, EndsWithMessageId
  <2>2. first + 2 <= Len(line) /\ line[first + 1].kind = "text" /\ line[first + 2].kind = "close"
    BY <2>1 DEF Plain
  <2>3. next = first + 2
    <3>1. next # first + 1
      BY <1>3, <2>2 DEF Renamed, StartsWithLess
    <3>2. ~ (first + 2 <= next - 1)
      <4> SUFFICES ASSUME first + 2 \in (first + 1)..(next - 1) PROVE FALSE
        OBVIOUS
      <4>1. ~StartsWithLess(line[first + 2])
        BY <1>3 DEF Renamed
      <4> QED BY <2>2, <4>1 DEF StartsWithLess
    <3> QED BY <1>3, <3>1, <3>2 DEF Renamed
  <2>4. Len(new) = Len(line)
    BY <1>3, <2>2, <2>3 DEF Renamed
  <2>5. ASSUME NEW i \in 1..Len(new), i # first + 1 PROVE new[i] = line[i]
    <3>1. CASE i \in 1..first
      BY <1>3, <3>1 DEF Renamed
    <3>2. CASE i > first + 1
      BY <1>3, <2>3, <3>2, BehindTheName
    <3> QED BY <2>5, <3>1, <3>2
  <2>6. /\ first + 1 > 1 /\ first + 1 \in 1..Len(new) /\ (first + 1) - 1 = first
        /\ new[first + 1].kind = line[first + 1].kind
    BY <1>3, <2>2, <2>4 DEF Renamed, Generated
  <2>7. DOMAIN new = 1..Len(new)
    BY <1>2
  <2> QED BY <2>1, <2>4, <2>5, <2>6, <2>7 DEF SameButIdentifiers
<1>4. SameButIdentifiers(line, line)
  BY DEF SameButIdentifiers
<1> QED BY <1>2, <1>3, <1>4

\* With one MessageID on the line, its identifier is a new one.
LEMMA InjectedRenewed ==
  ASSUME NEW line \in Seq(StoredTokens), NEW id \in Nat \ {0}, NEW new \in inject(line, id),
         OneIdentifier(line)
  PROVE  Renewed(new)
<1>1. line \in Seq(Tokens) /\ Generated(id) \in Tokens
  BY TokenTypes
<1>2. /\ new \in Seq(Tokens)
      /\ \/ new = line /\ \A i \in 1..Len(line) : ~EndsWithMessageId(line[i])
         \/ \E first, next \in 1..Len(line) : Renamed(new, line, id, first, next)
  BY <1>1, InjectedLine
<1>3. ASSUME NEW first \in 1..Len(line), NEW next \in 1..Len(line),
             Renamed(new, line, id, first, next),
             NEW i \in 1..Len(new), OpensMessageId(new[i])
      PROVE  i + 1 <= Len(new) /\ new[i + 1].kind = "text" /\ new[i + 1].id > 0
  <2>1. i = first
    <3>1. CASE i \in 1..(first - 1)
      <4>1. i \in DOMAIN line /\ new[i] = line[i] /\ ~EndsWithMessageId(line[i])
        BY <1>3, <3>1 DEF Renamed
      <4> QED BY <1>3, <4>1 DEF OneIdentifier
    <3>2. CASE i = first + 1
      BY <1>3, <3>2 DEF Renamed, Generated, OpensMessageId
    <3>3. CASE i > first + 1
      <4>1. PICK k \in 1..Len(line) : k > first /\ OpensMessageId(line[k])
        BY <1>3, <3>3, BehindTheName
      <4>2. k <= first
        BY <1>3, <4>1 DEF Renamed, OneIdentifier
      <4> QED BY <4>1, <4>2
    <3> QED BY <3>1, <3>2, <3>3
  <2>2. new[first + 1] = Generated(id) /\ first + 1 <= Len(new)
    BY <1>3 DEF Renamed
  <2> QED BY <2>1, <2>2 DEF Generated
<1>4. ASSUME new = line, \A i \in 1..Len(line) : ~EndsWithMessageId(line[i])
      PROVE  Renewed(new)
  BY <1>4 DEF Renewed, OneIdentifier
<1> QED BY <1>2, <1>3, <1>4 DEF Renewed

------------------------------------------------------------------------------
\* Renewed and SameButIdentifiers hold of a text when they hold of its lines.
LEMMA ConcatRenewed ==
  ASSUME NEW a \in Seq(Tokens), NEW b \in Seq(Tokens), Renewed(a), Renewed(b)
  PROVE  Renewed(a \o b)
<1>1. /\ Len(a \o b) = Len(a) + Len(b)
      /\ \A i \in 1..Len(a) + Len(b) : (a \o b)[i] = IF i <= Len(a) THEN a[i] ELSE b[i - Len(a)]
  BY ConcatProperties
<1>2. PICK c : c = a \o b
  OBVIOUS
<1>3. Len(a) \in Nat /\ Len(b) \in Nat
  OBVIOUS
<1> SUFFICES ASSUME NEW i \in 1..Len(c), OpensMessageId(c[i])
             PROVE  i + 1 <= Len(c) /\ c[i + 1].kind = "text" /\ c[i + 1].id > 0
  BY <1>2 DEF Renewed
<1>4. CASE i <= Len(a)
  <2>1. c[i] = a[i] /\ i \in 1..Len(a)
    BY <1>1, <1>2, <1>3, <1>4
  <2>2. i + 1 <= Len(a) /\ a[i + 1].kind = "text" /\ a[i + 1].id > 0
    BY <2>1 DEF Renewed
  <2>3. i + 1 \in 1..Len(a) + Len(b)
    BY <1>3, <2>2
  <2>4. c[i + 1] = a[i + 1]
    BY <1>1, <1>2, <2>2, <2>3
  <2> QED BY <1>1, <1>2, <1>3, <2>2, <2>4
<1>5. CASE i > Len(a)
  <2>1. PICK h \in 1..Len(b) : i = Len(a) + h
    <3>1. i - Len(a) \in 1..Len(b) /\ i = Len(a) + (i - Len(a))
      BY <1>1, <1>2, <1>3, <1>5
    <3> QED BY <3>1
  <2>2. c[i] = b[h]
    <3>1. i - Len(a) = h /\ i \in 1..Len(a) + Len(b) /\ ~ (i <= Len(a))
      BY <1>1, <1>2, <1>3, <1>5, <2>1
    <3> QED BY <1>1, <1>2, <3>1
  <2>3. h + 1 <= Len(b) /\ b[h + 1].kind = "text" /\ b[h + 1].id > 0
    BY <2>2 DEF Renewed
  <2>4. c[i + 1] = b[h + 1]
    <3>1. PICK l \in Nat : l = i + 1
      OBVIOUS
    <3>2. l - Len(a) = h + 1 /\ l \in 1..Len(a) + Len(b) /\ ~ (l <= Len(a))
      BY <1>3, <2>1, <2>3, <3>1
    <3>3. c[l] = b[l - Len(a)]
      BY <1>1, <1>2, <3>2
    <3> QED BY <3>1, <3>2, <3>3
  <2> QED BY <1>1, <1>2, <1>3, <2>1, <2>3, <2>4
<1> QED BY <1>3, <1>4, <1>5

\* Texts that differ only in identifiers do so when they are joined.
LEMMA ConcatSame ==
  ASSUME NEW a \in Seq(Tokens), NEW b \in Seq(Tokens), NEW c \in Seq(Tokens),
         NEW d \in Seq(Tokens), SameButIdentifiers(a, b), SameButIdentifiers(c, d)
  PROVE  SameButIdentifiers(a \o c, b \o d)
<1>1. Len(a) = Len(b) /\ Len(c) = Len(d) /\ Len(a) \in Nat /\ Len(c) \in Nat
  BY DEF SameButIdentifiers
<1>2. PICK new : new = a \o c
  OBVIOUS
<1>3. PICK old : old = b \o d
  OBVIOUS
<1>4. /\ new \in Seq(Tokens) /\ Len(new) = Len(a) + Len(c)
      /\ \A i \in 1..Len(a) + Len(c) : new[i] = IF i <= Len(a) THEN a[i] ELSE c[i - Len(a)]
  BY <1>2, ConcatProperties
<1>5. /\ old \in Seq(Tokens) /\ Len(old) = Len(a) + Len(c)
      /\ \A i \in 1..Len(a) + Len(c) : old[i] = IF i <= Len(a) THEN b[i] ELSE d[i - Len(a)]
  BY <1>1, <1>3, ConcatProperties
<1>6. ASSUME NEW i \in 1..Len(new)
      PROVE  \/ new[i] = old[i]
             \/ i > 1 /\ old[i - 1].kind = "open" /\ new[i].kind = old[i].kind
  <2>1. CASE i <= Len(a)
    <3>1. i \in 1..Len(a) /\ new[i] = a[i] /\ old[i] = b[i]
      BY <1>1, <1>4, <1>5, <2>1
    <3>2. \/ a[i] = b[i]
          \/ i > 1 /\ b[i - 1].kind = "open" /\ a[i].kind = b[i].kind
      <4>1. i \in DOMAIN a
        BY <3>1
      <4> QED BY <4>1 DEF SameButIdentifiers
    <3>3. i > 1 => old[i - 1] = b[i - 1]
      <4> SUFFICES ASSUME i > 1 PROVE old[i - 1] = b[i - 1]
        OBVIOUS
      <4>1. i - 1 \in 1..Len(a) + Len(c) /\ i - 1 <= Len(a)
        BY <1>1, <3>1
      <4> QED BY <1>5, <4>1
    <3> QED BY <3>1, <3>2, <3>3
  <2>2. CASE i > Len(a)
    <3>1. PICK h \in 1..Len(c) : i = Len(a) + h
      <4>1. i - Len(a) \in 1..Len(c) /\ i = Len(a) + (i - Len(a))
        BY <1>1, <1>4, <2>2
      <4> QED BY <4>1
    <3>2. new[i] = c[h] /\ old[i] = d[h]
      <4>1. i - Len(a) = h /\ i \in 1..Len(a) + Len(c) /\ ~ (i <= Len(a))
        BY <1>1, <3>1
      <4> QED BY <1>4, <1>5, <4>1
    <3>3. \/ c[h] = d[h]
          \/ h > 1 /\ d[h - 1].kind = "open" /\ c[h].kind = d[h].kind
      BY <3>1 DEF SameButIdentifiers
    <3>4. h > 1 => i > 1 /\ old[i - 1] = d[h - 1]
      <4> SUFFICES ASSUME h > 1 PROVE i > 1 /\ old[i - 1] = d[h - 1]
        OBVIOUS
      <4>1. PICK l \in Nat : l = i - 1
        <5> i - 1 \in Nat
          BY <1>1, <3>1
        <5> QED OBVIOUS
      <4>2. l - Len(a) = h - 1 /\ l \in 1..Len(a) + Len(c) /\ ~ (l <= Len(a))
        BY <1>1, <3>1, <4>1
      <4>3. old[l] = d[l - Len(a)]
        BY <1>5, <4>2
      <4> QED BY <1>1, <3>1, <4>1, <4>2, <4>3
    <3> QED BY <3>2, <3>3, <3>4
  <2> QED BY <1>1, <2>1, <2>2
<1>7. DOMAIN new = 1..Len(new) /\ Len(new) = Len(old)
  BY <1>4, <1>5
<1> QED BY <1>2, <1>3, <1>6, <1>7 DEF SameButIdentifiers

\* The event loop writes tokens it has read ...
LEMMA WrittenTokens ==
  ASSUME NEW text \in Seq(Tokens)
  PROVE  /\ Written(text) \in Seq(Tokens)
         /\ \A j \in 1..Len(Written(text)) : \E i \in 1..Len(text) : Written(text)[j] = text[i]
<1> DEFINE I == {i \in DOMAIN text : text[i].kind # "blank"}
<1> HIDE DEF I
<1>1. PICK m \in Nat : \E p : /\ Lists(p, m, I, Len(text))
                              /\ Chosen(text, I) \in Seq(Tokens) /\ Len(Chosen(text, I)) = m
                              /\ \A j \in 1..m : Chosen(text, I)[j] = text[p[j]]
  BY ChosenLists
<1>2. Written(text) = Chosen(text, I)
  BY DEF Written, I
<1>3. PICK p : /\ Lists(p, m, I, Len(text))
               /\ \A j \in 1..m : Chosen(text, I)[j] = text[p[j]]
  BY <1>1
<1>4. \A j \in 1..m : p[j] \in 1..Len(text)
  BY <1>3 DEF Lists
<1> QED BY <1>1, <1>2, <1>3, <1>4

\* ... and leaves no identifier away that follows its opening tag,
LEMMA WrittenRenewed ==
  ASSUME NEW text \in Seq(Tokens), Renewed(text)
  PROVE  Renewed(Written(text))
<1> DEFINE I == {i \in DOMAIN text : text[i].kind # "blank"}
<1> HIDE DEF I
<1>1. PICK m \in Nat : \E p : /\ Lists(p, m, I, Len(text))
                              /\ Chosen(text, I) \in Seq(Tokens) /\ Len(Chosen(text, I)) = m
                              /\ \A j \in 1..m : Chosen(text, I)[j] = text[p[j]]
  BY ChosenLists
<1>2. PICK w : w = Written(text)
  OBVIOUS
<1>3. w = Chosen(text, I)
  BY <1>2 DEF Written, I
<1>4. \A i \in 1..Len(text) : i \in I <=> text[i].kind # "blank"
  BY DEF I
<1>5. PICK p : /\ Lists(p, m, I, Len(text)) /\ Len(w) = m
               /\ \A j \in 1..m : w[j] = text[p[j]]
  BY <1>1, <1>3
<1> SUFFICES ASSUME NEW j \in 1..Len(w), OpensMessageId(w[j])
             PROVE  j + 1 <= Len(w) /\ w[j + 1].kind = "text" /\ w[j + 1].id > 0
  BY <1>2 DEF Renewed
<1>6. \A h \in 1..m : p[h] \in 1..Len(text)
  BY <1>5 DEF Lists
<1>7. PICK k \in 1..Len(text) : k = p[j]
  BY <1>5, <1>6
<1>8. OpensMessageId(text[k]) /\ k \in I
  BY <1>4, <1>5, <1>7 DEF OpensMessageId
<1>9. k + 1 \in 1..Len(text) /\ text[k + 1].kind = "text" /\ text[k + 1].id > 0
  BY <1>8 DEF Renewed
<1>10. PICK h \in 1..m : p[h] = k + 1
  BY <1>4, <1>5, <1>9 DEF Lists
<1>11. h - 1 \in 1..m /\ p[h - 1] = k
  BY <1>5, <1>8, <1>10, ListsNeighbour
<1>12. h - 1 = j
  <2>1. ~ (h - 1 < j) /\ ~ (j < h - 1)
    BY <1>5, <1>6, <1>7, <1>11 DEF Lists
  <2> QED BY <1>5, <1>11, <2>1
<1> QED BY <1>5, <1>9, <1>10, <1>12

\* and what differs only in identifiers does so when it is written.
LEMMA WrittenSame ==
  ASSUME NEW a \in Seq(Tokens), NEW b \in Seq(Tokens), SameButIdentifiers(a, b)
  PROVE  SameButIdentifiers(Written(a), Written(b))
<1> DEFINE I == {i \in DOMAIN a : a[i].kind # "blank"}
<1>1. DOMAIN a = 1..Len(a) /\ DOMAIN b = 1..Len(a) /\ Len(a) = Len(b)
  BY DEF SameButIdentifiers
<1>2. \A i \in 1..Len(a) : a[i].kind = b[i].kind
  BY <1>1 DEF SameButIdentifiers
<1>3. I = {i \in DOMAIN b : b[i].kind # "blank"}
  BY <1>1, <1>2
<1>4. PICK new : new = Written(a)
  OBVIOUS
<1>5. PICK old : old = Written(b)
  OBVIOUS
<1>6. new = Chosen(a, I) /\ old = Chosen(b, I)
  BY <1>3, <1>4, <1>5 DEF Written
<1>7. \A i \in 1..Len(a) : i \in I <=> b[i].kind # "blank"
  BY <1>1, <1>2
<1> HIDE DEF I
<1>8. PICK m \in Nat : \E p : /\ Lists(p, m, I, Len(a))
                              /\ new \in Seq(Tokens) /\ Len(new) = m
                              /\ old \in Seq(Tokens) /\ Len(old) = m
                              /\ \A j \in 1..m : new[j] = a[p[j]] /\ old[j] = b[p[j]]
  <2>1. Len(a) = Len(b)
    BY <1>1
  <2>2. PICK m \in Nat : \E p : SameChosen(p, m, a, b, I, Tokens)
    BY <2>1, ChosenPair
  <2> QED BY <1>6, <2>2 DEF SameChosen
<1>9. PICK p : /\ Lists(p, m, I, Len(a))
               /\ \A j \in 1..m : new[j] = a[p[j]] /\ old[j] = b[p[j]]
  BY <1>8
<1>10. ASSUME NEW j \in 1..m
       PROVE  \/ new[j] = old[j]
              \/ j > 1 /\ old[j - 1].kind = "open" /\ new[j].kind = old[j].kind
  <2>1. PICK i \in 1..Len(a) : i = p[j]
    BY <1>9 DEF Lists
  <2>2. new[j] = a[i] /\ old[j] = b[i]
    BY <1>9, <2>1
  <2>3. CASE a[i] = b[i]
    BY <2>2, <2>3
  <2>4. CASE i > 1 /\ b[i - 1].kind = "open" /\ a[i].kind = b[i].kind
    <3>1. PICK k \in 1..Len(a) : i = k + 1
      <4>1. i - 1 \in 1..Len(a) /\ i = (i - 1) + 1
        BY <2>4
      <4> QED BY <4>1
    <3>2. b[k].kind = "open" /\ k \in I
      BY <1>7, <2>4, <3>1
    <3>3. j - 1 \in 1..m /\ p[j - 1] = k
      <4>1. Len(a) \in Nat /\ p[j] = k + 1
        BY <2>1, <3>1
      <4> QED BY <1>9, <3>2, <4>1, ListsNeighbour
    <3>4. old[j - 1] = b[k] /\ j > 1
      BY <1>9, <3>3
    <3> QED BY <2>2, <2>4, <3>2, <3>4
  <2> QED BY <1>1, <2>3, <2>4 DEF SameButIdentifiers
<1>11. DOMAIN new = 1..m /\ Len(new) = Len(old)
  BY <1>8
<1> QED BY <1>4, <1>5, <1>10, <1>11 DEF SameButIdentifiers
=============================================================================
