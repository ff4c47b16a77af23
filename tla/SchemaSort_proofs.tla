-------------------------- MODULE SchemaSort_proofs --------------------------
(***************************************************************************)
(* For any number of files and any imports between them: the list keeps each *)
(* file, once; every exchange descends; when the sort ends, each file comes   *)
(* after all that it imports, so there is such an order; and if there is one, *)
(* every step descends in a well-founded relation.                           *)
(***************************************************************************)
EXTENDS Integers, SchemaSort, FiniteSetTheorems, WellFoundedInduction, TLAPS

LEMMA SizeNat == Size \in Nat \ {0}
  BY FilesAssumption, FS_CardinalityType, FS_EmptySet DEF Size

\* Two files that change places leave a list in which each file is, once.
LEMMA SwappedPermutes ==
  ASSUME NEW s, Permutation(s), NEW k \in 1..Size, NEW l \in 1..Size
  PROVE  Permutation(Swapped(s, k, l))
  BY DEF Permutation, Swapped

-----------------------------------------------------------------------------
\* The list stays a permutation of the files, whatever the imports are, and the
\* loops stay within it.
THEOREM TypeCorrect == Spec => []TypeOK
<1>1. Init => TypeOK
  <2> SUFFICES ASSUME Init PROVE TypeOK
    OBVIOUS
  <2>1. imports \subseteq Files \X Files
    BY DEF Init
  <2>2. Permutation(sources)
    BY GeneratedAssumption DEF Init, Permutation
  <2>3. sorted \in BOOLEAN /\ at = "while"
    BY DEF Init
  <2>4. i \in 1..Size /\ j \in 1..(Size + 1)
    BY SizeNat DEF Init
  <2>5. QED
    BY <2>1, <2>2, <2>3, <2>4 DEF TypeOK
<1>2. TypeOK /\ [Next]_vars => TypeOK'
  <2> SUFFICES ASSUME TypeOK, [Next]_vars PROVE TypeOK'
    OBVIOUS
  <2> USE SizeNat
  <2>1. CASE StartPass
    BY <2>1 DEF StartPass, TypeOK, Permutation
  <2>2. CASE Leave
    BY <2>2 DEF Leave, TypeOK, Permutation
  <2>3. CASE Exchange
    <3>1. i \in 1..Size /\ j \in 1..Size /\ i + 1 \in 1..Size /\ i + 2 \in 1..(Size + 1)
      BY <2>3 DEF Exchange, TypeOK
    <3>2. Permutation(sources)'
      BY <2>3, <3>1, SwappedPermutes DEF Exchange, TypeOK, Permutation
    <3>3. i' \in 1..Size /\ j' \in 1..(Size + 1) /\ i' < j'
      BY <2>3, <3>1 DEF Exchange, NextRow
    <3>4. imports' \subseteq Files \X Files /\ sorted' \in BOOLEAN /\ at' = "for"
      BY <2>3 DEF Exchange, TypeOK
    <3>5. QED
      BY <3>2, <3>3, <3>4 DEF TypeOK
  <2>4. CASE Compare
    BY <2>4 DEF Compare, TypeOK, Permutation
  <2>5. CASE EndRow
    BY <2>5 DEF EndRow, NextRow, TypeOK, Permutation
  <2>6. CASE EndPass
    BY <2>6 DEF EndPass, TypeOK, Permutation
  <2>7. CASE UNCHANGED vars
    BY <2>7 DEF vars, TypeOK, Permutation
  <2>8. QED
    BY <2>1, <2>2, <2>3, <2>4, <2>5, <2>6, <2>7 DEF Next
<1>3. QED
  BY <1>1, <1>2, PTL DEF Spec

-----------------------------------------------------------------------------
\* As long as nothing was exchanged in the pass, what it has compared is in order.
Compared(k, l) == k < i \/ (k = i /\ l < j) \/ at # "for"
Ordered ==
  (sorted /\ at \in {"for", "while", "done"}) =>
    \A k, l \in 1..Size : (k < l /\ Compared(k, l)) => ~depends(sources[k], sources[l])
PassKnown == at = "done" => sorted
IInv == TypeOK /\ Ordered /\ PassKnown

\* When the sort ends, each file comes after all that it imports.
THEOREM ImportsComeFirst == Spec => []ImportedFirst
<1>1. Init => Ordered /\ PassKnown
  BY DEF Init, Ordered, PassKnown
<1>2. TypeOK /\ TypeOK' /\ Ordered /\ PassKnown /\ [Next]_vars => (Ordered /\ PassKnown)'
  <2> SUFFICES ASSUME TypeOK, TypeOK', Ordered, PassKnown, [Next]_vars
               PROVE  Ordered' /\ PassKnown'
    OBVIOUS
  <2> USE SizeNat DEF PassKnown, Compared
  <2>1. CASE StartPass
    BY <2>1 DEF StartPass, Ordered, TypeOK
  <2>2. CASE Leave
    BY <2>2 DEF Leave, Ordered, TypeOK, depends
  <2>3. CASE Exchange
    BY <2>3 DEF Exchange, Ordered
  <2>4. CASE Compare
    BY <2>4 DEF Compare, Ordered, TypeOK, depends
  <2>5. CASE EndRow
    BY <2>5 DEF EndRow, NextRow, Ordered, TypeOK, depends
  <2>6. CASE EndPass
    BY <2>6 DEF EndPass, Ordered, TypeOK, depends
  <2>7. CASE UNCHANGED vars
    BY <2>7 DEF vars, Ordered, depends
  <2>8. QED
    BY <2>1, <2>2, <2>3, <2>4, <2>5, <2>6, <2>7 DEF Next
<1>3. Ordered /\ PassKnown => ImportedFirst
  BY DEF Ordered, PassKnown, Compared, ImportedFirst
<1>4. QED
  BY <1>1, <1>2, <1>3, TypeCorrect, PTL DEF Spec

-----------------------------------------------------------------------------
\* Every exchange leaves the places before it alone and gives its own place to a
\* file that the holder imports.
THEOREM EveryExchangeDescends == Spec => ExchangesDescend
<1>1. TypeOK /\ [Next]_vars => [sources' # sources => Descends(sources, sources')]_vars
  <2> SUFFICES ASSUME TypeOK, Next, sources' # sources PROVE Descends(sources, sources')
    BY DEF vars
  <2>1. Exchange
    BY DEF Next, StartPass, Leave, Compare, EndRow, EndPass
  <2>2. /\ i \in 1..Size /\ j \in 1..Size /\ i < j
        /\ sources \in [1..Size -> Files]
        /\ depends(sources[i], sources[j])
        /\ sources' = [sources EXCEPT ![i] = sources[j], ![j] = sources[i]]
    BY <2>1, SizeNat DEF Exchange, Swapped, TypeOK, Permutation
  <2>3. \A l \in 1..(i - 1) : sources'[l] = sources[l]
    BY <2>2, SizeNat
  <2>4. sources'[i] = sources[j]
    BY <2>2, SizeNat
  <2>5. QED
    BY <2>2, <2>3, <2>4 DEF Descends
<1>2. QED
  BY <1>1, TypeCorrect, PTL DEF Spec, ExchangesDescend

-----------------------------------------------------------------------------
(***************************************************************************)
(* The sort ends if and only if the files can be ordered.                   *)
(***************************************************************************)

\* A set of natural numbers has a least element.
LEMMA Least ==
  ASSUME NEW T \in SUBSET Nat, T # {}
  PROVE  \E m \in T : \A k \in T : m <= k
<1> DEFINE R == OpToRel(<, Nat)
<1>1. IsWellFoundedOn(R, Nat)
  BY NatLessThanWellFounded
<1>2. \A x, y \in Nat : x < y => <<x, y>> \in R
  BY DEF OpToRel
<1> HIDE DEF R
<1>3. PICK m \in T : \A k \in T : ~(<<k, m>> \in R)
  BY <1>1, WFMin
<1>4. ASSUME NEW k \in T PROVE m <= k
  <2>1. k \in Nat /\ m \in Nat
    OBVIOUS
  <2>2. ~(k < m)
    BY <1>2, <1>3, <2>1, Zenon
  <2> QED BY <2>1, <2>2
<1> QED BY <1>4

\* Every file is in the list, and none imports itself.
AllListed == \A f \in Files : \E k \in 1..Size : sources[k] = f
NoneImportsItself == \A f \in Files : <<f, f>> \notin imports

\* Exchanges lose no file.
LEMMA AllStayListed == Spec => [](AllListed /\ NoneImportsItself)
<1>1. Init => AllListed /\ NoneImportsItself
  BY GeneratedAssumption DEF Init, AllListed, NoneImportsItself
<1>2. TypeOK /\ AllListed /\ NoneImportsItself /\ [Next]_vars => (AllListed /\ NoneImportsItself)'
  <2> SUFFICES ASSUME TypeOK, AllListed, NoneImportsItself, [Next]_vars
               PROVE  AllListed' /\ NoneImportsItself'
    OBVIOUS
  <2>1. imports' = imports
    BY DEF Next, StartPass, Leave, Exchange, Compare, EndRow, EndPass, vars
  <2>2. CASE Exchange
    <3>1. /\ i \in 1..Size /\ j \in 1..Size /\ sources \in [1..Size -> Files]
          /\ sources' = [sources EXCEPT ![i] = sources[j], ![j] = sources[i]]
      BY <2>2, SizeNat DEF Exchange, Swapped, TypeOK, Permutation
    <3>2. ASSUME NEW f \in Files PROVE \E k \in 1..Size : sources'[k] = f
      <4>1. PICK k \in 1..Size : sources[k] = f
        BY DEF AllListed
      <4>2. sources'[IF k = i THEN j ELSE IF k = j THEN i ELSE k] = f
        BY <3>1, <4>1
      <4> QED BY <3>1, <4>1, <4>2
    <3> QED BY <2>1, <3>2 DEF AllListed, NoneImportsItself
  <2>3. CASE sources' = sources
    BY <2>1, <2>3 DEF AllListed, NoneImportsItself
  <2>4. Exchange \/ sources' = sources
    BY DEF Next, StartPass, Leave, Compare, EndRow, EndPass, vars
  <2> QED BY <2>2, <2>3, <2>4
<1> QED BY <1>1, <1>2, TypeCorrect, PTL DEF Spec

\* With imports that have a cycle the sort never ends: where it does, there is
\* an order of the files.
THEOREM EndsOnlyWithAnOrder == Spec => [](at = "done" => Orderable)
<1>1. TypeOK /\ AllListed /\ ImportedFirst => (at = "done" => Orderable)
  <2> SUFFICES ASSUME TypeOK, AllListed, ImportedFirst, at = "done",
                      NEW S \in SUBSET Files, S # {}
               PROVE  \E f \in S : \A g \in S \ {f} : <<f, g>> \notin imports
    BY DEF Orderable
  <2> DEFINE Places == {k \in 1..Size : sources[k] \in S}
  <2>1. Places \in SUBSET Nat /\ Places # {}
    BY SizeNat DEF AllListed
  <2>2. PICK k \in Places : \A l \in Places : k <= l
    BY <2>1, Least
  <2>3. ASSUME NEW g \in S \ {sources[k]} PROVE <<sources[k], g>> \notin imports
    <3>1. PICK l \in 1..Size : sources[l] = g
      BY DEF AllListed
    <3>2. k < l
      BY <2>2, <3>1, SizeNat
    <3> QED BY <3>1, <3>2 DEF ImportedFirst, depends
  <2> QED BY <2>3
<1> QED BY <1>1, AllStayListed, ImportsComeFirst, TypeCorrect, PTL

\* The lists, ordered by the first place at which they differ; within a list, the
\* passes that are still to come, and what is still to come of a pass.
Acyclic(I) == \A S \in SUBSET Files : S # {} => \E f \in S : \A g \in S : <<f, g>> \notin I
Lists == [1..Size -> Files]
Agree(s, t, n) == \A k \in 1..n : t[k] = s[k]
DescendsBy(I, s, t) == \E k \in 1..Size : <<s[k], t[k]>> \in I /\ Agree(s, t, k - 1)

Stage == IF at = "for" THEN (IF sorted THEN 2 ELSE 4)
         ELSE IF at = "while" THEN (IF sorted THEN 1 ELSE 3)
         ELSE 0
Point == [list |-> sources, stage |-> Stage, rows |-> Size - i, row |-> Size + 1 - j]
Points == [list : Lists, stage : Nat, rows : Nat, row : Nat]
Below(I, p, q) ==
  \/ DescendsBy(I, p.list, q.list)
  \/ /\ q.list = p.list
     /\ \/ q.stage < p.stage
        \/ q.stage = p.stage /\ q.rows < p.rows
        \/ q.stage = p.stage /\ q.rows = p.rows /\ q.row < p.row
Later(I) == {e \in Points \X Points : Below(I, e[2], e[1])}

\* Among any lists there is one from which no exchange leads to another.
LEMMA LeastList ==
  ASSUME NEW I, Acyclic(I), NEW L \in SUBSET Lists, L # {}
  PROVE  \E s \in L : \A t \in L : ~DescendsBy(I, s, t)
<1> DEFINE Least1(s, n) == \A t \in L, k \in 1..n : ~(<<s[k], t[k]>> \in I /\ Agree(s, t, k - 1))
           Bad == {n \in 0..Size : ~ \E s \in L : Least1(s, n)}
<1>1. SUFFICES Bad = {}
  <2>1. Size \in 0..Size
    BY SizeNat
  <2> QED BY <1>1, <2>1 DEF DescendsBy
<1>2. SUFFICES ASSUME Bad # {} PROVE FALSE
  OBVIOUS
<1>3. Bad \in SUBSET Nat
  BY SizeNat
<1>4. PICK n \in Bad : \A m \in Bad : n <= m
  BY <1>2, <1>3, Least
<1>5. n # 0
  <2>1. 1..0 = {}
    OBVIOUS
  <2>2. \A s : Least1(s, 0)
    BY <2>1
  <2> QED BY <1>4, <2>2
<1>6. n - 1 \in 0..Size /\ n \in 1..Size /\ n - 1 \notin Bad
  <2> HIDE DEF Bad
  <2>1. n \in 0..Size
    BY <1>4 DEF Bad
  <2>2. n - 1 \in Nat /\ ~(n <= n - 1)
    BY <1>5, <2>1, SizeNat
  <2> QED BY <1>4, <2>1, <2>2, SizeNat
<1>7. PICK s \in L : Least1(s, n - 1)
  BY <1>6
<1> DEFINE M == {t \in L : Agree(s, t, n - 1)}
           V == {t[n] : t \in M}
<1>8. V \in SUBSET Files /\ V # {}
  <2>1. s \in M
    BY DEF Agree
  <2>2. \A t \in M : t[n] \in Files
    BY <1>6 DEF Lists
  <2> QED BY <2>1, <2>2
<1>9. PICK f \in V : \A g \in V : <<f, g>> \notin I
  BY <1>8 DEF Acyclic
<1>10. PICK r \in M : r[n] = f
  BY <1>9
<1> HIDE DEF Bad
<1>11. ASSUME NEW t \in L, NEW k \in 1..n, <<r[k], t[k]>> \in I, Agree(r, t, k - 1)
       PROVE  FALSE
  <2>1. CASE k = n
    <3>1. Agree(s, t, n - 1)
      BY <1>6, <1>10, <1>11, <2>1 DEF Agree
    <3> QED BY <1>9, <1>10, <1>11, <2>1, <3>1
  <2>2. CASE k # n
    <3> HIDE DEF M, V, Least1
    <3>1. n \in Nat /\ k \in 1..(n - 1)
      BY <1>6, <2>2, SizeNat
    <3>2. Agree(s, r, n - 1)
      BY <1>10 DEF M
    <3>3. r[k] = s[k] /\ Agree(s, r, k - 1)
      BY <3>1, <3>2 DEF Agree
    <3>4. Agree(s, t, k - 1)
      BY <1>11, <3>1, <3>3 DEF Agree
    <3> QED BY <1>7, <1>11, <3>1, <3>3, <3>4 DEF Least1
  <2> QED BY <2>1, <2>2
<1>12. Least1(r, n)
  BY <1>11
<1> QED BY <1>4, <1>10, <1>12 DEF Bad

\* If the files can be ordered, nothing descends for ever.
LEMMA LaterIsWellFounded ==
  ASSUME NEW I, Acyclic(I)
  PROVE  IsWellFoundedOn(Later(I), Points)
<1>1. ASSUME NEW T \in SUBSET Points, T # {}
      PROVE  \E p \in T : \A q \in T : <<q, p>> \notin Later(I)
  <2> DEFINE L == {p.list : p \in T}
  <2>1. L \in SUBSET Lists /\ L # {}
    BY <1>1 DEF Points
  <2>2. PICK s \in L : \A t \in L : ~DescendsBy(I, s, t)
    BY <2>1, LeastList
  <2> DEFINE T1 == {p \in T : p.list = s}
             N1 == {p.stage : p \in T1}
  <2>3. N1 \in SUBSET Nat /\ N1 # {}
    BY <2>2 DEF Points
  <2>4. PICK a \in N1 : \A b \in N1 : a <= b
    BY <2>3, Least
  <2> DEFINE T2 == {p \in T1 : p.stage = a}
             N2 == {p.rows : p \in T2}
  <2>5. N2 \in SUBSET Nat /\ N2 # {}
    BY <2>4 DEF Points
  <2>6. PICK c \in N2 : \A b \in N2 : c <= b
    BY <2>5, Least
  <2> DEFINE T3 == {p \in T2 : p.rows = c}
             N3 == {p.row : p \in T3}
  <2>7. N3 \in SUBSET Nat /\ N3 # {}
    BY <2>6 DEF Points
  <2>8. PICK d \in N3 : \A b \in N3 : d <= b
    BY <2>7, Least
  <2>9. PICK p \in T3 : p.row = d
    BY <2>8
  <2>10. p \in Points /\ p.list = s /\ p.stage = a /\ p.rows = c /\ p.row = d
    BY <2>9
  <2>11. ASSUME NEW q \in T, Below(I, p, q) PROVE FALSE
    <3>1. q \in Points /\ q.list \in L
      OBVIOUS
    <3>2. ~DescendsBy(I, p.list, q.list)
      BY <2>2, <2>10, <3>1
    <3>3. q.list = s
      BY <2>10, <2>11, <3>2 DEF Below
    <3>4. a <= q.stage
      BY <2>4, <3>3
    <3>5. q.stage = a => c <= q.rows
      BY <2>6, <3>3
    <3>6. q.stage = a /\ q.rows = c => d <= q.row
      BY <2>8, <3>3
    <3>7. q.stage \in Nat /\ q.rows \in Nat /\ q.row \in Nat
          /\ a \in Nat /\ c \in Nat /\ d \in Nat
      BY <2>10, <3>1 DEF Points
    <3> QED BY <2>10, <2>11, <3>2, <3>4, <3>5, <3>6, <3>7 DEF Below
  <2> QED BY <2>9, <2>11 DEF Later
<1> QED BY <1>1, MinWF

\* A step of the sort that goes on.
GoesOn == <<Point', Point>> \in Later(imports)

\* Every step of the sort goes on in a relation in which, if the files can be
\* ordered, nothing goes on for ever: whatever the number of files, the sort
\* takes finitely many steps.
THEOREM SortRunsOut ==
  Spec => /\ [](Orderable => IsWellFoundedOn(Later(imports), Points))
          /\ [][GoesOn]_vars
<1>1. TypeOK /\ NoneImportsItself /\ Orderable => IsWellFoundedOn(Later(imports), Points)
  <2> SUFFICES ASSUME TypeOK, NoneImportsItself, Orderable PROVE Acyclic(imports)
    BY LaterIsWellFounded
  <2>1. ASSUME NEW S \in SUBSET Files, S # {}
        PROVE  \E f \in S : \A g \in S : <<f, g>> \notin imports
    <3>1. PICK f \in S : \A g \in S \ {f} : <<f, g>> \notin imports
      BY <2>1 DEF Orderable
    <3> QED BY <3>1 DEF NoneImportsItself
  <2> QED BY <2>1 DEF Acyclic
<1>2. TypeOK /\ TypeOK' /\ [Next]_vars => [GoesOn]_vars
  <2> SUFFICES ASSUME TypeOK, TypeOK', Next PROVE <<Point', Point>> \in Later(imports)
    BY DEF vars, GoesOn
  <2>1. /\ Size - i \in Nat /\ Size + 1 - j \in Nat /\ Stage \in Nat /\ sources \in Lists
        /\ i \in Nat /\ j \in Nat /\ Size \in Nat
    BY SizeNat DEF TypeOK, Permutation, Stage, Lists
  <2>2. /\ Size - i' \in Nat /\ Size + 1 - j' \in Nat /\ Stage' \in Nat /\ sources' \in Lists
    <3>1. i' \in 1..Size /\ j' \in 1..(Size + 1)
      BY DEF TypeOK
    <3>2. Stage' \in Nat
      BY DEF Stage
    <3>3. sources' \in Lists
      BY DEF TypeOK, Permutation, Lists
    <3>4. \A k \in 1..Size, l \in 1..(Size + 1) : Size - k \in Nat /\ Size + 1 - l \in Nat
      BY SizeNat
    <3>5. Size - i' \in Nat /\ Size + 1 - j' \in Nat
      BY <3>1, <3>4, Zenon
    <3> QED BY <3>2, <3>3, <3>5
  <2>3. Point \in Points /\ Point' \in Points
    BY <2>1, <2>2 DEF Point, Points
  <2>4. SUFFICES \/ DescendsBy(imports, sources, sources')
                 \/ /\ sources' = sources
                    /\ \/ Stage' < Stage
                       \/ Stage' = Stage /\ Size - i' < Size - i
                       \/ Stage' = Stage /\ i' = i /\ Size + 1 - j' < Size + 1 - j
    BY <2>1, <2>2, <2>3 DEF Later, Below, Point
  <2>5. CASE StartPass
    BY <2>5 DEF StartPass, Stage
  <2>6. CASE Leave
    BY <2>6 DEF Leave, Stage
  <2>7. CASE Exchange
    <3>1. /\ i \in 1..Size /\ j \in 1..Size /\ i < j
          /\ sources \in [1..Size -> Files]
          /\ <<sources[i], sources[j]>> \in imports
          /\ sources' = [sources EXCEPT ![i] = sources[j], ![j] = sources[i]]
      BY <2>7, SizeNat DEF Exchange, Swapped, TypeOK, Permutation, depends
    <3>2. Agree(sources, sources', i - 1) /\ sources'[i] = sources[j]
      BY <3>1, SizeNat DEF Agree
    <3> QED BY <3>1, <3>2 DEF DescendsBy
  <2>8. CASE Compare
    BY <2>1, <2>8 DEF Compare, Stage
  <2>9. CASE EndRow
    BY <2>1, <2>9 DEF EndRow, NextRow, Stage
  <2>10. CASE EndPass
    BY <2>10 DEF EndPass, Stage
  <2> QED BY <2>5, <2>6, <2>7, <2>8, <2>9, <2>10 DEF Next
<1> QED BY <1>1, <1>2, TypeCorrect, AllStayListed, PTL DEF Spec
=============================================================================
