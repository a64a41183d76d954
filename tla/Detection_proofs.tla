--------------------------- MODULE Detection_proofs ---------------------------
EXTENDS Detection, Archive, FiniteSetTheorems, SequenceTheorems, WellFoundedInduction, TLAPS

-----------------------------------------------------------------------------
(* Numbers and paths.                                                      *)

\* A set of natural numbers that is not empty has a least one.
LEMMA LeastOf ==
  ASSUME NEW T, T \subseteq Nat, T # {}
  PROVE  \E x \in T : \A y \in T : x <= y
<1>1. PICK x \in T : \A y \in T : ~(<<y, x>> \in OpToRel(<, Nat))
  BY NatLessThanWellFounded, WFMin
<1>2. \A y \in T : ~(y < x)
  BY <1>1 DEF OpToRel
<1> QED  BY <1>2

\* Of a finite set one member has the greatest value: the one with the fewest above it.
LEMMA GreatestOf ==
  ASSUME NEW S, IsFiniteSet(S), S # {}, NEW f \in [S -> Int]
  PROVE  \E m \in S : \A x \in S : f[x] <= f[m]
<1> DEFINE Above(x) == {y \in S : f[y] > f[x]}
           T == {Cardinality(Above(x)) : x \in S}
<1>1. \A x \in S : IsFiniteSet(Above(x)) /\ Cardinality(Above(x)) \in Nat
  BY FS_Subset, FS_CardinalityType
<1>2. T \subseteq Nat /\ T # {}
  BY <1>1
<1>3. PICK n \in T : \A y \in T : n <= y
  <2> HIDE DEF T
  <2> QED  BY <1>2, LeastOf
<1>4. PICK m \in S : n = Cardinality(Above(m))
  OBVIOUS
<1>5. ASSUME NEW x \in S, f[x] > f[m] PROVE FALSE
  <2>1. Above(x) \subseteq Above(m) /\ x \in Above(m) /\ x \notin Above(x)
    BY <1>5
  <2>2. Cardinality(Above(m)) <= Cardinality(Above(x))
    BY <1>3, <1>4
  <2> HIDE DEF Above
  <2>3. Above(x) = Above(m)
    BY <2>1, <2>2, <1>1, FS_Subset
  <2> QED  BY <2>1, <2>3
<1> QED  BY <1>5

Paths == Seq(Nat \ {0})

\* The first positions of a sequence, and one more position.
LEMMA FirstOf ==
  ASSUME NEW S, NEW s \in Seq(S), NEW n \in 0 .. Len(s)
  PROVE  /\ SubSeq(s, 1, n) \in Seq(S) /\ Len(SubSeq(s, 1, n)) = n
         /\ \A i \in 1 .. n : SubSeq(s, 1, n)[i] = s[i]
         /\ n = Len(s) => SubSeq(s, 1, n) = s
<1>1. Len(s) \in Nat /\ n \in Nat /\ \A i \in 1 .. n : s[i] \in S
  OBVIOUS
<1>2. SubSeq(s, 1, n) \in Seq(S) /\ Len(SubSeq(s, 1, n)) = n /\ \A i \in 1 .. n : SubSeq(s, 1, n)[i] = s[i]
  BY <1>1
<1>3. n = Len(s) => SubSeq(s, 1, n) = s
  BY <1>2, SeqEqual
<1> QED  BY <1>2, <1>3

LEMMA OneMore ==
  ASSUME NEW S, NEW s \in Seq(S), NEW e \in S
  PROVE  /\ Append(s, e) \in Seq(S) /\ Len(Append(s, e)) = Len(s) + 1 /\ Len(s) \in Nat
         /\ \A i \in 1 .. Len(s) : Append(s, e)[i] = s[i]
         /\ Append(s, e)[Len(s) + 1] = e
         /\ s # << >> <=> Len(s) # 0
<1>1. s # << >> <=> Len(s) # 0
  BY EmptySeq, SeqEqual
<1> QED  BY <1>1

\* A prefix is what it is at each position.
LEMMA PrefixAt ==
  ASSUME NEW p \in Paths, NEW q \in Paths
  PROVE  Prefix(p, q) <=> Len(p) <= Len(q) /\ \A i \in 1 .. Len(p) : q[i] = p[i]
<1>1. CASE Len(p) <= Len(q)
  <2>1. /\ SubSeq(q, 1, Len(p)) \in Paths /\ Len(SubSeq(q, 1, Len(p))) = Len(p)
        /\ \A i \in 1 .. Len(p) : SubSeq(q, 1, Len(p))[i] = q[i]
    BY <1>1 DEF Paths
  <2>2. (\A i \in 1 .. Len(p) : q[i] = p[i]) => SubSeq(q, 1, Len(p)) = p
    BY <2>1, SeqEqual DEF Paths
  <2> QED  BY <1>1, <2>1, <2>2 DEF Prefix
<1>2. CASE ~(Len(p) <= Len(q))
  BY <1>2 DEF Prefix
<1> QED  BY <1>1, <1>2

LEMMA PrefixOrder ==
  ASSUME NEW p \in Paths, NEW q \in Paths, NEW r \in Paths
  PROVE  /\ Prefix(p, p) /\ Prefix(<< >>, p)
         /\ Prefix(p, q) /\ Prefix(q, r) => Prefix(p, r)
         /\ Prefix(p, r) /\ Prefix(q, r) /\ Len(p) <= Len(q) => Prefix(p, q)
         /\ Prefix(p, q) /\ Len(p) = Len(q) => p = q
<1>1. << >> \in Paths /\ Len(p) \in Nat /\ Len(q) \in Nat /\ Len(r) \in Nat
  BY EmptySeq DEF Paths
<1>2. Prefix(p, p) /\ Prefix(<< >>, p)
  BY <1>1, PrefixAt
<1>3. ASSUME Prefix(p, q), Prefix(q, r) PROVE Prefix(p, r)
  <2>1. Len(p) <= Len(q) /\ \A i \in 1 .. Len(p) : q[i] = p[i]
    BY <1>3, PrefixAt
  <2>2. Len(q) <= Len(r) /\ \A i \in 1 .. Len(q) : r[i] = q[i]
    BY <1>3, PrefixAt
  <2>3. Len(p) <= Len(r) /\ \A i \in 1 .. Len(p) : r[i] = p[i]
    BY <1>1, <2>1, <2>2
  <2> QED  BY <2>3, PrefixAt
<1>4. ASSUME Prefix(p, r), Prefix(q, r), Len(p) <= Len(q) PROVE Prefix(p, q)
  <2>1. \A i \in 1 .. Len(p) : r[i] = p[i]
    BY <1>4, PrefixAt
  <2>2. \A i \in 1 .. Len(q) : r[i] = q[i]
    BY <1>4, PrefixAt
  <2>3. \A i \in 1 .. Len(p) : q[i] = p[i]
    BY <1>1, <1>4, <2>1, <2>2
  <2> QED  BY <1>4, <2>3, PrefixAt
<1>5. ASSUME Prefix(p, q), Len(p) = Len(q) PROVE p = q
  <2>1. \A i \in 1 .. Len(p) : q[i] = p[i]
    BY <1>5, PrefixAt
  <2> QED  BY <1>5, <2>1, SeqEqual DEF Paths
<1> QED  BY <1>2, <1>3, <1>4, <1>5

\* The parent of a path is the path without its position.
LEMMA ParentAt ==
  ASSUME NEW q \in Paths, q # << >>
  PROVE  /\ Parent(q) \in Paths /\ Len(Parent(q)) = Len(q) - 1 /\ Len(q) \in Nat \ {0}
         /\ Prefix(Parent(q), q) /\ Position(q) \in Nat
<1>1. Len(q) \in Nat \ {0}
  BY EmptySeq, SeqEqual DEF Paths
<1>2. Parent(q) \in Paths /\ Len(Parent(q)) = Len(q) - 1
      /\ \A i \in 1 .. Len(q) - 1 : Parent(q)[i] = q[i]
  <2>1. Len(q) - 1 \in 0 .. Len(q)
    BY <1>1
  <2> QED  BY <2>1, FirstOf DEF Parent, Paths
<1>3. Prefix(Parent(q), q)
  BY <1>1, <1>2, PrefixAt
<1>4. Position(q) \in Nat
  BY <1>1 DEF Position, Paths
<1> QED  BY <1>1, <1>2, <1>3, <1>4

-----------------------------------------------------------------------------
(* Trees.                                                                  *)

\* What is assumed of trees, of the one that is walked.
LEMMA TreeFacts ==
  ASSUME tree \in Trees
  PROVE  /\ tree \in [DOMAIN tree -> Node] /\ IsFiniteSet(DOMAIN tree)
         /\ << >> \in DOMAIN tree /\ DOMAIN tree \subseteq Paths
         /\ \A p \in DOMAIN tree \ {<< >>} :
              /\ Parent(p) \in DOMAIN tree /\ tree[Parent(p)].kind \in Containers
              /\ tree[Parent(p)].kind \in Streams => Position(p) = 1
BY TreesAssumption DEF Paths

\* A member of an archive has it for parent; its place there tells it.
LEMMA MembersOf ==
  ASSUME tree \in Trees, NEW p \in DOMAIN tree, NEW q \in Members(p)
  PROVE  /\ q \in DOMAIN tree /\ q # << >> /\ Parent(q) = p /\ Prefix(p, q)
         /\ Len(q) = Len(p) + 1 /\ Len(p) \in Nat
         /\ \A r \in Members(p) : Position(q) = Position(r) => q = r
<1>1. p \in Paths /\ q \in Paths /\ q \in DOMAIN tree
  BY TreeFacts DEF Members
<1>2. Len(p) \in Nat /\ Len(q) = Len(p) + 1 /\ Prefix(p, q)
  BY <1>1 DEF Members, Paths
<1>3. q # << >>
  BY <1>2
<1>4. Parent(q) = p
  <2>1. Parent(q) \in Paths /\ Len(Parent(q)) = Len(p) /\ Prefix(Parent(q), q)
    BY <1>1, <1>2, <1>3, ParentAt
  <2>2. Len(Parent(q)) <= Len(p)
    BY <1>2, <2>1
  <2> QED  BY <1>1, <1>2, <2>1, <2>2, PrefixOrder
<1>5. ASSUME NEW r \in Members(p), Position(q) = Position(r) PROVE q = r
  <2>1. r \in Paths /\ Len(r) = Len(p) + 1 /\ Prefix(p, r)
    BY TreeFacts DEF Members
  <2>2. \A i \in 1 .. Len(p) : q[i] = p[i] /\ r[i] = p[i]
    BY <1>1, <1>2, <2>1, PrefixAt
  <2>3. \A i \in 1 .. Len(q) : q[i] = r[i]
    BY <1>2, <1>5, <2>1, <2>2 DEF Position
  <2> QED  BY <1>1, <1>2, <2>1, <2>3, SeqEqual DEF Paths
<1> QED  BY <1>1, <1>2, <1>3, <1>4, <1>5

LEMMA InParent ==
  ASSUME tree \in Trees, NEW q \in DOMAIN tree, q # << >>
  PROVE  Parent(q) \in DOMAIN tree /\ q \in Members(Parent(q))
<1>1. q \in Paths /\ Parent(q) \in DOMAIN tree
  BY TreeFacts
<1> QED  BY <1>1, ParentAt DEF Members

\* Reading by name gives a member of the same archive, with that name.
LEMMA SourceOf ==
  ASSUME tree \in Trees, NEW q \in DOMAIN tree, q # << >>
  PROVE  Source(q) \in Members(Parent(q)) /\ (Source(q) = q \/ tree[Source(q)].name = tree[q].name)
<1> DEFINE S == {r \in Members(Parent(q)) : tree[r].name = tree[q].name}
           place == [r \in S |-> Position(r)]
<1>1. q \in S /\ S \subseteq DOMAIN tree
  BY InParent DEF Members
<1>2. IsFiniteSet(S)
  BY <1>1, TreeFacts, FS_Subset
<1>3. \A r \in S : Position(r) \in Int
  <2> TAKE r \in S
  <2>1. r \in Paths /\ r # << >>
    BY <1>1, InParent, MembersOf, TreeFacts
  <2> QED  BY <2>1, ParentAt
<1>4. \E r \in S : \A t \in S : place[t] <= place[r]
  <2>1. place \in [S -> Int]
    BY <1>3
  <2> HIDE DEF S, place
  <2> QED  BY <1>1, <1>2, <2>1, GreatestOf
<1>5. \E r \in Members(Parent(q)) :
         /\ tree[r].name = tree[q].name
         /\ \A t \in Members(Parent(q)) : tree[t].name = tree[q].name => Position(t) <= Position(r)
  BY <1>4
<1> HIDE DEF S, place
<1>6. CASE tree[Parent(q)].kind \in {"tar"} \cup Streams
  BY <1>6, InParent DEF Source
<1>7. CASE tree[Parent(q)].kind \notin {"tar"} \cup Streams
  BY <1>5, <1>7 DEF Source
<1> QED  BY <1>6, <1>7

\* Every prefix of a path of the tree is one.
LEMMA PrefixesOf ==
  ASSUME tree \in Trees, NEW p \in DOMAIN tree, NEW n \in 0 .. Len(p)
  PROVE  SubSeq(p, 1, n) \in DOMAIN tree
<1>1. p \in Paths /\ Len(p) \in Nat
  BY TreeFacts DEF Paths
<1> DEFINE T == {k \in 0 .. Len(p) : SubSeq(p, 1, Len(p) - k) \notin DOMAIN tree}
<1>2. SUFFICES T = {}
  <2>1. Len(p) - n \in 0 .. Len(p) /\ Len(p) - (Len(p) - n) = n
    BY <1>1
  <2> QED  BY <2>1
<1>3. SUFFICES ASSUME T # {} PROVE FALSE
  OBVIOUS
<1>4. PICK k \in T : \A j \in T : k <= j
  <2>1. T \subseteq Nat
    OBVIOUS
  <2> HIDE DEF T
  <2> QED  BY <1>3, <2>1, LeastOf
<1>5. k # 0
  <2>1. Len(p) - 0 = Len(p) /\ Len(p) \in 0 .. Len(p)
    BY <1>1
  <2> QED  BY <1>1, <2>1, FirstOf DEF Paths
<1>6. k - 1 \in 0 .. Len(p) /\ k - 1 \notin T
  BY <1>1, <1>4, <1>5
<1> DEFINE r == SubSeq(p, 1, Len(p) - (k - 1))
<1>7. r \in DOMAIN tree
  BY <1>6
<1>8. r \in Paths /\ Len(r) = Len(p) - (k - 1) /\ \A i \in 1 .. Len(r) : r[i] = p[i]
  <2>1. Len(p) - (k - 1) \in 0 .. Len(p)
    BY <1>1, <1>6
  <2> QED  BY <1>1, <2>1, FirstOf DEF Paths
<1>9. r # << >>
  BY <1>8, <1>1, <1>5
<1>10. Parent(r) \in DOMAIN tree
  BY <1>7, <1>9, TreeFacts
<1>11. Parent(r) = SubSeq(p, 1, Len(p) - k)
  <2>1. /\ Parent(r) \in Paths /\ Len(Parent(r)) = Len(p) - k
        /\ \A i \in 1 .. Len(p) - k : Parent(r)[i] = p[i]
    <3>1. Len(r) - 1 \in 0 .. Len(r) /\ Len(r) - 1 = Len(p) - k
      BY <1>1, <1>5, <1>8
    <3>2. \A i \in 1 .. Len(p) - k : i \in 1 .. Len(r)
      BY <3>1
    <3> QED  BY <1>8, <3>1, <3>2, FirstOf DEF Parent, Paths
  <2>2. /\ SubSeq(p, 1, Len(p) - k) \in Paths /\ Len(SubSeq(p, 1, Len(p) - k)) = Len(p) - k
        /\ \A i \in 1 .. Len(p) - k : SubSeq(p, 1, Len(p) - k)[i] = p[i]
    <3>1. Len(p) - k \in 0 .. Len(p)
      BY <1>1
    <3> QED  BY <1>1, <3>1, FirstOf DEF Paths
  <2> HIDE DEF r, T
  <2> QED  BY <2>1, <2>2, SeqEqual DEF Paths
<1> QED  BY <1>10, <1>11

\* What lies strictly below an archive lies in one of its members.
LEMMA BelowMember ==
  ASSUME tree \in Trees, NEW r \in DOMAIN tree, NEW p \in DOMAIN tree, Prefix(r, p), p # r
  PROVE  tree[r].kind \in Containers /\ \E q \in Members(r) : Prefix(q, p)
<1>1. p \in Paths /\ r \in Paths /\ Len(p) \in Nat /\ Len(r) \in Nat
  BY TreeFacts DEF Paths
<1>2. Len(r) <= Len(p) /\ Len(r) # Len(p)
  BY <1>1, PrefixOrder, PrefixAt
<1> DEFINE q == SubSeq(p, 1, Len(r) + 1)
<1>3. q \in DOMAIN tree
  BY <1>1, <1>2, PrefixesOf
<1>4. q \in Paths /\ Len(q) = Len(r) + 1 /\ \A i \in 1 .. Len(q) : q[i] = p[i]
  <2>1. Len(r) + 1 \in 0 .. Len(p)
    BY <1>1, <1>2
  <2> QED  BY <1>1, <2>1, FirstOf DEF Paths
<1> HIDE DEF q
<1>5. Prefix(q, p)
  <2>1. Len(q) <= Len(p)
    BY <1>1, <1>2, <1>4
  <2> QED  BY <1>1, <1>4, <2>1, PrefixAt
<1>6. Prefix(r, q)
  <2>1. Len(r) <= Len(q)
    BY <1>1, <1>4
  <2> QED  BY <1>1, <1>4, <1>5, <2>1, PrefixOrder
<1>7. q \in Members(r)
  BY <1>3, <1>4, <1>6 DEF Members
<1>8. tree[r].kind \in Containers
  BY <1>7, MembersOf, TreeFacts
<1> QED  BY <1>5, <1>7, <1>8
-----------------------------------------------------------------------------
(* The sizes of several files.                                             *)

\* The recursive definition of Together, and its solutions for sets of fewer than n nodes.
Chosen(S) == CHOOSE x \in S : TRUE
SizeOf(t, S, g) == IF S = {} THEN 0 ELSE t[Chosen(S)].size + g[S \ {Chosen(S)}]
SizesTo(n, g, t) == \A S \in SUBSET DOMAIN t : Cardinality(S) < n => g[S] = SizeOf(t, S, g)

\* A finite set without one of its members has one less.
LEMMA OneLess ==
  ASSUME NEW S, IsFiniteSet(S), NEW x \in S
  PROVE  /\ IsFiniteSet(S \ {x}) /\ Cardinality(S \ {x}) = Cardinality(S) - 1
         /\ Cardinality(S) \in Nat \ {0} /\ Cardinality(S \ {x}) \in Nat
<1>1. IsFiniteSet(S \ {x}) /\ Cardinality(S \ {x}) = Cardinality(S) - 1
  BY FS_RemoveElement
<1>2. Cardinality(S) \in Nat /\ Cardinality(S \ {x}) \in Nat
  BY <1>1, FS_CardinalityType
<1> QED  BY <1>1, <1>2

\* There is a solution for sets of every size.
LEMMA SizesExist ==
  ASSUME NEW t, IsFiniteSet(DOMAIN t), NEW n \in Nat
  PROVE  \E g : SizesTo(n, g, t)
<1> DEFINE Bad == {k \in Nat : ~\E g : SizesTo(k, g, t)}
<1>1. ASSUME Bad # {} PROVE FALSE
  <2>1. PICK m \in Bad : \A y \in Bad : m <= y
    <3>1. Bad \subseteq Nat
      OBVIOUS
    <3> HIDE DEF Bad
    <3> QED  BY <1>1, <3>1, LeastOf
  <2>2. \A S \in SUBSET DOMAIN t : IsFiniteSet(S) /\ Cardinality(S) \in Nat
    BY FS_Subset, FS_CardinalityType
  <2>3. m # 0
    <3>1. SizesTo(0, 0, t)
      BY <2>2 DEF SizesTo
    <3> QED  BY <3>1
  <2>4. PICK k \in Nat : m = k + 1
    BY <2>3
  <2>5. PICK g : SizesTo(k, g, t)
    BY <2>1, <2>4
  <2>6. PICK h : h = [S \in SUBSET DOMAIN t |-> SizeOf(t, S, g)]
    OBVIOUS
  <2>7. ASSUME NEW S \in SUBSET DOMAIN t, Cardinality(S) < m PROVE h[S] = SizeOf(t, S, h)
    <3>1. CASE S = {}
      BY <2>6, <3>1 DEF SizeOf
    <3>2. CASE S # {}
      <4>1. PICK R : R = S \ {Chosen(S)}
        OBVIOUS
      <4>2. Chosen(S) \in S
        BY <3>2 DEF Chosen
      <4>3. R \in SUBSET DOMAIN t /\ Cardinality(R) < k
        BY <2>2, <2>4, <2>7, <4>1, <4>2, OneLess
      <4>4. g[R] = h[R]
        BY <2>5, <2>6, <4>3 DEF SizesTo
      <4> QED  BY <2>6, <3>2, <4>1, <4>4 DEF SizeOf
    <3> QED  BY <3>1, <3>2
  <2>8. SizesTo(m, h, t)
    BY <2>7 DEF SizesTo
  <2> QED  BY <2>1, <2>8
<1> QED  BY <1>1

\* Together is a solution.
LEMMA TogetherIs ==
  ASSUME NEW t, IsFiniteSet(DOMAIN t)
  PROVE  \E g : \A S \in SUBSET DOMAIN t : g[S] = SizeOf(t, S, g) /\ Together(t, S) = g[S]
<1> DEFINE F(g) == [S \in SUBSET DOMAIN t |->
                      IF S = {} THEN 0 ELSE LET p == CHOOSE x \in S : TRUE IN t[p].size + g[S \ {p}]]
<1>1. PICK n \in Nat : n = Cardinality(DOMAIN t) + 1
  BY FS_CardinalityType
<1>2. PICK g : SizesTo(n, g, t)
  BY SizesExist
<1>3. \A S \in SUBSET DOMAIN t : g[S] = SizeOf(t, S, g)
  <2>1. ASSUME NEW S \in SUBSET DOMAIN t PROVE Cardinality(S) < n
    <3>1. Cardinality(S) \in Nat /\ Cardinality(DOMAIN t) \in Nat /\ Cardinality(S) <= Cardinality(DOMAIN t)
      BY FS_Subset, FS_CardinalityType
    <3> QED  BY <1>1, <3>1
  <2> QED  BY <1>2, <2>1 DEF SizesTo
<1>4. PICK h : h = [S \in SUBSET DOMAIN t |-> g[S]]
  OBVIOUS
<1>5. h = F(h)
  <2>1. ASSUME NEW S \in SUBSET DOMAIN t PROVE h[S] = F(h)[S]
    <3>1. S # {} => S \ {CHOOSE x \in S : TRUE} \in SUBSET DOMAIN t
      OBVIOUS
    <3> QED  BY <1>3, <1>4, <3>1 DEF SizeOf, Chosen
  <2>2. F(h) = [S \in SUBSET DOMAIN t |-> F(h)[S]]
    OBVIOUS
  <2> HIDE DEF F
  <2> QED  BY <1>4, <2>1, <2>2
<1> DEFINE sum == CHOOSE f : f = F(f)
<1>6. sum = F(sum)
  BY <1>5
<1>7. \A S : Together(t, S) = sum[S]
  BY DEF Together
<1> HIDE DEF sum
<1>8. \A S \in SUBSET DOMAIN t : sum[S] = SizeOf(t, S, sum)
  BY <1>6 DEF SizeOf, Chosen
<1> QED  BY <1>7, <1>8

\* Whichever node is taken out, its size is what is missing.
Adds(t, S) ==
  /\ Together(t, S) \in Nat
  /\ \A x \in S : Together(t, S) = t[x].size + Together(t, S \ {x})
LEMMA TogetherAdds ==
  ASSUME NEW t, IsFiniteSet(DOMAIN t), \A p \in DOMAIN t : t[p].size \in Nat, NEW S \in SUBSET DOMAIN t
  PROVE  Adds(t, S) /\ Together(t, {}) = 0
<1>1. PICK g : \A R \in SUBSET DOMAIN t : g[R] = SizeOf(t, R, g) /\ Together(t, R) = g[R]
  BY TogetherIs
<1>2. Together(t, {}) = 0
  BY <1>1 DEF SizeOf
<1>3. ASSUME NEW R \in SUBSET DOMAIN t, R # {}
      PROVE  Chosen(R) \in R /\ Together(t, R) = t[Chosen(R)].size + Together(t, R \ {Chosen(R)})
  <2>1. Chosen(R) \in R
    BY <1>3 DEF Chosen
  <2> QED  BY <1>1, <1>3, <2>1 DEF SizeOf
<1>4. \A R \in SUBSET DOMAIN t : IsFiniteSet(R) /\ Cardinality(R) \in Nat
  BY FS_Subset, FS_CardinalityType
<1> DEFINE Bad == {Cardinality(R) : R \in {Q \in SUBSET DOMAIN t : ~Adds(t, Q)}}
<1>5. ASSUME Bad # {} PROVE FALSE
  <2>1. PICK m \in Bad : \A y \in Bad : m <= y
    <3>1. Bad \subseteq Nat
      BY <1>4
    <3> HIDE DEF Bad
    <3> QED  BY <1>5, <3>1, LeastOf
  <2>2. PICK R \in SUBSET DOMAIN t : ~Adds(t, R) /\ Cardinality(R) = m
    OBVIOUS
  <2>3. \A Q \in SUBSET DOMAIN t : Cardinality(Q) < m => Adds(t, Q)
    BY <1>4, <2>1
  <2> HIDE DEF Bad
  <2>4. R # {}
    BY <1>2, <2>2 DEF Adds
  <2>5. PICK c : c = Chosen(R)
    OBVIOUS
  <2>6. c \in R /\ Together(t, R) = t[c].size + Together(t, R \ {c})
    BY <1>3, <2>4, <2>5
  <2>7. \A x \in R : R \ {x} \in SUBSET DOMAIN t /\ Adds(t, R \ {x})
    <3>1. ASSUME NEW x \in R PROVE Cardinality(R \ {x}) < m
      <4>1. Cardinality(R \ {x}) = m - 1 /\ m \in Nat
        BY <1>4, <2>2, OneLess
      <4> QED  BY <4>1
    <3> QED  BY <2>3, <3>1
  <2>8. Together(t, R) \in Nat
    BY <2>6, <2>7 DEF Adds
  <2>9. ASSUME NEW x \in R, x # c PROVE Together(t, R) = t[x].size + Together(t, R \ {x})
    <3>1. (R \ {c}) \ {x} = (R \ {x}) \ {c}
      OBVIOUS
    <3>2. Together(t, R \ {c}) = t[x].size + Together(t, (R \ {c}) \ {x})
      BY <2>6, <2>7, <2>9 DEF Adds
    <3>3. Together(t, R \ {x}) = t[c].size + Together(t, (R \ {c}) \ {x})
      BY <2>6, <2>7, <2>9, <3>1 DEF Adds
    <3>4. t[x].size \in Nat /\ t[c].size \in Nat /\ Together(t, R \ {c}) \in Nat /\ Together(t, R \ {x}) \in Nat
      BY <2>6, <2>7 DEF Adds
    <3>5. PICK o \in Int : o = Together(t, (R \ {c}) \ {x})
      <4>1. R \ {c} \in SUBSET DOMAIN t
        OBVIOUS
      <4>2. (R \ {c}) \ {x} \in SUBSET DOMAIN t /\ Cardinality((R \ {c}) \ {x}) < m
        <5>1. Cardinality(R \ {c}) = m - 1 /\ m \in Nat /\ x \in R \ {c} /\ IsFiniteSet(R \ {c})
          BY <1>4, <2>2, <2>6, <2>9, OneLess
        <5>2. Cardinality((R \ {c}) \ {x}) = Cardinality(R \ {c}) - 1
          BY <5>1, OneLess
        <5> QED  BY <5>1, <5>2
      <4>3. Adds(t, (R \ {c}) \ {x})
        BY <2>3, <4>2
      <4> QED  BY <4>3 DEF Adds
    <3> QED  BY <2>6, <3>2, <3>3, <3>4, <3>5
  <2>10. Adds(t, R)
    BY <2>6, <2>8, <2>9 DEF Adds
  <2> QED  BY <2>2, <2>10
<1>6. Adds(t, S)
  BY <1>5
<1> QED  BY <1>2, <1>6

-----------------------------------------------------------------------------
(* The invariant of the walk.                                              *)

Opened(p, todo) == [path |-> p, todo |-> todo]
OpenedSet == [path : DOMAIN tree, todo : SUBSET DOMAIN tree]

\* Archives that are open, one in the other; a stream below another has been read.
Nested(f) ==
  /\ f \in Seq(OpenedSet) /\ Len(f) <= MaxDepth + 1
  /\ \A k \in 1 .. Len(f) :
       /\ Len(f[k].path) = k - 1 /\ f[k].todo \subseteq Members(f[k].path)
       /\ k > 1 => Parent(f[k].path) = f[k - 1].path
       /\ tree[f[k].path].kind \in Containers
       /\ k < Len(f) /\ tree[f[k].path].kind \in Streams => f[k].todo = {}

Noted == inspected \subseteq DOMAIN tree /\ errors \subseteq DOMAIN tree
Shape ==
  /\ tree \in Trees /\ Nested(open) /\ Noted
  /\ bytes \in Nat /\ files \in Nat
  /\ limit \in {"start", "none", "depth", "path", "files", "ratio", "size"}
  /\ limit = "start" => open = << >> /\ inspected = {} /\ bytes = 0 /\ files = 0

\* A file that is accounted for, and one that lies in a member still to be read.
Accounted(p) ==
  p \in inspected \/ (\E e \in errors : Prefix(e, p)) \/ Shadowed(p) \/ Hidden(p)
Pending(f, p) == \E k \in 1 .. Len(f) : \E q \in f[k].todo : Prefix(q, p)
Covered == limit = "none" => \A p \in Leaves : Accounted(p) \/ Pending(open, p)

\* No name of p, or above it, was refused.
Clean(p) ==
  \A q \in DOMAIN tree :
    Prefix(q, p) /\ q # << >> /\ tree[q].name \in BadNames => tree[Parent(q)].kind \in Streams
Named ==
  /\ \A k \in 1 .. Len(open) : Clean(open[k].path)
  /\ \A p \in inspected : Clean(p) /\ Len(p) <= MaxDepth

\* A stream that is open and whose content, which is not checked, is not yet read.
Reading(f) == f # << >> /\ tree[f[Len(f)].path].kind \in Streams /\ f[Len(f)].todo # {}
Owed(f) == IF Reading(f) THEN 1 ELSE 0
OnlyStreams(f) == \A k \in 1 .. Len(f) : tree[f[k].path].kind \in Streams
\* A file that a stream will give has been paid for, by the stream's own count or, where
\* there are only streams, by being the only one.
Counts ==
  /\ \/ OnlyStreams(open) /\ Cardinality(inspected) + Owed(open) <= 1
     \/ Cardinality(inspected) + Owed(open) <= files /\ Cardinality(inspected) + Owed(open) <= MaxFiles
  /\ files <= Most + MaxDepth
  /\ Reading(open) => files <= Most + Len(open) - 2
\* What is inspected has been counted.
InArchive == inspected \ {<< >>}
Held ==
  /\ Together(tree, InArchive) <= bytes
  /\ bytes > MaxBytes => \E p \in DOMAIN tree : Shadowed(p)

WalkInv == Shape /\ Covered /\ Named /\ Counts /\ Held

-----------------------------------------------------------------------------
(* The open archives.                                                      *)

LEMMA SameTree ==
  ASSUME tree' = tree, NEW p
  PROVE  /\ Members(p)' = Members(p) /\ Leaves' = Leaves /\ (Clean(p)' <=> Clean(p))
         /\ (Shadowed(p)' <=> Shadowed(p)) /\ (Hidden(p)' <=> Hidden(p)) /\ OpenedSet' = OpenedSet
<1>1. \A q : Source(q)' = Source(q)
  BY DEF Source, Members, Prefix, Parent, Position
<1>2. (Shadowed(p)' <=> Shadowed(p))
  BY <1>1 DEF Shadowed
<1>3. Members(p)' = Members(p) /\ Leaves' = Leaves
  BY DEF Members, Leaves
<1>4. (Clean(p)' <=> Clean(p))
  BY DEF Clean
<1>5. (Hidden(p)' <=> Hidden(p))
  BY DEF Hidden
<1>6. OpenedSet' = OpenedSet
  BY DEF OpenedSet
<1> QED  BY <1>2, <1>3, <1>4, <1>5, <1>6

LEMMA SameFrames ==
  ASSUME tree' = tree, NEW f, open' = f
  PROVE  /\ (Nested(open)' <=> Nested(f)) /\ (Reading(open)' <=> Reading(f)) /\ Owed(open)' = Owed(f)
         /\ (OnlyStreams(open)' <=> OnlyStreams(f))
         /\ \A p : (Pending(open, p)' <=> Pending(f, p))
<1>1. \A p : Members(p)' = Members(p) /\ OpenedSet' = OpenedSet
  BY SameTree
<1>2. (Nested(open)' <=> Nested(f))
  BY <1>1 DEF Nested
<1>3. (Reading(open)' <=> Reading(f))
  BY DEF Reading
<1>4. Owed(open)' = Owed(f)
  BY <1>3 DEF Owed
<1>5. (OnlyStreams(open)' <=> OnlyStreams(f))
  BY DEF OnlyStreams
<1>6. \A p : (Pending(open, p)' <=> Pending(f, p))
  BY DEF Pending
<1> QED  BY <1>2, <1>3, <1>4, <1>5, <1>6

\* The innermost archive, and those around it.
LEMMA TopOf ==
  ASSUME Shape, open # << >>
  PROVE  /\ Len(open) \in Nat \ {0} /\ Len(open) <= MaxDepth + 1
         /\ Top = open[Len(open)] /\ Top \in OpenedSet /\ Top.path \in DOMAIN tree /\ Len(Top.path) = Len(open) - 1
         /\ Top.todo \subseteq Members(Top.path) /\ tree[Top.path].kind \in Containers
         /\ Outer \in Seq(OpenedSet) /\ Len(Outer) = Len(open) - 1
         /\ \A k \in 1 .. Len(open) - 1 : Outer[k] = open[k]
         /\ Nested(Outer) /\ ~Reading(Outer)
<1>1. open \in Seq(OpenedSet) /\ Len(open) \in Nat \ {0}
  BY EmptySeq, SeqEqual DEF Shape, Nested
<1>2. open[Len(open)] \in OpenedSet
  BY <1>1
<1>3. Outer \in Seq(OpenedSet) /\ Len(Outer) = Len(open) - 1 /\ \A k \in 1 .. Len(open) - 1 : Outer[k] = open[k]
  <2>1. Len(open) - 1 \in 0 .. Len(open)
    BY <1>1
  <2> QED  BY <1>1, <2>1, FirstOf DEF Outer
<1>4. Nested(Outer)
  <2>1. \A k \in 1 .. Len(Outer) : Outer[k] = open[k] /\ k \in 1 .. Len(open) /\ (k > 1 => Outer[k - 1] = open[k - 1])
    BY <1>1, <1>3
  <2>2. \A k \in 1 .. Len(Outer) :
       /\ Len(Outer[k].path) = k - 1 /\ Outer[k].todo \subseteq Members(Outer[k].path)
       /\ k > 1 => Parent(Outer[k].path) = Outer[k - 1].path
       /\ tree[Outer[k].path].kind \in Containers
       /\ k < Len(Outer) /\ tree[Outer[k].path].kind \in Streams => Outer[k].todo = {}
    <3> TAKE k \in 1 .. Len(Outer)
    <3>1. Outer[k] = open[k] /\ k \in 1 .. Len(open) /\ (k > 1 => Outer[k - 1] = open[k - 1])
      BY <2>1
    <3>2. k < Len(Outer) => k < Len(open)
      BY <1>1, <1>3
    <3> QED  BY <3>1, <3>2 DEF Shape, Nested
  <2>3. Len(Outer) <= MaxDepth + 1
    BY <1>1, <1>3, ArchiveAssumption DEF Shape, Nested
  <2> QED  BY <1>3, <2>2, <2>3 DEF Nested
<1>5. ~Reading(Outer)
  <2>1. ASSUME Outer # << >> PROVE /\ Len(Outer) \in 1 .. Len(open) - 1 /\ Outer[Len(Outer)] = open[Len(Outer)]
    <3>1. Len(Outer) # 0 /\ Len(Outer) \in Nat
      BY <1>3, <2>1, EmptySeq, SeqEqual
    <3> QED  BY <1>1, <1>3, <3>1
  <2>2. ASSUME Outer # << >>, tree[Outer[Len(Outer)].path].kind \in Streams PROVE Outer[Len(Outer)].todo = {}
    <3>1. Len(Outer) \in 1 .. Len(open) /\ Len(Outer) < Len(open) /\ Outer[Len(Outer)] = open[Len(Outer)]
      BY <1>1, <2>1, <2>2
    <3> QED  BY <2>2, <3>1 DEF Shape, Nested
  <2> QED  BY <2>2 DEF Reading
<1>6. /\ Len(Top.path) = Len(open) - 1 /\ Top.todo \subseteq Members(Top.path)
      /\ tree[Top.path].kind \in Containers /\ Len(open) <= MaxDepth + 1
  <2>1. Len(open) \in 1 .. Len(open)
    BY <1>1
  <2> QED  BY <2>1 DEF Top, Shape, Nested
<1>7. Top.path \in DOMAIN tree
  BY <1>2 DEF Top, OpenedSet
<1> QED  BY <1>1, <1>3, <1>4, <1>5, <1>6, <1>7 DEF Top

\* A stream has one member: once that is out of the way it has no more.
LEMMA PastOf ==
  ASSUME Shape, open # << >>, NEW q \in Top.todo
  PROVE  /\ Past(q) \in Seq(OpenedSet) /\ Len(Past(q)) = Len(open)
         /\ \A k \in 1 .. Len(open) - 1 : Past(q)[k] = open[k]
         /\ Past(q)[Len(open)] = Opened(Top.path, Top.todo \ {q})
         /\ Nested(Past(q)) /\ (Kind \in Streams => Top.todo \ {q} = {})
<1> DEFINE new == Opened(Top.path, Top.todo \ {q})
<1>1. Top \in OpenedSet
  BY TopOf
<1>2. [Top EXCEPT !.todo = @ \ {q}] = new /\ new \in OpenedSet
  <2>1. PICK p \in DOMAIN tree, t \in SUBSET DOMAIN tree : Top = [path |-> p, todo |-> t]
    BY <1>1 DEF OpenedSet
  <2>2. Top.path = p /\ Top.todo = t
    BY <2>1
  <2>3. [[path |-> p, todo |-> t] EXCEPT !.todo = @ \ {q}] = [path |-> p, todo |-> t \ {q}]
    OBVIOUS
  <2> HIDE DEF new
  <2>4. [Top EXCEPT !.todo = @ \ {q}] = [path |-> p, todo |-> t \ {q}]
    BY <2>1, <2>3
  <2>5. new = [path |-> p, todo |-> t \ {q}]
    BY <2>2 DEF new, Opened
  <2>6. new \in OpenedSet
    BY <2>5 DEF OpenedSet
  <2> QED  BY <2>4, <2>5, <2>6
<1>3. new.path = Top.path /\ new.todo = Top.todo \ {q}
  BY DEF Opened
<1> HIDE DEF new
<1>4. /\ Past(q) \in Seq(OpenedSet) /\ Len(Past(q)) = Len(open)
      /\ \A k \in 1 .. Len(open) - 1 : Past(q)[k] = open[k]
      /\ Past(q)[Len(open)] = new
  <2>1. Outer \in Seq(OpenedSet) /\ Len(Outer) + 1 = Len(open) /\ Len(open) - 1 = Len(Outer)
        /\ \A k \in 1 .. Len(open) - 1 : Outer[k] = open[k]
    BY TopOf
  <2>2. Past(q) = Append(Outer, new)
    BY <1>2 DEF Past
  <2>3. /\ Append(Outer, new) \in Seq(OpenedSet) /\ Len(Append(Outer, new)) = Len(Outer) + 1
        /\ \A k \in 1 .. Len(Outer) : Append(Outer, new)[k] = Outer[k]
        /\ Append(Outer, new)[Len(Outer) + 1] = new
    BY <1>2, <2>1, OneMore
  <2> QED  BY <2>1, <2>2, <2>3
<1>5. Kind \in Streams => Top.todo \ {q} = {}
  <2>1. ASSUME Kind \in Streams, NEW r \in Top.todo PROVE r = q
    <3>1. r \in Members(Top.path) /\ q \in Members(Top.path) /\ Top.path \in DOMAIN tree /\ tree \in Trees
      BY TopOf DEF Shape
    <3>2. Parent(r) = Top.path /\ Parent(q) = Top.path /\ r \in DOMAIN tree \ {<< >>} /\ q \in DOMAIN tree \ {<< >>}
      BY <3>1, MembersOf
    <3>3. Position(r) = 1 /\ Position(q) = 1
      BY <2>1, <3>1, <3>2, TreeFacts DEF Kind
    <3> QED  BY <3>1, <3>3, MembersOf
  <2> QED  BY <2>1
<1>6. Nested(Past(q))
  <2>1. Len(Past(q)) <= MaxDepth + 1
    BY <1>4, TopOf
  <2>2. ASSUME NEW k \in 1 .. Len(Past(q))
        PROVE  /\ Len(Past(q)[k].path) = k - 1 /\ Past(q)[k].todo \subseteq Members(Past(q)[k].path)
               /\ k > 1 => Parent(Past(q)[k].path) = Past(q)[k - 1].path
               /\ tree[Past(q)[k].path].kind \in Containers
               /\ k < Len(Past(q)) /\ tree[Past(q)[k].path].kind \in Streams => Past(q)[k].todo = {}
    <3>1. k \in 1 .. Len(open) /\ Past(q)[k].path = open[k].path /\ Past(q)[k].todo \subseteq open[k].todo
      <4>1. k \in 1 .. Len(open) /\ Len(open) \in Nat /\ Top = open[Len(open)]
        BY <1>4, TopOf
      <4>2. CASE k = Len(open)
        BY <1>3, <1>4, <4>1, <4>2
      <4>3. CASE k # Len(open)
        <5>1. k \in 1 .. Len(open) - 1
          BY <4>1, <4>3
        <5> QED  BY <1>4, <4>1, <5>1
      <4> QED  BY <4>2, <4>3
    <3>2. k > 1 => k - 1 \in 1 .. Len(open) - 1 /\ Past(q)[k - 1] = open[k - 1]
      BY <1>4, <3>1, TopOf
    <3>3. k < Len(Past(q)) => k < Len(open)
      BY <1>4
    <3> QED  BY <3>1, <3>2, <3>3 DEF Shape, Nested
  <2> QED  BY <1>4, <2>1, <2>2 DEF Nested
<1> QED  BY <1>4, <1>5, <1>6 DEF new

\* What _extract_recursive does with what it was given, in four ways.
LEMMA RecurseWays ==
  ASSUME NEW r, NEW f, Recurse(r, f)
  PROVE  \/ open' = << >> /\ limit' \in {"depth", "path"} /\ UNCHANGED <<inspected, errors>>
         \/ /\ open' = f /\ limit' = "none" /\ ~TooDeep(r) /\ ~IsArchive(r)
            /\ \/ inspected' = inspected \cup {r} /\ UNCHANGED errors
               \/ errors' = errors \cup {r} /\ UNCHANGED inspected
         \/ open' = f /\ limit' = "none" /\ errors' = errors \cup {r} /\ UNCHANGED inspected
         \/ /\ open' = Append(f, Opened(r, Todo(r))) /\ limit' = "none" /\ ~TooDeep(r) /\ IsArchive(r)
            /\ UNCHANGED <<inspected, errors>>
BY DEF Recurse, InspectFile, Opened

LEMMA TodoOf ==
  ASSUME tree \in Trees, NEW r \in DOMAIN tree
  PROVE  /\ Todo(r) \subseteq Members(r) /\ Members(r) \subseteq DOMAIN tree
         /\ \A q \in Members(r) : q \in Todo(r) \/ Source(q) # q
<1>1. \A q \in Members(r) : q \in DOMAIN tree /\ q # << >> /\ Parent(q) = r
  BY MembersOf
<1>2. \A q \in Members(r) : Source(q) \in Members(r)
  BY <1>1, SourceOf
<1> QED  BY <1>1, <1>2 DEF Todo

\* What r may be given to _extract_recursive with which archives open.
Enters(r, f) ==
  /\ Nested(f) /\ r \in DOMAIN tree /\ Len(r) = Len(f)
  /\ f # << >> => /\ Parent(r) = f[Len(f)].path
                  /\ tree[f[Len(f)].path].kind \in Streams => f[Len(f)].todo = {}

LEMMA PushNested ==
  ASSUME tree \in Trees, NEW r, NEW f, Enters(r, f), ~TooDeep(r), tree[r].kind \in Containers
  PROVE  /\ Nested(Append(f, Opened(r, Todo(r)))) /\ Len(Append(f, Opened(r, Todo(r)))) = Len(f) + 1
         /\ \A k \in 1 .. Len(f) : Append(f, Opened(r, Todo(r)))[k] = f[k]
         /\ Append(f, Opened(r, Todo(r)))[Len(f) + 1] = Opened(r, Todo(r))
<1> DEFINE new == Opened(r, Todo(r))   g == Append(f, new)
<1>1. new \in OpenedSet /\ new.path = r /\ new.todo = Todo(r)
  BY TodoOf DEF Opened, OpenedSet, Enters
<1> HIDE DEF new
<1>2. f \in Seq(OpenedSet) /\ Len(f) \in Nat
  BY DEF Enters, Nested
<1>3. /\ g \in Seq(OpenedSet) /\ Len(g) = Len(f) + 1 /\ \A k \in 1 .. Len(f) : g[k] = f[k]
      /\ g[Len(f) + 1] = new
  BY <1>1, <1>2
<1> HIDE DEF g
<1>4. Len(g) <= MaxDepth + 1
  BY <1>2, <1>3, ArchiveAssumption DEF Enters, TooDeep
<1>5. ASSUME NEW k \in 1 .. Len(g)
      PROVE  /\ Len(g[k].path) = k - 1 /\ g[k].todo \subseteq Members(g[k].path)
             /\ k > 1 => Parent(g[k].path) = g[k - 1].path
             /\ tree[g[k].path].kind \in Containers
             /\ k < Len(g) /\ tree[g[k].path].kind \in Streams => g[k].todo = {}
  <2>1. CASE k = Len(f) + 1
    <3>1. k > 1 => f # << >> /\ g[k - 1] = f[Len(f)]
      <4>1. k > 1 => Len(f) \in 1 .. Len(f) /\ k - 1 = Len(f)
        BY <1>2, <2>1
      <4>2. Len(<< >>) = 0
        OBVIOUS
      <4> QED  BY <1>3, <4>1, <4>2
    <3>2. Len(g[k].path) = k - 1 /\ g[k].todo \subseteq Members(g[k].path) /\ ~(k < Len(g))
      BY <1>1, <1>2, <1>3, <2>1, TodoOf DEF Enters
    <3> QED  BY <1>1, <1>3, <2>1, <3>1, <3>2 DEF Enters
  <2>2. CASE k # Len(f) + 1
    <3>1. k \in 1 .. Len(f) /\ g[k] = f[k] /\ (k > 1 => g[k - 1] = f[k - 1])
      BY <1>2, <1>3, <2>2
    <3>2. k = Len(f) => f # << >> /\ k < Len(g)
      <4>1. Len(<< >>) = 0
        OBVIOUS
      <4> QED  BY <1>2, <1>3, <3>1, <4>1
    <3>3. k # Len(f) => k < Len(f)
      BY <1>2, <3>1
    <3> QED  BY <3>1, <3>2, <3>3 DEF Enters, Nested
  <2> QED  BY <2>1, <2>2
<1>6. Nested(g)
  BY <1>3, <1>4, <1>5 DEF Nested
<1> QED  BY <1>3, <1>6 DEF g, new

-----------------------------------------------------------------------------
(* The steps.                                                              *)

LEMMA EmptyNested == Nested(<< >>) /\ ~Reading(<< >>) /\ OnlyStreams(<< >>)
<1>1. << >> \in Seq(OpenedSet) /\ Len(<< >>) = 0
  BY EmptySeq
<1>2. \A k \in 1 .. Len(<< >>) : FALSE
  BY <1>1
<1> QED  BY <1>1, <1>2, ArchiveAssumption DEF Nested, Reading, OnlyStreams

LEMMA BeginEnters ==
  ASSUME tree \in Trees
  PROVE  Enters(<< >>, << >>)
<1>1. << >> \in DOMAIN tree
  BY TreeFacts
<1> QED  BY <1>1, EmptyNested DEF Enters

LEMMA TurnOf ==
  ASSUME Shape, NEW q \in DOMAIN tree, MemberTurn(q)
  PROVE  /\ limit = "none" /\ open # << >> /\ q \in Top.todo /\ q \in Members(Top.path)
         /\ q # << >> /\ Parent(q) = Top.path /\ Len(q) = Len(open)
         /\ Source(q) \in Members(Top.path) /\ Source(q) \in DOMAIN tree
         /\ Source(q) = q \/ tree[Source(q)].name = tree[q].name
         /\ Enters(Source(q), Past(q))
<1>1. limit = "none" /\ open # << >> /\ q \in Top.todo
  BY DEF MemberTurn, Walking
<1>2. q \in Members(Top.path) /\ Top.path \in DOMAIN tree /\ Len(Top.path) = Len(open) - 1
      /\ Len(open) \in Nat \ {0} /\ tree \in Trees
  BY <1>1, TopOf DEF Shape
<1>3. q # << >> /\ Parent(q) = Top.path /\ Len(q) = Len(open)
  BY <1>2, MembersOf
<1>4. Source(q) \in Members(Top.path) /\ (Source(q) = q \/ tree[Source(q)].name = tree[q].name)
  BY <1>2, <1>3, SourceOf
<1>5. Source(q) \in DOMAIN tree /\ Parent(Source(q)) = Top.path /\ Len(Source(q)) = Len(open)
  BY <1>2, <1>4, MembersOf
<1>6. Enters(Source(q), Past(q))
  <2>1. /\ Nested(Past(q)) /\ Len(Past(q)) = Len(open) /\ Past(q)[Len(open)] = Opened(Top.path, Top.todo \ {q})
        /\ Kind \in Streams => Top.todo \ {q} = {}
    BY <1>1, PastOf
  <2>2. Past(q)[Len(open)].path = Top.path /\ Past(q)[Len(open)].todo = Top.todo \ {q}
    BY <2>1 DEF Opened
  <2> QED  BY <1>5, <2>1, <2>2 DEF Enters, Kind
<1> QED  BY <1>1, <1>2, <1>3, <1>4, <1>5, <1>6

LEMMA RecurseShape ==
  ASSUME Shape, tree' = tree, NEW r, NEW f, Enters(r, f), Recurse(r, f)
  PROVE  Nested(open)' /\ Noted' /\ limit' \in {"none", "depth", "path"}
<1>1. r \in DOMAIN tree /\ Nested(f) /\ tree \in Trees
  BY DEF Enters, Shape
<1>2. limit' \in {"none", "depth", "path"}
  BY RecurseWays
<1>3. Noted'
  BY <1>1, RecurseWays DEF Shape, Noted
<1> SUFFICES Nested(open)'
  BY <1>2, <1>3
<1>4. CASE open' = << >>
  BY <1>4, EmptyNested, SameFrames
<1>5. CASE open' = f
  BY <1>1, <1>5, SameFrames
<1>6. CASE open' = Append(f, Opened(r, Todo(r))) /\ ~TooDeep(r) /\ IsArchive(r)
  <2>1. PICK g : g = Append(f, Opened(r, Todo(r)))
    OBVIOUS
  <2>2. Nested(g)
    BY <1>1, <1>6, <2>1, PushNested DEF IsArchive
  <2> QED  BY <1>6, <2>1, <2>2, SameFrames
<1> QED  BY <1>2, <1>3, <1>4, <1>5, <1>6, RecurseWays

\* How the open archives, and what was noted, change in a step that enters nothing.
LEMMA OtherSteps ==
  ASSUME Shape, NEW q \in DOMAIN tree,
         Return \/ Skip(q) \/ Refuse(q) \/ BreakOff(q) \/ Stop(q)
  PROVE  /\ UNCHANGED <<tree, bytes, files, inspected>> /\ open # << >>
         /\ \/ open' = Outer \/ (open' = Past(q) /\ q \in Top.todo)
            \/ open' = << >> /\ limit' \in {"files", "ratio", "size"}
         /\ limit' \in {limit, "files", "ratio", "size"}
         /\ errors' \in {errors, errors \cup {q}, errors \cup {Top.path}}
<1>1. CASE Return
  BY <1>1 DEF Return, Walking
<1>2. CASE Skip(q)
  BY <1>2 DEF Skip, MemberTurn, Walking
<1>3. CASE Refuse(q)
  BY <1>3 DEF Refuse, MemberTurn, Walking
<1>4. CASE BreakOff(q)
  BY <1>4 DEF BreakOff, FileTurn, MemberTurn, Walking
<1>5. CASE Stop(q)
  <2>1. Exceeded(q) \in {"files", "ratio", "size"}
    BY <1>5 DEF Stop, Exceeded
  <2> QED  BY <1>5, <2>1 DEF Stop, Abort, FileTurn, MemberTurn, Walking
<1> QED  BY <1>1, <1>2, <1>3, <1>4, <1>5

LEMMA ShapeStep ==
  ASSUME Shape, Walk
  PROVE  Shape'
<1>1. CASE Begin
  <2>1. tree' = tree /\ Recurse(<< >>, << >>) /\ UNCHANGED <<bytes, files>>
    BY <1>1 DEF Begin
  <2>2. Enters(<< >>, << >>)
    BY BeginEnters DEF Shape
  <2>3. Nested(open)' /\ Noted' /\ limit' \in {"none", "depth", "path"}
    BY <2>1, <2>2, RecurseShape
  <2> QED  BY <2>1, <2>3 DEF Shape
<1>2. ASSUME NEW q \in DOMAIN tree, Return \/ Skip(q) \/ Refuse(q) \/ BreakOff(q) \/ Stop(q)
      PROVE  Shape'
  <2>1. UNCHANGED <<tree, bytes, files, inspected>> /\ open # << >>
    BY <1>2, OtherSteps
  <2>2. PICK f : f = open'
    OBVIOUS
  <2>3. Nested(f)
    <3>1. f = Outer \/ (f = Past(q) /\ q \in Top.todo) \/ f = << >>
      BY <1>2, <2>2, OtherSteps
    <3>2. Nested(Outer) /\ Nested(<< >>)
      BY <2>1, TopOf, EmptyNested
    <3>3. q \in Top.todo => Nested(Past(q))
      BY <2>1, PastOf
    <3> QED  BY <3>1, <3>2, <3>3
  <2>4. Nested(open)'
    BY <2>1, <2>2, <2>3, SameFrames
  <2>5. limit # "start" /\ limit' \in {limit, "files", "ratio", "size"}
    BY <1>2, <2>1, OtherSteps DEF Shape
  <2>6. Noted'
    BY <1>2, <2>1, OtherSteps, TopOf DEF Shape, Noted
  <2> QED  BY <2>1, <2>4, <2>5, <2>6 DEF Shape
<1>3. ASSUME NEW q \in DOMAIN tree, Read(q)
      PROVE  Shape'
  <2>1. FileTurn(q) /\ MemberTurn(q) /\ tree' = tree /\ Recurse(Source(q), Past(q))
        /\ bytes' = bytes + tree[Source(q)].size /\ files' = files + 1
    BY <1>3 DEF Read, FileTurn
  <2>2. PICK r, f : r = Source(q) /\ f = Past(q)
    OBVIOUS
  <2>3. Enters(r, f) /\ Recurse(r, f) /\ r \in DOMAIN tree
    BY <2>1, <2>2, TurnOf
  <2>4. Nested(open)' /\ Noted' /\ limit' \in {"none", "depth", "path"}
    BY <2>1, <2>3, RecurseShape
  <2>5. tree[r].size \in Nat
    BY <2>3, TreeFacts DEF Shape, Node
  <2> QED  BY <2>1, <2>2, <2>4, <2>5 DEF Shape
<1>4. DOMAIN tree # {}
  BY TreeFacts DEF Shape
<1> QED  BY <1>1, <1>2, <1>3, <1>4 DEF Walk

\* A file below what was given to _extract_recursive is accounted for afterwards, or
\* lies in a member of the archive opened then; other files keep what they had.
LEMMA RecurseCovers ==
  ASSUME Shape, tree' = tree, NEW r, NEW f, Enters(r, f), Recurse(r, f), limit' = "none",
         NEW p \in Leaves, Accounted(p) \/ Pending(f, p) \/ Prefix(r, p)
  PROVE  Accounted(p)' \/ Pending(open, p)'
<1>1. r \in DOMAIN tree /\ Nested(f) /\ tree \in Trees /\ p \in DOMAIN tree /\ tree[p].kind = "file"
  BY DEF Enters, Shape, Leaves
<1>2. r \in Paths /\ p \in Paths
  BY <1>1, TreeFacts
<1>3. inspected \subseteq inspected' /\ errors \subseteq errors'
  BY RecurseWays
<1>4. Accounted(p) => Accounted(p)'
  BY <1>3, SameTree DEF Accounted
<1>5. CASE r \in errors' /\ Prefix(r, p)
  BY <1>5 DEF Accounted
<1>6. f \in Seq(OpenedSet) /\ Len(f) \in Nat
  BY <1>1 DEF Nested
<1> DEFINE new == Opened(r, Todo(r))
<1>7. CASE open' = f
  <2>1. Pending(f, p) => Pending(open, p)'
    BY <1>7, SameFrames
  <2>2. ASSUME Prefix(r, p), r \notin errors' PROVE Accounted(p)'
    <3>1. r \in inspected' /\ ~IsArchive(r)
      <4>1. open' # << >> \/ limit' = "none"
        OBVIOUS
      <4>2. f # Append(f, new)
        BY <1>6, OneMore, TodoOf, <1>1 DEF Opened, OpenedSet
      <4> QED  BY <1>7, <2>2, <4>2, RecurseWays
    <3>2. CASE tree[r].kind \notin Containers
      <4>1. p = r
        BY <1>1, <2>2, <3>2, BelowMember
      <4> QED  BY <3>1, <4>1 DEF Accounted
    <3>3. CASE tree[r].kind \in Containers
      <4>1. Hidden(p)
        BY <1>1, <2>2, <3>1, <3>3 DEF IsArchive, Hidden
      <4> QED  BY <4>1, SameTree DEF Accounted
    <3> QED  BY <3>2, <3>3
  <2> QED  BY <1>4, <1>5, <2>1, <2>2
<1>8. CASE open' = Append(f, new) /\ ~TooDeep(r) /\ IsArchive(r)
  <2>1. PICK g : g = Append(f, new)
    OBVIOUS
  <2>2. /\ Len(g) = Len(f) + 1 /\ \A k \in 1 .. Len(f) : g[k] = f[k]
        /\ g[Len(f) + 1] = new
    BY <1>1, <1>8, <2>1, PushNested DEF IsArchive
  <2>3. Pending(f, p) => Pending(g, p)
    BY <1>6, <2>2 DEF Pending
  <2>4. ASSUME Prefix(r, p) PROVE Pending(g, p) \/ Shadowed(p)
    <3>1. tree[r].kind \in Containers /\ p # r
      BY <1>1, <1>8 DEF IsArchive, Containers, Streams
    <3>2. PICK q \in Members(r) : Prefix(q, p)
      BY <1>1, <2>4, <3>1, BelowMember
    <3>3. q \in DOMAIN tree /\ q # << >>
      BY <1>1, <3>2, MembersOf
    <3>4. CASE q \in Todo(r)
      <4>1. Len(f) + 1 \in 1 .. Len(g) /\ q \in g[Len(f) + 1].todo
        BY <1>6, <2>2, <3>4 DEF Opened
      <4> QED  BY <3>2, <4>1 DEF Pending
    <3>5. CASE Source(q) # q
      BY <3>2, <3>3, <3>5 DEF Shadowed
    <3> QED  BY <1>1, <3>2, <3>4, <3>5, TodoOf
  <2>5. Pending(g, p) => Pending(open, p)'
    BY <1>8, <2>1, SameFrames
  <2>6. Shadowed(p) => Accounted(p)'
    BY SameTree DEF Accounted
  <2> QED  BY <1>4, <2>3, <2>4, <2>5, <2>6
<1> QED  BY <1>5, <1>7, <1>8, RecurseWays

LEMMA CoveredStep ==
  ASSUME Shape, Covered, Walk
  PROVE  Covered'
<1> SUFFICES ASSUME limit' = "none", NEW p \in Leaves' PROVE Accounted(p)' \/ Pending(open, p)'
  BY DEF Covered
<1>1. tree' = tree /\ tree \in Trees
  BY DEF Shape, Walk, Begin, Return, Skip, Refuse, BreakOff, Stop, Read, Abort
<1>2. p \in Leaves /\ p \in DOMAIN tree /\ p \in Paths /\ tree[p].kind = "file"
  BY <1>1, SameTree, TreeFacts DEF Leaves
<1>3. CASE Begin
  <2>1. Recurse(<< >>, << >>) /\ Enters(<< >>, << >>) /\ Prefix(<< >>, p)
    BY <1>1, <1>2, <1>3, BeginEnters, PrefixOrder DEF Begin
  <2> QED  BY <1>1, <1>2, <2>1, RecurseCovers
<1>4. ASSUME NEW q \in DOMAIN tree, Return \/ Skip(q) \/ Refuse(q) \/ BreakOff(q) \/ Stop(q)
      PROVE  Accounted(p)' \/ Pending(open, p)'
  <2>1. UNCHANGED <<tree, inspected>> /\ open # << >> /\ errors \subseteq errors' /\ limit = "none"
    BY <1>4, OtherSteps DEF Shape
  <2>2. Accounted(p) => Accounted(p)'
    BY <2>1, SameTree DEF Accounted
  <2>3. SUFFICES ASSUME Pending(open, p) PROVE Accounted(p)' \/ Pending(open, p)'
    BY <1>2, <2>1, <2>2 DEF Covered
  <2>10. PICK k \in 1 .. Len(open) : \E m \in open[k].todo : Prefix(m, p)
    BY <2>3 DEF Pending
  <2>4. PICK m \in open[k].todo : Prefix(m, p)
    BY <2>10
  <2>5. /\ Len(open) \in Nat \ {0} /\ Top = open[Len(open)]
        /\ Len(Outer) = Len(open) - 1 /\ \A j \in 1 .. Len(open) - 1 : Outer[j] = open[j]
        /\ Top.todo \subseteq Members(Top.path) /\ Top.path \in DOMAIN tree
    BY <2>1, TopOf
  <2>6. PICK f : f = open'
    OBVIOUS
  <2>7. Pending(f, p) => Pending(open, p)'
    BY <2>1, <2>6, SameFrames
  <2>8. CASE k < Len(open)
    <3>1. f = Outer \/ (f = Past(q) /\ q \in Top.todo)
      BY <1>4, <2>1, <2>6, OtherSteps
    <3>2. k \in 1 .. Len(f) /\ f[k] = open[k]
      <4>1. k \in 1 .. Len(open) - 1
        BY <2>5, <2>8
      <4>2. CASE f = Outer
        BY <2>5, <4>1, <4>2
      <4>3. CASE f = Past(q) /\ q \in Top.todo
        <5>1. Len(f) = Len(open) /\ \A j \in 1 .. Len(open) - 1 : f[j] = open[j]
          BY <2>1, <4>3, PastOf
        <5> QED  BY <4>1, <5>1
      <4> QED  BY <3>1, <4>2, <4>3
    <3> QED  BY <2>4, <2>7, <3>2 DEF Pending
  <2>9. CASE k = Len(open)
    <3>1. m \in Top.todo /\ m \in Members(Top.path)
      BY <2>4, <2>5, <2>9
    <3>2. Prefix(Top.path, m) /\ m \in DOMAIN tree
      BY <1>1, <2>5, <3>1, MembersOf
    <3>3. Prefix(Top.path, p)
      BY <1>1, <1>2, <2>4, <2>5, <3>2, PrefixOrder, TreeFacts
    <3>4. CASE Return
      BY <3>1, <3>4 DEF Return
    <3>5. CASE Skip(q) \/ Refuse(q)
      <4>1. f = Past(q) /\ q \in Top.todo /\ (Refuse(q) => q \in errors')
        BY <2>6, <3>5 DEF Skip, Refuse, MemberTurn
      <4>2. CASE m # q
        <5>1. /\ Len(f) = Len(open) /\ f[Len(open)] = Opened(Top.path, Top.todo \ {q})
          BY <2>1, <4>1, PastOf
        <5>2. k \in 1 .. Len(f) /\ m \in f[k].todo
          BY <2>9, <3>1, <4>2, <5>1 DEF Opened
        <5> QED  BY <2>4, <2>7, <5>2 DEF Pending
      <4>3. CASE m = q /\ Refuse(q)
        BY <2>4, <4>1, <4>3 DEF Accounted
      <4>4. CASE m = q /\ Skip(q)
        <5>1. tree[q].kind \in {"dir", "link"}
          BY <4>4 DEF Skip
        <5>2. tree[q].kind \notin Containers /\ p # q
          BY <1>2, <5>1 DEF Containers, Streams
        <5> QED  BY <1>1, <1>2, <2>4, <4>4, <5>2, BelowMember
      <4> QED  BY <3>5, <4>2, <4>3, <4>4
    <3>6. CASE BreakOff(q)
      BY <3>3, <3>6 DEF BreakOff, Accounted
    <3>7. CASE Stop(q)
      <4>1. Exceeded(q) # "none" /\ limit' = Exceeded(q)
        BY <3>7 DEF Stop, Abort
      <4> QED  BY <4>1
    <3> QED  BY <1>4, <3>4, <3>5, <3>6, <3>7
  <2> QED  BY <2>4, <2>5, <2>8, <2>9
<1>5. ASSUME NEW q \in DOMAIN tree, Read(q)
      PROVE  Accounted(p)' \/ Pending(open, p)'
  <2>1. FileTurn(q) /\ MemberTurn(q) /\ Recurse(Source(q), Past(q))
    BY <1>5 DEF Read, FileTurn
  <2>2. PICK r, f : r = Source(q) /\ f = Past(q)
    OBVIOUS
  <2>3. Enters(r, f) /\ Recurse(r, f) /\ limit = "none" /\ open # << >> /\ q \in Top.todo /\ q # << >>
    BY <2>1, <2>2, TurnOf
  <2>4. /\ Len(f) = Len(open) /\ f[Len(open)] = Opened(Top.path, Top.todo \ {q})
        /\ \A k \in 1 .. Len(open) - 1 : f[k] = open[k]
    BY <2>2, <2>3, PastOf
  <2>5. Len(open) \in Nat \ {0} /\ Top = open[Len(open)]
    BY <2>3, TopOf
  <2>6. Pending(open, p) => Pending(f, p) \/ Prefix(q, p)
    <3>1. SUFFICES ASSUME NEW k \in 1 .. Len(open), NEW m \in open[k].todo, Prefix(m, p), m # q PROVE Pending(f, p)
      BY DEF Pending
    <3>2. m \in f[k].todo
      BY <2>4, <2>5, <3>1 DEF Opened
    <3> QED  BY <2>4, <3>1, <3>2 DEF Pending
  <2>7. Prefix(q, p) => Prefix(r, p) \/ Accounted(p)
    BY <2>2, <2>3 DEF Shadowed, Accounted
  <2>8. Accounted(p) \/ Pending(f, p) \/ Prefix(r, p)
    BY <1>2, <2>3, <2>6, <2>7 DEF Covered
  <2> QED  BY <1>1, <1>2, <2>3, <2>8, RecurseCovers
<1>6. DOMAIN tree # {}
  BY <1>1, TreeFacts
<1> QED  BY <1>3, <1>4, <1>5, <1>6 DEF Walk

LEMMA NamedStep ==
  ASSUME Shape, Named, Walk
  PROVE  Named'
<1>1. tree' = tree /\ tree \in Trees
  BY DEF Shape, Walk, Begin, Return, Skip, Refuse, BreakOff, Stop, Read, Abort
\* What is entered is clean, and so are the archives open around it.
<1>2. ASSUME NEW r, NEW f, Enters(r, f), Recurse(r, f), Clean(r), \A k \in 1 .. Len(f) : Clean(f[k].path)
      PROVE  Named'
  <2>1. r \in DOMAIN tree /\ Len(r) \in Nat /\ f \in Seq(OpenedSet) /\ Len(f) \in Nat
    BY <1>1, <1>2, TreeFacts DEF Enters, Nested, Paths
  <2>2. ASSUME NEW p \in inspected' PROVE (Clean(p) /\ Len(p) <= MaxDepth)'
    <3>1. p \in inspected \/ (p = r /\ ~TooDeep(r))
      BY <1>2, RecurseWays
    <3>2. Clean(p) /\ Len(p) <= MaxDepth
      BY <1>2, <2>1, <3>1, ArchiveAssumption DEF Named, TooDeep
    <3> QED  BY <1>1, <3>2, SameTree
  <2>3. PICK g : g = open'
    OBVIOUS
  <2>4. ASSUME NEW k \in 1 .. Len(g) PROVE Clean(g[k].path)
    <3>1. CASE g = << >>
      BY <2>4, <3>1
    <3>2. CASE g = f
      BY <1>2, <2>4, <3>2
    <3>3. CASE g = Append(f, Opened(r, Todo(r)))
      <4>1. /\ Len(g) = Len(f) + 1 /\ \A j \in 1 .. Len(f) : g[j] = f[j]
            /\ g[Len(f) + 1] = Opened(r, Todo(r))
        <5>1. Opened(r, Todo(r)) \in OpenedSet
          BY <1>1, <2>1, TodoOf DEF Opened, OpenedSet
        <5> QED  BY <2>1, <3>3, <5>1, OneMore
      <4>2. (g[k] = f[k] /\ k \in 1 .. Len(f)) \/ g[k].path = r
        BY <2>1, <4>1 DEF Opened
      <4> QED  BY <1>2, <4>2
    <3> QED  BY <1>2, <2>3, <3>1, <3>2, <3>3, RecurseWays
  <2>5. \A k \in 1 .. Len(g) : Clean(g[k].path)'
    BY <1>1, <2>4, SameTree
  <2> QED  BY <2>2, <2>3, <2>5 DEF Named
<1>3. CASE Begin
  <2>1. Recurse(<< >>, << >>) /\ Enters(<< >>, << >>)
    BY <1>1, <1>3, BeginEnters DEF Begin
  <2>2. Clean(<< >>)
    <3>1. ASSUME NEW q \in DOMAIN tree, Prefix(q, << >>), q # << >> PROVE FALSE
      <4>1. q \in Paths /\ << >> \in Paths
        BY <1>1, TreeFacts
      <4>2. Len(q) <= Len(<< >>) /\ Len(q) \in Nat /\ Len(<< >>) = 0
        <5>1. Len(q) <= Len(<< >>)
          BY <3>1, <4>1, PrefixAt
        <5> QED  BY <4>1, <5>1 DEF Paths
      <4>3. Len(q) = Len(<< >>)
        BY <4>2
      <4> QED  BY <3>1, <4>1, <4>3, PrefixOrder
    <3> QED  BY <3>1 DEF Clean
  <2>3. \A k \in 1 .. Len(<< >>) : Clean(<< >>[k].path)
    OBVIOUS
  <2> QED  BY <1>2, <2>1, <2>2, <2>3
<1>4. ASSUME NEW q \in DOMAIN tree, Return \/ Skip(q) \/ Refuse(q) \/ BreakOff(q) \/ Stop(q)
      PROVE  Named'
  <2>1. UNCHANGED inspected /\ open # << >>
    BY <1>4, OtherSteps
  <2>2. PICK g : g = open'
    OBVIOUS
  <2>3. g = Outer \/ (g = Past(q) /\ q \in Top.todo) \/ g = << >>
    BY <1>4, <2>2, OtherSteps
  <2>4. ASSUME NEW k \in 1 .. Len(g) PROVE Clean(g[k].path)
    <3>1. /\ Len(open) \in Nat \ {0} /\ Len(Outer) = Len(open) - 1 /\ \A j \in 1 .. Len(open) - 1 : Outer[j] = open[j]
          /\ Top = open[Len(open)]
      BY <2>1, TopOf
    <3>2. CASE g = Outer
      BY <2>4, <3>1, <3>2 DEF Named
    <3>3. CASE g = Past(q) /\ q \in Top.todo
      <4>1. /\ Len(g) = Len(open) /\ \A j \in 1 .. Len(open) - 1 : g[j] = open[j]
            /\ g[Len(open)].path = Top.path
        <5>1. Len(g) = Len(open) /\ g[Len(open)] = Opened(Top.path, Top.todo \ {q})
              /\ \A j \in 1 .. Len(open) - 1 : g[j] = open[j]
          BY <2>1, <3>3, PastOf
        <5> QED  BY <5>1 DEF Opened
      <4>2. k \in 1 .. Len(open) /\ g[k].path = open[k].path
        BY <2>4, <3>1, <4>1
      <4> QED  BY <4>2 DEF Named
    <3>4. CASE g = << >>
      BY <2>4, <3>4
    <3> QED  BY <2>3, <3>2, <3>3, <3>4
  <2>5. \A k \in 1 .. Len(g) : Clean(g[k].path)'
    BY <1>1, <2>4, SameTree
  <2>6. ASSUME NEW p \in inspected' PROVE (Clean(p) /\ Len(p) <= MaxDepth)'
    <3>1. Clean(p) /\ Len(p) <= MaxDepth
      BY <2>1, <2>6 DEF Named
    <3> QED  BY <1>1, <3>1, SameTree
  <2> QED  BY <2>2, <2>5, <2>6 DEF Named
<1>5. ASSUME NEW q \in DOMAIN tree, Read(q)
      PROVE  Named'
  <2>1. FileTurn(q) /\ MemberTurn(q) /\ Recurse(Source(q), Past(q)) /\ ~Refused(q)
    BY <1>5 DEF Read, FileTurn
  <2>2. PICK r, f : r = Source(q) /\ f = Past(q)
    OBVIOUS
  <2>3. /\ Enters(r, f) /\ Recurse(r, f) /\ open # << >> /\ q \in Top.todo /\ q # << >>
        /\ r \in Members(Top.path) /\ r \in DOMAIN tree /\ (r = q \/ tree[r].name = tree[q].name)
    BY <2>1, <2>2, TurnOf
  <2>4. /\ Len(open) \in Nat \ {0} /\ Top = open[Len(open)] /\ Top.path \in DOMAIN tree
        /\ Len(f) = Len(open) /\ \A j \in 1 .. Len(open) - 1 : f[j] = open[j]
        /\ f[Len(open)].path = Top.path
    <3>1. Len(f) = Len(open) /\ f[Len(open)] = Opened(Top.path, Top.todo \ {q})
          /\ \A j \in 1 .. Len(open) - 1 : f[j] = open[j]
      BY <2>2, <2>3, PastOf
    <3>2. Len(open) \in Nat \ {0} /\ Top = open[Len(open)] /\ Top.path \in DOMAIN tree
      BY <2>3, TopOf
    <3>3. f[Len(open)].path = Top.path
      BY <3>1 DEF Opened
    <3> QED  BY <3>1, <3>2, <3>3
  <2>5. \A k \in 1 .. Len(f) : Clean(f[k].path)
    <3> TAKE k \in 1 .. Len(f)
    <3>1. k \in 1 .. Len(open) /\ f[k].path = open[k].path
      BY <2>4
    <3> QED  BY <3>1 DEF Named
  <2>6. Clean(Top.path)
    <3>1. Len(open) \in 1 .. Len(open)
      BY <2>4
    <3> QED  BY <2>4, <3>1 DEF Named
  <2>7. Clean(r)
    <3>1. SUFFICES ASSUME NEW x \in DOMAIN tree, Prefix(x, r), x # << >>, tree[x].name \in BadNames
                   PROVE  tree[Parent(x)].kind \in Streams
      BY DEF Clean
    <3>2. /\ x \in Paths /\ r \in Paths /\ Top.path \in Paths /\ Len(x) \in Nat /\ Prefix(Top.path, r)
          /\ Len(r) = Len(Top.path) + 1 /\ Parent(r) = Top.path /\ Len(Top.path) \in Nat
      <4>1. x \in Paths /\ r \in Paths /\ Top.path \in Paths
        BY <1>1, <2>3, <2>4, TreeFacts
      <4>2. /\ Prefix(Top.path, r) /\ Len(r) = Len(Top.path) + 1 /\ Parent(r) = Top.path
            /\ Len(Top.path) \in Nat
        BY <1>1, <2>3, <2>4, MembersOf
      <4> QED  BY <4>1, <4>2 DEF Paths
    <3>3. Len(x) <= Len(r)
      BY <3>1, <3>2, PrefixAt
    <3>4. CASE Len(x) = Len(r)
      <4>1. x = r
        BY <3>1, <3>2, <3>4, PrefixOrder
      <4> QED  BY <2>1, <2>3, <3>1, <3>2, <4>1 DEF Refused, Kind
    <3>5. CASE Len(x) # Len(r)
      <4>1. Len(x) <= Len(Top.path)
        BY <3>2, <3>3, <3>5
      <4>2. Prefix(x, Top.path)
        BY <3>1, <3>2, <4>1, PrefixOrder
      <4> QED  BY <2>6, <3>1, <4>2 DEF Clean
    <3> QED  BY <3>4, <3>5
  <2> QED  BY <1>2, <2>3, <2>5, <2>7
<1>6. DOMAIN tree # {}
  BY <1>1, TreeFacts
<1> QED  BY <1>3, <1>4, <1>5, <1>6 DEF Walk

\* What one more file adds.
LEMMA OneFileMore ==
  ASSUME Shape, NEW r \in DOMAIN tree
  PROVE  /\ Together(tree, InArchive) \in Nat /\ tree[r].size \in Nat /\ Together(tree, {}) = 0
         /\ Together(tree, (inspected \cup {r}) \ {<< >>}) <= Together(tree, InArchive) + tree[r].size
<1>1. IsFiniteSet(DOMAIN tree) /\ \A p \in DOMAIN tree : tree[p].size \in Nat
  BY TreeFacts DEF Shape, Node
<1>2. PICK S \in SUBSET DOMAIN tree : S = InArchive
  BY DEF Shape, Noted, InArchive
<1>3. PICK R \in SUBSET DOMAIN tree : R = (inspected \cup {r}) \ {<< >>}
  BY DEF Shape, Noted
<1>4. Adds(tree, S) /\ Adds(tree, R) /\ Together(tree, {}) = 0
  BY <1>1, TogetherAdds
<1>5. CASE R = S
  BY <1>1, <1>2, <1>3, <1>4, <1>5 DEF Adds
<1>6. CASE R # S
  <2>1. r \in R /\ R \ {r} = S
    BY <1>2, <1>3, <1>6 DEF InArchive
  <2>2. Together(tree, R) = tree[r].size + Together(tree, S)
    BY <1>4, <2>1 DEF Adds
  <2> QED  BY <1>1, <1>2, <1>3, <1>4, <2>2 DEF Adds
<1> QED  BY <1>5, <1>6

LEMMA HeldStep ==
  ASSUME Shape, Held, Walk
  PROVE  Held'
<1>1. tree' = tree /\ tree \in Trees /\ MaxBytes \in Nat /\ bytes \in Nat
  BY ArchiveAssumption DEF Shape, Walk, Begin, Return, Skip, Refuse, BreakOff, Stop, Read, Abort
<1>2. \A p : Shadowed(p) => Shadowed(p)'
  BY <1>1, SameTree
<1>3. CASE Begin
  <2>1. Recurse(<< >>, << >>) /\ limit = "start" /\ bytes' = bytes
    BY <1>3 DEF Begin
  <2>2. inspected = {} /\ (inspected' = inspected \/ inspected' = inspected \cup {<< >>})
    BY <2>1, RecurseWays DEF Shape
  <2>3. InArchive' = {}
    BY <2>2 DEF InArchive
  <2>4. Together(tree, {}) = 0
    BY <1>1, TreeFacts, OneFileMore
  <2>5. (Together(tree, InArchive) <= bytes)'
    BY <1>1, <2>1, <2>3, <2>4
  <2> QED  BY <1>1, <1>2, <2>1, <2>5 DEF Held
<1>4. ASSUME NEW q \in DOMAIN tree, Return \/ Skip(q) \/ Refuse(q) \/ BreakOff(q) \/ Stop(q)
      PROVE  Held'
  <2>1. UNCHANGED <<tree, bytes, inspected>>
    BY <1>4, OtherSteps
  <2>2. InArchive' = InArchive
    BY <2>1 DEF InArchive
  <2> QED  BY <1>1, <1>2, <2>1, <2>2 DEF Held
<1>5. ASSUME NEW q \in DOMAIN tree, Read(q)
      PROVE  Held'
  <2>1. /\ MemberTurn(q) /\ Exceeded(q) = "none" /\ bytes' = bytes + tree[Source(q)].size
        /\ Recurse(Source(q), Past(q))
    BY <1>5 DEF Read, FileTurn
  <2>2. PICK r \in DOMAIN tree : r = Source(q)
    BY <2>1, TurnOf
  <2>3. inspected' = inspected \/ inspected' = inspected \cup {r}
    BY <2>1, <2>2, RecurseWays
  <2>4. /\ Together(tree, InArchive) \in Nat /\ tree[r].size \in Nat
        /\ Together(tree, (inspected \cup {r}) \ {<< >>}) <= Together(tree, InArchive) + tree[r].size
    BY OneFileMore
  <2>5. PICK S : S = InArchive'
    OBVIOUS
  <2>6. S = InArchive \/ S = (inspected \cup {r}) \ {<< >>}
    BY <2>3, <2>5 DEF InArchive
  <2>7. Together(tree, S) <= bytes'
    <3>1. Together(tree, InArchive) <= bytes
      BY DEF Held
    <3>2. PICK a, b : a = Together(tree, InArchive) /\ b = tree[r].size
      OBVIOUS
    <3>3. Together(tree, (inspected \cup {r}) \ {<< >>}) \in Int
      <4>1. IsFiniteSet(DOMAIN tree) /\ \A p \in DOMAIN tree : tree[p].size \in Nat
        BY TreeFacts DEF Shape, Node
      <4>2. PICK R \in SUBSET DOMAIN tree : R = (inspected \cup {r}) \ {<< >>}
        BY DEF Shape, Noted
      <4>3. Adds(tree, R)
        BY <4>1, TogetherAdds
      <4> QED  BY <4>2, <4>3 DEF Adds
    <3>4. bytes' = bytes + b /\ a \in Nat /\ b \in Nat
      BY <2>1, <2>2, <2>4, <3>2
    <3>5. PICK c \in Int : c = Together(tree, (inspected \cup {r}) \ {<< >>})
      BY <3>3
    <3>6. a <= bytes /\ c <= a + b
      BY <2>4, <3>1, <3>2, <3>5
    <3>7. a <= bytes + b /\ c <= bytes + b
      BY <1>1, <3>4, <3>6
    <3>8. Together(tree, S) = a \/ Together(tree, S) = c
      BY <2>6, <3>2, <3>5
    <3> QED  BY <3>4, <3>7, <3>8
  <2>8. bytes' > MaxBytes => \E p \in DOMAIN tree : Shadowed(p)'
    <3>1. CASE Source(q) = q
      <4>1. ~(bytes + tree[q].size > MaxBytes)
        BY <2>1 DEF Exceeded
      <4> QED  BY <2>1, <3>1, <4>1
    <3>2. CASE Source(q) # q
      <4>1. q # << >> /\ q \in Paths
        BY <1>1, <2>1, TurnOf, TreeFacts
      <4>2. Shadowed(q)
        BY <3>2, <4>1, PrefixOrder DEF Shadowed
      <4> QED  BY <1>2, <4>2
    <3> QED  BY <3>1, <3>2
  <2>9. (Together(tree, InArchive) <= bytes)'
    BY <1>1, <2>5, <2>7
  <2> QED  BY <1>1, <2>8, <2>9 DEF Held
<1>6. DOMAIN tree # {}
  BY <1>1, TreeFacts
<1> QED  BY <1>3, <1>4, <1>5, <1>6 DEF Walk

LEMMA InspectedCount ==
  ASSUME Shape
  PROVE  /\ IsFiniteSet(inspected) /\ Cardinality(inspected) \in Nat
         /\ \A r : Cardinality(inspected \cup {r}) \in Nat /\ Cardinality(inspected \cup {r}) <= Cardinality(inspected) + 1
<1>1. IsFiniteSet(inspected)
  BY TreeFacts, FS_Subset DEF Shape, Noted
<1>2. ASSUME NEW r
      PROVE Cardinality(inspected \cup {r}) \in Nat /\ Cardinality(inspected \cup {r}) <= Cardinality(inspected) + 1
  <2>1. /\ IsFiniteSet(inspected \cup {r}) /\ Cardinality(inspected) \in Nat
        /\ Cardinality(inspected \cup {r}) = Cardinality(inspected) \/ Cardinality(inspected \cup {r}) = Cardinality(inspected) + 1
    BY <1>1, FS_AddElement, FS_CardinalityType
  <2> QED  BY <2>1
<1> QED  BY <1>1, <1>2, FS_CardinalityType

LEMMA OwedType ==
  ASSUME NEW f
  PROVE  Owed(f) \in 0 .. 1 /\ (Owed(f) = 1 <=> Reading(f))
BY DEF Owed

\* What is given to _extract_recursive adds at most one file, or a stream that owes one.
LEMMA RecurseOwes ==
  ASSUME Shape, tree' = tree, NEW r, NEW f, Enters(r, f), Recurse(r, f), ~Reading(f)
  PROVE  /\ (Cardinality(inspected) + Owed(open))' \in Nat
         /\ (Cardinality(inspected) + Owed(open))' <= Cardinality(inspected) + 1
         /\ Reading(open)' => Len(open)' = Len(f) + 1
         /\ OnlyStreams(f) => OnlyStreams(open)' \/ (Cardinality(inspected) + Owed(open))' = Cardinality(inspected)
<1>1. r \in DOMAIN tree /\ tree \in Trees /\ f \in Seq(OpenedSet) /\ Len(f) \in Nat
  BY DEF Shape, Enters, Nested
<1>2. PICK g : g = open'
  OBVIOUS
<1>3. /\ Owed(open)' = Owed(g) /\ (Reading(open)' <=> Reading(g)) /\ Len(open)' = Len(g)
      /\ (OnlyStreams(open)' <=> OnlyStreams(g))
  BY <1>2, SameFrames
<1>4. Cardinality(inspected) \in Nat /\ Cardinality(inspected)' \in Nat /\ Cardinality(inspected)' <= Cardinality(inspected) + 1
  <2>1. inspected' = inspected \/ inspected' = inspected \cup {r}
    BY RecurseWays
  <2>2. PICK s : s = inspected'
    OBVIOUS
  <2>3. Cardinality(s) \in Nat /\ Cardinality(s) <= Cardinality(inspected) + 1 /\ Cardinality(inspected) \in Nat
    <3>1. Cardinality(inspected) <= Cardinality(inspected) + 1 /\ Cardinality(inspected) \in Nat
      BY InspectedCount
    <3>2. Cardinality(inspected \cup {r}) \in Nat /\ Cardinality(inspected \cup {r}) <= Cardinality(inspected) + 1
      BY InspectedCount
    <3> QED  BY <2>1, <2>2, <3>1, <3>2
  <2> QED  BY <2>2, <2>3
<1>5. CASE g = << >>
  <2>1. Owed(g) = 0 /\ OnlyStreams(g) /\ ~Reading(g)
    BY <1>5, EmptyNested, OwedType
  <2> QED  BY <1>3, <1>4, <2>1
<1>6. CASE g = f
  <2>1. Owed(g) = 0 /\ ~Reading(g)
    BY <1>6, OwedType
  <2> QED  BY <1>3, <1>4, <1>6, <2>1
<1>7. CASE g = Append(f, Opened(r, Todo(r))) /\ inspected' = inspected
  <2>1. /\ Len(g) = Len(f) + 1 /\ \A j \in 1 .. Len(f) : g[j] = f[j]
        /\ g[Len(f) + 1].path = r
    <3>1. Opened(r, Todo(r)) \in OpenedSet
      BY <1>1, TodoOf DEF Opened, OpenedSet
    <3>2. Opened(r, Todo(r)).path = r
      BY DEF Opened
    <3> QED  BY <1>1, <1>7, <3>1, <3>2, OneMore
  <2>2. CASE tree[r].kind \in Streams
    <3>1. OnlyStreams(f) => OnlyStreams(g)
      BY <1>1, <2>1, <2>2 DEF OnlyStreams
    <3> QED  BY <1>3, <1>4, <1>7, <2>1, <3>1, OwedType
  <2>3. CASE tree[r].kind \notin Streams
    <3>1. ~Reading(g)
      BY <2>1, <2>3 DEF Reading
    <3>2. Owed(g) = 0
      BY <3>1, OwedType
    <3> QED  BY <1>3, <1>4, <1>7, <3>1, <3>2
  <2> QED  BY <2>2, <2>3
<1> QED  BY <1>2, <1>5, <1>6, <1>7, RecurseWays

LEMMA CountsStep ==
  ASSUME Shape, Counts, Walk
  PROVE  Counts'
<1> DEFINE Card == Cardinality(inspected)
<1>1. tree' = tree /\ tree \in Trees
  BY DEF Shape, Walk, Begin, Return, Skip, Refuse, BreakOff, Stop, Read, Abort
<1>2. /\ MaxFiles \in Nat /\ MaxDepth \in Nat /\ Most \in Nat /\ Most >= 1 /\ MaxFiles <= Most
      /\ files \in Nat /\ Card \in Nat
  BY ArchiveAssumption, InspectedCount DEF Most, Shape
<1>3. CASE Begin
  <2>1. Recurse(<< >>, << >>) /\ Enters(<< >>, << >>) /\ files' = files /\ limit = "start"
    BY <1>1, <1>3, BeginEnters DEF Begin
  <2>2. ~Reading(<< >>) /\ OnlyStreams(<< >>) /\ Len(<< >>) = 0
    BY EmptyNested
  <2>3. files = 0 /\ inspected = {}
    BY <2>1 DEF Shape
  <2>4. Card = 0
    BY <2>3, FS_EmptySet
  <2>5. PICK C, L : C = (Cardinality(inspected) + Owed(open))' /\ L = Len(open)'
    OBVIOUS
  <2>6. /\ C \in Nat /\ C <= Card + 1 /\ (Reading(open)' => L = 0 + 1)
        /\ (OnlyStreams(open)' \/ C = Card)
    BY <1>1, <2>1, <2>2, <2>5, RecurseOwes
  <2>7. \/ OnlyStreams(open)' /\ C <= 1
        \/ C <= files' /\ C <= MaxFiles
    BY <1>2, <2>1, <2>3, <2>4, <2>6
  <2>8. files' <= Most + MaxDepth /\ (Reading(open)' => files' <= Most + L - 2)
    BY <1>2, <2>1, <2>3, <2>6
  <2>9. Most' = Most
    BY DEF Most
  <2> HIDE DEF Card
  <2> QED  BY <2>5, <2>7, <2>8 DEF Counts, Most
<1>4. ASSUME NEW q \in DOMAIN tree, Return \/ Skip(q) \/ Refuse(q) \/ BreakOff(q) \/ Stop(q)
      PROVE  Counts'
  <2>1. UNCHANGED <<inspected, files>> /\ open # << >>
    BY <1>4, OtherSteps
  <2>2. PICK g : g = open'
    OBVIOUS
  <2>3. g = Outer \/ (g = Past(q) /\ q \in Top.todo) \/ g = << >>
    BY <1>4, <2>2, OtherSteps
  <2>4. /\ Owed(open)' = Owed(g) /\ (Reading(open)' <=> Reading(g)) /\ Len(open)' = Len(g)
        /\ (OnlyStreams(open)' <=> OnlyStreams(g))
    BY <1>1, <2>2, SameFrames
  <2>5. /\ Len(open) \in Nat \ {0} /\ Len(Outer) = Len(open) - 1 /\ ~Reading(Outer)
        /\ \A j \in 1 .. Len(open) - 1 : Outer[j] = open[j]
    BY <2>1, TopOf
  <2>6. ~Reading(g) /\ (OnlyStreams(open) => OnlyStreams(g))
    <3>1. CASE g = Outer
      BY <2>5, <3>1 DEF OnlyStreams
    <3>2. CASE g = << >>
      BY <3>2, EmptyNested
    <3>3. CASE g = Past(q) /\ q \in Top.todo
      <4>1. /\ Len(g) = Len(open) /\ g[Len(open)] = Opened(Top.path, Top.todo \ {q})
            /\ \A j \in 1 .. Len(open) - 1 : g[j] = open[j]
            /\ Kind \in Streams => Top.todo \ {q} = {}
        BY <2>1, <3>3, PastOf
      <4>2. g[Len(open)].path = Top.path /\ g[Len(open)].todo = Top.todo \ {q} /\ Top = open[Len(open)]
        BY <2>1, <4>1, TopOf DEF Opened
      <4>3. ~Reading(g)
        BY <4>1, <4>2 DEF Reading, Kind
      <4>4. \A j \in 1 .. Len(g) : j \in 1 .. Len(open) /\ g[j].path = open[j].path
        BY <2>5, <4>1, <4>2
      <4> QED  BY <4>3, <4>4 DEF OnlyStreams
    <3> QED  BY <2>3, <3>1, <3>2, <3>3
  <2>7. Owed(g) = 0 /\ Owed(open) \in 0 .. 1
    BY <2>6, OwedType
  <2>8. PICK o, c : o = Owed(open)' /\ c = Cardinality(inspected)'
    OBVIOUS
  <2>9. o = 0 /\ c = Card /\ c \in Nat
    BY <1>2, <2>1, <2>4, <2>7, <2>8
  <2>10. \/ OnlyStreams(open)' /\ c + o <= 1
         \/ c + o <= files' /\ c + o <= MaxFiles
    <3>1. PICK w : w = Owed(open)
      OBVIOUS
    <3>2. \/ OnlyStreams(open) /\ Card + w <= 1
          \/ Card + w <= files /\ Card + w <= MaxFiles
      BY <3>1 DEF Counts
    <3>3. w \in 0 .. 1
      BY <2>7, <3>1
    <3> HIDE DEF Card
    <3> QED  BY <1>2, <2>1, <2>4, <2>6, <2>9, <3>2, <3>3
  <2> HIDE DEF Card
  <2> QED  BY <2>1, <2>4, <2>6, <2>8, <2>10 DEF Counts, Most
<1>5. ASSUME NEW q \in DOMAIN tree, Read(q)
      PROVE  Counts'
  <2>1. /\ FileTurn(q) /\ MemberTurn(q) /\ Recurse(Source(q), Past(q)) /\ files' = files + 1
        /\ Exceeded(q) = "none"
    BY <1>5 DEF Read, FileTurn
  <2>2. PICK r, f : r = Source(q) /\ f = Past(q)
    OBVIOUS
  <2>3. Enters(r, f) /\ Recurse(r, f) /\ open # << >> /\ q \in Top.todo
    BY <2>1, <2>2, TurnOf
  <2>4. /\ Len(open) \in Nat \ {0} /\ Len(open) <= MaxDepth + 1 /\ Top = open[Len(open)]
        /\ Len(f) = Len(open) /\ \A j \in 1 .. Len(open) - 1 : f[j] = open[j]
        /\ f[Len(open)] = Opened(Top.path, Top.todo \ {q})
        /\ Kind \in Streams => Top.todo \ {q} = {}
    BY <2>2, <2>3, PastOf, TopOf
  <2>5. f[Len(open)].path = Top.path /\ f[Len(open)].todo = Top.todo \ {q}
    BY <2>4 DEF Opened
  <2>6. ~Reading(f)
    BY <2>4, <2>5 DEF Reading, Kind
  <2>7. OnlyStreams(f) <=> OnlyStreams(open)
    <3>1. \A j \in 1 .. Len(open) : f[j].path = open[j].path
      BY <2>4, <2>5
    <3> QED  BY <2>4, <3>1 DEF OnlyStreams
  <2>8. PICK C, L, w : C = (Cardinality(inspected) + Owed(open))' /\ L = Len(open)' /\ w = Owed(open)
    OBVIOUS
  <2>9. /\ C \in Nat /\ C <= Card + 1 /\ (Reading(open)' => L = Len(open) + 1)
        /\ (OnlyStreams(open) => OnlyStreams(open)' \/ C = Card)
    BY <1>1, <2>3, <2>4, <2>6, <2>7, <2>8, RecurseOwes
  <2>10. /\ \/ OnlyStreams(open) /\ Card + w <= 1
            \/ Card + w <= files /\ Card + w <= MaxFiles
         /\ Reading(open) => files <= Most + Len(open) - 2
         /\ w \in 0 .. 1 /\ (w = 1 <=> Reading(open))
    BY <2>8, OwedType DEF Counts
  <2> HIDE DEF Card
  <2>11. CASE Kind \in Streams
    <3>1. Reading(open)
      BY <2>3, <2>4, <2>11 DEF Reading, Kind
    <3>2. \/ OnlyStreams(open)' /\ C <= 1
          \/ C <= files' /\ C <= MaxFiles
      BY <1>2, <2>1, <2>9, <2>10, <3>1
    <3>3. files' <= Most + MaxDepth /\ (Reading(open)' => files' <= Most + L - 2)
      BY <1>2, <2>1, <2>4, <2>9, <2>10, <3>1
    <3> QED  BY <2>8, <3>2, <3>3 DEF Counts, Most
  <2>12. CASE Kind \notin Streams
    <3>1. ~(files >= MaxFiles)
      BY <2>1, <2>12 DEF Exceeded, Counted
    <3>2. ~OnlyStreams(open)
      <4>1. Len(open) \in 1 .. Len(open)
        BY <2>4
      <4> QED  BY <2>4, <2>12, <4>1 DEF OnlyStreams, Kind
    <3>3. C <= files' /\ C <= MaxFiles
      <4>1. ~Reading(open)
        BY <2>4, <2>12 DEF Reading, Kind
      <4>2. w = 0 /\ Card <= files
        BY <1>2, <2>10, <3>2, <4>1
      <4> QED  BY <1>2, <2>1, <2>9, <3>1, <4>2
    <3>4. files' <= Most + MaxDepth /\ (Reading(open)' => files' <= Most + L - 2)
      BY <1>2, <2>1, <2>4, <2>9, <3>1
    <3> QED  BY <2>8, <3>3, <3>4 DEF Counts, Most
  <2> QED  BY <2>11, <2>12
<1>6. DOMAIN tree # {}
  BY <1>1, TreeFacts
<1> QED  BY <1>3, <1>4, <1>5, <1>6 DEF Walk

-----------------------------------------------------------------------------
(* The theorem.                                                            *)

LEMMA WalkInitial ==
  ASSUME ArchiveInit
  PROVE  WalkInv
<1>1. /\ tree \in Trees /\ open = << >> /\ bytes = 0 /\ files = 0
      /\ inspected = {} /\ errors = {} /\ limit = "start"
  BY DEF ArchiveInit
<1>2. Nested(open) /\ ~Reading(open) /\ OnlyStreams(open)
  BY <1>1, EmptyNested
<1>3. Shape
  BY <1>1, <1>2 DEF Shape, Noted
<1>4. Covered /\ Named
  BY <1>1 DEF Covered, Named
<1>5. Counts
  <2>1. Cardinality(inspected) = 0 /\ Owed(open) = 0
    BY <1>1, <1>2, FS_EmptySet, OwedType
  <2>2. Most \in Nat
    BY ArchiveAssumption DEF Most
  <2> QED  BY <1>1, <1>2, <2>1, <2>2, ArchiveAssumption DEF Counts
<1>6. Held
  <2>1. << >> \in DOMAIN tree /\ InArchive = {}
    BY <1>1, TreeFacts DEF InArchive
  <2>2. Together(tree, {}) = 0
    BY <1>3, <2>1, OneFileMore
  <2> QED  BY <1>1, <2>1, <2>2, ArchiveAssumption DEF Held
<1> QED  BY <1>3, <1>4, <1>5, <1>6 DEF WalkInv

LEMMA WalkStep ==
  ASSUME WalkInv, [Walk]_walk
  PROVE  WalkInv'
<1>1. CASE Walk
  BY <1>1, ShapeStep, CoveredStep, NamedStep, CountsStep, HeldStep DEF WalkInv
<1>2. CASE UNCHANGED walk
  <2>1. UNCHANGED <<tree, open, bytes, files, inspected, errors, limit>>
    BY <1>2 DEF walk
  <2>2. PICK f : f = open
    OBVIOUS
  <2>3. Nested(open)' <=> Nested(open)
    BY <2>1, <2>2, SameFrames
  <2>4. Shape'
    BY <2>1, <2>3 DEF WalkInv, Shape, Noted
  <2>5. Covered'
    <3>1. \A p : Accounted(p) => Accounted(p)'
      BY <2>1, SameTree DEF Accounted
    <3>2. \A p : Pending(open, p) => Pending(open, p)'
      BY <2>1, <2>2, SameFrames
    <3>3. Leaves' = Leaves
      BY <2>1, SameTree
    <3> QED  BY <2>1, <3>1, <3>2, <3>3 DEF WalkInv, Covered
  <2>6. Named'
    <3>1. \A p : Clean(p) => Clean(p)'
      BY <2>1, SameTree
    <3> QED  BY <2>1, <3>1 DEF WalkInv, Named
  <2>7. Counts'
    <3>1. /\ Owed(open)' = Owed(open) /\ (Reading(open)' <=> Reading(open))
          /\ (OnlyStreams(open)' <=> OnlyStreams(open))
      BY <2>1, <2>2, SameFrames
    <3> QED  BY <2>1, <3>1 DEF WalkInv, Counts, Most
  <2>8. Held'
    <3>1. \A p : Shadowed(p) => Shadowed(p)'
      BY <2>1, SameTree
    <3>2. InArchive' = InArchive
      BY <2>1 DEF InArchive
    <3> QED  BY <2>1, <3>1, <3>2 DEF WalkInv, Held
  <2> QED  BY <2>4, <2>5, <2>6, <2>7, <2>8 DEF WalkInv
<1> QED  BY <1>1, <1>2

LEMMA WalkSound ==
  ASSUME WalkInv
  PROVE  InspectionIsSound
<1>1. Shape /\ Covered /\ Named /\ Counts /\ Held
  BY DEF WalkInv
<1>2. tree \in Trees /\ Nested(open) /\ DOMAIN open = 1 .. Len(open)
  BY <1>1 DEF Shape, Nested
<1>3. ArchiveTypeOK
  <2>1. \A p \in DOMAIN tree : tree[p] \in Node
    BY <1>2, TreeFacts
  <2>2. \A k \in DOMAIN open : /\ Len(open[k].path) = k - 1 /\ open[k].todo \subseteq Members(open[k].path)
                               /\ k > 1 => Parent(open[k].path) = open[k - 1].path
    BY <1>2 DEF Nested
  <2>3. Len(open) <= MaxDepth + 1
    BY <1>2 DEF Nested
  <2> QED  BY <1>1, <2>1, <2>2, <2>3 DEF ArchiveTypeOK, Shape, Noted
<1>4. EverythingIsAccountedFor
  <2>1. SUFFICES ASSUME open = << >>, limit = "none", NEW p \in Leaves PROVE Accounted(p)
    BY DEF EverythingIsAccountedFor, WalkedAll, Accounted
  <2>2. ~Pending(open, p)
    BY <2>1 DEF Pending
  <2> QED  BY <1>1, <2>1, <2>2 DEF Covered
<1>5. LimitsHold
  <2>1. Cardinality(inspected) \in Nat /\ Owed(open) \in 0 .. 1 /\ Most \in Nat /\ Most >= 1 /\ MaxFiles <= Most
    BY <1>1, InspectedCount, OwedType, ArchiveAssumption DEF Most
  <2>2. Cardinality(inspected) <= Most
    BY <1>1, <2>1, ArchiveAssumption DEF Counts
  <2>3. files <= Most + MaxDepth
    BY <1>1 DEF Counts
  <2>4. \A p \in inspected : Clean(p) /\ Len(p) <= MaxDepth
    BY <1>1 DEF Named
  <2>5. Together(tree, inspected \ {<< >>}) <= MaxBytes \/ \E p \in DOMAIN tree : Shadowed(p)
    <3>1. << >> \in DOMAIN tree
      BY <1>2, TreeFacts
    <3>2. Together(tree, InArchive) \in Nat
      BY <1>1, <3>1, OneFileMore
    <3>3. bytes \in Nat /\ MaxBytes \in Nat
      BY <1>1, ArchiveAssumption DEF Shape
    <3>4. Together(tree, InArchive) <= MaxBytes \/ bytes > MaxBytes
      BY <1>1, <3>2, <3>3 DEF Held
    <3> QED  BY <1>1, <3>4 DEF Held, InArchive
  <2>6. \A p \in inspected, q \in DOMAIN tree :
       Prefix(q, p) /\ q # << >> /\ tree[q].name \in BadNames => tree[Parent(q)].kind \in Streams
    BY <2>4 DEF Clean
  <2> QED  BY <2>2, <2>3, <2>4, <2>5, <2>6 DEF LimitsHold
<1> QED  BY <1>3, <1>4, <1>5 DEF InspectionIsSound

\* ArchiveInspector.inspect (archive_inspector.py) keeps its limits on every tree of
\* archives, however deep and wide, and names what it does not inspect.
THEOREM ArchiveInspected == ArchiveSpec => []InspectionIsSound
<1>1. ArchiveInit => WalkInv
  BY WalkInitial
<1>2. WalkInv /\ [Walk]_walk => WalkInv'
  BY WalkStep
<1>3. WalkInv => InspectionIsSound
  BY WalkSound
<1> QED  BY <1>1, <1>2, <1>3, PTL DEF ArchiveSpec

-----------------------------------------------------------------------------
(* The index of fingerprints.                                              *)

\* What was acknowledged is in memory and in the file, what was deleted in neither.
LibraryInv ==
  /\ ~lost => kept \subseteq index /\ kept \subseteq disk
  /\ index \cap gone = {} /\ disk \cap gone = {}

LEMMA LibraryKeeps ==
  ASSUME LibraryInv, LibraryNext
  PROVE  LibraryInv'
<1>1. CASE Restart
  BY <1>1 DEF Restart, LibraryInv
<1>2. ASSUME NEW id \in Ids, Upload(id) PROVE LibraryInv'
  BY <1>2 DEF Upload, Added, Saved, NotSaved, Written, LibraryInv
<1>3. ASSUME NEW id \in Ids, Delete(id) PROVE LibraryInv'
  BY <1>3 DEF Delete, Removed, Saved, NotSaved, Written, LibraryInv
<1> QED  BY <1>1, <1>2, <1>3 DEF LibraryNext

\* A document is like itself.
LEMMA SimilarToItself ==
  ASSUME NEW h
  PROVE  Similar(h, h)
<1>1. HammingDistance(h, h) = 0
  <2>1. (h \ h) \cup (h \ h) = {}
    OBVIOUS
  <2> QED  BY <2>1, FS_EmptySet DEF HammingDistance
<1>2. \A b \in Nat, t \in 0 .. 100 : 100 * (b - 0) >= t * b
  <2> TAKE b \in Nat, t \in 0 .. 100
  <2>1. (100 - t) * b >= 0
    BY SMT
  <2>2. (100 - t) * b = 100 * b - t * b
    BY SMT
  <2>3. t * b \in Int /\ 100 * b \in Int
    OBVIOUS
  <2> QED  BY <2>1, <2>2, <2>3
<1> QED  BY <1>1, <1>2, SimilarityAssumption DEF Similar

LEMMA LibraryUnchanged ==
  ASSUME Next
  PROVE  LibraryNext \/ UNCHANGED library
BY DEF Next, LibraryStep, Arrive, Submit, Start, Finish, Reply, TimeOut, DetectText, DetectFile, Analyze, Mail, Request

\* FingerprintIndex (fingerprint_analyzer.py) keeps what POST acknowledged and nothing
\* that DELETE did, over restarts and failed saves.
THEOREM FingerprintsKept == Spec => []FingerprintsStay
<1>1. Init => LibraryInv
  BY DEF Init, LibraryInit, LibraryInv
<1>2. LibraryInv /\ [Next]_vars => LibraryInv'
  <2> SUFFICES ASSUME LibraryInv, [Next]_vars PROVE LibraryInv'
    OBVIOUS
  <2>1. CASE LibraryNext
    BY <2>1, LibraryKeeps
  <2>2. CASE UNCHANGED library
    BY <2>2 DEF library, LibraryInv
  <2>3. UNCHANGED vars => UNCHANGED library
    BY DEF vars
  <2> QED  BY <2>1, <2>2, <2>3, LibraryUnchanged
<1>3. LibraryInv => FingerprintsStay
  BY SimilarToItself DEF LibraryInv, FingerprintsStay, Search
<1> QED  BY <1>1, <1>2, <1>3, PTL DEF Spec
-----------------------------------------------------------------------------
(* The requests and what the gateways note of them.                        *)

\* A sequence of anything is one of its own members, and so is a longer one.
LEMMA SequenceFacts ==
  ASSUME NEW s, Sequence(s)
  PROVE  Len(s) \in Nat /\ DOMAIN s = 1 .. Len(s) /\ \A k \in DOMAIN s : s[k] \in ToSet(s)
BY DEF Sequence, ToSet

LEMMA SequenceAppend ==
  ASSUME NEW s, Sequence(s), NEW e
  PROVE  /\ Sequence(Append(s, e)) /\ Len(Append(s, e)) = Len(s) + 1
         /\ DOMAIN Append(s, e) = DOMAIN s \cup {Len(s) + 1} /\ Len(s) + 1 \notin DOMAIN s
         /\ \A k \in DOMAIN s : Append(s, e)[k] = s[k]
         /\ Append(s, e)[Len(s) + 1] = e
         /\ ToSet(Append(s, e)) = ToSet(s) \cup {e}
<1> DEFINE S == ToSet(s) \cup {e}   t == Append(s, e)
<1>1. s \in Seq(S) /\ e \in S /\ Len(s) \in Nat /\ DOMAIN s = 1 .. Len(s)
  BY SequenceFacts, SeqMonotonic DEF Sequence
<1> HIDE DEF S
<1>2. /\ t \in Seq(S) /\ Len(t) = Len(s) + 1 /\ \A k \in 1 .. Len(s) : t[k] = s[k]
      /\ t[Len(s) + 1] = e
  BY <1>1
<1> HIDE DEF t
<1>3. DOMAIN t = 1 .. Len(t) /\ Len(t) \in Nat
  BY <1>1, <1>2
<1>4. DOMAIN t = DOMAIN s \cup {Len(s) + 1} /\ Len(s) + 1 \notin DOMAIN s
  BY <1>1, <1>2, <1>3
<1>5. Sequence(t)
  <2>1. \A k \in 1 .. Len(t) : t[k] \in ToSet(t)
    BY <1>3 DEF ToSet
  <2>2. t = [k \in 1 .. Len(t) |-> t[k]]
    BY <1>2, <1>3
  <2>3. t \in Seq(ToSet(t))
    BY <1>3, <2>1, <2>2, IsASeq
  <2> QED  BY <2>3 DEF Sequence
<1>6. ToSet(t) = ToSet(s) \cup {e}
  BY <1>1, <1>2, <1>4 DEF ToSet
<1> QED  BY <1>1, <1>2, <1>4, <1>5, <1>6 DEF t

Gatewayed(i) == i \in Requests /\ requests[i].via \in {"smtp", "http"}
Told(i) == {incidents[k].action : k \in {l \in DOMAIN incidents : incidents[l].of = i}}
Sent(i) == {x.to : x \in {y \in delivered : y.of = i}}
Goes(told) == IF "block" \in told THEN {} ELSE IF "redirect" \in told THEN {"quarantine"} ELSE {"recipients"}
Enforced(i) ==
  /\ Sent(i) = Goes(Told(i)) \/ (Sent(i) = {} /\ ~requests[i].up)
  /\ answer[i] \in {"550", "403"} <=> "block" \in Told(i)

\* The file has the incidents of memory that were written, in the order of the messages.
WrittenOf(log) == {x.of : x \in {y \in ToSet(log) : y.written}}
Logs ==
  /\ Sequence(incidents) /\ Sequence(logged)
  /\ InOrder(incidents) /\ InOrder(logged)
  /\ {x.of : x \in ToSet(logged)} = WrittenOf(incidents)
\* The gateway is through with every message up to one that has an incident.
Through(i) == i \in Requests /\ \A j \in 1 .. i : state[j] = "done"
Turns == \A k \in DOMAIN incidents : Through(incidents[k].of)
Jobs ==
  /\ requests \in Scenarios
  /\ state \in [Requests -> {"new", "reading", "queued", "running", "abandoned", "finished", "done"}]
  /\ DOMAIN result = Requests /\ result = [i \in Requests |-> result[i]]
  /\ DOMAIN answer = Requests /\ answer = [i \in Requests |-> answer[i]]
\* A gateway has nothing of a message until its turn, and then all at once.
Gateways ==
  \A i \in Requests : Gatewayed(i) =>
    /\ state[i] \in {"new", "done"}
    /\ state[i] = "new" => (\A k \in DOMAIN incidents : incidents[k].of # i) /\ \A x \in delivered : x.of # i
    /\ state[i] = "done" => Enforced(i)
GatewayInv == Jobs /\ Logs /\ Turns /\ Gateways

\* The requests are numbered.
LEMMA Numbered ==
  ASSUME Jobs
  PROVE  Len(requests) \in Nat /\ Requests = 1 .. Len(requests)
BY ScenariosAssumption, SequenceFacts DEF Jobs, Requests

\* A log with one entry more, of a later message, is in order.
LEMMA OneMoreInOrder ==
  ASSUME NEW log, Sequence(log), InOrder(log), NEW e, \A k \in DOMAIN log : log[k].of < e.of
  PROVE  InOrder(Append(log, e))
<1>1. PICK t : t = Append(log, e)
  OBVIOUS
<1>2. /\ DOMAIN t = DOMAIN log \cup {Len(log) + 1} /\ Len(log) + 1 \notin DOMAIN log
      /\ \A k \in DOMAIN log : t[k] = log[k]
      /\ t[Len(log) + 1] = e
  BY <1>1, SequenceAppend
<1>3. DOMAIN log = 1 .. Len(log) /\ Len(log) \in Nat
  BY SequenceFacts
<1>4. ASSUME NEW k \in DOMAIN t, NEW l \in DOMAIN t, k < l PROVE t[k].of < t[l].of
  <2>1. k \in DOMAIN log
    BY <1>2, <1>3, <1>4
  <2> QED  BY <1>2, <1>4, <2>1 DEF InOrder
<1> QED  BY <1>1, <1>4 DEF InOrder

LEMMA NoteGives ==
  ASSUME Logs, NEW i, NEW n, NEW a, Note(i, n, a), \A k \in DOMAIN incidents : incidents[k].of < i /\ incidents[k].of # i
  PROVE  /\ Logs' /\ Told(i)' = (IF n = 0 THEN {} ELSE {a})
         /\ \A j : j # i => /\ Told(j)' = Told(j)
                            /\ (\A k \in DOMAIN incidents : incidents[k].of # j) =>
                                 (\A k \in DOMAIN incidents : incidents[k].of # j)'
         /\ \A k \in DOMAIN incidents' : incidents'[k].of = i \/ \E l \in DOMAIN incidents : incidents'[k].of = incidents[l].of
<1>1. CASE n = 0
  <2>1. incidents' = incidents /\ logged' = logged
    BY <1>1 DEF Note
  <2>2. Logs'
    BY <2>1 DEF Logs, Sequence, InOrder, WrittenOf
  <2>3. Told(i)' = {}
    BY <2>1 DEF Told
  <2> QED  BY <1>1, <2>1, <2>2, <2>3 DEF Told
<1>2. CASE n # 0
  <2>0. PICK w \in BOOLEAN :
          /\ incidents' = Append(incidents, [of |-> i, action |-> a, written |-> w])
          /\ logged' = IF w THEN Append(logged, [of |-> i, action |-> "log"]) ELSE logged
    BY <1>2 DEF Note
  <2> DEFINE e == [of |-> i, action |-> a, written |-> w]   f == [of |-> i, action |-> "log"]
  <2>1. incidents' = Append(incidents, e) /\ logged' = IF w THEN Append(logged, f) ELSE logged
    BY <2>0
  <2>2. e.of = i /\ e.action = a /\ e.written = w /\ f.of = i
    OBVIOUS
  <2> HIDE DEF e, f
  <2>3. PICK s, t : s = incidents' /\ t = logged'
    OBVIOUS
  <2>4. /\ Sequence(s) /\ Len(s) = Len(incidents) + 1
        /\ DOMAIN s = DOMAIN incidents \cup {Len(incidents) + 1} /\ Len(incidents) + 1 \notin DOMAIN incidents
        /\ \A k \in DOMAIN incidents : s[k] = incidents[k]
        /\ s[Len(incidents) + 1] = e
        /\ ToSet(s) = ToSet(incidents) \cup {e}
    BY <2>1, <2>3, SequenceAppend DEF Logs
  <2>5. WrittenOf(s) = WrittenOf(incidents) \cup (IF w THEN {i} ELSE {})
    BY <2>2, <2>4 DEF WrittenOf
  <2>6. \A x \in ToSet(logged) : x.of < i
    <3>1. \A x \in ToSet(incidents) : x.of < i
      BY DEF ToSet
    <3>2. \A x \in ToSet(logged) : x.of \in WrittenOf(incidents)
      BY DEF Logs
    <3>3. \A o \in WrittenOf(incidents) : \E y \in ToSet(incidents) : o = y.of
      BY DEF WrittenOf
    <3> QED  BY <3>1, <3>2, <3>3
  <2>7. Sequence(t) /\ InOrder(t) /\ {x.of : x \in ToSet(t)} = WrittenOf(s)
    <3>1. CASE w
      <4>1. t = Append(logged, f)
        BY <2>1, <2>3, <3>1
      <4>2. Sequence(t) /\ ToSet(t) = ToSet(logged) \cup {f}
        BY <4>1, SequenceAppend DEF Logs
      <4>3. \A k \in DOMAIN logged : logged[k].of < f.of
        BY <2>2, <2>6 DEF ToSet
      <4>4. InOrder(t)
        BY <4>1, <4>3, OneMoreInOrder DEF Logs
      <4>5. {x.of : x \in ToSet(t)} = {x.of : x \in ToSet(logged)} \cup {i}
        BY <2>2, <4>2
      <4> QED  BY <2>5, <3>1, <4>2, <4>4, <4>5 DEF Logs
    <3>2. CASE ~w
      <4>1. t = logged
        BY <2>1, <2>3, <3>2
      <4> QED  BY <2>5, <3>2, <4>1 DEF Logs
    <3> QED  BY <3>1, <3>2
  <2>8. InOrder(s)
    BY <2>1, <2>2, <2>3, OneMoreInOrder DEF Logs
  <2>9. Logs'
    <3>1. (Sequence(incidents) /\ Sequence(logged) /\ InOrder(incidents) /\ InOrder(logged))'
      BY <2>3, <2>4, <2>7, <2>8 DEF Sequence, InOrder
    <3>2. ({x.of : x \in ToSet(logged)} = WrittenOf(incidents))'
      BY <2>3, <2>7 DEF WrittenOf
    <3> QED  BY <3>1, <3>2 DEF Logs
  <2>10. Told(i)' = {a}
    <3>1. {s[k].action : k \in {l \in DOMAIN s : s[l].of = i}} = {a}
      BY <2>2, <2>4
    <3> QED  BY <2>3, <3>1 DEF Told
  <2>11. ASSUME NEW j, j # i
        PROVE  /\ Told(j)' = Told(j)
               /\ (\A k \in DOMAIN incidents : incidents[k].of # j) =>
                     (\A k \in DOMAIN incidents : incidents[k].of # j)'
    <3>1. {s[k].action : k \in {l \in DOMAIN s : s[l].of = j}} = {incidents[k].action : k \in {l \in DOMAIN incidents : incidents[l].of = j}}
      BY <2>2, <2>4, <2>11
    <3>2. (\A k \in DOMAIN incidents : incidents[k].of # j) => (\A k \in DOMAIN s : s[k].of # j)
      BY <2>2, <2>4, <2>11
    <3> QED  BY <2>3, <3>1, <3>2 DEF Told
  <2>12. \A k \in DOMAIN s : s[k].of = i \/ \E l \in DOMAIN incidents : s[k].of = incidents[l].of
    BY <2>2, <2>4
  <2> QED  BY <1>2, <2>3, <2>9, <2>10, <2>11, <2>12
<1> QED  BY <1>1, <1>2

\* What is sent on of a message, to each of these.
Parcel(i, to) == [of |-> i, to |-> to, marked |-> FALSE]
Sending(i, sent) == delivered' = delivered \cup {Parcel(i, to) : to \in sent}

LEMMA SendingGives ==
  ASSUME NEW i, NEW sent, Sending(i, sent), \A x \in delivered : x.of # i
  PROVE  /\ Sent(i)' = sent
         /\ \A j : j # i => /\ Sent(j)' = Sent(j)
                            /\ (\A x \in delivered : x.of # j) => (\A x \in delivered : x.of # j)'
<1> DEFINE new == {Parcel(i, to) : to \in sent}
<1>1. /\ \A x \in new : x.of = i /\ x.to \in sent
      /\ \A to \in sent : \E x \in new : x.to = to
  <2>1. \A to : Parcel(i, to).of = i /\ Parcel(i, to).to = to
    BY DEF Parcel
  <2> QED  BY <2>1
<1>2. delivered' = delivered \cup new
  BY DEF Sending
<1> HIDE DEF new
<1>3. Sent(i)' = sent
  BY <1>1, <1>2 DEF Sent
<1>4. ASSUME NEW j, j # i
      PROVE  /\ Sent(j)' = Sent(j)
             /\ (\A x \in delivered : x.of # j) => (\A x \in delivered : x.of # j)'
  BY <1>1, <1>2, <1>4 DEF Sent
<1> QED  BY <1>3, <1>4

\* A message of the gateway, in its turn, is noted and sent on as its incident says.
LEMMA GatewayMoves ==
  ASSUME GatewayInv, NEW i, Gatewayed(i), Turn(i), requests' = requests, Jobs',
         state' = [state EXCEPT ![i] = "done"],
         NEW b, answer' = [answer EXCEPT ![i] = b],
         NEW n, NEW a, Note(i, n, a),
         NEW told, told = IF n = 0 THEN {} ELSE {a},
         NEW sent, Sending(i, sent), sent = Goes(told) \/ (sent = {} /\ ~requests[i].up),
         b \in {"550", "403"} <=> "block" \in told
  PROVE  GatewayInv'
<1>0. /\ i \in Requests /\ state[i] = "new" /\ \A j \in 1 .. (i - 1) : state[j] = "done"
      /\ Requests \subseteq Nat \ {0} /\ Jobs /\ Logs /\ Turns
  BY Numbered DEF GatewayInv, Turn
<1>1. (\A k \in DOMAIN incidents : incidents[k].of < i /\ incidents[k].of # i) /\ \A x \in delivered : x.of # i
  <2>1. ASSUME NEW k \in DOMAIN incidents PROVE incidents[k].of < i
    <3>1. PICK o \in Requests : o = incidents[k].of
      BY <1>0 DEF Turns, Through
    <3>2. i \notin 1 .. o
      BY <1>0, <3>1 DEF Turns, Through
    <3> QED  BY <1>0, <3>1, <3>2
  <2>2. ASSUME NEW k \in DOMAIN incidents PROVE incidents[k].of # i
    BY <1>0 DEF GatewayInv, Gateways, Gatewayed
  <2> QED  BY <1>0, <2>1, <2>2 DEF GatewayInv, Gateways, Gatewayed
<1>2. /\ Logs' /\ Told(i)' = told
      /\ \A j : j # i => /\ Told(j)' = Told(j)
                         /\ (\A k \in DOMAIN incidents : incidents[k].of # j) =>
                              (\A k \in DOMAIN incidents : incidents[k].of # j)'
      /\ \A k \in DOMAIN incidents' : incidents'[k].of = i \/ \E l \in DOMAIN incidents : incidents'[k].of = incidents[l].of
  BY <1>0, <1>1, NoteGives
<1>3. /\ Sent(i)' = sent
      /\ \A j : j # i => /\ Sent(j)' = Sent(j)
                         /\ (\A x \in delivered : x.of # j) => (\A x \in delivered : x.of # j)'
  BY <1>1, SendingGives
<1>4. /\ DOMAIN state = Requests /\ DOMAIN answer = Requests /\ Requests' = Requests
      /\ i \in Requests /\ \A j : Gatewayed(j)' <=> Gatewayed(j)
  BY DEF GatewayInv, Jobs, Requests, Gatewayed
<1>5. /\ state'[i] = "done" /\ answer'[i] = b
      /\ \A j \in Requests : j # i => state'[j] = state[j] /\ answer'[j] = answer[j]
  BY <1>4
<1>6. Enforced(i)'
  <2>1. (Sent(i)' = Goes(Told(i)') \/ (Sent(i)' = {} /\ ~requests[i].up))
    BY <1>2, <1>3
  <2>2. answer'[i] \in {"550", "403"} <=> "block" \in Told(i)'
    BY <1>2, <1>5
  <2> QED  BY <2>1, <2>2 DEF Enforced, Goes
<1>7. Gateways'
  <2> SUFFICES ASSUME NEW j \in Requests, Gatewayed(j)
               PROVE  (/\ state[j] \in {"new", "done"}
                       /\ state[j] = "new" => (\A k \in DOMAIN incidents : incidents[k].of # j) /\ \A x \in delivered : x.of # j
                       /\ state[j] = "done" => Enforced(j))'
    BY <1>4 DEF Gateways
  <2>1. CASE j = i
    BY <1>5, <1>6, <2>1
  <2>2. CASE j # i
    <3>1. Enforced(j) => Enforced(j)'
      BY <1>2, <1>3, <1>5, <2>2 DEF Enforced, Goes
    <3>2. /\ state[j] \in {"new", "done"}
          /\ state[j] = "new" => (\A k \in DOMAIN incidents : incidents[k].of # j) /\ \A x \in delivered : x.of # j
          /\ state[j] = "done" => Enforced(j)
      BY DEF GatewayInv, Gateways
    <3> QED  BY <1>2, <1>3, <1>5, <2>2, <3>1, <3>2
  <2> QED  BY <2>1, <2>2
<1>8. Turns'
  <2>1. ASSUME NEW k \in DOMAIN incidents', NEW o, o = incidents'[k].of
        PROVE  o \in Requests /\ \A j \in 1 .. o : state'[j] = "done"
    <3>2. CASE o = i
      <4>1. \A j \in 1 .. i : j \in Requests /\ (j = i \/ j \in 1 .. (i - 1))
        BY <1>0, Numbered
      <4>2. \A j \in 1 .. i : state'[j] = "done"
        BY <1>0, <1>5, <4>1
      <4> QED  BY <1>4, <3>2, <4>2
    <3>3. CASE o # i
      <4>1. Through(o)
        BY <1>0, <1>2, <2>1, <3>3 DEF Turns
      <4>2. \A j \in 1 .. o : j \in Requests /\ state[j] = "done" /\ j # i
        BY <1>0, <4>1, Numbered DEF Through
      <4> QED  BY <1>5, <4>1, <4>2 DEF Through
    <3> QED  BY <3>2, <3>3
  <2> QED  BY <1>4, <2>1 DEF Turns, Through
<1> QED  BY <1>2, <1>7, <1>8 DEF GatewayInv

\* Every other step is of a request that no gateway has.
LEMMA GatewaysRest ==
  ASSUME GatewayInv, UNCHANGED <<requests, Gateway>>, Jobs',
         \A j \in Requests : Gatewayed(j) => state'[j] = state[j] /\ answer'[j] = answer[j],
         \A j \in Requests : state[j] = "done" => state'[j] = "done"
  PROVE  GatewayInv'
<1>1. requests' = requests /\ incidents' = incidents /\ logged' = logged /\ delivered' = delivered
  BY DEF Gateway
<1>2. Logs'
  BY <1>1 DEF GatewayInv, Logs, Sequence, InOrder, WrittenOf
<1>3. \A j : Told(j)' = Told(j) /\ Sent(j)' = Sent(j) /\ (Gatewayed(j)' <=> Gatewayed(j))
  BY <1>1 DEF Told, Sent, Gatewayed, Requests
<1>4. Gateways'
  BY <1>1, <1>3 DEF GatewayInv, Gateways, Enforced, Goes, Requests
<1>5. Turns'
  <2>1. ASSUME NEW k \in DOMAIN incidents PROVE Through(incidents[k].of)'
    <3>1. PICK o : o = incidents[k].of /\ Through(o)
      BY DEF GatewayInv, Turns
    <3>2. \A j \in 1 .. o : j \in Requests
      BY <3>1, Numbered DEF GatewayInv, Through
    <3>3. Requests' = Requests
      BY <1>1 DEF Requests
    <3> QED  BY <1>1, <3>1, <3>2, <3>3 DEF Through
  <2> QED  BY <1>1, <2>1 DEF Turns
<1> QED  BY <1>2, <1>4, <1>5 DEF GatewayInv

LEMMA JobsChange ==
  ASSUME Jobs, requests' = requests, NEW i \in Requests,
         NEW s \in {"reading", "queued", "running", "abandoned", "finished", "done"},
         state' = [state EXCEPT ![i] = s],
         \/ result' = result \/ \E r : result' = [result EXCEPT ![i] = r],
         \/ answer' = answer \/ \E a : answer' = [answer EXCEPT ![i] = a]
  PROVE  Jobs'
<1>1. Requests' = Requests
  BY DEF Requests
<1>2. state' \in [Requests -> {"new", "reading", "queued", "running", "abandoned", "finished", "done"}]
  BY DEF Jobs
<1>3. DOMAIN result' = Requests /\ result' = [j \in Requests |-> result'[j]]
  BY DEF Jobs
<1>4. DOMAIN answer' = Requests /\ answer' = [j \in Requests |-> answer'[j]]
  BY DEF Jobs
<1> QED  BY <1>1, <1>2, <1>3, <1>4 DEF Jobs

LEMMA GatewayInitial ==
  ASSUME Init
  PROVE  GatewayInv
<1>1. Jobs
  BY DEF Init, Jobs
<1>2. Sequence(<<>>)
  BY EmptySeq DEF Sequence
<1>3. Logs /\ Turns
  <2>1. ToSet(<<>>) = {}
    BY DEF ToSet
  <2>2. incidents = <<>> /\ logged = <<>>
    BY DEF Init
  <2>3. InOrder(<<>>) /\ WrittenOf(<<>>) = {}
    BY <2>1 DEF InOrder, WrittenOf
  <2> QED  BY <1>2, <2>1, <2>2, <2>3 DEF Logs, Turns
<1>4. Gateways
  BY DEF Init, Gateways, Gatewayed
<1> QED  BY <1>1, <1>3, <1>4 DEF GatewayInv

LEMMA GatewayStep ==
  ASSUME GatewayInv, [Next]_vars
  PROVE  GatewayInv'
<1>0. Jobs
  BY DEF GatewayInv
<1>1. CASE UNCHANGED jobs
  <2>1. Jobs'
    BY <1>0, <1>1 DEF jobs, Jobs, Requests
  <2> QED  BY <1>1, <2>1, GatewaysRest DEF jobs, Gateway
<1>2. ASSUME NEW i \in Requests, Mail(i) PROVE GatewayInv'
  <2>1. PICK r : r = MailResult(requests[i])
    OBVIOUS
  <2>2. PICK n : n = MatchCount(r)
    OBVIOUS
  <2>3. PICK a : a = MailAction(requests[i], n)
    OBVIOUS
  <2>4. /\ requests[i].via = "smtp" /\ Turn(i) /\ requests' = requests /\ Gatewayed(i)
        /\ state' = [state EXCEPT ![i] = "done"] /\ result' = [result EXCEPT ![i] = r]
        /\ Note(i, n, a)
    BY <1>2, <2>1, <2>2, <2>3 DEF Mail, Is, Ended, Becomes, Gatewayed
  <2>5. PICK to : to = ByVerdict(a)
    OBVIOUS
  <2>6. IF to = "nobody" THEN answer' = [answer EXCEPT ![i] = "550"] /\ UNCHANGED delivered
        ELSE answer' = [answer EXCEPT ![i] = "250"] /\ Deliver(i, to, requests[i].up)
    BY <1>2, <2>1, <2>2, <2>3, <2>5 DEF Mail, Answer
  <2>7. Jobs'
    BY <1>0, <2>4, <2>6, JobsChange
  <2>8. PICK told : told = IF n = 0 THEN {} ELSE {a}
    OBVIOUS
  <2>9. n = 0 => a = "pass"
    BY <2>3 DEF MailAction
  <2>10. to = (IF a = "block" THEN "nobody" ELSE IF a = "redirect" THEN "quarantine" ELSE "recipients")
    BY <2>5 DEF ByVerdict
  <2>11. Goes(told) = (IF to = "nobody" THEN {} ELSE {to}) /\ ("block" \in told <=> to = "nobody")
    BY <2>8, <2>9, <2>10 DEF Goes
  <2>12. requests[i].up \in BOOLEAN
    BY <1>0, <2>4, ScenariosAssumption DEF Jobs, Requests, IsRequest
  <2>13. PICK sent : sent = IF to = "nobody" \/ ~requests[i].up THEN {} ELSE {to}
    OBVIOUS
  <2>14. Sending(i, sent) /\ (sent = Goes(told) \/ (sent = {} /\ ~requests[i].up))
    BY <2>6, <2>11, <2>12, <2>13 DEF Sending, Deliver, Parcel
  <2>15. PICK b : answer' = [answer EXCEPT ![i] = b] /\ (b \in {"550", "403"} <=> "block" \in told)
    BY <2>6, <2>11
  <2> QED  BY <2>4, <2>7, <2>8, <2>14, <2>15, GatewayMoves
<1>3. ASSUME NEW i \in Requests, Request(i) PROVE GatewayInv'
  <2>1. PICK r : r = HttpResult(requests[i])
    OBVIOUS
  <2>2. PICK n : n = MatchCount(r)
    OBVIOUS
  <2>3. PICK a : a = IF Blocked(requests[i], n) THEN "block" ELSE "log"
    OBVIOUS
  <2>4. /\ requests[i].via = "http" /\ Turn(i) /\ requests' = requests /\ Gatewayed(i)
        /\ state' = [state EXCEPT ![i] = "done"] /\ result' = [result EXCEPT ![i] = r]
        /\ Note(i, n, a)
    BY <1>3, <2>1, <2>2, <2>3 DEF Request, Is, Ended, Becomes, Gatewayed
  <2>5. PICK sent : sent = IF Blocked(requests[i], n) THEN {} ELSE {"recipients"}
    OBVIOUS
  <2>6. Sending(i, sent)
    <3> DEFINE e == Parcel(i, "recipients")
    <3>1. delivered' = IF Blocked(requests[i], n) THEN delivered ELSE delivered \cup {e}
      BY <1>3, <2>1, <2>2 DEF Request, Deliver, Parcel
    <3>2. {Parcel(i, to) : to \in sent} = IF Blocked(requests[i], n) THEN {} ELSE {e}
      BY <2>5
    <3> HIDE DEF e
    <3>3. CASE Blocked(requests[i], n)
      BY <3>1, <3>2, <3>3 DEF Sending
    <3>4. CASE ~Blocked(requests[i], n)
      BY <3>1, <3>2, <3>4 DEF Sending
    <3> QED  BY <3>3, <3>4
  <2>7. PICK b : answer' = [answer EXCEPT ![i] = b] /\ (b \in {"550", "403"} <=> Blocked(requests[i], n))
    <3>1. CASE Blocked(requests[i], n)
      <4>1. answer' = [answer EXCEPT ![i] = "403"]
        BY <1>3, <2>1, <2>2, <3>1 DEF Request, Answer
      <4>2. "403" \in {"550", "403"} <=> Blocked(requests[i], n)
        BY <3>1
      <4> QED  BY <4>1, <4>2
    <3>2. CASE ~Blocked(requests[i], n)
      <4>1. answer' = [answer EXCEPT ![i] = "passed"]
        BY <1>3, <2>1, <2>2, <3>2 DEF Request, Answer
      <4>2. "passed" \in {"550", "403"} <=> Blocked(requests[i], n)
        BY <3>2
      <4> QED  BY <4>1, <4>2
    <3> QED  BY <3>1, <3>2
  <2>8. Jobs'
    BY <1>0, <2>4, <2>7, JobsChange
  <2>9. PICK told : told = IF n = 0 THEN {} ELSE {a}
    OBVIOUS
  <2>10. Blocked(requests[i], n) => n # 0
    <3>1. Blocked(requests[i], n) => n > 0
      BY DEF Blocked
    <3> QED  BY <3>1
  <2>11. ("block" \in told <=> Blocked(requests[i], n)) /\ sent = Goes(told)
    BY <2>3, <2>5, <2>9, <2>10 DEF Goes
  <2> QED  BY <2>4, <2>6, <2>7, <2>8, <2>9, <2>11, GatewayMoves
<1>4. ASSUME NEW i \in Requests,
             \/ Arrive(i) \/ Submit(i) \/ Start(i) \/ Finish(i) \/ Reply(i) \/ TimeOut(i)
             \/ DetectText(i) \/ DetectFile(i) \/ Analyze(i)
      PROVE  GatewayInv'
  <2>1. ~Gatewayed(i)
    <3>1. Gatewayed(i) => state[i] \in {"new", "done"}
      BY DEF GatewayInv, Gateways
    <3> QED  BY <1>4, <3>1 DEF Arrive, Submit, Start, Finish, Busy, Reply, TimeOut, DetectText, DetectFile, Analyze, Is, Gatewayed
  <2>2. UNCHANGED <<requests, Gateway>>
    BY <1>4 DEF Arrive, Submit, Start, Finish, Reply, TimeOut, DetectText, DetectFile, Analyze
  <2>3. PICK s \in {"reading", "queued", "running", "abandoned", "finished", "done"} : state' = [state EXCEPT ![i] = s]
    BY <1>4 DEF Arrive, Submit, Start, Finish, Reply, TimeOut, DetectText, DetectFile, Analyze, Ended, Becomes
  <2>4. /\ result' = result \/ \E r : result' = [result EXCEPT ![i] = r]
        /\ answer' = answer \/ \E a : answer' = [answer EXCEPT ![i] = a]
    BY <1>4 DEF Arrive, Submit, Start, Finish, Reply, TimeOut, DetectText, DetectFile, Analyze, Ended, Answer
  <2>5. Jobs'
    BY <1>0, <2>2, <2>3, <2>4, JobsChange
  <2>6. \A j \in Requests : j # i => state'[j] = state[j] /\ answer'[j] = answer[j]
    BY <1>0, <2>3, <2>4 DEF Jobs
  <2>7. state[i] # "done"
    BY <1>4 DEF Arrive, Submit, Start, Finish, Busy, Reply, TimeOut, Waiting, DetectText, DetectFile, Analyze
  <2> QED  BY <2>1, <2>2, <2>5, <2>6, <2>7, GatewaysRest
<1> QED  BY <1>1, <1>2, <1>3, <1>4 DEF Next, LibraryStep, vars

\* What the SMTP and HTTP gateways (smtp_entry.py, dlp_addon.py) do with a message is what
\* its one incident says, and the JSONL file has the incidents that could be written, in
\* the order of the messages.
THEOREM Enforcement == Spec => []EnforcedAsRecorded
<1>1. Init => GatewayInv
  BY GatewayInitial
<1>2. GatewayInv /\ [Next]_vars => GatewayInv'
  BY GatewayStep
<1>3. GatewayInv => EnforcedAsRecorded
  BY DEF GatewayInv, Gateways, Logs, WrittenOf, Gatewayed, EnforcedAsRecorded, Enforced, Told, Sent, Goes
<1> QED  BY <1>1, <1>2, <1>3, PTL DEF Spec
-----------------------------------------------------------------------------
(* Sums and remainders.                                                    *)

\* A loop over 1..n has the values that its steps give it.
Loop(g, n, S, base, step) ==
  g \in [0 .. n -> S] /\ g[0] = base /\ \A k \in 1 .. n : g[k] = step[k][g[k - 1]]
\* Every loop has values.
LEMMA Recursion ==
  ASSUME NEW n \in Nat, NEW S, NEW base \in S, NEW step \in [1 .. n -> [S -> S]]
  PROVE  \E g : Loop(g, n, S, base, step)
<1> DEFINE Ok(m, g) == g[0] = base /\ \A k \in 1 .. m : g[k] = step[k][g[k - 1]]
           Bad == {m \in 0 .. n : ~\E g \in [0 .. m -> S] : Ok(m, g)}
<1>1. SUFFICES ASSUME Bad # {} PROVE FALSE
  <2> SUFFICES ASSUME Bad = {} PROVE \E g : Loop(g, n, S, base, step)
    OBVIOUS
  <2>1. n \in 0 .. n
    OBVIOUS
  <2>2. PICK g \in [0 .. n -> S] : Ok(n, g)
    BY <2>1
  <2> QED  BY <2>2 DEF Loop
<1>2. PICK m \in Bad : \A y \in Bad : m <= y
  <2>1. Bad \subseteq Nat
    OBVIOUS
  <2> HIDE DEF Bad
  <2> QED  BY <1>1, <2>1, LeastOf
<1>3. m # 0
  <2>1. [k \in 0 .. 0 |-> base] \in [0 .. 0 -> S] /\ Ok(0, [k \in 0 .. 0 |-> base])
    OBVIOUS
  <2> QED  BY <2>1
<1>4. PICK g \in [0 .. m - 1 -> S] : Ok(m - 1, g)
  <2>1. m - 1 \in 0 .. n /\ m - 1 \notin Bad
    BY <1>2, <1>3
  <2> QED  BY <2>1
<1> DEFINE h == [k \in 0 .. m |-> IF k = m THEN step[m][g[m - 1]] ELSE g[k]]
<1>5. m \in 1 .. n /\ m - 1 \in 0 .. m - 1
  BY <1>3
<1>6. step[m][g[m - 1]] \in S
  BY <1>5
<1>7. h \in [0 .. m -> S]
  BY <1>5, <1>6
<1>8. Ok(m, h)
  <2>1. h[0] = base
    BY <1>4, <1>5
  <2>2. ASSUME NEW k \in 1 .. m PROVE h[k] = step[k][h[k - 1]]
    <3>1. h[k - 1] = g[k - 1]
      BY <1>5
    <3>2. CASE k = m
      BY <3>1, <3>2, <1>5
    <3>3. CASE k # m
      <4>1. k \in 1 .. m - 1 /\ h[k] = g[k]
        BY <3>3, <1>5
      <4> QED  BY <1>4, <3>1, <4>1
    <3> QED  BY <3>2, <3>3
  <2> QED  BY <2>1, <2>2
<1> QED  BY <1>7, <1>8

\* What Total adds up.
Sums(g, n, terms) == g \in [0 .. n -> Int] /\ g[0] = 0 /\ \A k \in 1 .. n : g[k] = g[k - 1] + terms[k]
\* Total is the last of the sums of the terms.
LEMMA TotalIs ==
  ASSUME NEW n \in Nat, NEW terms \in [1 .. n -> Int]
  PROVE  \E g : Sums(g, n, terms) /\ Total(terms) = g[n]
<1> DEFINE F(g) == [k \in 0 .. n |-> IF k = 0 THEN 0 ELSE g[k - 1] + terms[k]]
           step == [k \in 1 .. n |-> [x \in Int |-> x + terms[k]]]
<1>1. step \in [1 .. n -> [Int -> Int]] /\ \A k \in 1 .. n, x \in Int : step[k][x] = x + terms[k]
  OBVIOUS
<1>2. PICK g : Loop(g, n, Int, 0, step)
  <2> HIDE DEF step
  <2>1. PICK S : S = Int
    OBVIOUS
  <2>2. PICK base \in S : base = 0
    BY <2>1
  <2>3. PICK s \in [1 .. n -> [S -> S]] : s = step
    BY <1>1, <2>1
  <2>4. \E g : Loop(g, n, S, base, s)
    BY Recursion
  <2> QED  BY <2>1, <2>2, <2>3, <2>4
<1>3. g = F(g)
  <2> HIDE DEF step
  <2>1. \A k \in 1 .. n : k - 1 \in 0 .. n /\ g[k - 1] \in Int
    BY <1>2 DEF Loop
  <2>2. \A k \in 1 .. n : g[k] = g[k - 1] + terms[k]
    BY <1>1, <1>2, <2>1 DEF Loop
  <2> QED  BY <1>2, <2>2 DEF Loop
<1> DEFINE total == CHOOSE f : f = F(f)
<1>4. total = F(total)
  BY <1>3
<1>5. Total(terms) = total[n]
  <2>1. Len(terms) = n
    OBVIOUS
  <2> QED  BY <2>1 DEF Total
<1> HIDE DEF total, step
<1>6. total[0] = 0 /\ \A k \in 1 .. n : total[k] = total[k - 1] + terms[k]
  BY <1>4
<1> DEFINE Bad == {k \in 0 .. n : total[k] \notin Int}
<1>7. ASSUME Bad # {} PROVE FALSE
  <2>1. PICK k \in Bad : \A y \in Bad : k <= y
    <3>1. Bad \subseteq Nat
      OBVIOUS
    <3> HIDE DEF Bad
    <3> QED  BY <1>7, <3>1, LeastOf
  <2>2. k # 0
    BY <1>6
  <2>3. k \in 1 .. n /\ k - 1 \in 0 .. n /\ k - 1 \notin Bad
    BY <2>1, <2>2
  <2> QED  BY <1>6, <2>3
<1>8. Sums(total, n, terms)
  BY <1>4, <1>6, <1>7 DEF Sums
<1> QED  BY <1>5, <1>8

\* What a change of one term does to the total.
LEMMA OneTermChanged ==
  ASSUME NEW n \in Nat, NEW s \in [1 .. n -> Int], NEW t \in [1 .. n -> Int], NEW p \in 1 .. n,
         \A k \in 1 .. n : k # p => t[k] = s[k]
  PROVE  Total(s) \in Int /\ Total(t) = Total(s) + (t[p] - s[p])
<1>1. PICK g : Sums(g, n, s) /\ Total(s) = g[n]
  BY TotalIs
<1>2. PICK h : Sums(h, n, t) /\ Total(t) = h[n]
  BY TotalIs
<1> DEFINE Bad == {k \in 0 .. n : h[k] # g[k] + (IF k < p THEN 0 ELSE t[p] - s[p])}
<1>3. ASSUME Bad # {} PROVE FALSE
  <2>1. PICK k \in Bad : \A y \in Bad : k <= y
    <3>1. Bad \subseteq Nat
      OBVIOUS
    <3> HIDE DEF Bad
    <3> QED  BY <1>3, <3>1, LeastOf
  <2>2. k # 0
    BY <1>1, <1>2 DEF Sums
  <2>3. k \in 1 .. n /\ k - 1 \in 0 .. n /\ k - 1 \notin Bad
    BY <2>1, <2>2
  <2>4. h[k - 1] = g[k - 1] + (IF k - 1 < p THEN 0 ELSE t[p] - s[p])
    BY <2>3
  <2>5. h[k] = h[k - 1] + t[k] /\ g[k] = g[k - 1] + s[k] /\ g[k - 1] \in Int /\ s[k] \in Int /\ t[k] \in Int
    BY <1>1, <1>2, <2>3 DEF Sums
  <2>6. s[p] \in Int /\ t[p] \in Int
    OBVIOUS
  <2>7. CASE k = p
    BY <2>4, <2>5, <2>6, <2>7
  <2>8. CASE k # p
    <3>1. t[k] = s[k]
      BY <2>3, <2>8
    <3> QED  BY <2>4, <2>5, <2>6, <2>8, <3>1
  <2> QED  BY <2>7, <2>8
<1>4. h[n] = g[n] + (t[p] - s[p])
  <2>1. n \in 0 .. n /\ n \notin Bad /\ ~(n < p)
    BY <1>3
  <2> QED  BY <2>1
<1>5. g[n] \in Int
  BY <1>1 DEF Sums
<1> QED  BY <1>1, <1>2, <1>4, <1>5

\* The remainder that Mod97 has after each character.
Next97(m, c) == (m * (IF c < 10 THEN 10 ELSE 100) + c) % 97
Remainders(g, n, cs) == g \in [0 .. n -> 0 .. 96] /\ g[0] = 0 /\ \A k \in 1 .. n : g[k] = Next97(g[k - 1], cs[k])
\* Mod97 is the last remainder of a digit after the other.
LEMMA Mod97Is ==
  ASSUME NEW n \in Nat, NEW cs \in [1 .. n -> 0 .. 35]
  PROVE  \E g : Remainders(g, n, cs) /\ Mod97(cs) = g[n]
<1> DEFINE F(g) == [k \in 0 .. n |-> IF k = 0 THEN 0 ELSE (g[k - 1] * (IF cs[k] < 10 THEN 10 ELSE 100) + cs[k]) % 97]
           step == [k \in 1 .. n |-> [x \in 0 .. 96 |-> Next97(x, cs[k])]]
<1>0. \A m \in 0 .. 96, c \in 0 .. 35 : Next97(m, c) \in 0 .. 96
  BY DEF Next97
<1>1. step \in [1 .. n -> [0 .. 96 -> 0 .. 96]] /\ \A k \in 1 .. n, x \in 0 .. 96 : step[k][x] = Next97(x, cs[k])
  BY <1>0
<1>2. PICK g : Loop(g, n, 0 .. 96, 0, step)
  <2> HIDE DEF step
  <2>1. PICK S : S = 0 .. 96
    OBVIOUS
  <2>2. PICK base \in S : base = 0
    BY <2>1
  <2>3. PICK s \in [1 .. n -> [S -> S]] : s = step
    BY <1>1, <2>1
  <2>4. \E g : Loop(g, n, S, base, s)
    BY Recursion
  <2> QED  BY <2>1, <2>2, <2>3, <2>4
<1>3. g = F(g)
  <2> HIDE DEF step
  <2>1. \A k \in 1 .. n : k - 1 \in 0 .. n /\ g[k - 1] \in 0 .. 96
    BY <1>2 DEF Loop
  <2>2. \A k \in 1 .. n : g[k] = Next97(g[k - 1], cs[k])
    BY <1>1, <1>2, <2>1 DEF Loop
  <2> QED  BY <1>2, <2>2 DEF Loop, Next97
<1> DEFINE mod == CHOOSE f : f = F(f)
<1>4. mod = F(mod)
  BY <1>3
<1>5. Mod97(cs) = mod[n]
  <2>1. Len(cs) = n
    OBVIOUS
  <2> QED  BY <2>1 DEF Mod97
<1> HIDE DEF mod, step
<1>6. mod[0] = 0 /\ \A k \in 1 .. n : mod[k] = Next97(mod[k - 1], cs[k])
  BY <1>4 DEF Next97
<1> DEFINE Bad == {k \in 0 .. n : mod[k] \notin 0 .. 96}
<1>7. ASSUME Bad # {} PROVE FALSE
  <2>1. PICK k \in Bad : \A y \in Bad : k <= y
    <3>1. Bad \subseteq Nat
      OBVIOUS
    <3> HIDE DEF Bad
    <3> QED  BY <1>7, <3>1, LeastOf
  <2>2. k # 0
    <3>1. 0 \in 0 .. 96
      OBVIOUS
    <3> QED  BY <1>6, <3>1
  <2>3. k \in 1 .. n /\ k - 1 \in 0 .. n /\ k - 1 \notin Bad
    BY <2>1, <2>2
  <2>4. mod[k - 1] \in 0 .. 96 /\ cs[k] \in 0 .. 35 /\ mod[k] = Next97(mod[k - 1], cs[k])
    BY <1>6, <2>3
  <2>5. mod[k] \in 0 .. 96
    BY <1>0, <2>4
  <2> QED  BY <2>1, <2>5
<1>8. Remainders(mod, n, cs)
  BY <1>4, <1>6, <1>7 DEF Remainders
<1> QED  BY <1>5, <1>8

-----------------------------------------------------------------------------
(* The remainders of an IBAN.                                              *)

\* Remainders are the same while the characters are, and once different they stay so.
LEMMA SameStart ==
  ASSUME NEW n \in Nat, NEW cs, NEW ds, NEW g, NEW h, Remainders(g, n, cs), Remainders(h, n, ds),
         NEW q \in 0 .. n, \A k \in 1 .. q : cs[k] = ds[k]
  PROVE  g[q] = h[q]
<1> DEFINE Bad == {k \in 0 .. q : g[k] # h[k]}
<1>1. ASSUME Bad # {} PROVE FALSE
  <2>1. PICK k \in Bad : \A y \in Bad : k <= y
    <3>1. Bad \subseteq Nat
      OBVIOUS
    <3> HIDE DEF Bad
    <3> QED  BY <1>1, <3>1, LeastOf
  <2>2. k # 0
    BY DEF Remainders
  <2>3. k \in 1 .. q /\ k \in 1 .. n /\ k - 1 \in 0 .. q /\ k - 1 \notin Bad
    BY <2>1, <2>2
  <2>4. g[k - 1] = h[k - 1] /\ cs[k] = ds[k]
    BY <2>3
  <2>5. g[k] = Next97(g[k - 1], cs[k]) /\ h[k] = Next97(h[k - 1], ds[k])
    BY <2>3 DEF Remainders
  <2> QED  BY <2>1, <2>4, <2>5
<1>2. q \in 0 .. q /\ q \notin Bad
  BY <1>1
<1> QED  BY <1>2

\* From different remainders, or with different characters, the next remainder differs.
LEMMA NextDiffers ==
  ASSUME NEW m \in 0 .. 96, NEW l \in 0 .. 96, NEW c \in 0 .. 35, m # l
  PROVE  Next97(m, c) # Next97(l, c)
<1>1. CASE c < 10
  BY <1>1 DEF Next97
<1>2. CASE ~(c < 10)
  BY <1>2 DEF Next97
<1> QED  BY <1>1, <1>2

\* Remainders that differ once stay different while the characters are the same.
LEMMA DifferentEnd ==
  ASSUME NEW n \in Nat, NEW cs \in [1 .. n -> 0 .. 35], NEW ds \in [1 .. n -> 0 .. 35],
         NEW g, NEW h, Remainders(g, n, cs), Remainders(h, n, ds),
         NEW q \in 0 .. n, g[q] # h[q], \A k \in q + 1 .. n : cs[k] = ds[k]
  PROVE  g[n] # h[n]
<1> DEFINE Bad == {k \in q .. n : g[k] = h[k]}
<1>1. ASSUME Bad # {} PROVE FALSE
  <2>1. PICK k \in Bad : \A y \in Bad : k <= y
    <3>1. Bad \subseteq Nat
      OBVIOUS
    <3> HIDE DEF Bad
    <3> QED  BY <1>1, <3>1, LeastOf
  <2>2. k # q
    OBVIOUS
  <2>3. k \in q + 1 .. n /\ k \in 1 .. n /\ k - 1 \in q .. n /\ k - 1 \in 0 .. n /\ k - 1 \notin Bad
    BY <2>1, <2>2
  <2>4. g[k - 1] # h[k - 1] /\ cs[k] = ds[k] /\ cs[k] \in 0 .. 35
    BY <2>3
  <2>5. /\ g[k] = Next97(g[k - 1], cs[k]) /\ h[k] = Next97(h[k - 1], ds[k])
        /\ g[k - 1] \in 0 .. 96 /\ h[k - 1] \in 0 .. 96
    BY <2>3 DEF Remainders
  <2> QED  BY <2>1, <2>4, <2>5, NextDiffers
<1>2. n \in q .. n /\ n \notin Bad
  BY <1>1
<1> QED  BY <1>2

\* One digit for another leaves another remainder.
LEMMA DigitDiffers ==
  ASSUME NEW m \in 0 .. 96, NEW c \in 0 .. 9, NEW d \in 0 .. 9, c # d
  PROVE  Next97(m, c) # Next97(m, d)
BY DEF Next97

\* Two characters swapped leave another remainder, unless one is eleven times the other.
LEMMA SwapDiffers ==
  ASSUME NEW m \in 0 .. 96, NEW c \in 0 .. 35, NEW d \in 0 .. 35, ~Alike(c, d)
  PROVE  Next97(Next97(m, c), d) # Next97(Next97(m, d), c)
<1>0. c # d /\ d # 11 * c /\ c # 11 * d
  BY DEF Alike
<1>1. CASE c < 10 /\ d < 10
  <2>1. (((m * 10 + c) % 97) * 10 + d) % 97 # (((m * 10 + d) % 97) * 10 + c) % 97
    BY <1>0, <1>1
  <2> QED  BY <1>1, <2>1 DEF Next97
<1>2. CASE ~(c < 10) /\ ~(d < 10)
  <2>1. (((m * 100 + c) % 97) * 100 + d) % 97 # (((m * 100 + d) % 97) * 100 + c) % 97
    BY <1>0, <1>2
  <2> QED  BY <1>2, <2>1 DEF Next97
<1>3. CASE c < 10 /\ ~(d < 10)
  <2>1. (((m * 10 + c) % 97) * 100 + d) % 97 # (((m * 100 + d) % 97) * 10 + c) % 97
    BY <1>0, <1>3
  <2> QED  BY <1>3, <2>1 DEF Next97
<1>4. CASE ~(c < 10) /\ d < 10
  <2>1. (((m * 100 + c) % 97) * 10 + d) % 97 # (((m * 10 + d) % 97) * 100 + c) % 97
    BY <1>0, <1>4
  <2> QED  BY <1>4, <2>1 DEF Next97
<1> QED  BY <1>1, <1>2, <1>3, <1>4

\* What is summed of an IBAN: its first four characters at the end.
Turned(cs) == SubSeq(cs, 5, Len(cs)) \o SubSeq(cs, 1, 4)
\* What Mod97 reads of an IBAN: the first four characters last.
LEMMA TurnedIs ==
  ASSUME NEW S, NEW cs \in Seq(S), Len(cs) >= 5
  PROVE  /\ Turned(cs) \in [1 .. Len(cs) -> S]
         /\ \A k \in 1 .. Len(cs) : Turned(cs)[k] = IF k <= Len(cs) - 4 THEN cs[k + 4] ELSE cs[k - (Len(cs) - 4)]
<1> DEFINE a == SubSeq(cs, 5, Len(cs))   b == SubSeq(cs, 1, 4)   n == Len(cs)
<1>1. n \in Nat /\ DOMAIN cs = 1 .. n /\ n >= 5
  OBVIOUS
<1>2. a \in Seq(S) /\ Len(a) = n - 4 /\ \A k \in 1 .. n - 4 : a[k] = cs[k + 4]
  BY <1>1
<1>3. b \in Seq(S) /\ Len(b) = 4 /\ \A k \in 1 .. 4 : b[k] = cs[k]
  BY <1>1
<1> HIDE DEF a, b
<1>4. /\ a \o b \in Seq(S) /\ Len(a \o b) = n
      /\ \A k \in 1 .. n : (a \o b)[k] = IF k <= n - 4 THEN a[k] ELSE b[k - (n - 4)]
  <2>1. /\ a \o b \in Seq(S) /\ Len(a \o b) = Len(a) + Len(b)
        /\ \A i \in 1 .. Len(a) + Len(b) : (a \o b)[i] = IF i <= Len(a) THEN a[i] ELSE b[i - Len(a)]
    BY <1>2, <1>3, ConcatProperties
  <2>2. Len(a) + Len(b) = n
    BY <1>1, <1>2, <1>3
  <2> QED  BY <1>2, <2>1, <2>2
<1>5. a \o b \in [1 .. n -> S]
  BY <1>1, <1>4, LenProperties
<1>6. \A k \in 1 .. n : (a \o b)[k] = IF k <= n - 4 THEN cs[k + 4] ELSE cs[k - (n - 4)]
  <2> TAKE k \in 1 .. n
  <2>1. CASE k <= n - 4
    BY <1>1, <1>2, <1>4, <2>1
  <2>2. CASE ~(k <= n - 4)
    <3>1. k - (n - 4) \in 1 .. 4
      BY <1>1, <2>2
    <3> QED  BY <1>1, <1>3, <1>4, <2>2, <3>1
  <2> QED  BY <2>1, <2>2
<1> QED  BY <1>5, <1>6 DEF Turned, a, b

\* A term of another digit makes another last digit of the sum.
LEMMA OtherDigit ==
  ASSUME NEW s \in Int, NEW t \in Int, NEW c \in 0 .. 9, NEW d \in 0 .. 9, c # d, s % 10 = 0,
         \/ t = s + (LuhnTerm(d) - LuhnTerm(c))
         \/ \E w \in {1, 3, 7} : t = s + (d * w - c * w)
  PROVE  t % 10 # 0
<1>1. CASE t = s + (LuhnTerm(d) - LuhnTerm(c))
  BY <1>1 DEF LuhnTerm
<1>2. ASSUME NEW w \in {1, 3, 7}, t = s + (d * w - c * w) PROVE t % 10 # 0
  <2>1. CASE w = 1
    BY <1>2, <2>1
  <2>2. CASE w = 3
    BY <1>2, <2>2
  <2>3. CASE w = 7
    BY <1>2, <2>3
  <2> QED  BY <2>1, <2>2, <2>3
<1> QED  BY <1>1, <1>2

\* validate_luhn: one wrong digit is noticed.
LEMMA LuhnTypo ==
  ASSUME NEW ds \in Seq(0 .. 9), Luhn(ds), NEW p \in DOMAIN ds, NEW x \in 0 .. 9, x # ds[p]
  PROVE  ~Luhn([ds EXCEPT ![p] = x])
<1> DEFINE n == Len(ds)
           es == [ds EXCEPT ![p] = x]
           Terms(d) == [i \in DOMAIN d |-> IF (Len(d) - i) % 2 = 1 THEN LuhnTerm(d[i]) ELSE d[i]]
<1>1. /\ n \in Nat /\ DOMAIN ds = 1 .. n /\ ds[p] \in 0 .. 9
      /\ es \in Seq(0 .. 9) /\ Len(es) = n /\ DOMAIN es = 1 .. n
      /\ es[p] = x /\ \A k \in 1 .. n : k # p => es[k] = ds[k]
  OBVIOUS
<1>2. \A d \in 0 .. 9 : LuhnTerm(d) \in Int
  BY DEF LuhnTerm
<1>3. Terms(ds) \in [1 .. n -> Int] /\ Terms(es) \in [1 .. n -> Int]
  <2>1. ASSUME NEW d, d \in Seq(0 .. 9), Len(d) = n PROVE Terms(d) \in [1 .. n -> Int]
    <3>1. DOMAIN d = 1 .. n /\ \A i \in 1 .. n : d[i] \in 0 .. 9 /\ LuhnTerm(d[i]) \in Int
      <4>1. \A i \in 1 .. Len(d) : d[i] \in 0 .. 9
        BY <2>1, ElementOfSeq
      <4>2. DOMAIN d = 1 .. Len(d)
        BY <2>1
      <4> QED  BY <1>2, <2>1, <4>1, <4>2
    <3>2. \A i \in 1 .. n : (IF (Len(d) - i) % 2 = 1 THEN LuhnTerm(d[i]) ELSE d[i]) \in Int
      BY <3>1
    <3> QED  BY <3>1, <3>2
  <2> QED  BY <1>1, <2>1
<1>4. \A k \in 1 .. n : k # p => Terms(es)[k] = Terms(ds)[k]
  BY <1>1
<1>5. /\ Terms(ds)[p] = (IF (n - p) % 2 = 1 THEN LuhnTerm(ds[p]) ELSE ds[p])
      /\ Terms(es)[p] = (IF (n - p) % 2 = 1 THEN LuhnTerm(x) ELSE x)
  BY <1>1
<1>6. (Luhn(ds) => Total(Terms(ds)) % 10 = 0) /\ (Luhn(es) => Total(Terms(es)) % 10 = 0)
  BY DEF Luhn
<1> HIDE DEF Terms, es
<1>7. PICK s, t : s = Terms(ds) /\ t = Terms(es)
  OBVIOUS
<1>8. Total(s) \in Int /\ Total(t) = Total(s) + (t[p] - s[p])
  BY <1>1, <1>3, <1>4, <1>7, OneTermChanged
<1>9. Total(t) % 10 # 0
  <2>1. Total(s) % 10 = 0 /\ Total(t) \in Int /\ Total(s) \in Int
    <3>1. s[p] \in Int /\ t[p] \in Int
      BY <1>1, <1>3, <1>7
    <3> QED  BY <1>6, <1>7, <1>8, <3>1
  <2>2. CASE (n - p) % 2 = 1
    <3>1. Total(t) = Total(s) + (LuhnTerm(x) - LuhnTerm(ds[p]))
      BY <1>5, <1>7, <1>8, <2>2
    <3> QED  BY <1>1, <2>1, <3>1, OtherDigit
  <2>3. CASE (n - p) % 2 # 1
    <3>1. Total(t) = Total(s) + (x * 1 - ds[p] * 1)
      BY <1>1, <1>5, <1>7, <1>8, <2>3
    <3> QED  BY <1>1, <2>1, <3>1, OtherDigit
  <2> QED  BY <2>2, <2>3
<1> QED  BY <1>6, <1>7, <1>9 DEF es

\* validate_aba_checksum: one wrong digit is noticed, since 10 is prime to the weights.
LEMMA AbaTypo ==
  ASSUME NEW ds \in Seq(0 .. 9), AbaChecksum(ds), NEW p \in DOMAIN ds, NEW x \in 0 .. 9, x # ds[p]
  PROVE  ~AbaChecksum([ds EXCEPT ![p] = x])
<1> DEFINE es == [ds EXCEPT ![p] = x]
           Terms(d) == [i \in 1 .. 9 |-> d[i] * AbaWeights[i]]
<1>0. Len(ds) = 9
  BY DEF AbaChecksum
<1>1. /\ DOMAIN ds = 1 .. 9 /\ ds[p] \in 0 .. 9 /\ p \in 1 .. 9
      /\ es \in Seq(0 .. 9) /\ Len(es) = 9 /\ DOMAIN es = 1 .. 9
      /\ es[p] = x /\ \A k \in 1 .. 9 : k # p => es[k] = ds[k]
  <2>1. /\ DOMAIN ds = 1 .. Len(ds) /\ ds[p] \in 0 .. 9
        /\ es \in Seq(0 .. 9) /\ Len(es) = Len(ds) /\ DOMAIN es = 1 .. Len(ds)
        /\ es[p] = x /\ \A k \in 1 .. Len(ds) : k # p => es[k] = ds[k]
    OBVIOUS
  <2> HIDE DEF es
  <2> QED  BY <1>0, <2>1
<1>2. \A k \in 1 .. 9 : AbaWeights[k] \in {1, 3, 7}
  BY DEF AbaWeights
<1>3. Terms(ds) \in [1 .. 9 -> Int] /\ Terms(es) \in [1 .. 9 -> Int]
  <2>1. ASSUME NEW d, d \in Seq(0 .. 9), Len(d) = 9 PROVE Terms(d) \in [1 .. 9 -> Int]
    <3>1. ASSUME NEW k \in 1 .. 9 PROVE d[k] * AbaWeights[k] \in Int
      <4>1. PICK c \in 0 .. 9 : c = d[k]
        BY <2>1, ElementOfSeq
      <4>2. PICK w \in {1, 3, 7} : w = AbaWeights[k]
        BY <1>2
      <4>3. c * w \in Int
        OBVIOUS
      <4> QED  BY <4>1, <4>2, <4>3
    <3> QED  BY <3>1
  <2> QED  BY <1>1, <2>1 DEF AbaChecksum
<1>4. \A k \in 1 .. 9 : k # p => Terms(es)[k] = Terms(ds)[k]
  BY <1>1
<1>5. Terms(ds)[p] = ds[p] * AbaWeights[p] /\ Terms(es)[p] = x * AbaWeights[p]
  BY <1>1
<1>6. (AbaChecksum(ds) => Total(Terms(ds)) % 10 = 0) /\ (AbaChecksum(es) => Total(Terms(es)) % 10 = 0)
  BY DEF AbaChecksum
<1> HIDE DEF Terms, es
<1>7. PICK s, t : s = Terms(ds) /\ t = Terms(es)
  OBVIOUS
<1>8. Total(s) \in Int /\ Total(t) = Total(s) + (t[p] - s[p])
  <2>1. PICK n \in Nat : n = 9
    OBVIOUS
  <2> QED  BY <1>1, <1>3, <1>4, <1>7, <2>1, OneTermChanged
<1>9. Total(t) % 10 # 0
  <2>1. PICK w \in {1, 3, 7} : w = AbaWeights[p]
    BY <1>1, <1>2
  <2>2. Total(s) % 10 = 0 /\ s[p] = ds[p] * w /\ t[p] = x * w
    BY <1>5, <1>6, <1>7, <2>1
  <2>3. s[p] \in Int /\ t[p] \in Int
    BY <1>1, <1>3, <1>7
  <2>4. Total(t) = Total(s) + (x * w - ds[p] * w) /\ Total(t) \in Int
    BY <1>8, <2>2, <2>3
  <2> QED  BY <1>1, <1>8, <2>2, <2>4, OtherDigit
<1> QED  BY <1>6, <1>7, <1>9 DEF es

\* Another digit in one place changes the remainder.
LEMMA OneCharacter ==
  ASSUME NEW n \in Nat, NEW cs \in [1 .. n -> 0 .. 35], NEW ds \in [1 .. n -> 0 .. 35], NEW q \in 1 .. n,
         cs[q] \in 0 .. 9, ds[q] \in 0 .. 9, cs[q] # ds[q], \A k \in 1 .. n : k # q => ds[k] = cs[k]
  PROVE  Mod97(cs) # Mod97(ds)
<1>1. PICK g : Remainders(g, n, cs) /\ Mod97(cs) = g[n]
  BY Mod97Is
<1>2. PICK h : Remainders(h, n, ds) /\ Mod97(ds) = h[n]
  BY Mod97Is
<1>3. g[q - 1] = h[q - 1] /\ g[q - 1] \in 0 .. 96
  <2>1. q - 1 \in 0 .. n /\ \A k \in 1 .. q - 1 : cs[k] = ds[k]
    OBVIOUS
  <2>2. PICK p \in 0 .. n : p = q - 1
    BY <2>1
  <2>3. g[p] = h[p]
    BY <1>1, <1>2, <2>1, <2>2, SameStart
  <2> QED  BY <1>1, <2>2, <2>3 DEF Remainders
<1>4. g[q] # h[q]
  <2>1. g[q] = Next97(g[q - 1], cs[q]) /\ h[q] = Next97(h[q - 1], ds[q])
    BY <1>1, <1>2 DEF Remainders
  <2> QED  BY <1>3, <2>1, DigitDiffers
<1>5. PICK p \in 0 .. n : p = q
  OBVIOUS
<1>6. g[p] # h[p] /\ \A k \in p + 1 .. n : cs[k] = ds[k]
  BY <1>4, <1>5
<1>7. g[n] # h[n]
  BY <1>1, <1>2, <1>6, DifferentEnd
<1> QED  BY <1>1, <1>2, <1>7

\* Neighbours have changed places.
Swapped(n, cs, ds, q, p) ==
  p = q + 1 /\ ds[q] = cs[p] /\ ds[p] = cs[q] /\ \A k \in 1 .. n : k # q /\ k # p => ds[k] = cs[k]
\* Two characters swapped change the remainder, unless they are Alike.
LEMMA TwoCharacters ==
  ASSUME NEW n \in Nat, NEW cs \in [1 .. n -> 0 .. 35], NEW ds \in [1 .. n -> 0 .. 35], NEW q \in 1 .. n,
         NEW p \in 1 .. n, Swapped(n, cs, ds, q, p), ~Alike(cs[q], cs[p])
  PROVE  Mod97(cs) # Mod97(ds)
<1>0. p = q + 1 /\ ds[q] = cs[p] /\ ds[p] = cs[q] /\ \A k \in 1 .. n : k # q /\ k # p => ds[k] = cs[k]
  BY DEF Swapped
<1>1. PICK g : Remainders(g, n, cs) /\ Mod97(cs) = g[n]
  BY Mod97Is
<1>2. PICK h : Remainders(h, n, ds) /\ Mod97(ds) = h[n]
  BY Mod97Is
<1>3. g[q - 1] = h[q - 1] /\ g[q - 1] \in 0 .. 96
  <2>1. q - 1 \in 0 .. n /\ \A k \in 1 .. q - 1 : cs[k] = ds[k]
    BY <1>0
  <2>2. PICK o \in 0 .. n : o = q - 1
    BY <2>1
  <2>3. g[o] = h[o]
    BY <1>1, <1>2, <2>1, <2>2, SameStart
  <2> QED  BY <1>1, <2>2, <2>3 DEF Remainders
<1>4. p \in 0 .. n
  BY <1>0
<1>5. g[p] # h[p]
  <2>1. q \in 1 .. n /\ p \in 1 .. n /\ p - 1 = q
    BY <1>0, <1>4
  <2>2. /\ g[q] = Next97(g[q - 1], cs[q]) /\ h[q] = Next97(g[q - 1], cs[p])
        /\ g[p] = Next97(g[q], cs[p]) /\ h[p] = Next97(h[q], cs[q])
    BY <1>0, <1>1, <1>2, <1>3, <1>4, <2>1 DEF Remainders
  <2>3. cs[q] \in 0 .. 35 /\ cs[p] \in 0 .. 35 /\ ~Alike(cs[q], cs[p])
    BY <1>0, <1>4, <2>1
  <2>4. PICK m \in 0 .. 96 : m = g[q - 1]
    BY <1>3
  <2>5. PICK c \in 0 .. 35, d \in 0 .. 35 : c = cs[q] /\ d = cs[p]
    BY <2>3
  <2>6. Next97(Next97(m, c), d) # Next97(Next97(m, d), c)
    BY <2>3, <2>5, SwapDiffers
  <2> QED  BY <2>2, <2>4, <2>5, <2>6
<1>6. \A k \in p + 1 .. n : cs[k] = ds[k]
  BY <1>0, <1>4
<1>7. g[n] # h[n]
  BY <1>1, <1>2, <1>4, <1>5, <1>6, DifferentEnd
<1> QED  BY <1>1, <1>2, <1>7

\* validate_iban_mod97: one wrong digit is noticed.
LEMMA IbanTypo ==
  ASSUME NEW cs \in Seq(0 .. 35), IbanMod97(cs), NEW p \in DOMAIN cs, NEW x \in 0 .. 9,
         cs[p] \in 0 .. 9, x # cs[p]
  PROVE  ~IbanMod97([cs EXCEPT ![p] = x])
<1> DEFINE n == Len(cs)   ds == [cs EXCEPT ![p] = x]
<1>1. /\ n \in Nat /\ DOMAIN cs = 1 .. n /\ p \in 1 .. n
      /\ ds \in Seq(0 .. 35) /\ Len(ds) = n
      /\ ds[p] = x /\ \A k \in 1 .. n : k # p => ds[k] = cs[k]
  OBVIOUS
<1>2. n >= 5 /\ (\A i \in 1 .. 2 : cs[i] >= 10) /\ Mod97(Turned(cs)) = 1
  <2>1. n \in 5 .. 34 /\ \A i \in 1 .. 2 : cs[i] >= 10
    BY DEF IbanMod97
  <2>2. Mod97(Turned(cs)) = 1
    BY DEF IbanMod97, Turned
  <2>3. n >= 5
    BY <1>1, <2>1
  <2> QED  BY <2>1, <2>2, <2>3
<1>3. IbanMod97(ds) => Mod97(Turned(ds)) = 1
  BY DEF IbanMod97, Turned
<1> HIDE DEF n, ds
<1>4. p \notin 1 .. 2
  BY <1>2
<1>5. PICK r, s : r = Turned(cs) /\ s = Turned(ds)
  OBVIOUS
<1>6. /\ r \in [1 .. n -> 0 .. 35]
      /\ \A k \in 1 .. n : r[k] = IF k <= n - 4 THEN cs[k + 4] ELSE cs[k - (n - 4)]
  BY <1>2, <1>5, TurnedIs DEF n
<1>7. /\ s \in [1 .. n -> 0 .. 35]
      /\ \A k \in 1 .. n : s[k] = IF k <= n - 4 THEN ds[k + 4] ELSE ds[k - (n - 4)]
  <2>1. Len(ds) >= 5
    BY <1>1, <1>2
  <2> QED  BY <1>1, <1>5, <2>1, TurnedIs
<1>8. PICK q \in 1 .. n : q = IF p >= 5 THEN p - 4 ELSE p + (n - 4)
  BY <1>1, <1>2
<1>9. r[q] = cs[p] /\ s[q] = x
  <2>1. CASE p >= 5
    BY <1>1, <1>2, <1>6, <1>7, <1>8, <2>1
  <2>2. CASE ~(p >= 5)
    BY <1>1, <1>2, <1>6, <1>7, <1>8, <2>2
  <2> QED  BY <2>1, <2>2
<1>10. ASSUME NEW k \in 1 .. n, k # q PROVE s[k] = r[k]
  <2>1. CASE k <= n - 4
    <3>1. k + 4 \in 1 .. n /\ k + 4 # p
      BY <1>1, <1>2, <1>8, <1>10, <2>1
    <3> QED  BY <1>1, <1>6, <1>7, <2>1, <3>1
  <2>2. CASE ~(k <= n - 4)
    <3>1. k - (n - 4) \in 1 .. n /\ k - (n - 4) # p
      BY <1>1, <1>2, <1>8, <1>10, <2>2
    <3> QED  BY <1>1, <1>6, <1>7, <2>2, <3>1
  <2> QED  BY <2>1, <2>2
<1>11. Mod97(r) # Mod97(s)
  BY <1>1, <1>6, <1>7, <1>9, <1>10, OneCharacter
<1> QED  BY <1>2, <1>3, <1>5, <1>11 DEF ds

\* validate_iban_mod97: two neighbours swapped are noticed.
LEMMA IbanSwap ==
  ASSUME NEW cs \in Seq(0 .. 35), IbanMod97(cs), NEW p \in 5 .. Len(cs) - 1, ~Alike(cs[p], cs[p + 1]),
         NEW ds \in Seq(0 .. 35), Len(ds) = Len(cs), ds[p] = cs[p + 1], ds[p + 1] = cs[p],
         \A k \in 1 .. Len(cs) : k # p /\ k # p + 1 => ds[k] = cs[k]
  PROVE  ~IbanMod97(ds)
<1> DEFINE n == Len(cs)
<1>1. n \in Nat /\ n >= 5 /\ p \in 5 .. n - 1
  OBVIOUS
<1>2. Mod97(Turned(cs)) = 1
  BY DEF IbanMod97, Turned
<1>3. IbanMod97(ds) => Mod97(Turned(ds)) = 1
  BY DEF IbanMod97, Turned
<1>4. PICK r, s : r = Turned(cs) /\ s = Turned(ds)
  OBVIOUS
<1>5. /\ r \in [1 .. n -> 0 .. 35]
      /\ \A k \in 1 .. n : r[k] = IF k <= n - 4 THEN cs[k + 4] ELSE cs[k - (n - 4)]
  BY <1>1, <1>4, TurnedIs
<1>6. /\ s \in [1 .. n -> 0 .. 35]
      /\ \A k \in 1 .. n : s[k] = IF k <= n - 4 THEN ds[k + 4] ELSE ds[k - (n - 4)]
  <2>1. Len(ds) >= 5
    BY <1>1
  <2> QED  BY <1>1, <1>4, <2>1, TurnedIs
<1> HIDE DEF n
<1>7. PICK q \in 1 .. n - 1 : q = p - 4
  BY <1>1
<1>8. r[q] = cs[p] /\ r[q + 1] = cs[p + 1] /\ s[q] = ds[p] /\ s[q + 1] = ds[p + 1]
  BY <1>1, <1>5, <1>6, <1>7
<1>9. ASSUME NEW k \in 1 .. n, k # q, k # q + 1 PROVE s[k] = r[k]
  <2>1. CASE k <= n - 4
    <3>1. k + 4 \in 1 .. n /\ k + 4 # p /\ k + 4 # p + 1
      BY <1>1, <1>7, <1>9, <2>1
    <3> QED  BY <1>5, <1>6, <2>1, <3>1 DEF n
  <2>2. CASE ~(k <= n - 4)
    <3>1. PICK l \in 1 .. n : l = k - (n - 4) /\ l # p /\ l # p + 1
      BY <1>1, <2>2
    <3>2. ds[l] = cs[l]
      BY <3>1 DEF n
    <3> QED  BY <1>5, <1>6, <2>2, <3>1, <3>2
  <2> QED  BY <2>1, <2>2
<1>10. Mod97(r) # Mod97(s)
  <2>1. PICK o \in 1 .. n : o = q + 1
    BY <1>1
  <2>2. s[q] = r[o] /\ s[o] = r[q] /\ ~Alike(r[q], r[o]) /\ q \in 1 .. n
    BY <1>1, <1>8, <2>1
  <2>3. Swapped(n, r, s, q, o)
    BY <1>9, <2>1, <2>2 DEF Swapped
  <2>4. n \in Nat /\ r \in [1 .. n -> 0 .. 35] /\ s \in [1 .. n -> 0 .. 35]
    BY <1>1, <1>5, <1>6
  <2> QED  BY <2>2, <2>3, <2>4, TwoCharacters
<1> QED  BY <1>2, <1>3, <1>4, <1>10

-----------------------------------------------------------------------------
(* What was detected and answered.                                         *)

\* What the analyzers find that do not read the index of fingerprints.
Fixed(a, c) ==
  CASE a.kind = "identifiers" -> DataIdentifierMatches(a.looks, c.text)
    [] a.kind = "regex" -> RegexMatches(a.looks, c.text)
    [] a.kind = "keywords" -> {<<"word", m>> : m \in KeywordMatches(a.looks, c.text)}
                              \cup {<<"near", m>> : m \in ProximityMatches(a.looks, c.text)}
    [] a.kind = "filetypes" -> FileTypeMatches(a.looks, c)
Steady(a) == a.kind \in {"identifiers", "regex", "keywords", "filetypes"}
Matched(a, message) ==
  IF a.raises THEN {}
  ELSE UNION {{<<i, m>> : m \in Fixed(a, message[i])} : i \in {j \in DOMAIN message : Targeted(a, message[j])}}
\* The result of an engine with one of them.
Single(engine, message) == [matches |-> <<Matched(engine[1], message)>>, errors |-> {}]

\* The analyzers other than fingerprints do not read the library.
LEMMA SteadyAnalyzed ==
  ASSUME NEW a, NEW c, Steady(a)
  PROVE  Analyzed(a, c) = Fixed(a, c)
<1>1. CASE a.kind = "identifiers"
  BY <1>1 DEF Analyzed, Fixed
<1>2. CASE a.kind = "regex"
  BY <1>2 DEF Analyzed, Fixed
<1>3. CASE a.kind = "keywords"
  BY <1>3 DEF Analyzed, Fixed
<1>4. CASE a.kind = "filetypes"
  BY <1>4 DEF Analyzed, Fixed
<1> QED  BY <1>1, <1>2, <1>3, <1>4 DEF Steady

\* The engine has a place for every analyzer, and what each but fingerprints finds is fixed.
LEMMA DetectFacts ==
  ASSUME NEW analyzers, NEW message
  PROVE  /\ Detect(analyzers, message).errors \subseteq DOMAIN Detect(analyzers, message).matches
         /\ DOMAIN Detect(analyzers, message).matches = DOMAIN analyzers
         /\ \A k \in DOMAIN analyzers : Steady(analyzers[k]) =>
               Detect(analyzers, message).matches[k] = Matched(analyzers[k], message)
<1>1. /\ Detect(analyzers, message).errors \subseteq DOMAIN Detect(analyzers, message).matches
      /\ DOMAIN Detect(analyzers, message).matches = DOMAIN analyzers
  BY DEF Detect
<1>2. ASSUME NEW k \in DOMAIN analyzers, Steady(analyzers[k])
      PROVE  Detect(analyzers, message).matches[k] = Matched(analyzers[k], message)
  <2>1. \A c : Analyzed(analyzers[k], c) = Fixed(analyzers[k], c)
    BY <1>2, SteadyAnalyzed
  <2>2. Detect(analyzers, message).matches[k] =
           IF analyzers[k].raises THEN {}
           ELSE UNION {{<<i, m>> : m \in Analyzed(analyzers[k], message[i])} :
                         i \in {j \in DOMAIN message : Targeted(analyzers[k], message[j])}}
    BY DEF Detect
  <2> QED  BY <2>1, <2>2 DEF Matched
<1> QED  BY <1>1, <1>2

\* An engine with one analyzer of identifiers.
LEMMA SingleFacts ==
  ASSUME NEW looks, NEW engine, NEW message,
         engine = <<[kind |-> "identifiers", looks |-> looks, targets |-> {}, raises |-> FALSE]>>
  PROVE  Detect(engine, message) = Single(engine, message)
<1>1. DOMAIN engine = 1 .. 1 /\ engine[1].kind = "identifiers" /\ engine[1].raises = FALSE
  OBVIOUS
<1> HIDE DEF Single
<1>2. Detect(engine, message).errors = {}
  BY <1>1 DEF Detect
<1>3. Detect(engine, message).matches = [k \in 1 .. 1 |-> Matched(engine[1], message)]
  <2>1. PICK f : f = Detect(engine, message).matches
    OBVIOUS
  <2>2. f = [k \in DOMAIN engine |-> f[k]]
    BY <2>1 DEF Detect
  <2>3. 1 \in DOMAIN engine /\ Steady(engine[1])
    BY <1>1 DEF Steady
  <2>4. f[1] = Matched(engine[1], message)
    BY <2>1, <2>3, DetectFacts
  <2>5. \A k \in 1 .. 1 : f[k] = Matched(engine[1], message)
    BY <2>4
  <2> QED  BY <1>1, <2>1, <2>2, <2>5
<1>4. <<Matched(engine[1], message)>> = [k \in 1 .. 1 |-> Matched(engine[1], message)]
  <2>1. PICK x : x = Matched(engine[1], message)
    OBVIOUS
  <2>2. <<x>> = [k \in 1 .. 1 |-> x]
    OBVIOUS
  <2> QED  BY <2>1, <2>2
<1>5. Detect(engine, message) = [matches |-> Detect(engine, message).matches, errors |-> Detect(engine, message).errors]
  BY DEF Detect
<1> QED  BY <1>2, <1>3, <1>4, <1>5 DEF Single

\* The engines of the gateways, of the gRPC server and of the API have one analyzer.
LEMMA Engines ==
  ASSUME NEW message
  PROVE  /\ Detect(GatewayEngine, message) = Single(GatewayEngine, message)
         /\ Detect(ServerEngine, message) = Single(ServerEngine, message)
         /\ Detect(ApiEngine, message) = Single(ApiEngine, message)
BY SingleFacts, EngineAssumption DEF ServerEngine, ApiEngine, Analyzer

\* What the request r has come to: only those of the executor wait, what has ended there is
\* what the engine finds, and what is done was detected and answered as the handlers say.
Verdict(res) == IF MatchCount(res) > 0 THEN "block" ELSE "allow"
Report(res) == IF MatchCount(res) > 0 THEN "matches" ELSE "clean"
Unread(r) == r.file[1].format = "large" \/ Inspect[r.file[1]].raised
GatewayResult(r) == IF Inspected(r) THEN Single(GatewayEngine, Uploaded(r)) ELSE NoResult
Right(r, s, res, a) ==
  /\ s \in {"queued", "running", "abandoned", "finished"} => r.via = "grpc"
  /\ res.errors \subseteq DOMAIN res.matches
  /\ res # NoResult => s \in {"finished", "done"}
  /\ s = "finished" => res = Single(ServerEngine, Submitted(r))
  /\ s = "abandoned" => a = IF r.fallback \in {"allow", "block"} THEN r.fallback ELSE "log"
  /\ s = "done" /\ r.via = "engine" =>
       /\ DOMAIN res.matches = DOMAIN r.analyzers
       /\ \A k \in DOMAIN r.analyzers : Steady(r.analyzers[k]) => res.matches[k] = Matched(r.analyzers[k], r.message)
  /\ s = "done" /\ r.via = "http" => (a = "403" <=> Blocked(r, MatchCount(GatewayResult(r))))
  /\ s = "done" /\ r.via = "grpc" => res = NoResult \/ (res = Single(ServerEngine, Submitted(r)) /\ a = Verdict(res))
  /\ s = "done" /\ r.via = "api" /\ r.file # << >> =>
       \/ res = NoResult
       \/ /\ ~Unread(r) /\ res = Single(ApiEngine, Inspect[r.file[1]].components)
          /\ a = IF Inspect[r.file[1]].components = << >> THEN "nothing" ELSE Report(res)
Results == \A i \in Requests : Right(requests[i], state[i], result[i], answer[i])

\* A step of one request that gets it right keeps all right.
LEMMA OneChanges ==
  ASSUME Jobs, Results, requests' = requests, NEW i \in Requests,
         \A j \in Requests : j # i => state'[j] = state[j] /\ result'[j] = result[j] /\ answer'[j] = answer[j],
         NEW s, NEW res, NEW a, state'[i] = s, result'[i] = res, answer'[i] = a, Right(requests[i], s, res, a)
  PROVE  Results'
<1>1. Requests' = Requests
  BY DEF Requests
<1>2. ASSUME NEW j \in Requests PROVE Right(requests[j], state[j], result[j], answer[j])'
  <2>1. CASE j = i
    BY <2>1
  <2>2. CASE j # i
    BY <2>2 DEF Results
  <2> QED  BY <2>1, <2>2
<1> QED  BY <1>1, <1>2 DEF Results

\* The requests that an action leaves alone.
LEMMA OthersStay ==
  ASSUME Jobs, NEW i \in Requests, NEW s, state' = [state EXCEPT ![i] = s],
         \/ result' = result \/ \E r : result' = [result EXCEPT ![i] = r],
         \/ answer' = answer \/ \E a : answer' = [answer EXCEPT ![i] = a]
  PROVE  /\ state'[i] = s
         /\ \A j \in Requests : j # i => state'[j] = state[j] /\ result'[j] = result[j] /\ answer'[j] = answer[j]
         /\ \A r : result' = [result EXCEPT ![i] = r] => result'[i] = r
         /\ \A a : answer' = [answer EXCEPT ![i] = a] => answer'[i] = a
BY DEF Jobs

\* Every step keeps what is known of results and answers.
LEMMA ResultsStep ==
  ASSUME Jobs, Results, [Next]_vars
  PROVE  Results'
<1>1. CASE UNCHANGED jobs
  <2>1. requests' = requests /\ state' = state /\ result' = result /\ answer' = answer /\ Requests' = Requests
    BY <1>1 DEF jobs, Requests
  <2> SUFFICES ASSUME NEW i \in Requests PROVE Right(requests[i], state[i], result[i], answer[i])'
    BY <2>1 DEF Results
  <2> QED  BY <2>1 DEF Results
<1>2. ASSUME NEW i \in Requests,
             \/ Arrive(i) \/ Submit(i) \/ Start(i) \/ Finish(i) \/ Reply(i) \/ TimeOut(i)
             \/ DetectText(i) \/ DetectFile(i) \/ Analyze(i) \/ Mail(i) \/ Request(i)
      PROVE  Results'
  <2>0. requests' = requests /\ Right(requests[i], state[i], result[i], answer[i])
    BY <1>2 DEF Results, Arrive, Submit, Start, Finish, Reply, TimeOut, DetectText, DetectFile, Analyze, Mail, Request
  <2>1. PICK s : state' = [state EXCEPT ![i] = s]
    BY <1>2 DEF Arrive, Submit, Start, Finish, Reply, TimeOut, DetectText, DetectFile, Analyze, Mail, Request, Ended, Becomes
  <2>2. /\ result' = result \/ \E r : result' = [result EXCEPT ![i] = r]
        /\ answer' = answer \/ \E a : answer' = [answer EXCEPT ![i] = a]
    BY <1>2 DEF Arrive, Submit, Start, Finish, Reply, TimeOut, DetectText, DetectFile, Analyze, Mail, Request, Ended, Answer
  <2>3. /\ state'[i] = s
        /\ \A j \in Requests : j # i => state'[j] = state[j] /\ result'[j] = result[j] /\ answer'[j] = answer[j]
        /\ \A r : result' = [result EXCEPT ![i] = r] => result'[i] = r
        /\ \A a : answer' = [answer EXCEPT ![i] = a] => answer'[i] = a
    BY <2>1, <2>2, OthersStay
  <2>4. PICK r : r = requests[i]
    OBVIOUS
  <2>5. PICK res, a : res = result'[i] /\ a = answer'[i]
    OBVIOUS
  <2>6. state[i] \notin {"finished", "done"} => result[i] = NoResult
    BY <2>0 DEF Right
  <2> SUFFICES Right(r, s, res, a)
    BY <2>0, <2>3, <2>4, <2>5, OneChanges
  <2>16. \A x : state' = [state EXCEPT ![i] = x] => s = x
    <3>1. ASSUME NEW x, state' = [state EXCEPT ![i] = x] PROVE state'[i] = x
      BY <3>1 DEF Jobs
    <3> QED  BY <2>3, <3>1
  <2>17. NoResult.errors \subseteq DOMAIN NoResult.matches
    BY DEF NoResult
  <2>18. result' = result => res = result[i]
    BY <2>5
  <2>19. answer' = answer => a = answer[i]
    BY <2>5
  <2>7. CASE Submit(i)
    <3>1. r.via = "grpc" /\ res = NoResult
      BY <2>4, <2>6, <2>7, <2>18 DEF Submit, Is
    <3>2. s \in {"done", "queued"}
      BY <2>7, <2>16 DEF Submit, Becomes
    <3> QED  BY <2>17, <3>1, <3>2 DEF Right
  <2>8. CASE Start(i)
    <3>1. r.via = "grpc" /\ res = NoResult
      BY <2>4, <2>6, <2>8, <2>18 DEF Start, Is
    <3>2. s = "running"
      BY <2>8, <2>16 DEF Start, Becomes
    <3> QED  BY <2>17, <3>1, <3>2 DEF Right
  <2>9. CASE Finish(i)
    <3>1. r.via = "grpc" /\ state[i] \in {"running", "abandoned"}
      BY <2>0, <2>4, <2>9 DEF Finish, Busy, Right
    <3>2. CASE state[i] = "abandoned"
      <4>1. res = NoResult /\ s = "done"
        BY <2>6, <2>9, <2>16, <2>18, <3>1, <3>2 DEF Finish, Becomes
      <4> QED  BY <2>17, <3>1, <4>1 DEF Right
    <3>3. CASE state[i] # "abandoned"
      <4>1. PICK d : d = Detect(ServerEngine, Submitted(r))
        OBVIOUS
      <4>2. s = "finished" /\ res = d
        <5>1. state' = [state EXCEPT ![i] = "finished"] /\ result' = [result EXCEPT ![i] = d]
          BY <2>4, <2>9, <3>3, <4>1 DEF Finish, Becomes
        <5> QED  BY <2>3, <2>5, <2>16, <5>1
      <4>3. res.errors \subseteq DOMAIN res.matches
        BY <4>1, <4>2, DetectFacts
      <4>4. res = Single(ServerEngine, Submitted(r))
        BY <4>1, <4>2, Engines
      <4> QED  BY <3>1, <4>2, <4>3, <4>4 DEF Right
    <3> QED  BY <3>2, <3>3
  <2>20. CASE Reply(i)
    <3>1. state[i] = "finished" /\ s = "done" /\ res = result[i]
      BY <2>16, <2>18, <2>20 DEF Reply, Becomes
    <3>2. r.via = "grpc" /\ res = Single(ServerEngine, Submitted(r)) /\ res.errors \subseteq DOMAIN res.matches
      BY <2>0, <2>4, <3>1 DEF Right
    <3>3. a = Verdict(res)
      <4>1. PICK v : v = Verdict(result[i])
        OBVIOUS
      <4>2. answer' = [answer EXCEPT ![i] = v]
        BY <2>20, <4>1 DEF Reply, Answer, Verdict
      <4> QED  BY <2>3, <2>5, <3>1, <4>1, <4>2
    <3> QED  BY <3>1, <3>2, <3>3 DEF Right
  <2>21. CASE Arrive(i)
    <3>1. s = "reading" /\ res = NoResult
      BY <2>6, <2>16, <2>18, <2>21 DEF Arrive, Becomes
    <3> QED  BY <2>17, <3>1 DEF Right
  <2>10. CASE TimeOut(i)
    <3>1. r.via = "grpc" /\ res = NoResult
      <4>1. PICK d : d = NoResult
        OBVIOUS
      <4>2. r.via = "grpc" /\ result' = [result EXCEPT ![i] = d]
        BY <2>4, <2>10, <4>1 DEF TimeOut, Is
      <4> QED  BY <2>3, <2>5, <4>1, <4>2
    <3>2. s \in {"abandoned", "done"}
      BY <2>10, <2>16 DEF TimeOut, Becomes
    <3>3. a = IF r.fallback \in {"allow", "block"} THEN r.fallback ELSE "log"
      <4>1. PICK b : b = Fallback(i)
        OBVIOUS
      <4>2. answer' = [answer EXCEPT ![i] = b]
        BY <2>10, <4>1 DEF TimeOut, Answer
      <4> QED  BY <2>3, <2>4, <2>5, <4>1, <4>2 DEF Fallback
    <3> QED  BY <2>17, <3>1, <3>2, <3>3 DEF Right
  <2>11. CASE DetectText(i)
    <3>1. r.via = "api" /\ r.file = << >>
      BY <2>4, <2>11 DEF DetectText, Is
    <3>2. s = "done"
      BY <2>11, <2>16 DEF DetectText, Ended, Becomes
    <3>3. PICK d : d = Detect(ApiEngine, r.message)
      OBVIOUS
    <3>4. res = d
      <4>1. result' = [result EXCEPT ![i] = d]
        BY <2>4, <2>11, <3>3 DEF DetectText, Ended
      <4> QED  BY <2>3, <2>5, <4>1
    <3>5. res.errors \subseteq DOMAIN res.matches
      BY <3>3, <3>4, DetectFacts
    <3> QED  BY <3>1, <3>2, <3>5 DEF Right
  <2>12. CASE DetectFile(i)
    <3>1. r.via = "api" /\ r.file # << >>
      BY <2>4, <2>12 DEF DetectFile, Is
    <3>2. s = "done"
      BY <2>12, <2>16 DEF DetectFile, Ended, Becomes
    <3>3. PICK c : c = Inspect[r.file[1]].components
      OBVIOUS
    <3>4. PICK d : d = IF Unread(r) THEN NoResult ELSE Detect(ApiEngine, c)
      OBVIOUS
    <3>5. res = d
      <4>1. result' = [result EXCEPT ![i] = d]
        BY <2>4, <2>12, <3>3, <3>4 DEF DetectFile, Ended, Unread
      <4> QED  BY <2>3, <2>5, <4>1
    <3>6. CASE Unread(r)
      BY <2>17, <3>1, <3>2, <3>4, <3>5, <3>6 DEF Right
    <3>7. CASE ~Unread(r)
      <4>1. res.errors \subseteq DOMAIN res.matches
        BY <3>4, <3>5, <3>7, DetectFacts
      <4>2. res = Single(ApiEngine, c)
        BY <3>4, <3>5, <3>7, Engines
      <4>3. PICK b : b = IF c = << >> THEN "nothing" ELSE Report(d)
        OBVIOUS
      <4>4. answer' = [answer EXCEPT ![i] = b]
        BY <2>4, <2>12, <3>3, <3>4, <3>7, <4>3 DEF DetectFile, Answer, Unread, Report
      <4>5. a = IF c = << >> THEN "nothing" ELSE Report(res)
        BY <2>3, <2>5, <3>5, <4>3, <4>4
      <4> QED  BY <3>1, <3>2, <3>3, <3>7, <4>1, <4>2, <4>5 DEF Right
    <3> QED  BY <3>6, <3>7
  <2>13. CASE Analyze(i)
    <3>1. r.via = "engine"
      BY <2>4, <2>13 DEF Analyze, Is
    <3>2. s = "done"
      BY <2>13, <2>16 DEF Analyze, Ended, Becomes
    <3>3. PICK d : d = Detect(r.analyzers, r.message)
      OBVIOUS
    <3>4. res = d
      <4>1. result' = [result EXCEPT ![i] = d]
        BY <2>4, <2>13, <3>3 DEF Analyze, Ended
      <4> QED  BY <2>3, <2>5, <4>1
    <3>5. /\ res.errors \subseteq DOMAIN res.matches /\ DOMAIN res.matches = DOMAIN r.analyzers
          /\ \A k \in DOMAIN r.analyzers : Steady(r.analyzers[k]) => res.matches[k] = Matched(r.analyzers[k], r.message)
      BY <3>3, <3>4, DetectFacts
    <3> QED  BY <3>1, <3>2, <3>5 DEF Right
  <2>14. CASE Mail(i)
    <3>1. r.via = "smtp"
      BY <2>4, <2>14 DEF Mail, Is
    <3>2. s = "done"
      BY <2>14, <2>16 DEF Mail, Ended, Becomes
    <3>3. PICK d : d = Detect(GatewayEngine, Parsed(r.mail))
      OBVIOUS
    <3>4. res = d
      <4>1. result' = [result EXCEPT ![i] = d]
        BY <2>4, <2>14, <3>3 DEF Mail, Ended, MailResult
      <4> QED  BY <2>3, <2>5, <4>1
    <3>5. res.errors \subseteq DOMAIN res.matches
      BY <3>3, <3>4, DetectFacts
    <3> QED  BY <3>1, <3>2, <3>5 DEF Right
  <2>15. CASE Request(i)
    <3>1. r.via = "http"
      BY <2>4, <2>15 DEF Request, Is
    <3>2. s = "done"
      BY <2>15, <2>16 DEF Request, Ended, Becomes
    <3>3. PICK d : d = HttpResult(r)
      OBVIOUS
    <3>4. d = GatewayResult(r)
      BY <3>3, Engines DEF HttpResult, GatewayResult
    <3>5. res = d
      <4>1. result' = [result EXCEPT ![i] = d]
        BY <2>4, <2>15, <3>3 DEF Request, Ended
      <4> QED  BY <2>3, <2>5, <4>1
    <3>6. res.errors \subseteq DOMAIN res.matches
      BY <2>17, <3>3, <3>5, DetectFacts DEF HttpResult
    <3>7. PICK n : n = MatchCount(d)
      OBVIOUS
    <3>8. a = "403" <=> Blocked(r, n)
      <4>1. CASE Blocked(r, n)
        <5>1. answer' = [answer EXCEPT ![i] = "403"]
          BY <2>4, <2>15, <3>3, <3>7, <4>1 DEF Request, Answer
        <5>2. a = "403"
          BY <2>3, <2>5, <5>1
        <5> QED  BY <4>1, <5>2
      <4>2. CASE ~Blocked(r, n)
        <5>1. answer' = [answer EXCEPT ![i] = "passed"]
          BY <2>4, <2>15, <3>3, <3>7, <4>2 DEF Request, Answer
        <5>2. a = "passed"
          BY <2>3, <2>5, <5>1
        <5> QED  BY <4>2, <5>2
      <4> QED  BY <4>1, <4>2
    <3>9. a = "403" <=> Blocked(r, MatchCount(GatewayResult(r)))
      BY <3>4, <3>7, <3>8
    <3> QED  BY <3>1, <3>2, <3>6, <3>9 DEF Right
  <2> QED  BY <1>2, <2>7, <2>8, <2>9, <2>10, <2>11, <2>12, <2>13, <2>14, <2>15, <2>20, <2>21
<1> QED  BY <1>1, <1>2 DEF Next, LibraryStep, vars

-----------------------------------------------------------------------------
(* The threads.                                                            *)

\* The threads of the executor.
Threads == Cardinality(Busy) <= Workers

\* There are finitely many requests, and detections that run.
LEMMA RequestsFinite ==
  ASSUME Jobs
  PROVE  IsFiniteSet(Requests) /\ IsFiniteSet(Busy) /\ Cardinality(Busy) \in Nat
<1>1. Sequence(requests)
  BY ScenariosAssumption DEF Jobs
<1>2. Len(requests) \in Nat /\ Requests = 1 .. Len(requests)
  BY <1>1, SequenceFacts DEF Requests
<1>3. IsFiniteSet(Requests)
  <2>1. PICK n \in Nat : n = Len(requests)
    BY <1>2
  <2>2. IsFiniteSet(1 .. n)
    BY FS_Interval
  <2> QED  BY <1>2, <2>1, <2>2
<1>4. Busy \subseteq Requests
  BY DEF Busy
<1>5. IsFiniteSet(Busy)
  BY <1>3, <1>4, FS_Subset
<1> QED  BY <1>3, <1>5, FS_CardinalityType

\* No step gives out more threads than there are.
LEMMA ThreadsStep ==
  ASSUME Jobs, Threads, [Next]_vars
  PROVE  Threads'
<1>0. IsFiniteSet(Busy) /\ Cardinality(Busy) \in Nat /\ Workers \in Nat
  BY RequestsFinite, LimitsAssumption
<1>1. CASE UNCHANGED jobs
  <2>1. Busy' = Busy
    BY <1>1 DEF jobs, Busy, Requests
  <2> QED  BY <2>1 DEF Threads
<1>2. ASSUME NEW i \in Requests,
             \/ Arrive(i) \/ Submit(i) \/ Start(i) \/ Finish(i) \/ Reply(i) \/ TimeOut(i)
             \/ DetectText(i) \/ DetectFile(i) \/ Analyze(i) \/ Mail(i) \/ Request(i)
      PROVE  Threads'
  <2>1. requests' = requests /\ Requests' = Requests
    BY <1>2 DEF Requests, Arrive, Submit, Start, Finish, Reply, TimeOut, DetectText, DetectFile, Analyze, Mail, Request
  <2>2. CASE Start(i)
    <3>1. state' = [state EXCEPT ![i] = "running"] /\ Cardinality(Busy) < Workers
      BY <2>2 DEF Start, Becomes
    <3>2. Busy' = Busy \cup {i}
      BY <2>1, <3>1 DEF Busy, Jobs
    <3>3. PICK b : b = Busy
      OBVIOUS
    <3>4. Cardinality(b \cup {i}) = IF i \in b THEN Cardinality(b) ELSE Cardinality(b) + 1
      BY <1>0, <3>3, FS_AddElement
    <3>5. Cardinality(b \cup {i}) <= Workers
      BY <1>0, <3>1, <3>3, <3>4
    <3> QED  BY <3>2, <3>3, <3>5 DEF Threads
  <2>3. CASE ~Start(i)
    <3>1. PICK s : /\ state' = [state EXCEPT ![i] = s]
                   /\ s \in {"running", "abandoned"} => state[i] \in {"running", "abandoned"}
      BY <1>2, <2>3 DEF Arrive, Submit, Start, Finish, Reply, TimeOut, DetectText, DetectFile, Analyze, Mail, Request, Ended, Becomes
    <3>2. Busy' \subseteq Busy
      BY <2>1, <3>1 DEF Busy, Jobs
    <3>3. PICK b : b = Busy'
      OBVIOUS
    <3>4. Cardinality(b) <= Cardinality(Busy) /\ IsFiniteSet(b)
      BY <1>0, <3>2, <3>3, FS_Subset
    <3>5. Cardinality(b) \in Nat
      BY <3>4, FS_CardinalityType
    <3>6. Cardinality(b) <= Workers
      BY <1>0, <3>4, <3>5 DEF Threads
    <3> QED  BY <3>3, <3>6 DEF Threads
  <2> QED  BY <2>2, <2>3
<1> QED  BY <1>1, <1>2 DEF Next, LibraryStep, vars

\* At first nothing has a result and no thread is taken.
LEMMA ThreadsInitial ==
  ASSUME Init
  PROVE  Results /\ Threads
<1>1. NoResult.errors \subseteq DOMAIN NoResult.matches
  BY DEF NoResult
<1>2. ASSUME NEW i \in Requests PROVE Right(requests[i], state[i], result[i], answer[i])
  <2>1. state[i] = "new" /\ result[i] = NoResult
    BY DEF Init
  <2> QED  BY <1>1, <2>1 DEF Right
<1>3. Busy = {}
  BY DEF Init, Busy
<1>4. Threads
  BY <1>3, FS_EmptySet, LimitsAssumption DEF Threads
<1> QED  BY <1>2, <1>4 DEF Results

\* The event loop is held by the one handler that reads.
LoopHeld == \A i \in Requests : state[i] = "reading" <=> loop = i

\* The loop is given to one request, and left by it.
LEMMA LoopStep ==
  ASSUME Jobs, LoopHeld, [Next]_vars
  PROVE  LoopHeld'
<1>0. Requests \subseteq Nat /\ Free \notin Requests /\ DOMAIN state = Requests
  BY Numbered DEF Free, Jobs
<1>1. CASE UNCHANGED jobs
  <2>1. requests' = requests /\ state' = state /\ loop' = loop /\ Requests' = Requests
    BY <1>1 DEF jobs, Requests
  <2> QED  BY <2>1 DEF LoopHeld
<1>2. ASSUME NEW i \in Requests,
             \/ Arrive(i) \/ Submit(i) \/ Start(i) \/ Finish(i) \/ Reply(i) \/ TimeOut(i)
             \/ DetectText(i) \/ DetectFile(i) \/ Analyze(i) \/ Mail(i) \/ Request(i)
      PROVE  LoopHeld'
  <2>1. Requests' = Requests
    BY <1>2 DEF Requests, Arrive, Submit, Start, Finish, Reply, TimeOut, DetectText, DetectFile, Analyze, Mail, Request
  <2>2. PICK s : state' = [state EXCEPT ![i] = s] /\ s \in {"reading", "queued", "running", "abandoned", "finished", "done"}
    BY <1>2 DEF Arrive, Submit, Start, Finish, Reply, TimeOut, DetectText, DetectFile, Analyze, Mail, Request, Ended, Becomes
  <2>3. state'[i] = s /\ \A j \in Requests : j # i => state'[j] = state[j]
    BY <1>0, <2>2
  <2>4. CASE Arrive(i)
    <3>1. loop = Free /\ loop' = i /\ s = "reading"
      BY <2>2, <2>3, <2>4, <1>0 DEF Arrive, Becomes
    <3> QED  BY <1>0, <2>1, <2>3, <3>1 DEF LoopHeld
  <2>5. CASE Submit(i) \/ DetectText(i) \/ DetectFile(i)
    <3>1. state[i] = "reading" /\ loop' = Free /\ state'[i] \in {"queued", "done"}
      BY <1>0, <2>5 DEF Submit, DetectText, DetectFile, Ended, Becomes
    <3> QED  BY <1>0, <2>1, <2>3, <3>1 DEF LoopHeld
  <2>6. CASE Start(i) \/ Finish(i) \/ Reply(i) \/ TimeOut(i) \/ Analyze(i) \/ Mail(i) \/ Request(i)
    <3>1. /\ state[i] # "reading" /\ loop' = loop
          /\ state'[i] \in {"running", "abandoned", "finished", "done"}
      BY <1>0, <2>6 DEF Start, Finish, Busy, Reply, TimeOut, Waiting, Analyze, Mail, Request, Turn, Ended, Becomes
    <3> QED  BY <2>1, <2>3, <3>1 DEF LoopHeld
  <2> QED  BY <1>2, <2>4, <2>5, <2>6
<1> QED  BY <1>1, <1>2 DEF Next, LibraryStep, vars

LEMMA LoopInitial ==
  ASSUME Init
  PROVE  LoopHeld
<1>1. Jobs
  BY GatewayInitial DEF GatewayInv
<1>2. loop = Free /\ \A i \in Requests : state[i] = "new"
  BY DEF Init
<1> QED  BY <1>1, <1>2, Numbered DEF LoopHeld, Free

\* A log in the order of the messages has one entry of each.
LEMMA OneIncident ==
  ASSUME Jobs, Logs, Turns, NEW k \in DOMAIN incidents, NEW l \in DOMAIN incidents, incidents[k].of = incidents[l].of
  PROVE  k = l
<1>1. PICK o : o = incidents[k].of /\ o \in Nat
  BY Numbered DEF Turns, Through
<1>2. ~(k < l) /\ ~(l < k)
  BY <1>1 DEF Logs, InOrder
<1>3. k \in Nat /\ l \in Nat
  BY SequenceFacts DEF Logs
<1> QED  BY <1>2, <1>3

\* The invariants imply the type invariant.
LEMMA TypesHold ==
  ASSUME Jobs, Logs, Turns, Results, Threads, LoopHeld
  PROVE  TypeOK
<1>1. ASSUME NEW i \in Requests
      PROVE  /\ result[i] # NoResult => state[i] \in {"finished", "done"} /\ result[i].errors \subseteq DOMAIN result[i].matches
             /\ state[i] = "abandoned" => answer[i] = Fallback(i)
  BY DEF Results, Right, Fallback
<1>2. \A k, l \in DOMAIN incidents : incidents[k].of = incidents[l].of => k = l
  BY OneIncident
<1> QED  BY <1>1, <1>2 DEF TypeOK, Jobs, Threads, Busy, LoopHeld

-----------------------------------------------------------------------------
(* The analyzers.                                                          *)

\* What an analyzer that does not raise finds in a message.
LEMMA MatchedAre ==
  ASSUME NEW a, NEW message, ~a.raises, NEW m
  PROVE  m \in Matched(a, message) <=>
           \E i \in DOMAIN message : Targeted(a, message[i]) /\ \E n \in Fixed(a, message[i]) : m = <<i, n>>
BY DEF Matched

\* What was found for a caller of the engine is what its analyzer finds in its message.
LEMMA FoundIs ==
  ASSUME Jobs, Results, NEW kind \in {"identifiers", "regex", "keywords", "filetypes"}, NEW u \in Using(kind)
  PROVE  \E r, a : /\ r = requests[u[1]] /\ a = r.analyzers[u[2]] /\ a.kind = kind /\ ~a.raises
                   /\ IsMessage(r.message) /\ IsAnalyzer(a) /\ Found(u) = Matched(a, r.message)
<1>1. PICK r, a : r = requests[u[1]] /\ a = r.analyzers[u[2]]
  OBVIOUS
<1>2. /\ u[1] \in Requests /\ r.via = "engine" /\ state[u[1]] = "done" /\ u[2] \in DOMAIN r.analyzers
      /\ a.kind = kind /\ ~a.raises
  BY <1>1 DEF Using
<1>3. IsRequest(r)
  BY <1>1, <1>2, ScenariosAssumption DEF Jobs, Requests
<1>4. IsMessage(r.message) /\ IsAnalyzer(a)
  BY <1>1, <1>2, <1>3 DEF IsRequest
<1>5. Steady(a)
  BY <1>2 DEF Steady
<1>6. Right(r, state[u[1]], result[u[1]], answer[u[1]])
  BY <1>1, <1>2 DEF Results
<1>7. Found(u) = Matched(a, r.message)
  BY <1>1, <1>2, <1>5, <1>6 DEF Right, Found
<1> QED  BY <1>1, <1>2, <1>4, <1>7

\* Of an accepted value, none with another digit in one place is accepted.
LEMMA ValueTypos ==
  ASSUME NEW v, IsValue(v), Valid(v), v.is \in {"card", "aba", "iban"},
         NEW p \in DOMAIN v.of, NEW x \in 0 .. 9, v.of[p] \in 0 .. 9 \ {x}
  PROVE  ~Valid([v EXCEPT !.of[p] = x])
<1>1. PICK of, t : of = v.of /\ t = [v EXCEPT !.of[p] = x]
  OBVIOUS
<1>2. v = [is |-> v.is, of |-> of]
  BY <1>1 DEF IsValue
<1>3. t.is = v.is /\ t.of = [of EXCEPT ![p] = x]
  BY <1>1, <1>2
<1>4. x # of[p] /\ p \in DOMAIN of /\ of[p] \in 0 .. 9
  BY <1>1
<1>5. CASE v.is = "card"
  <2>1. of \in Seq(0 .. 9) /\ Luhn(of)
    BY <1>1, <1>5 DEF IsValue, Valid
  <2>2. ~Luhn([of EXCEPT ![p] = x])
    BY <1>4, <2>1, LuhnTypo
  <2>3. ~Luhn(t.of)
    BY <1>3, <2>2
  <2> QED  BY <1>1, <1>3, <1>5, <2>3 DEF Valid
<1>6. CASE v.is = "aba"
  <2>1. of \in Seq(0 .. 9) /\ AbaChecksum(of)
    BY <1>1, <1>6 DEF IsValue, Valid
  <2>2. ~AbaChecksum([of EXCEPT ![p] = x])
    BY <1>4, <2>1, AbaTypo
  <2>3. ~AbaChecksum(t.of)
    BY <1>3, <2>2
  <2> QED  BY <1>1, <1>3, <1>6, <2>3 DEF Valid
<1>7. CASE v.is = "iban"
  <2>1. of \in Seq(0 .. 35) /\ IbanMod97(of)
    BY <1>1, <1>7 DEF IsValue, Valid
  <2>2. ~IbanMod97([of EXCEPT ![p] = x])
    BY <1>4, <2>1, IbanTypo
  <2>3. ~IbanMod97(t.of)
    BY <1>3, <2>2
  <2> QED  BY <1>1, <1>3, <1>7, <2>3 DEF Valid
<1> QED  BY <1>5, <1>6, <1>7

\* Of an accepted IBAN, none with two neighbours swapped is accepted.
LEMMA ValueSwaps ==
  ASSUME NEW v, IsValue(v), Valid(v), v.is = "iban",
         NEW p \in 5 .. (Len(v.of) - 1), ~Alike(v.of[p], v.of[p + 1])
  PROVE  ~Valid([v EXCEPT !.of[p] = v.of[p + 1], !.of[p + 1] = v.of[p]])
<1>1. PICK of, t : of = v.of /\ t = [v EXCEPT !.of[p] = v.of[p + 1], !.of[p + 1] = v.of[p]]
  OBVIOUS
<1>2. v = [is |-> v.is, of |-> of]
  BY <1>1 DEF IsValue
<1>3. t.is = v.is /\ t.of = [of EXCEPT ![p] = of[p + 1], ![p + 1] = of[p]]
  BY <1>1, <1>2
<1>4. of \in Seq(0 .. 35) /\ IbanMod97(of)
  BY <1>1 DEF IsValue, Valid
<1>5. p \in 5 .. (Len(of) - 1) /\ ~Alike(of[p], of[p + 1])
  BY <1>1
<1>6. Len(of) \in Nat /\ DOMAIN of = 1 .. Len(of)
  BY <1>4
<1>7. /\ t.of \in Seq(0 .. 35) /\ Len(t.of) = Len(of)
      /\ t.of[p] = of[p + 1] /\ t.of[p + 1] = of[p]
      /\ \A k \in 1 .. Len(of) : k # p /\ k # p + 1 => t.of[k] = of[k]
  BY <1>3, <1>4, <1>5, <1>6
<1>8. ~IbanMod97(t.of)
  BY <1>4, <1>5, <1>7, IbanSwap
<1> QED  BY <1>1, <1>3, <1>8 DEF Valid

\* No identifier found is a typo away from another one.
LEMMA Typos ==
  ASSUME Jobs, Results
  PROVE  TyposAreCaught
<1> SUFFICES ASSUME NEW u \in Using("identifiers"), NEW m \in Found(u), NEW v, v = Text(u, m[1])[m[2][2]].value
             PROVE  /\ v.is \in {"card", "aba", "iban"} =>
                          \A p \in DOMAIN v.of, x \in 0 .. 9 : v.of[p] \in 0 .. 9 \ {x} => ~Valid([v EXCEPT !.of[p] = x])
                    /\ v.is = "iban" => \A p \in 5 .. (Len(v.of) - 1) : ~Alike(v.of[p], v.of[p + 1]) =>
                          ~Valid([v EXCEPT !.of[p] = v.of[p + 1], !.of[p + 1] = v.of[p]])
  BY DEF TyposAreCaught
<1>1. PICK r, a : /\ r = requests[u[1]] /\ a.kind = "identifiers" /\ ~a.raises
                  /\ IsMessage(r.message) /\ Found(u) = Matched(a, r.message)
  BY FoundIs
<1>2. PICK i \in DOMAIN r.message : \E n \in Fixed(a, r.message[i]) : m = <<i, n>>
  BY <1>1, MatchedAre
<1>3. PICK n \in Fixed(a, r.message[i]) : m = <<i, n>>
  BY <1>2
<1>4. PICK text : text = r.message[i].text
  OBVIOUS
<1>5. PICK j \in DOMAIN text : n = <<Seen(text)[j].is, j>> /\ Valid(Seen(text)[j])
  BY <1>1, <1>3, <1>4 DEF Fixed, DataIdentifierMatches, Seen
<1>6. ~Valid(Opaque)
  BY DEF Valid, Opaque
<1>7. Seen(text)[j] = text[j].value
  BY <1>5, <1>6 DEF Seen
<1>8. v = text[j].value
  BY <1>1, <1>3, <1>4, <1>5 DEF Text
<1>9. IsValue(v)
  <2>1. Sequence(r.message) /\ r.message[i] \in ToSet(r.message)
    BY <1>1, SequenceFacts DEF IsMessage
  <2>2. IsText(text) /\ \A x \in ToSet(text) : IsValue(x.value)
    BY <1>1, <1>4, <2>1 DEF IsMessage
  <2>3. text[j] \in ToSet(text)
    BY <2>2, SequenceFacts DEF IsText
  <2> QED  BY <1>8, <2>2, <2>3
<1>10. Valid(v)
  BY <1>5, <1>7, <1>8
<1> QED  BY <1>9, <1>10, ValueTypos, ValueSwaps

ConditionNames == {"categories", "mimes", "exts", "names", "min", "max"}

\* A rule that matches does so with one condition less.
LEMMA OneConditionLess ==
  ASSUME NEW rule, NEW info, DOMAIN rule = ConditionNames, RuleMatches(rule, info),
         NEW c \in Conditions(rule), Conditions(rule) # {c}
  PROVE  RuleMatches([rule EXCEPT ![c] = None(c)], info)
<1>1. PICK new : new = [rule EXCEPT ![c] = None(c)]
  OBVIOUS
<1>2. c \in ConditionNames
  BY DEF Conditions, ConditionNames
<1>3. new[c] = None(c) /\ \A d \in ConditionNames : d # c => new[d] = rule[d]
  BY <1>1, <1>2
<1>4. Conditions(new) = Conditions(rule) \ {c}
  <2>1. ASSUME NEW d PROVE d \in Conditions(new) <=> d \in Conditions(rule) /\ d # c
    <3>1. CASE d = c
      <4>1. CASE c \in {"min", "max"}
        <5>1. ~(new[c] > 0)
          BY <1>3, <4>1 DEF None
        <5> QED  BY <3>1, <4>1, <5>1 DEF Conditions
      <4>2. CASE c \notin {"min", "max"}
        BY <1>3, <3>1, <4>2 DEF None, Conditions
      <4> QED  BY <4>1, <4>2
    <3>2. CASE d # c
      BY <1>3, <3>2 DEF Conditions, ConditionNames
    <3> QED  BY <3>1, <3>2
  <2> QED  BY <2>1
<1>5. ASSUME NEW d \in Conditions(new) PROVE Holds(new, d, info)
  <2>1. d \in Conditions(rule) /\ d # c /\ d \in ConditionNames
    BY <1>4, <1>5 DEF Conditions, ConditionNames
  <2>2. Holds(rule, d, info) /\ new[d] = rule[d]
    BY <1>3, <2>1 DEF RuleMatches
  <2> QED  BY <2>1, <2>2 DEF Holds, ConditionNames
<1>6. Conditions(new) # {}
  BY <1>2, <1>4
<1> QED  BY <1>1, <1>5, <1>6 DEF RuleMatches

\* The extension of a file does not matter where its bytes tell the type.
LEMMA OtherExtension ==
  ASSUME NEW rule, NEW info, RuleMatches(rule, info), Conditions(rule) = {"categories"},
         {"mime", "ext", "name", "size"} \subseteq DOMAIN info, info.mime \in DOMAIN MimeDB, NEW e
  PROVE  RuleMatches(rule, [info EXCEPT !.ext = e])
<1>1. PICK other : other = [info EXCEPT !.ext = e]
  OBVIOUS
<1>2. other.mime = info.mime
  BY <1>1
<1>3. Category(other) = Category(info)
  BY <1>2 DEF Category
<1>4. Holds(rule, "categories", info)
  BY DEF RuleMatches
<1>5. Holds(rule, "categories", other)
  BY <1>3, <1>4 DEF Holds
<1> QED  BY <1>1, <1>5 DEF RuleMatches

\* The file types found are sound.
LEMMA FileTypes ==
  ASSUME Jobs, Results
  PROVE  FileTypesAreSound
<1> SUFFICES ASSUME NEW u \in Using("filetypes"), NEW m \in Found(u)
             PROVE  LET rule == Looks(u)[m[2]]   info == requests[u[1]].message[m[1]].file[1]
                    IN /\ \A c \in Conditions(rule) :
                            Conditions(rule) # {c} => RuleMatches([rule EXCEPT ![c] = None(c)], info)
                       /\ Conditions(rule) = {"categories"} /\ info.mime \in DOMAIN MimeDB =>
                            \A e \in DOMAIN ExtDB : RuleMatches(rule, [info EXCEPT !.ext = e])
  BY DEF FileTypesAreSound
<1>0. PICK rule, info : rule = Looks(u)[m[2]] /\ info = requests[u[1]].message[m[1]].file[1]
  OBVIOUS
<1>1. PICK r, a : /\ r = requests[u[1]] /\ a = r.analyzers[u[2]] /\ a.kind = "filetypes" /\ ~a.raises
                  /\ IsMessage(r.message) /\ IsAnalyzer(a) /\ Found(u) = Matched(a, r.message)
  BY FoundIs
<1>2. PICK i \in DOMAIN r.message : \E n \in Fixed(a, r.message[i]) : m = <<i, n>>
  BY <1>1, MatchedAre
<1>3. PICK n \in Fixed(a, r.message[i]) : m = <<i, n>>
  BY <1>2
<1>4. rule = a.looks[n] /\ info = r.message[i].file[1]
  BY <1>0, <1>1, <1>3 DEF Looks
<1>5. n \in DOMAIN a.looks /\ r.message[i].file # << >> /\ RuleMatches(rule, info)
  BY <1>1, <1>3, <1>4 DEF Fixed, FileTypeMatches
<1>6. DOMAIN rule = ConditionNames
  BY <1>1, <1>4, <1>5 DEF IsAnalyzer, ConditionNames
<1>7. {"mime", "ext", "name", "size"} \subseteq DOMAIN info
  <2>1. Sequence(r.message) /\ r.message[i] \in ToSet(r.message)
    BY <1>1, SequenceFacts DEF IsMessage
  <2> QED  BY <1>1, <1>4, <1>5, <2>1 DEF IsMessage
<1> QED  BY <1>0, <1>5, <1>6, <1>7, OneConditionLess, OtherExtension

\* How many words stand between two places.
LEMMA WordsBetween ==
  ASSUME NEW n \in Nat, NEW j \in 1 .. n, NEW l \in 1 .. n, j # l
  PROVE  Cardinality({k \in 1 .. n : (j < k /\ k < l) \/ (l < k /\ k < j)}) = (IF j < l THEN l - j ELSE j - l) - 1
<1>1. PICK a \in Nat, b \in Nat : a = (IF j < l THEN j ELSE l) + 1 /\ b = (IF j < l THEN l ELSE j) - 1
  OBVIOUS
<1>2. PICK s : s = {k \in 1 .. n : (j < k /\ k < l) \/ (l < k /\ k < j)}
  OBVIOUS
<1>3. s = a .. b
  BY <1>1, <1>2
<1>4. Cardinality(a .. b) = IF a > b THEN 0 ELSE b - a + 1
  BY FS_Interval
<1>5. Cardinality(s) = (IF j < l THEN l - j ELSE j - l) - 1
  BY <1>1, <1>3, <1>4
<1> QED  BY <1>2, <1>5

\* The words at j and l have at most max others between them.
Close(w, j, l, max) == j # l /\ Cardinality({n \in DOMAIN w : (j < n /\ n < l) \/ (l < n /\ n < j)}) <= max
Pair(w, rule, j, l) == Lower(w[j]) = Lower(rule.a) /\ Lower(w[l]) = Lower(rule.b) /\ Close(w, j, l, rule.max)
Small(rule) == rule.sensitive => rule.a = Lower(rule.a) /\ rule.b = Lower(rule.b)

\* The places of the matches of words, and the rules of the matches of pairs.
LEMMA TwoKinds ==
  ASSUME NEW A, NEW B, NEW found, found = {<<"word", m>> : m \in A} \cup {<<"near", m>> : m \in B}
  PROVE  /\ {m[2][2] : m \in {x \in found : x[1] = "word"}} = {m[2] : m \in A}
         /\ {m[2][1] : m \in {x \in found : x[1] = "near"}} = {m[1] : m \in B}
<1>1. {x \in found : x[1] = "word"} = {<<"word", m>> : m \in A}
  OBVIOUS
<1>2. {x \in found : x[1] = "near"} = {<<"near", m>> : m \in B}
  OBVIOUS
<1>3. \A n : <<"word", n>>[2] = n /\ <<"near", n>>[2] = n
  OBVIOUS
<1> DEFINE W == {<<"word", n>> : n \in A}   N == {<<"near", n>> : n \in B}
<1>4. \A m \in W : \E n \in A : m = <<"word", n>> /\ m[2] = n
  BY <1>3
<1>5. \A m \in N : \E n \in B : m = <<"near", n>> /\ m[2] = n
  BY <1>3
<1>6. (\A n \in A : <<"word", n>> \in W) /\ \A n \in B : <<"near", n>> \in N
  OBVIOUS
<1> HIDE DEF W, N
<1>7. {m[2][2] : m \in W} = {n[2] : n \in A}
  BY <1>3, <1>4, <1>6
<1>8. {m[2][1] : m \in N} = {n[1] : n \in B}
  BY <1>3, <1>5, <1>6
<1> QED  BY <1>1, <1>2, <1>7, <1>8 DEF W, N

\* The places of the words that a dictionary matches: without case, those of its keywords.
LEMMA WordHits ==
  ASSUME NEW dict, NEW text, Sequence(dict.keywords), dict.whole = TRUE, dict.sensitive = FALSE
  PROVE  {m[2] : m \in KeywordMatches(dict, text)} =
           {j \in DOMAIN Words(text) : \E k \in DOMAIN dict.keywords : Lower(Words(text)[j]) = Lower(dict.keywords[k])}
<1>1. PICK w, ks : w = Words(text) /\ ks = dict.keywords
  OBVIOUS
<1>2. /\ \A k, x : KeywordHits(dict, k, x) <=> Lower(x) = Lower(ks[k])
      /\ Stored(dict) = {k \in DOMAIN ks : \A l \in DOMAIN ks : Lower(ks[l]) = Lower(ks[k]) => l <= k}
  BY <1>1 DEF KeywordHits, Stored, Fold
<1>3. KeywordMatches(dict, text) = {u \in Stored(dict) \X (DOMAIN w) : Lower(w[u[2]]) = Lower(ks[u[1]])}
  BY <1>1, <1>2 DEF KeywordMatches
<1>4. ASSUME NEW k \in DOMAIN ks PROVE \E l \in Stored(dict) : Lower(ks[l]) = Lower(ks[k])
  <2> DEFINE S == {l \in DOMAIN ks : Lower(ks[l]) = Lower(ks[k])}
             f == [l \in S |-> l]
  <2>1. Len(ks) \in Nat /\ DOMAIN ks = 1 .. Len(ks)
    BY <1>1, SequenceFacts
  <2>2. IsFiniteSet(1 .. Len(ks))
    <3>1. PICK n \in Nat : n = Len(ks)
      BY <2>1
    <3> QED  BY <3>1, FS_Interval
  <2>3. IsFiniteSet(S) /\ S # {} /\ f \in [S -> Int]
    <3>1. S \subseteq 1 .. Len(ks)
      BY <2>1
    <3>2. IsFiniteSet(S)
      BY <2>2, <3>1, FS_Subset
    <3>3. k \in S
      OBVIOUS
    <3> QED  BY <2>1, <3>2, <3>3
  <2>4. PICK m \in S : \A x \in S : f[x] <= f[m]
    <3> HIDE DEF S, f
    <3> QED  BY <2>3, GreatestOf
  <2>5. \A x \in S : x <= m
    BY <2>4
  <2>6. m \in Stored(dict) /\ Lower(ks[m]) = Lower(ks[k])
    BY <1>2, <2>5
  <2> QED  BY <2>6
<1> QED
  <2>1. ASSUME NEW j, j \in {m[2] : m \in KeywordMatches(dict, text)}
        PROVE  j \in DOMAIN w /\ \E k \in DOMAIN ks : Lower(w[j]) = Lower(ks[k])
    <3>1. PICK m \in KeywordMatches(dict, text) : j = m[2]
      BY <2>1
    <3> QED  BY <1>2, <1>3, <3>1
  <2>2. ASSUME NEW j \in DOMAIN w, NEW k \in DOMAIN ks, Lower(w[j]) = Lower(ks[k])
        PROVE  j \in {m[2] : m \in KeywordMatches(dict, text)}
    <3>1. PICK l \in Stored(dict) : Lower(ks[l]) = Lower(ks[k])
      BY <1>4
    <3>2. <<l, j>> \in KeywordMatches(dict, text)
      BY <1>3, <2>2, <3>1
    <3> QED  BY <3>2
  <2> QED  BY <1>1, <2>1, <2>2

\* The pairs of keywords that it matches, wherever.
LEMMA NearHits ==
  ASSUME NEW dict, NEW text, Sequence(text), NEW r \in DOMAIN dict.proximity,
         NEW rule, rule = dict.proximity[r], rule.max \in Nat, rule.sensitive \in BOOLEAN,
         NEW w, w = Words(text)
  PROVE  r \in {m[1] : m \in ProximityMatches(dict, text)} <=> (\E j, l \in DOMAIN w : Pair(w, rule, j, l)) /\ Small(rule)
<1>1. Len(text) \in Nat /\ DOMAIN w = 1 .. Len(text)
  BY SequenceFacts DEF Words, Seen
<1>2. \A x, y : Lower(x) = Fold(y, rule.sensitive) <=>
                  Lower(x) = Lower(y) /\ (rule.sensitive => y = Lower(y))
  BY DEF Lower, Fold
<1>3. ASSUME NEW j \in DOMAIN w, NEW l \in DOMAIN w
      PROVE  Near(j, l, rule.max) <=> Close(w, j, l, rule.max)
  <2>1. CASE j = l
    BY <2>1 DEF Near, Close
  <2>2. CASE j # l
    <3>1. Cardinality({n \in DOMAIN w : (j < n /\ n < l) \/ (l < n /\ n < j)}) = (IF j < l THEN l - j ELSE j - l) - 1
      BY <1>1, <2>2, WordsBetween
    <3> QED  BY <2>2, <3>1 DEF Near, Close
  <2> QED  BY <2>1, <2>2
<1> DEFINE Hit(j, l) == /\ Lower(w[j]) = Fold(rule.a, rule.sensitive) /\ Lower(w[l]) = Fold(rule.b, rule.sensitive)
                        /\ Near(j, l, rule.max)
<1>4. r \in {m[1] : m \in ProximityMatches(dict, text)} <=> \E j, l \in DOMAIN w : Hit(j, l)
  <2>1. ASSUME NEW m \in ProximityMatches(dict, text), r = m[1]
        PROVE  \E j, l \in DOMAIN w : Hit(j, l)
    BY <2>1 DEF ProximityMatches
  <2>2. ASSUME NEW j \in DOMAIN w, NEW l \in DOMAIN w, Hit(j, l)
        PROVE  <<r, j, l>> \in ProximityMatches(dict, text)
    BY <2>2 DEF ProximityMatches
  <2>3. \A j, l : <<r, j, l>>[1] = r
    OBVIOUS
  <2> HIDE DEF Hit
  <2> QED  BY <2>1, <2>2, <2>3
<1>5. ASSUME NEW j \in DOMAIN w, NEW l \in DOMAIN w
      PROVE  Hit(j, l) <=> Pair(w, rule, j, l) /\ Small(rule)
  BY <1>2, <1>3 DEF Pair, Small
<1> HIDE DEF Hit
<1> QED  BY <1>4, <1>5

\* What KeywordsAreFound says of one component.
KeywordsRight(w, targets, found, dict, type) ==
  LET hits == {m[2][2] : m \in {x \in found : x[1] = "word"}}
      near == {m[2][1] : m \in {x \in found : x[1] = "near"}}
      Same(x, y) == Lower(x) = Lower(y)
      Near2(rule) == \E j, l \in DOMAIN w :
        /\ j # l /\ Same(w[j], rule.a) /\ Same(w[l], rule.b)
        /\ Cardinality({n \in DOMAIN w : (j < n /\ n < l) \/ (l < n /\ n < j)}) <= rule.max
  IN IF targets = {} \/ type \in targets \cup {"generic"}
     THEN /\ dict.whole /\ ~dict.sensitive =>
               hits = {j \in DOMAIN w : \E k \in DOMAIN dict.keywords : Same(w[j], dict.keywords[k])}
          /\ \A r \in DOMAIN dict.proximity :
               LET rule == dict.proximity[r]
               IN r \in near <=> Near2(rule) /\ (rule.sensitive => rule.a = Lower(rule.a) /\ rule.b = Lower(rule.b))
     ELSE found = {}

\* A keyword analyzer finds what it should, where it should.
LEMMA Keywords ==
  ASSUME Jobs, Results
  PROVE  KeywordsAreFound
<1> SUFFICES ASSUME NEW u \in Using("keywords"), NEW i \in DOMAIN requests[u[1]].message
             PROVE  KeywordsRight(Words(Text(u, i)), requests[u[1]].analyzers[u[2]].targets,
                                  {m[2] : m \in {x \in Found(u) : x[1] = i}}, Looks(u), requests[u[1]].message[i].type)
  BY DEF KeywordsAreFound, KeywordsRight
<1>1. PICK r, a : /\ r = requests[u[1]] /\ a = r.analyzers[u[2]] /\ a.kind = "keywords" /\ ~a.raises
                  /\ IsMessage(r.message) /\ IsAnalyzer(a) /\ Found(u) = Matched(a, r.message)
  BY FoundIs
<1>2. PICK found : found = {m[2] : m \in {x \in Found(u) : x[1] = i}}
  OBVIOUS
<1>3. PICK dict, c : dict = a.looks /\ c = r.message[i]
  OBVIOUS
<1>4. PICK text : text = c.text
  OBVIOUS
<1>5. Looks(u) = dict /\ Text(u, i) = text
  BY <1>1, <1>3, <1>4 DEF Looks, Text
<1>6. CASE ~Targeted(a, c)
  <2>1. \A m \in Found(u) : m[1] # i
    BY <1>1, <1>3, <1>6, MatchedAre
  <2>2. found = {}
    BY <1>2, <2>1
  <2>3. KeywordsRight(Words(text), a.targets, found, dict, c.type)
    BY <1>6, <2>2 DEF Targeted, KeywordsRight
  <2> QED  BY <1>1, <1>2, <1>3, <1>5, <2>3
<1>7. CASE Targeted(a, c)
  <2>1. found = Fixed(a, c)
    <3>1. \A n \in Fixed(a, c) : <<i, n>> \in Found(u) /\ <<i, n>>[1] = i /\ <<i, n>>[2] = n
      BY <1>1, <1>3, <1>7, MatchedAre
    <3>2. ASSUME NEW m \in Found(u), m[1] = i PROVE m[2] \in Fixed(a, c)
      BY <1>1, <1>3, <3>2, MatchedAre
    <3> QED  BY <1>2, <3>1, <3>2
  <2>2. found = {<<"word", m>> : m \in KeywordMatches(dict, text)} \cup {<<"near", m>> : m \in ProximityMatches(dict, text)}
    BY <1>1, <1>3, <1>4, <2>1 DEF Fixed
  <2>3. PICK hits, near : /\ hits = {m[2][2] : m \in {x \in found : x[1] = "word"}}
                          /\ near = {m[2][1] : m \in {x \in found : x[1] = "near"}}
    OBVIOUS
  <2>4. hits = {m[2] : m \in KeywordMatches(dict, text)} /\ near = {m[1] : m \in ProximityMatches(dict, text)}
    BY <2>2, <2>3, TwoKinds
  <2>5. /\ Sequence(dict.keywords) /\ dict.sensitive \in BOOLEAN /\ dict.whole \in BOOLEAN
        /\ \A k \in DOMAIN dict.proximity : dict.proximity[k].max \in Nat /\ dict.proximity[k].sensitive \in BOOLEAN
    BY <1>1, <1>3 DEF IsAnalyzer, ToSet
  <2>6. Sequence(text)
    <3>1. Sequence(r.message) /\ c \in ToSet(r.message)
      BY <1>1, <1>3, SequenceFacts DEF IsMessage
    <3> QED  BY <1>1, <1>4, <3>1 DEF IsMessage, IsText
  <2>7. PICK w : w = Words(text)
    OBVIOUS
  <2>8. dict.whole /\ ~dict.sensitive =>
          hits = {j \in DOMAIN w : \E k \in DOMAIN dict.keywords : Lower(w[j]) = Lower(dict.keywords[k])}
    <3>1. ASSUME dict.whole, ~dict.sensitive PROVE dict.whole = TRUE /\ dict.sensitive = FALSE
      BY <2>5, <3>1
    <3>2. ASSUME dict.whole, ~dict.sensitive PROVE {m[2] : m \in KeywordMatches(dict, text)} =
            {j \in DOMAIN Words(text) : \E k \in DOMAIN dict.keywords : Lower(Words(text)[j]) = Lower(dict.keywords[k])}
      BY <2>5, <3>1, <3>2, WordHits
    <3> QED  BY <2>4, <2>7, <3>2
  <2>9. ASSUME NEW k \in DOMAIN dict.proximity, NEW rule, rule = dict.proximity[k]
        PROVE  k \in near <=>
                 /\ \E j, l \in DOMAIN w :
                      /\ j # l /\ Lower(w[j]) = Lower(rule.a) /\ Lower(w[l]) = Lower(rule.b)
                      /\ Cardinality({n \in DOMAIN w : (j < n /\ n < l) \/ (l < n /\ n < j)}) <= rule.max
                 /\ rule.sensitive => rule.a = Lower(rule.a) /\ rule.b = Lower(rule.b)
    <3>1. rule.max \in Nat /\ rule.sensitive \in BOOLEAN
      BY <2>5, <2>9
    <3>2. k \in near <=> (\E j, l \in DOMAIN w : Pair(w, rule, j, l)) /\ Small(rule)
      BY <2>4, <2>6, <2>7, <2>9, <3>1, NearHits
    <3> QED  BY <3>2 DEF Pair, Small, Close
  <2>10. a.targets = {} \/ c.type \in a.targets \cup {"generic"}
    BY <1>7 DEF Targeted
  <2>11. KeywordsRight(w, a.targets, found, dict, c.type)
    BY <2>3, <2>8, <2>9, <2>10 DEF KeywordsRight
  <2> QED  BY <1>1, <1>2, <1>3, <1>5, <2>7, <2>11
<1> QED  BY <1>6, <1>7

-----------------------------------------------------------------------------
(* Sequences of sequences.                                                 *)

\* A sequence over a set is one over its own members.
LEMMA SeqIsSequence ==
  ASSUME NEW S, NEW s \in Seq(S)
  PROVE  Sequence(s) /\ ToSet(s) \subseteq S
<1>1. DOMAIN s = 1 .. Len(s) /\ Len(s) \in Nat /\ \A k \in 1 .. Len(s) : s[k] \in S
  OBVIOUS
<1>2. \A k \in 1 .. Len(s) : s[k] \in ToSet(s)
  BY <1>1 DEF ToSet
<1>3. s = [k \in 1 .. Len(s) |-> s[k]]
  OBVIOUS
<1>4. s \in Seq(ToSet(s))
  BY <1>1, <1>2, <1>3, IsASeq
<1>5. ToSet(s) \subseteq S
  BY <1>1 DEF ToSet
<1> QED  BY <1>4, <1>5 DEF Sequence

\* Where each sequence ends in the one that they make.
Ends(off, n, seqs) == off \in [0 .. n -> Nat] /\ off[0] = 0 /\ \A k \in 1 .. n : off[k] = off[k - 1] + Len(seqs[k])
Flat(flat, off, m, S, seqs) ==
  /\ flat \in Seq(S) /\ Len(flat) = off[m]
  /\ \A k \in 1 .. m : \A j \in 1 .. Len(seqs[k]) : flat[off[k - 1] + j] = seqs[k][j]
  /\ \A p \in 1 .. Len(flat) : \E k \in 1 .. m : \E j \in 1 .. Len(seqs[k]) : p = off[k - 1] + j

\* The positions at which sequences end when they are joined.
LEMMA EndsExist ==
  ASSUME NEW S, NEW n \in Nat, NEW seqs \in [1 .. n -> Seq(S)]
  PROVE  \E off : Ends(off, n, seqs)
<1> DEFINE step == [k \in 1 .. n |-> [x \in Nat |-> x + Len(seqs[k])]]
<1>1. step \in [1 .. n -> [Nat -> Nat]] /\ \A k \in 1 .. n, x \in Nat : step[k][x] = x + Len(seqs[k])
  <2>1. \A k \in 1 .. n : Len(seqs[k]) \in Nat
    OBVIOUS
  <2> QED  BY <2>1
<1>2. PICK off : Loop(off, n, Nat, 0, step)
  <2> HIDE DEF step
  <2>1. PICK zero \in Nat : zero = 0
    OBVIOUS
  <2>2. \E off : Loop(off, n, Nat, zero, step)
    BY <1>1, Recursion
  <2> QED  BY <2>1, <2>2
<1> HIDE DEF step
<1>3. Ends(off, n, seqs)
  <2>1. \A k \in 1 .. n : off[k - 1] \in Nat
    BY <1>2 DEF Loop
  <2> QED  BY <1>1, <1>2, <2>1 DEF Loop, Ends
<1> QED  BY <1>3

\* A later sequence ends later.
LEMMA EndsGrow ==
  ASSUME NEW S, NEW n \in Nat, NEW seqs \in [1 .. n -> Seq(S)], NEW off, Ends(off, n, seqs),
         NEW k \in 0 .. n, NEW l \in k .. n
  PROVE  off[k] <= off[l]
<1> DEFINE Bad == {m \in k .. n : off[m] < off[k]}
<1>1. ASSUME Bad # {} PROVE FALSE
  <2>1. PICK m \in Bad : \A y \in Bad : m <= y
    <3>1. Bad \subseteq Nat
      OBVIOUS
    <3> HIDE DEF Bad
    <3> QED  BY <1>1, <3>1, LeastOf
  <2>2. m # k /\ m \in 1 .. n /\ m - 1 \in k .. n /\ m - 1 \notin Bad
    BY <2>1 DEF Ends
  <2>3. Len(seqs[m]) \in Nat /\ off[m] = off[m - 1] + Len(seqs[m]) /\ off[m - 1] \in Nat /\ off[k] \in Nat
    BY <2>2 DEF Ends
  <2> QED  BY <2>1, <2>2, <2>3
<1>2. off[l] \in Nat /\ off[k] \in Nat
  BY DEF Ends
<1> QED  BY <1>1, <1>2

\* One more sequence joined.
LEMMA FlatMore ==
  ASSUME NEW S, NEW n \in Nat, NEW seqs \in [1 .. n -> Seq(S)], NEW off, Ends(off, n, seqs),
         NEW m \in 1 .. n, NEW flat, Flat(flat, off, m - 1, S, seqs)
  PROVE  Flat(flat \o seqs[m], off, m, S, seqs)
<1>1. PICK more \in Seq(S) : more = seqs[m]
  OBVIOUS
<1>2. /\ flat \in Seq(S) /\ Len(flat) = off[m - 1] /\ off[m] = off[m - 1] + Len(more)
      /\ Len(more) \in Nat /\ off[m - 1] \in Nat
  BY <1>1 DEF Flat, Ends
<1>3. PICK t : t = flat \o more
  OBVIOUS
<1>4. /\ t \in Seq(S) /\ Len(t) = Len(flat) + Len(more)
      /\ \A i \in 1 .. Len(flat) + Len(more) : t[i] = IF i <= Len(flat) THEN flat[i] ELSE more[i - Len(flat)]
  BY <1>2, <1>3, ConcatProperties
<1>5. ASSUME NEW k \in 1 .. m, NEW j \in 1 .. Len(seqs[k]) PROVE t[off[k - 1] + j] = seqs[k][j]
  <2>1. CASE k = m
    BY <1>1, <1>2, <1>4, <1>5, <2>1
  <2>2. CASE k # m
    <3>1. k \in 1 .. m - 1 /\ k \in 0 .. n /\ m - 1 \in k .. n
      BY <2>2
    <3>2. PICK l \in k .. n : l = m - 1
      BY <3>1
    <3>3. off[k] <= off[l]
      BY <3>1, <3>2, EndsGrow
    <3>4. off[k] = off[k - 1] + Len(seqs[k]) /\ off[k - 1] \in Nat /\ Len(seqs[k]) \in Nat
      BY <3>1 DEF Ends
    <3>5. PICK x : x = off[k - 1] + j
      OBVIOUS
    <3>6. x \in 1 .. Len(flat)
      <4>1. PICK a \in Nat, len \in Nat : a = off[k - 1] /\ len = Len(seqs[k]) /\ off[k] = a + len
        BY <3>4
      <4>2. PICK b \in Nat : b = Len(flat) /\ a + len <= b
        BY <1>2, <3>2, <3>3, <4>1
      <4>3. x = a + j /\ j \in 1 .. len
        BY <3>5, <4>1
      <4> QED  BY <4>2, <4>3
    <3>7. flat[x] = seqs[k][j]
      BY <3>1, <3>5 DEF Flat
    <3>8. t[x] = flat[x]
      <4>1. PICK b \in Nat, c \in Nat : b = Len(flat) /\ c = Len(more)
        BY <1>2
      <4>2. x \in 1 .. b + c /\ x <= b
        BY <3>6, <4>1
      <4>3. \A i \in 1 .. b + c : t[i] = IF i <= b THEN flat[i] ELSE more[i - b]
        BY <1>4, <4>1
      <4> QED  BY <4>2, <4>3
    <3> QED  BY <3>5, <3>7, <3>8
  <2> QED  BY <2>1, <2>2
<1>6. ASSUME NEW p \in 1 .. Len(t) PROVE \E k \in 1 .. m : \E j \in 1 .. Len(seqs[k]) : p = off[k - 1] + j
  <2>1. CASE p <= Len(flat)
    <3>1. p \in 1 .. Len(flat)
      BY <2>1
    <3>2. PICK k \in 1 .. m - 1 : \E j \in 1 .. Len(seqs[k]) : p = off[k - 1] + j
      BY <3>1 DEF Flat
    <3>3. k \in 1 .. m
      OBVIOUS
    <3> QED  BY <3>2, <3>3
  <2>2. CASE ~(p <= Len(flat))
    <3>1. p - Len(flat) \in 1 .. Len(more) /\ p = off[m - 1] + (p - Len(flat))
      BY <1>2, <1>4, <2>2
    <3> QED  BY <1>1, <3>1
  <2> QED  BY <2>1, <2>2
<1>7. t \in Seq(S) /\ Len(t) = off[m]
  BY <1>2, <1>4
<1>8. Flat(t, off, m, S, seqs)
  BY <1>5, <1>6, <1>7 DEF Flat
<1> QED  BY <1>1, <1>3, <1>8

\* FlattenSeq joins the sequences, each from where the one before it ends.
LEMMA FlattenIs ==
  ASSUME NEW S, NEW n \in Nat, NEW seqs \in [1 .. n -> Seq(S)]
  PROVE  \E off : Ends(off, n, seqs) /\ Flat(FlattenSeq(seqs), off, n, S, seqs)
<1>1. PICK off : Ends(off, n, seqs)
  BY EndsExist
<1>2. Len(seqs) = n /\ DOMAIN seqs = 1 .. n
  <2>1. seqs \in Seq(Seq(S))
    <3>1. seqs = [k \in 1 .. n |-> seqs[k]] /\ \A k \in 1 .. n : seqs[k] \in Seq(S)
      OBVIOUS
    <3> QED  BY <3>1, IsASeq
  <2>2. DOMAIN seqs = 1 .. n
    OBVIOUS
  <2> QED  BY <2>1, <2>2, LenProperties
<1>3. CASE n = 0
  <2>1. FlattenSeq(seqs) = seqs
    BY <1>2, <1>3 DEF FlattenSeq
  <2>2. seqs = << >>
    BY <1>2, <1>3
  <2>3. Flat(<< >>, off, 0, S, seqs)
    <3>1. << >> \in Seq(S) /\ Len(<< >>) = 0
      BY EmptySeq
    <3> QED  BY <3>1, <1>1 DEF Flat, Ends
  <2> QED  BY <1>1, <1>3, <2>1, <2>2, <2>3
<1>4. CASE n # 0
  <2> DEFINE F(f) == [i \in 1 .. n |-> IF i = 1 THEN seqs[i] ELSE f[i - 1] \o seqs[i]]
             step == [k \in 1 .. n |-> [x \in Seq(S) |-> x \o seqs[k]]]
             flatten == CHOOSE f : f = F(f)
  <2>1. step \in [1 .. n -> [Seq(S) -> Seq(S)]] /\ \A k \in 1 .. n, x \in Seq(S) : step[k][x] = x \o seqs[k]
    OBVIOUS
  <2>2. PICK g : Loop(g, n, Seq(S), << >>, step)
    <3> HIDE DEF step
    <3>1. PICK none \in Seq(S) : none = << >>
      BY EmptySeq
    <3>2. \E g : Loop(g, n, Seq(S), none, step)
      BY <2>1, Recursion
    <3> QED  BY <3>1, <3>2
  <2> HIDE DEF step
  <2>3. g[0] = << >> /\ \A k \in 1 .. n : g[k] = g[k - 1] \o seqs[k]
    <3>1. g[0] = << >>
      BY <2>2 DEF Loop
    <3>2. ASSUME NEW k \in 1 .. n PROVE g[k] = g[k - 1] \o seqs[k]
      <4>1. g[k - 1] \in Seq(S) /\ g[k] = step[k][g[k - 1]]
        BY <2>2 DEF Loop
      <4> QED  BY <2>1, <4>1
    <3> QED  BY <3>1, <3>2
  <2>4. g[1] = seqs[1]
    <3>1. PICK s \in Seq(S) : s = seqs[1]
      BY <1>4
    <3>2. << >> \o s = s
      BY ConcatEmptySeq
    <3>3. PICK one \in 1 .. n : one = 1 /\ one - 1 = 0
      BY <1>4
    <3>4. g[one] = g[one - 1] \o seqs[one]
      BY <2>3
    <3> QED  BY <2>3, <3>1, <3>2, <3>3, <3>4
  <2> DEFINE f == [i \in 1 .. n |-> g[i]]
  <2>5. f = F(f)
    <3>1. \A i \in 1 .. n : f[i] = IF i = 1 THEN seqs[i] ELSE f[i - 1] \o seqs[i]
      <4> SUFFICES ASSUME NEW i \in 1 .. n PROVE f[i] = IF i = 1 THEN seqs[i] ELSE f[i - 1] \o seqs[i]
        OBVIOUS
      <4>1. CASE i = 1
        BY <2>4, <4>1
      <4>2. CASE i # 1
        <5>1. i - 1 \in 1 .. n
          BY <4>2
        <5> QED  BY <2>3, <4>2, <5>1
      <4> QED  BY <4>1, <4>2
    <3> QED  BY <3>1
  <2>6. flatten = F(flatten)
    <3> HIDE DEF f, F
    <3> QED  BY <2>5
  <2>7. FlattenSeq(seqs) = flatten[n]
    BY <1>2, <1>4 DEF FlattenSeq
  <2> HIDE DEF flatten, f
  <2>8. \A i \in 1 .. n : flatten[i] = IF i = 1 THEN seqs[i] ELSE flatten[i - 1] \o seqs[i]
    BY <2>6
  <2> DEFINE Bad == {m \in 1 .. n : ~Flat(flatten[m], off, m, S, seqs)}
  <2>9. ASSUME Bad # {} PROVE FALSE
    <3>1. PICK m \in Bad : \A y \in Bad : m <= y
      <4>1. Bad \subseteq Nat
        OBVIOUS
      <4> HIDE DEF Bad
      <4> QED  BY <2>9, <4>1, LeastOf
    <3>2. CASE m = 1
      <4>1. Flat(<< >>, off, 0, S, seqs)
        <5>1. << >> \in Seq(S) /\ Len(<< >>) = 0
          BY EmptySeq
        <5> QED  BY <5>1, <1>1 DEF Flat, Ends
      <4>2. PICK one \in 1 .. n : one = 1
        BY <1>4
      <4>3. Flat(<< >> \o seqs[one], off, one, S, seqs)
        <5>1. one - 1 = 0
          BY <4>2
        <5> QED  BY <1>1, <4>1, <5>1, FlatMore
      <4>4. << >> \o seqs[one] = seqs[one]
        BY ConcatEmptySeq
      <4> QED  BY <2>8, <3>1, <3>2, <4>2, <4>3, <4>4
    <3>3. CASE m # 1
      <4>1. m - 1 \in 1 .. n /\ m - 1 \notin Bad
        BY <3>1, <3>3
      <4>2. Flat(flatten[m - 1], off, m - 1, S, seqs)
        BY <4>1
      <4>3. Flat(flatten[m - 1] \o seqs[m], off, m, S, seqs)
        BY <1>1, <4>2, FlatMore
      <4> QED  BY <2>8, <3>1, <3>3, <4>3
    <3> QED  BY <3>2, <3>3
  <2>10. n \in 1 .. n
    BY <1>4
  <2> QED  BY <1>1, <2>7, <2>9, <2>10
<1> QED  BY <1>3, <1>4

-----------------------------------------------------------------------------
(* The normaliser.                                                         *)

\* What is left of the encodings after the first q; what a pass leaves.
Rest(c, q) == SubSeq(c, q + 1, Len(c))
OffAll(c) == Off(Off(Off(c, "url"), "html"), "base64")
Codes == {"url", "html", "base64"}
Descents(c) == {k \in 2 .. Len(c) : Order(c[k]) <= Order(c[k - 1])}

\* The rest of a list after the first q.
LEMMA RestIs ==
  ASSUME NEW S, NEW c \in Seq(S), NEW q \in 0 .. Len(c)
  PROVE  /\ Rest(c, q) \in Seq(S) /\ Len(Rest(c, q)) = Len(c) - q
         /\ \A k \in 1 .. Len(c) - q : Rest(c, q)[k] = c[q + k]
         /\ q = 0 => Rest(c, q) = c
         /\ q = Len(c) <=> Rest(c, q) = << >>
         /\ q < Len(c) => Head(Rest(c, q)) = c[q + 1] /\ Tail(Rest(c, q)) = Rest(c, q + 1)
<1>1. PICK n \in Nat : n = Len(c) /\ q \in 0 .. n /\ DOMAIN c = 1 .. n
  OBVIOUS
<1>2. \A k \in q + 1 .. n : c[k] \in S
  BY <1>1
<1>3. PICK r : r = SubSeq(c, q + 1, n)
  OBVIOUS
<1>4. /\ r \in Seq(S) /\ Len(r) = n - q
      /\ \A k \in 1 .. n - q : r[k] = c[q + k]
  <2>1. PICK m \in Int : m = q + 1
    OBVIOUS
  <2>2. /\ r \in Seq(S)
        /\ Len(r) = IF m <= n THEN n - m + 1 ELSE 0
        /\ \A i \in 1 .. n - m + 1 : r[i] = c[m + i - 1]
    BY <1>1, <1>2, <1>3, <2>1, SubSeqProperties
  <2> QED  BY <1>1, <2>1, <2>2
<1>5. q = 0 => r = c
  <2> SUFFICES ASSUME q = 0 PROVE r = c
    OBVIOUS
  <2>1. Len(r) = Len(c) /\ \A k \in 1 .. Len(c) : r[k] = c[k]
    BY <1>1, <1>4
  <2> QED  BY <1>4, <2>1, SeqEqual
<1>6. q = n <=> r = << >>
  <2>1. r = << >> <=> Len(r) = 0
    BY <1>4, EmptySeq, SeqEqual
  <2> QED  BY <1>1, <1>4, <2>1
<1>7. q < n => Head(r) = c[q + 1] /\ Tail(r) = SubSeq(c, q + 1 + 1, n)
  <2> SUFFICES ASSUME q < n PROVE Head(r) = c[q + 1] /\ Tail(r) = SubSeq(c, q + 1 + 1, n)
    OBVIOUS
  <2>1. PICK m \in 1 .. Len(c) : m = q + 1
    BY <1>1
  <2>2. PICK l \in m .. Len(c) : l = n
    BY <1>1, <2>1
  <2>3. Head(SubSeq(c, m, l)) = c[m] /\ Tail(SubSeq(c, m, l)) = SubSeq(c, m + 1, l)
    BY HeadTailOfSubSeq
  <2> QED  BY <1>3, <2>1, <2>2, <2>3
<1> QED  BY <1>1, <1>3, <1>4, <1>5, <1>6, <1>7 DEF Rest

\* One decoder takes off the outermost encoding, if it is its own.
LEMMA OffAt ==
  ASSUME NEW S, NEW c \in Seq(S), NEW q \in 0 .. Len(c), NEW kind
  PROVE  Off(Rest(c, q), kind) = IF q < Len(c) /\ c[q + 1] = kind THEN Rest(c, q + 1) ELSE Rest(c, q)
<1>1. PICK r : r = Rest(c, q)
  OBVIOUS
<1>2. q = Len(c) <=> r = << >>
  BY <1>1, RestIs
<1>3. q < Len(c) => Head(r) = c[q + 1] /\ Tail(r) = Rest(c, q + 1)
  BY <1>1, RestIs
<1>4. q < Len(c) <=> q # Len(c)
  OBVIOUS
<1> QED  BY <1>1, <1>2, <1>3, <1>4 DEF Off

\* A pass takes off a part of the encodings that stands in the order of the decoders.
LEMMA OffAllIs ==
  ASSUME NEW c \in Seq(Codes), c # << >>
  PROVE  \E q \in 1 .. Len(c) : OffAll(c) = Rest(c, q) /\ (q < Len(c) => Order(c[q + 1]) <= Order(c[q]))
<1>1. PICK n \in Nat : n = Len(c) /\ n > 0 /\ DOMAIN c = 1 .. n
  BY EmptySeq, SeqEqual
<1>2. \A k \in 1 .. n : c[k] \in Codes
  BY <1>1
<1>3. PICK q1 \in 0 .. n : /\ q1 = (IF c[1] = "url" THEN 1 ELSE 0)
                           /\ Off(c, "url") = Rest(c, q1)
  <2>1. PICK q \in 0 .. Len(c) : q = 0
    BY <1>1
  <2>2. Rest(c, q) = c
    BY <2>1, RestIs
  <2>3. Off(Rest(c, q), "url") = IF q < Len(c) /\ c[q + 1] = "url" THEN Rest(c, q + 1) ELSE Rest(c, q)
    BY OffAt
  <2> QED  BY <1>1, <2>1, <2>2, <2>3
<1>4. PICK q2 \in 0 .. n : /\ q2 = (IF q1 < n /\ c[q1 + 1] = "html" THEN q1 + 1 ELSE q1)
                           /\ Off(Rest(c, q1), "html") = Rest(c, q2)
  <2>1. Off(Rest(c, q1), "html") = IF q1 < Len(c) /\ c[q1 + 1] = "html" THEN Rest(c, q1 + 1) ELSE Rest(c, q1)
    BY <1>1, OffAt
  <2> QED  BY <1>1, <2>1
<1>5. PICK q3 \in 0 .. n : /\ q3 = (IF q2 < n /\ c[q2 + 1] = "base64" THEN q2 + 1 ELSE q2)
                           /\ Off(Rest(c, q2), "base64") = Rest(c, q3)
  <2>1. Off(Rest(c, q2), "base64") = IF q2 < Len(c) /\ c[q2 + 1] = "base64" THEN Rest(c, q2 + 1) ELSE Rest(c, q2)
    BY <1>1, OffAt
  <2> QED  BY <1>1, <2>1
<1>6. OffAll(c) = Rest(c, q3)
  BY <1>3, <1>4, <1>5 DEF OffAll
<1>7. Order("url") = 1 /\ Order("html") = 2 /\ Order("base64") = 3
  BY DEF Order
<1>8. c[1] \in Codes /\ q3 >= 1
  BY <1>1, <1>2, <1>3, <1>4, <1>5 DEF Codes
<1>9. ASSUME q3 < n PROVE Order(c[q3 + 1]) <= Order(c[q3])
  <2>1. c[q3] \in Codes /\ c[q3 + 1] \in Codes
    BY <1>2, <1>8, <1>9
  <2> QED  BY <1>1, <1>3, <1>4, <1>5, <1>7, <1>8, <1>9, <2>1 DEF Codes
<1> QED  BY <1>1, <1>6, <1>8, <1>9

\* The passes of a list of encodings: one, and one for each that does not come in the order of the decoders.
LEMMA PassesType ==
  ASSUME NEW c \in Seq(Codes)
  PROVE  /\ IsFiniteSet(Descents(c)) /\ Cardinality(Descents(c)) \in Nat
         /\ PassesFor(c) = IF c = << >> THEN 0 ELSE 1 + Cardinality(Descents(c))
<1>1. PICK n \in Nat : n = Len(c)
  OBVIOUS
<1>2. IsFiniteSet(2 .. n)
  BY FS_Interval
<1>3. Descents(c) \subseteq 2 .. n
  BY <1>1 DEF Descents
<1>4. IsFiniteSet(Descents(c))
  BY <1>2, <1>3, FS_Subset
<1>5. Cardinality(Descents(c)) \in Nat
  BY <1>4, FS_CardinalityType
<1> QED  BY <1>4, <1>5 DEF PassesFor, Descents

\* A pass takes off one encoding at least, and leaves one pass fewer.
LEMMA PassTakesOff ==
  ASSUME NEW c \in Seq(Codes)
  PROVE  /\ OffAll(c) \in Seq(Codes)
         /\ c = << >> => OffAll(c) = << >>
         /\ c # << >> => OffAll(c) # c /\ PassesFor(OffAll(c)) <= PassesFor(c) - 1
<1>1. CASE c = << >>
  <2>1. OffAll(c) = << >>
    BY <1>1 DEF OffAll, Off
  <2> QED  BY <1>1, <2>1
<1>2. CASE c # << >>
  <2>1. PICK q \in 1 .. Len(c) : OffAll(c) = Rest(c, q) /\ (q < Len(c) => Order(c[q + 1]) <= Order(c[q]))
    BY <1>2, OffAllIs
  <2>2. PICK n \in Nat : n = Len(c) /\ q \in 1 .. n /\ q \in 0 .. Len(c)
    OBVIOUS
  <2>3. PICK d : d = Rest(c, q)
    OBVIOUS
  <2>4. /\ d \in Seq(Codes) /\ Len(d) = n - q
        /\ \A k \in 1 .. n - q : d[k] = c[q + k]
        /\ q = n <=> d = << >>
    BY <2>2, <2>3, RestIs
  <2>5. d # c
    BY <2>2, <2>4
  <2>6. PassesFor(d) <= PassesFor(c) - 1
    <3>1. CASE d = << >>
      <4>1. PICK b \in Nat : b = Cardinality(Descents(c)) /\ PassesFor(c) = 1 + b
        BY <1>2, PassesType
      <4>2. PassesFor(d) = 0
        BY <2>4, <3>1, PassesType
      <4> QED  BY <4>1, <4>2
    <3>2. CASE d # << >>
      <4>1. q < n /\ q + 1 \in Descents(c)
        BY <2>1, <2>2, <2>4, <3>2 DEF Descents
      <4>2. PICK A, B : A = Descents(d) /\ B = Descents(c)
        OBVIOUS
      <4>3. IsFiniteSet(A) /\ IsFiniteSet(B) /\ Cardinality(A) \in Nat /\ Cardinality(B) \in Nat
        BY <2>4, <4>2, PassesType
      <4>4. PICK T : T = B \ {q + 1}
        OBVIOUS
      <4>5. IsFiniteSet(T) /\ Cardinality(T) = Cardinality(B) - 1
        BY <4>1, <4>2, <4>3, <4>4, FS_RemoveElement
      <4> DEFINE f == [k \in A |-> k + q]
      <4>6. \A k \in A : k \in 2 .. n - q /\ k + q \in T
        <5> SUFFICES ASSUME NEW k \in A PROVE k \in 2 .. n - q /\ k + q \in T
          OBVIOUS
        <5>1. k \in 2 .. n - q /\ Order(d[k]) <= Order(d[k - 1])
          BY <2>4, <4>2 DEF Descents
        <5>2. d[k] = c[k + q] /\ d[k - 1] = c[k + q - 1]
          <6>1. k \in 1 .. n - q /\ k - 1 \in 1 .. n - q /\ q + k = k + q /\ q + (k - 1) = k + q - 1
            BY <2>2, <5>1
          <6>2. d[k] = c[q + k] /\ d[k - 1] = c[q + (k - 1)]
            BY <2>4, <6>1
          <6> QED  BY <6>1, <6>2
        <5>3. k + q \in 2 .. n /\ k + q # q + 1
          BY <2>2, <5>1
        <5> QED  BY <2>2, <4>2, <4>4, <5>1, <5>2, <5>3 DEF Descents
      <4>7. f \in Injection(A, T)
        <5>1. f \in [A -> T]
          BY <4>6
        <5>2. \A j, k \in A : f[j] = f[k] => j = k
          BY <2>2, <4>6
        <5> HIDE DEF f
        <5> QED  BY <5>1, <5>2, Zenon DEF Injection, IsInjective
      <4>8. Cardinality(A) <= Cardinality(T)
        <5> HIDE DEF f
        <5> QED  BY <4>5, <4>7, FS_Injection
      <4>9. PassesFor(d) = 1 + Cardinality(A) /\ PassesFor(c) = 1 + Cardinality(B)
        BY <1>2, <2>4, <3>2, <4>2, PassesType
      <4> QED  BY <4>3, <4>5, <4>8, <4>9
    <3> QED  BY <3>1, <3>2
  <2> QED  BY <1>2, <2>1, <2>3, <2>4, <2>5, <2>6
<1> QED  BY <1>1, <1>2

\* The items of a text under any encodings, and the texts of such items.
Recoded(text) == {Item(text[j].value, c, text[j].hidden) : j \in DOMAIN text, c \in Seq(Encodings)}
Recodings(text) == [DOMAIN text -> Recoded(text)]

\* What a pass leaves is part of the list.
LEMMA OffAllType ==
  ASSUME NEW S, NEW c \in Seq(S)
  PROVE  OffAll(c) \in Seq(S)
<1>1. ASSUME NEW d \in Seq(S), NEW kind PROVE Off(d, kind) \in Seq(S)
  <2>1. d # << >> => Tail(d) \in Seq(S)
    BY HeadTailProperties
  <2> QED  BY <2>1 DEF Off
<1>2. Off(c, "url") \in Seq(S)
  BY <1>1
<1>3. Off(Off(c, "url"), "html") \in Seq(S)
  BY <1>1, <1>2
<1> QED  BY <1>1, <1>3 DEF OffAll

\* An item is a record of three fields.
LEMMA ItemIs ==
  ASSUME NEW v, NEW c, NEW h, NEW x, x = Item(v, c, h)
  PROVE  /\ x.value = v /\ x.code = c /\ x.hidden = h
         /\ \A d : [x EXCEPT !.code = d] = Item(v, d, h)
BY DEF Item

\* A text has items and is one of its recodings.
LEMMA TextIs ==
  ASSUME NEW text, IsText(text)
  PROVE  /\ Len(text) \in Nat /\ DOMAIN text = 1 .. Len(text) /\ text \in Recodings(text)
         /\ \A j \in DOMAIN text : text[j] = Item(text[j].value, text[j].code, text[j].hidden) /\ text[j].code \in Seq(Encodings)
<1>1. Len(text) \in Nat /\ DOMAIN text = 1 .. Len(text) /\ \A k \in DOMAIN text : text[k] \in ToSet(text)
  BY SequenceFacts DEF IsText
<1>2. \A j \in DOMAIN text : text[j] = Item(text[j].value, text[j].code, text[j].hidden) /\ text[j].code \in Seq(Encodings)
  BY <1>1 DEF IsText
<1>3. \A j \in DOMAIN text : text[j] \in Recoded(text)
  BY <1>2 DEF Recoded
<1>4. text = [j \in DOMAIN text |-> text[j]]
  BY DEF IsText, Sequence
<1> QED  BY <1>1, <1>2, <1>3, <1>4 DEF Recodings

\* A pass makes a recoding of a recoding.
LEMMA DecodePassIs ==
  ASSUME NEW text, IsText(text), NEW t \in Recodings(text)
  PROVE  /\ DecodePass(t) \in Recodings(text)
         /\ \A j \in DOMAIN text : \A v, c, h : t[j] = Item(v, c, h) => DecodePass(t)[j] = Item(v, OffAll(c), h)
<1>1. DOMAIN t = DOMAIN text
  BY DEF Recodings
<1>2. ASSUME NEW j \in DOMAIN text, NEW v, NEW c, NEW h, t[j] = Item(v, c, h)
      PROVE  DecodePass(t)[j] = Item(v, OffAll(c), h)
  <2>1. PICK x : x = t[j]
    OBVIOUS
  <2>2. DecodePass(t)[j] = [x EXCEPT !.code = OffAll(x.code)]
    BY <1>1, <2>1 DEF DecodePass, OffAll
  <2>3. x.code = c /\ [x EXCEPT !.code = OffAll(c)] = Item(v, OffAll(c), h)
    BY <1>2, <2>1, ItemIs
  <2> QED  BY <2>2, <2>3
<1>3. ASSUME NEW j \in DOMAIN text PROVE DecodePass(t)[j] \in Recoded(text)
  <2>1. t[j] \in Recoded(text)
    BY DEF Recodings
  <2>2. PICK i \in DOMAIN text, c \in Seq(Encodings) : t[j] = Item(text[i].value, c, text[i].hidden)
    BY <2>1 DEF Recoded
  <2>3. DecodePass(t)[j] = Item(text[i].value, OffAll(c), text[i].hidden)
    BY <1>2, <2>2
  <2>4. OffAll(c) \in Seq(Encodings)
    BY OffAllType
  <2> QED  BY <2>3, <2>4 DEF Recoded
<1>4. DecodePass(t) \in Recodings(text)
  <2>1. DecodePass(t) = [j \in DOMAIN text |-> DecodePass(t)[j]]
    BY <1>1 DEF DecodePass
  <2> QED  BY <1>3, <2>1 DEF Recodings
<1> QED  BY <1>2, <1>4

\* The texts that the passes make, up to a depth.
Made(g, d, text) == g \in [0 .. d -> Recodings(text)] /\ g[0] = text /\ \A k \in 1 .. d : g[k] = DecodePass(g[k - 1])

\* Decoded is the last text that the passes make, one of the other.
LEMMA MadeIs ==
  ASSUME NEW text, IsText(text), NEW d \in Nat
  PROVE  \E g : Made(g, d, text) /\ Decoded(text, d) = g[d]
<1> DEFINE S == Recodings(text)
           F(g) == [k \in 0 .. d |-> IF k = 0 THEN text ELSE DecodePass(g[k - 1])]
           step == [k \in 1 .. d |-> [x \in S |-> DecodePass(x)]]
           made == CHOOSE f : f = F(f)
<1>0. text \in S
  BY TextIs
<1>1. step \in [1 .. d -> [S -> S]] /\ \A k \in 1 .. d, x \in S : step[k][x] = DecodePass(x)
  <2>1. \A x \in S : DecodePass(x) \in S
    BY DecodePassIs
  <2> HIDE DEF S
  <2> QED  BY <2>1
<1>2. PICK g : Loop(g, d, S, text, step)
  <2> HIDE DEF step, S
  <2> QED  BY <1>0, <1>1, Recursion
<1> HIDE DEF step, S
<1>3. g[0] = text /\ \A k \in 1 .. d : g[k] = DecodePass(g[k - 1])
  <2>1. g[0] = text
    BY <1>2 DEF Loop
  <2>2. ASSUME NEW k \in 1 .. d PROVE g[k] = DecodePass(g[k - 1])
    <3>1. g[k - 1] \in S /\ g[k] = step[k][g[k - 1]]
      BY <1>2 DEF Loop
    <3> QED  BY <1>1, <3>1
  <2> QED  BY <2>1, <2>2
<1>4. g = F(g)
  <2>1. g = [k \in 0 .. d |-> g[k]]
    BY <1>2 DEF Loop
  <2>2. \A k \in 0 .. d : g[k] = IF k = 0 THEN text ELSE DecodePass(g[k - 1])
    BY <1>3
  <2> QED  BY <2>1, <2>2
<1>5. made = F(made)
  <2> HIDE DEF F
  <2> QED  BY <1>4
<1>6. Decoded(text, d) = made[d]
  BY DEF Decoded
<1> HIDE DEF made
<1>7. made[0] = text /\ \A k \in 1 .. d : made[k] = DecodePass(made[k - 1])
  BY <1>5
<1> DEFINE Bad == {k \in 0 .. d : made[k] \notin S}
<1>8. ASSUME Bad # {} PROVE FALSE
  <2>1. PICK k \in Bad : \A y \in Bad : k <= y
    <3>1. Bad \subseteq Nat
      OBVIOUS
    <3> HIDE DEF Bad
    <3> QED  BY <1>8, <3>1, LeastOf
  <2>2. k # 0 /\ k \in 1 .. d /\ k - 1 \in 0 .. d /\ k - 1 \notin Bad
    BY <1>0, <1>7, <2>1
  <2>3. made[k - 1] \in S
    BY <2>2
  <2>4. DecodePass(made[k - 1]) \in S
    BY <2>3, DecodePassIs DEF S
  <2> QED  BY <1>7, <2>1, <2>2, <2>4
<1>9. made \in [0 .. d -> S]
  <2>1. made = [k \in 0 .. d |-> made[k]]
    <3> HIDE DEF Bad
    <3> QED  BY <1>5
  <2> QED  BY <1>8, <2>1
<1>10. Made(made, d, text)
  BY <1>7, <1>9 DEF Made, S
<1> QED  BY <1>6, <1>10

\* The texts that the passes make do not depend on how many there are.
LEMMA MadeAlike ==
  ASSUME NEW text, NEW d \in Nat, NEW e \in Nat, NEW g, NEW h, Made(g, d, text), Made(h, e, text),
         NEW q \in 0 .. d, q <= e
  PROVE  g[q] = h[q]
<1> DEFINE Bad == {k \in 0 .. q : g[k] # h[k]}
<1>1. ASSUME Bad # {} PROVE FALSE
  <2>1. PICK k \in Bad : \A y \in Bad : k <= y
    <3>1. Bad \subseteq Nat
      OBVIOUS
    <3> HIDE DEF Bad
    <3> QED  BY <1>1, <3>1, LeastOf
  <2>2. k # 0
    BY <2>1 DEF Made
  <2>3. k \in 1 .. d /\ k \in 1 .. e /\ k - 1 \in 0 .. q /\ k - 1 \notin Bad
    BY <2>1, <2>2
  <2>4. g[k - 1] = h[k - 1]
    BY <2>3
  <2> QED  BY <2>1, <2>3, <2>4 DEF Made
<1> QED  BY <1>1

\* Decoded is a recoding; nothing at 0, and one pass more at each next depth.
LEMMA DecodedSteps ==
  ASSUME NEW text, IsText(text), NEW d \in Nat
  PROVE  /\ Decoded(text, 0) = text /\ Decoded(text, d) \in Recodings(text)
         /\ Decoded(text, d + 1) = DecodePass(Decoded(text, d))
<1>1. PICK zero \in Nat, e \in Nat : zero = 0 /\ e = d + 1
  OBVIOUS
<1>2. PICK f : Made(f, zero, text) /\ Decoded(text, zero) = f[zero]
  BY MadeIs
<1>3. PICK g : Made(g, d, text) /\ Decoded(text, d) = g[d]
  BY MadeIs
<1>4. PICK h : Made(h, e, text) /\ Decoded(text, e) = h[e]
  BY MadeIs
<1>5. d \in 0 .. d /\ d <= e
  BY <1>1
<1>6. g[d] = h[d]
  BY <1>3, <1>4, <1>5, MadeAlike
<1>7. h[e] = DecodePass(h[d])
  <2>1. e \in 1 .. e /\ e - 1 = d
    BY <1>1
  <2>2. h[e] = DecodePass(h[e - 1])
    BY <1>4, <2>1 DEF Made
  <2> QED  BY <2>1, <2>2
<1>8. f[zero] = text
  BY <1>1, <1>2 DEF Made
<1>9. g[d] \in Recodings(text)
  BY <1>3 DEF Made
<1> QED  BY <1>1, <1>2, <1>3, <1>4, <1>6, <1>7, <1>8, <1>9

\* normalize goes on to max_depth, or to where a pass changes nothing.
AllDecoded(text, e) == e = Passes \/ Decoded(text, e + 1) = Decoded(text, e)
\* Normalize stops where a pass changes nothing, or at max_depth.
LEMMA NormalizeIs ==
  ASSUME NEW text
  PROVE  \E e \in 0 .. Passes : Normalize(text) = [k \in 1 .. e + 1 |-> Decoded(text, k - 1)] /\ AllDecoded(text, e)
<1> DEFINE ends == {k \in 0 .. Passes : k = Passes \/ Decoded(text, k + 1) = Decoded(text, k)}
<1>1. ends \subseteq Nat /\ ends # {} /\ \A e \in ends : e \in 0 .. Passes /\ AllDecoded(text, e)
  BY BoundsAssumption DEF AllDecoded
<1>2. PICK e : e = Min(ends)
  OBVIOUS
<1>3. e \in ends
  <2> HIDE DEF ends
  <2>1. \E x \in ends : \A y \in ends : x <= y
    BY <1>1, LeastOf
  <2> QED  BY <1>2, <2>1 DEF Min
<1>4. Normalize(text) = [k \in 1 .. e + 1 |-> Decoded(text, k - 1)]
  BY <1>2 DEF Normalize
<1> HIDE DEF ends
<1> QED  BY <1>1, <1>3, <1>4

\* What passes leave of the encodings of one item.
Left(x, text, j, k) == \E c \in Seq(Codes) : /\ Decoded(text, k)[j] = Item(x.value, c, x.hidden)
                                             /\ c = << >> \/ PassesFor(c) <= PassesFor(x.code) - k
\* After k passes an item has its value, under encodings for k passes fewer, if any.
LEMMA LeftAfter ==
  ASSUME NEW text, IsText(text), NEW j \in DOMAIN text, NEW x, x = text[j], x.code \in Seq(Codes), NEW k \in Nat
  PROVE  Left(x, text, j, k)
<1>0. PassesFor(x.code) \in Nat
  BY PassesType
<1> DEFINE Bad == {n \in Nat : ~Left(x, text, j, n)}
<1>1. ASSUME Bad # {} PROVE FALSE
  <2>1. PICK n \in Bad : \A y \in Bad : n <= y
    <3>1. Bad \subseteq Nat
      OBVIOUS
    <3> HIDE DEF Bad
    <3> QED  BY <1>1, <3>1, LeastOf
  <2>2. n # 0
    <3>1. Decoded(text, 0)[j] = Item(x.value, x.code, x.hidden)
      BY DecodedSteps, TextIs
    <3>2. Left(x, text, j, 0)
      BY <1>0, <3>1 DEF Left
    <3> QED  BY <2>1, <3>2
  <2>3. PICK m \in Nat : n = m + 1 /\ m \notin Bad
    <3>1. n - 1 \in Nat /\ n = (n - 1) + 1 /\ n - 1 \notin Bad
      BY <2>1, <2>2
    <3> QED  BY <3>1
  <2>4. PICK c \in Seq(Codes) : /\ Decoded(text, m)[j] = Item(x.value, c, x.hidden)
                                /\ c = << >> \/ PassesFor(c) <= PassesFor(x.code) - m
    BY <2>3 DEF Left
  <2>5. Decoded(text, m) \in Recodings(text) /\ Decoded(text, n) = DecodePass(Decoded(text, m))
    BY <2>3, DecodedSteps
  <2>6. Decoded(text, n)[j] = Item(x.value, OffAll(c), x.hidden)
    BY <2>4, <2>5, DecodePassIs
  <2>7. PICK d : d = OffAll(c)
    OBVIOUS
  <2>8. d \in Seq(Codes) /\ (c = << >> => d = << >>) /\ (c # << >> => PassesFor(d) <= PassesFor(c) - 1)
    BY <2>7, PassTakesOff
  <2>9. d = << >> \/ PassesFor(d) <= PassesFor(x.code) - n
    <3>1. PassesFor(c) \in Nat /\ PassesFor(d) \in Nat
      BY <2>8, PassesType
    <3> QED  BY <1>0, <2>3, <2>4, <2>8, <3>1
  <2>10. Left(x, text, j, n)
    BY <2>6, <2>7, <2>8, <2>9 DEF Left
  <2> QED  BY <2>1, <2>10
<1> QED  BY <1>1

\* An item under encodings that the passes take off is plain in a variant of the text.
LEMMA Uncovered ==
  ASSUME NEW text, IsText(text), NEW j \in DOMAIN text, NEW x, x = text[j], x.code # << >>, Decodable(x),
         NEW e \in 0 .. Passes, AllDecoded(text, e)
  PROVE  \E v \in 1 .. e : Decoded(text, v)[j] = Item(x.value, << >>, x.hidden)
<1>1. x.code \in Seq(Codes)
  <2>1. x.code \in Seq(Encodings) /\ "short" \notin ToSet(x.code)
    BY TextIs DEF Decodable
  <2>2. \A k \in DOMAIN x.code : x.code[k] \in Codes
    BY <2>1 DEF ToSet, Encodings, Codes
  <2>3. x.code = [k \in 1 .. Len(x.code) |-> x.code[k]] /\ DOMAIN x.code = 1 .. Len(x.code) /\ Len(x.code) \in Nat
    BY <2>1
  <2> QED  BY <2>2, <2>3, IsASeq
<1>2. PassesFor(x.code) \in Nat /\ PassesFor(x.code) <= Passes /\ PassesFor(x.code) >= 1
  BY <1>1, PassesType DEF Decodable
<1>3. PICK p \in Nat : p = PassesFor(x.code) /\ p >= 1 /\ p <= Passes
  BY <1>2
<1>4. CASE p <= e
  <2>1. Left(x, text, j, p)
    BY <1>1, LeftAfter
  <2>2. PICK c \in Seq(Codes) : /\ Decoded(text, p)[j] = Item(x.value, c, x.hidden)
                                /\ c = << >> \/ PassesFor(c) <= PassesFor(x.code) - p
    BY <2>1 DEF Left
  <2>3. c = << >>
    <3>1. c # << >> => PassesFor(c) >= 1
      BY PassesType
    <3>2. PassesFor(c) \in Nat
      BY PassesType
    <3> QED  BY <1>3, <2>2, <3>1, <3>2
  <2> QED  BY <1>3, <1>4, <2>2, <2>3
<1>5. CASE ~(p <= e)
  <2>1. PICK n \in Nat : n = e
    OBVIOUS
  <2>2. Decoded(text, n + 1) = Decoded(text, n)
    BY <1>3, <1>5, <2>1, BoundsAssumption DEF AllDecoded
  <2>3. Left(x, text, j, n)
    BY <1>1, LeftAfter
  <2>4. PICK c \in Seq(Codes) : Decoded(text, n)[j] = Item(x.value, c, x.hidden)
    BY <2>3 DEF Left
  <2>5. Decoded(text, n + 1)[j] = Item(x.value, OffAll(c), x.hidden)
    <3>1. Decoded(text, n) \in Recodings(text) /\ Decoded(text, n + 1) = DecodePass(Decoded(text, n))
      BY DecodedSteps
    <3> QED  BY <2>4, <3>1, DecodePassIs
  <2>6. OffAll(c) = c
    BY <2>2, <2>4, <2>5, ItemIs
  <2>7. c = << >>
    BY <2>6, PassTakesOff
  <2>8. n # 0
    <3>1. Decoded(text, 0)[j] = x
      BY DecodedSteps
    <3>2. n = 0 => Item(x.value, c, x.hidden) = x
      BY <2>4, <3>1
    <3>3. n = 0 => x.code = c
      BY <3>2, ItemIs
    <3> QED  BY <2>7, <3>3
  <2>9. e \in 1 .. e
    BY <2>1, <2>8
  <2> QED  BY <2>1, <2>4, <2>7, <2>9
<1> QED  BY <1>4, <1>5

-----------------------------------------------------------------------------
(* What the HTTP gateway inspects.                                         *)

\* What a gateway reads of a file is a text.
LEMMA RawIs ==
  ASSUME NEW f, IsFile(f)
  PROVE  IsText(Raw(f))
<1>1. IsText(<< >>)
  BY EmptySeq DEF IsText, Sequence, ToSet
<1>2. CASE f.format \in {"text", "html"}
  <2>0. PICK parts : parts = f.parts
    OBVIOUS
  <2>1. PICK n \in Nat : parts = f.parts /\ n = Len(parts) /\ DOMAIN parts = 1 .. n
    BY <2>0, SequenceFacts DEF IsFile
  <2>2. \A i \in 1 .. n : IsText(parts[i].text)
    <3>1. \A i \in 1 .. n : parts[i] \in ToSet(parts)
      BY <2>1 DEF ToSet
    <3> QED  BY <2>1, <3>1 DEF IsFile
  <2> DEFINE S == UNION {ToSet(parts[i].text) : i \in 1 .. n}
             seqs == [i \in 1 .. n |-> parts[i].text]
  <2>3. seqs \in [1 .. n -> Seq(S)]
    <3>1. ASSUME NEW i \in 1 .. n PROVE parts[i].text \in Seq(S)
      <4>1. parts[i].text \in Seq(ToSet(parts[i].text)) /\ ToSet(parts[i].text) \subseteq S
        BY <2>2 DEF IsText, Sequence
      <4> HIDE DEF S
      <4> QED  BY <4>1, SeqMonotonic
    <3> HIDE DEF S
    <3> QED  BY <3>1
  <2>4. \A x \in S : x = Item(x.value, x.code, x.hidden) /\ x.code \in Seq(Encodings) /\ x.hidden \in BOOLEAN
    BY <2>2 DEF IsText
  <2>5. Raw(f) = FlattenSeq(seqs)
    BY <1>2, <2>1 DEF Raw
  <2> HIDE DEF S, seqs
  <2>6. FlattenSeq(seqs) \in Seq(S)
    BY <2>3, FlattenIs DEF Flat
  <2>7. Sequence(FlattenSeq(seqs)) /\ ToSet(FlattenSeq(seqs)) \subseteq S
    BY <2>6, SeqIsSequence
  <2> QED  BY <2>4, <2>5, <2>7 DEF IsText
<1>3. CASE f.format \notin {"text", "html"}
  BY <1>1, <1>3 DEF Raw
<1> QED  BY <1>2, <1>3

\* What normalize makes of a text besides itself.
Variations(text, v) ==
  \E e \in 0 .. Passes : /\ AllDecoded(text, e) /\ DOMAIN v = 1 .. e /\ Len(v) = e
                         /\ \A k \in 1 .. e : v[k] = Decoded(text, k)
\* The variants of a text are what the passes make of it, until nothing changes.
LEMMA VariationsAre ==
  ASSUME NEW text, IsText(text)
  PROVE  Variations(text, Tail(Normalize(text)))
<1>1. PICK e \in 0 .. Passes : Normalize(text) = [k \in 1 .. e + 1 |-> Decoded(text, k - 1)] /\ AllDecoded(text, e)
  BY NormalizeIs
<1>2. PICK S : S = Recodings(text)
  OBVIOUS
<1>3. PICK s : s = Normalize(text)
  OBVIOUS
<1>4. e \in Nat /\ e + 1 \in Nat
  BY BoundsAssumption
<1>5. ASSUME NEW k \in 1 .. e + 1 PROVE Decoded(text, k - 1) \in S
  <2>1. PICK m \in Nat : m = k - 1
    BY <1>4
  <2> QED  BY <1>2, <2>1, DecodedSteps
<1>6. s \in Seq(S) /\ Len(s) = e + 1
  <2>1. s \in Seq(S)
    BY <1>1, <1>3, <1>4, <1>5, IsASeq
  <2> QED  BY <1>1, <1>3, <1>4, <2>1, LenProperties
<1>7. s # << >>
  BY <1>4, <1>6, EmptySeq
<1>8. /\ Tail(s) \in Seq(S) /\ Len(Tail(s)) = e
      /\ \A i \in 1 .. Len(Tail(s)) : Tail(s)[i] = s[i + 1]
  BY <1>4, <1>6, <1>7, HeadTailProperties
<1>9. DOMAIN Tail(s) = 1 .. e
  BY <1>8, LenProperties
<1>10. ASSUME NEW k \in 1 .. e PROVE Tail(s)[k] = Decoded(text, k)
  <2>1. k + 1 \in 1 .. e + 1 /\ (k + 1) - 1 = k
    BY <1>4
  <2>2. Tail(s)[k] = s[k + 1]
    BY <1>8
  <2> QED  BY <1>1, <1>3, <2>1, <2>2
<1>11. Variations(text, Tail(s))
  BY <1>1, <1>8, <1>9, <1>10 DEF Variations
<1> QED  BY <1>3, <1>11

\* The variants of each field.
Decodings(r) ==
  [i \in DOMAIN Fields(r) |->
     LET v == Tail(Normalize(Fields(r)[i].text)) IN [k \in DOMAIN v |-> Carried(Fields(r)[i].type, v[k])]]
IsUpload(r) == IsText(r.url) /\ Sequence(r.parts) /\ \A p \in ToSet(r.parts) : IsFile(p.inner)

\* Each part of an upload is a field, with what is read of it as text.
LEMMA FieldsAre ==
  ASSUME NEW r, IsUpload(r)
  PROVE  /\ Len(r.parts) \in Nat /\ DOMAIN r.parts = 1 .. Len(r.parts)
         /\ DOMAIN Fields(r) = 1 .. Len(r.parts) /\ Sequence(Fields(r)) /\ Len(Fields(r)) = Len(r.parts)
         /\ \A k \in 1 .. Len(r.parts) : /\ Fields(r)[k].text = Raw(r.parts[k].inner)
                                         /\ IsText(Raw(r.parts[k].inner))
<1>1. PICK n \in Nat : n = Len(r.parts) /\ DOMAIN r.parts = 1 .. n
  BY SequenceFacts DEF IsUpload
<1>2. ASSUME NEW k \in 1 .. n
      PROVE  Fields(r)[k].text = Raw(r.parts[k].inner) /\ IsText(Raw(r.parts[k].inner))
  <2>1. r.parts[k] \in ToSet(r.parts)
    BY <1>1 DEF ToSet
  <2>2. IsText(Raw(r.parts[k].inner))
    BY <2>1, RawIs DEF IsUpload
  <2>3. Fields(r)[k].text = Raw(r.parts[k].inner)
    BY <1>1 DEF Fields, Carried, Component
  <2> QED  BY <2>2, <2>3
<1>3. PICK F : F = Fields(r)
  OBVIOUS
<1>4. F = [k \in 1 .. n |-> F[k]]
  BY <1>1, <1>3 DEF Fields
<1>5. PICK S : S = {F[k] : k \in 1 .. n}
  OBVIOUS
<1>6. F \in Seq(S)
  <2>1. \A k \in 1 .. n : F[k] \in S
    BY <1>5
  <2> QED  BY <1>4, <2>1, IsASeq
<1>7. Len(F) = n /\ DOMAIN F = 1 .. n
  BY <1>4, <1>6, LenProperties
<1>8. Sequence(F)
  BY <1>6, SeqIsSequence
<1> QED  BY <1>1, <1>2, <1>3, <1>7, <1>8

\* The variants of each field.
LEMMA DecodingsAre ==
  ASSUME NEW r, IsUpload(r), NEW k \in 1 .. Len(r.parts)
  PROVE  /\ DOMAIN Decodings(r) = 1 .. Len(r.parts) /\ Sequence(Decodings(r)[k])
         /\ \E e \in 0 .. Passes :
              /\ AllDecoded(Raw(r.parts[k].inner), e) /\ Len(Decodings(r)[k]) = e
              /\ \A v \in 1 .. e : Decodings(r)[k][v].text = Decoded(Raw(r.parts[k].inner), v)
<1>1. PICK text : text = Raw(r.parts[k].inner)
  OBVIOUS
<1>2. /\ DOMAIN Fields(r) = 1 .. Len(r.parts) /\ Fields(r)[k].text = text /\ IsText(text)
  BY <1>1, FieldsAre
<1>3. PICK w : w = Tail(Normalize(text))
  OBVIOUS
<1>4. Variations(text, w)
  BY <1>2, <1>3, VariationsAre
<1>5. PICK e \in 0 .. Passes : AllDecoded(text, e) /\ DOMAIN w = 1 .. e /\ \A v \in 1 .. e : w[v] = Decoded(text, v)
  BY <1>4 DEF Variations
<1>6. PICK d : d = Decodings(r)[k]
  OBVIOUS
<1>7. DOMAIN Decodings(r) = 1 .. Len(r.parts) /\ d = [v \in 1 .. e |-> Carried(Fields(r)[k].type, w[v])]
  BY <1>2, <1>3, <1>5, <1>6 DEF Decodings
<1>8. e \in Nat
  BY BoundsAssumption
<1>9. PICK S : S = {d[v] : v \in 1 .. e}
  OBVIOUS
<1>10. d \in Seq(S) /\ Len(d) = e
  <2>1. d = [v \in 1 .. e |-> d[v]] /\ \A v \in 1 .. e : d[v] \in S
    BY <1>7, <1>9
  <2>2. d \in Seq(S)
    BY <1>8, <2>1, IsASeq
  <2> QED  BY <1>8, <2>1, <2>2, LenProperties
<1>11. Sequence(d)
  BY <1>10, SeqIsSequence
<1>12. \A v \in 1 .. e : d[v].text = Decoded(text, v)
  BY <1>5, <1>7 DEF Carried, Component
<1> QED  BY <1>1, <1>5, <1>6, <1>7, <1>10, <1>11, <1>12

\* The components of an upload: the URL, its fields, and their variants from off[k - 1] + 1.
Laid(r, up, off) ==
  LET n == Len(r.parts)
  IN /\ Sequence(up) /\ Ends(off, n, Decodings(r))
     /\ \A c \in DOMAIN up : IsFiniteSet(DOMAIN up[c].text)
     /\ \A k \in 1 .. n :
          /\ 1 + k \in DOMAIN up /\ up[1 + k] = Fields(r)[k]
          /\ \A v \in 1 .. Len(Decodings(r)[k]) :
               1 + n + off[k - 1] + v \in DOMAIN up /\ up[1 + n + off[k - 1] + v] = Decodings(r)[k][v]

\* A text, and what the passes make of it, has finitely many places.
LEMMA TextFinite ==
  ASSUME NEW text, IsText(text)
  PROVE  /\ IsFiniteSet(DOMAIN text)
         /\ \A k \in Nat : IsFiniteSet(DOMAIN Decoded(text, k))
<1>1. PICK n \in Nat : DOMAIN text = 1 .. n
  BY TextIs
<1>2. IsFiniteSet(DOMAIN text)
  BY <1>1, FS_Interval
<1>3. ASSUME NEW k \in Nat PROVE DOMAIN Decoded(text, k) = DOMAIN text
  BY DecodedSteps DEF Recodings
<1> QED  BY <1>2, <1>3

\* Where the fields of an upload and their variants stand among its components.
LEMMA UploadedIs ==
  ASSUME NEW r, IsUpload(r)
  PROVE  \E off : Laid(r, Uploaded(r), off)
<1>1. PICK n \in Nat : n = Len(r.parts)
  BY FieldsAre
<1>2. PICK F, D : F = Fields(r) /\ D = Decodings(r)
  OBVIOUS
<1>3. PICK url : url = Carried("envelope", r.url)
  OBVIOUS
<1>4. Sequence(F) /\ Len(F) = n /\ DOMAIN F = 1 .. n
  BY <1>1, <1>2, FieldsAre
<1>5. DOMAIN D = 1 .. n /\ D = [k \in 1 .. n |-> D[k]]
  <2>1. DOMAIN D = 1 .. n
    BY <1>1, <1>2, <1>4 DEF Decodings
  <2>2. D = [k \in DOMAIN D |-> D[k]]
    BY <1>2 DEF Decodings
  <2> QED  BY <2>1, <2>2
<1>6. \A k \in 1 .. n : Sequence(D[k])
  BY <1>1, <1>2, DecodingsAre
<1> DEFINE S == {url} \cup ToSet(F) \cup UNION {ToSet(D[k]) : k \in 1 .. n}
<1>7. url \in S /\ ToSet(F) \subseteq S /\ \A k \in 1 .. n : ToSet(D[k]) \subseteq S
  OBVIOUS
<1>8. ASSUME NEW c \in S PROVE IsFiniteSet(DOMAIN c.text)
  <2>1. CASE c = url
    <3>1. url.text = r.url
      BY <1>3 DEF Carried, Component
    <3> QED  BY <2>1, <3>1, TextFinite DEF IsUpload
  <2>2. CASE c \in ToSet(F)
    <3>1. PICK k \in 1 .. n : c = F[k]
      BY <1>4, <2>2 DEF ToSet
    <3>2. IsText(c.text)
      BY <1>1, <1>2, <3>1, FieldsAre
    <3> QED  BY <3>2, TextFinite
  <2>3. CASE \E k \in 1 .. n : c \in ToSet(D[k])
    <3>1. PICK k \in 1 .. n : c \in ToSet(D[k])
      BY <2>3
    <3>2. PICK e \in 0 .. Passes : Len(D[k]) = e /\ \A v \in 1 .. e : D[k][v].text = Decoded(Raw(r.parts[k].inner), v)
      BY <1>1, <1>2, DecodingsAre
    <3>3. DOMAIN D[k] = 1 .. e
      BY <1>6, <3>2, SequenceFacts
    <3>4. PICK v \in 1 .. e : c = D[k][v]
      BY <3>1, <3>3 DEF ToSet
    <3>5. c.text = Decoded(Raw(r.parts[k].inner), v) /\ v \in Nat
      BY <3>2, <3>4
    <3>6. IsText(Raw(r.parts[k].inner))
      BY <1>1, FieldsAre
    <3> QED  BY <3>5, <3>6, TextFinite
  <2> QED  BY <2>1, <2>2, <2>3
<1> HIDE DEF S
<1>9. F \in Seq(S) /\ <<url>> \in Seq(S) /\ Len(<<url>>) = 1
  <2>1. F \in Seq(S)
    BY <1>4, <1>7, SeqMonotonic DEF Sequence
  <2>2. <<url>> \in Seq(S) /\ Len(<<url>>) = 1
    BY <1>7
  <2> QED  BY <2>1, <2>2
<1>10. D \in [1 .. n -> Seq(S)]
  <2>1. \A k \in 1 .. n : D[k] \in Seq(S)
    BY <1>6, <1>7, SeqMonotonic DEF Sequence
  <2> QED  BY <1>5, <2>1
<1>11. PICK off : Ends(off, n, D) /\ Flat(FlattenSeq(D), off, n, S, D)
  BY <1>10, FlattenIs
<1>12. PICK V : V = FlattenSeq(D)
  OBVIOUS
<1>13. /\ V \in Seq(S) /\ \A k \in 1 .. n : \A v \in 1 .. Len(D[k]) : V[off[k - 1] + v] = D[k][v]
       /\ Len(V) = off[n] /\ off[n] \in Nat
  BY <1>11, <1>12 DEF Flat, Ends
<1>14. PICK end \in Nat : end = off[n]
  BY <1>13
<1>15. PICK A : A = <<url>> \o F
  OBVIOUS
<1>16. /\ A \in Seq(S) /\ Len(A) = 1 + n
       /\ \A i \in 1 .. 1 + n : A[i] = IF i <= 1 THEN <<url>>[i] ELSE F[i - 1]
  BY <1>4, <1>9, <1>15, ConcatProperties
<1>17. PICK up : up = A \o V
  OBVIOUS
<1>18. /\ up \in Seq(S) /\ Len(up) = 1 + n + end
       /\ \A i \in 1 .. 1 + n + end : up[i] = IF i <= 1 + n THEN A[i] ELSE V[i - (1 + n)]
  <2>1. /\ up \in Seq(S) /\ Len(up) = Len(A) + Len(V)
        /\ \A i \in 1 .. Len(A) + Len(V) : up[i] = IF i <= Len(A) THEN A[i] ELSE V[i - Len(A)]
    BY <1>13, <1>16, <1>17, ConcatProperties
  <2>2. Len(A) = 1 + n /\ Len(V) = end
    BY <1>13, <1>16, <1>14
  <2> QED  BY <2>1, <2>2
<1>19. up = Uploaded(r)
  BY <1>2, <1>3, <1>12, <1>15, <1>17 DEF Uploaded, Decodings
<1>20. DOMAIN up = 1 .. 1 + n + end /\ Sequence(up)
  BY <1>18, LenProperties, SeqIsSequence
<1>21. \A c \in DOMAIN up : IsFiniteSet(DOMAIN up[c].text)
  <2>1. \A c \in DOMAIN up : up[c] \in S
    BY <1>18, <1>20, ElementOfSeq
  <2> QED  BY <1>8, <2>1
<1>22. ASSUME NEW k \in 1 .. n
       PROVE  /\ 1 + k \in DOMAIN up /\ up[1 + k] = F[k]
              /\ \A v \in 1 .. Len(D[k]) : 1 + n + off[k - 1] + v \in DOMAIN up /\ up[1 + n + off[k - 1] + v] = D[k][v]
  <2>1. 1 + k \in DOMAIN up /\ up[1 + k] = F[k]
    <3>1. PICK i \in 1 .. 1 + n : i = 1 + k
      OBVIOUS
    <3>2. i \in 1 .. 1 + n + end /\ i <= 1 + n /\ ~(i <= 1) /\ i - 1 = k
      BY <3>1
    <3>3. up[i] = A[i] /\ A[i] = F[i - 1]
      BY <1>16, <1>18, <3>2
    <3> QED  BY <1>20, <3>1, <3>2, <3>3
  <2>2. ASSUME NEW v \in 1 .. Len(D[k])
        PROVE  1 + n + off[k - 1] + v \in DOMAIN up /\ up[1 + n + off[k - 1] + v] = D[k][v]
    <3>1. PICK a \in Nat, l \in Nat : a = off[k - 1] /\ l = Len(D[k]) /\ off[k] = a + l /\ k \in 0 .. n /\ n \in k .. n
      <4>1. Len(D[k]) \in Nat
        BY <1>6, SequenceFacts
      <4>2. k - 1 \in 0 .. n /\ k \in 0 .. n /\ n \in k .. n
        OBVIOUS
      <4>3. off[k - 1] \in Nat /\ off[k] = off[k - 1] + Len(D[k])
        BY <1>11, <4>2 DEF Ends
      <4> QED  BY <4>1, <4>2, <4>3
    <3>2. a + l <= end
      <4>1. off[k] <= off[n]
        BY <1>10, <1>11, <3>1, EndsGrow
      <4> QED  BY <1>14, <3>1, <4>1
    <3>3. v \in 1 .. l
      BY <3>1
    <3>4. PICK i \in Nat : i = 1 + n + a + v
      BY <3>3
    <3>5. i \in 1 .. 1 + n + end /\ ~(i <= 1 + n) /\ i - (1 + n) = a + v
      BY <3>2, <3>4, <3>3
    <3>6. up[i] = V[a + v]
      BY <1>18, <3>5
    <3>7. V[a + v] = D[k][v]
      BY <1>13, <3>1
    <3> QED  BY <1>20, <3>1, <3>2, <3>4, <3>5, <3>6, <3>7
  <2> QED  BY <2>1, <2>2
<1>23. Laid(r, up, off)
  BY <1>1, <1>2, <1>11, <1>20, <1>21, <1>22 DEF Laid
<1> QED  BY <1>19, <1>23

-----------------------------------------------------------------------------
(* The encodings.                                                          *)

\* What the identifiers of a find at the place j of the component c, and the match of it.
Hit(a, up, c, j) == Seen(up[c].text)[j].is \in a.looks /\ Valid(Seen(up[c].text)[j])
Match(up, c, j) == <<c, <<Seen(up[c].text)[j].is, j>>>>
Identifying(a) == a.kind = "identifiers" /\ a.targets = {} /\ ~a.raises

\* The matches of an analyzer of identifiers: the places with a valid one.
LEMMA MatchesAre ==
  ASSUME NEW a, Identifying(a), NEW up, NEW m
  PROVE  m \in Matched(a, up) <=>
           \E c \in DOMAIN up : \E j \in DOMAIN up[c].text : Hit(a, up, c, j) /\ m = Match(up, c, j)
<1>1. m \in Matched(a, up) <=> \E c \in DOMAIN up : \E d \in Fixed(a, up[c]) : m = <<c, d>>
  BY MatchedAre DEF Identifying, Targeted
<1>2. ASSUME NEW c, NEW d
      PROVE  d \in Fixed(a, up[c]) <=>
               \E j \in DOMAIN up[c].text : Hit(a, up, c, j) /\ d = <<Seen(up[c].text)[j].is, j>>
  <2>1. Fixed(a, up[c]) = DataIdentifierMatches(a.looks, up[c].text)
    BY DEF Fixed, Identifying
  <2>2. PICK v : v = Seen(up[c].text)
    OBVIOUS
  <2>3. DOMAIN v = DOMAIN up[c].text
    BY <2>2 DEF Seen
  <2>4. DataIdentifierMatches(a.looks, up[c].text) =
          {<<v[i].is, i>> : i \in {j \in DOMAIN v : v[j].is \in a.looks /\ Valid(v[j])}}
    BY <2>2 DEF DataIdentifierMatches
  <2> QED  BY <2>1, <2>2, <2>3, <2>4 DEF Hit
<1> QED  BY <1>1, <1>2 DEF Match

\* They are finitely many.
LEMMA MatchesFinite ==
  ASSUME NEW a, Identifying(a), NEW up, Sequence(up), \A c \in DOMAIN up : IsFiniteSet(DOMAIN up[c].text)
  PROVE  IsFiniteSet(Matched(a, up))
<1>1. PICK n \in Nat : DOMAIN up = 1 .. n
  BY SequenceFacts
<1>2. IsFiniteSet(1 .. n)
  BY FS_Interval
<1> DEFINE domains == {DOMAIN up[c].text : c \in 1 .. n}
           J == UNION domains
           P == (1 .. n) \X J
           M == Matched(a, up)
           f == [c \in 1 .. n |-> DOMAIN up[c].text]
           g == [m \in M |-> <<m[1], m[2][2]>>]
<1>3. IsFiniteSet(domains)
  <2>1. f \in Surjection(1 .. n, domains)
    BY DEF Surjection, Range
  <2> HIDE DEF f, domains
  <2> QED  BY <1>2, <2>1, FS_Surjection
<1>4. IsFiniteSet(J)
  <2>1. \A T \in domains : IsFiniteSet(T)
    BY <1>1
  <2> HIDE DEF domains
  <2> QED  BY <1>3, <2>1, FS_UNION
<1>5. IsFiniteSet(P)
  <2> HIDE DEF J
  <2> QED  BY <1>2, <1>4, FS_Product
<1>6. \A m \in M : \E c \in 1 .. n : \E j \in J : m = Match(up, c, j) /\ <<m[1], m[2][2]>> = <<c, j>>
  <2> SUFFICES ASSUME NEW m \in M
               PROVE  \E c \in 1 .. n : \E j \in J : m = Match(up, c, j) /\ <<m[1], m[2][2]>> = <<c, j>>
    OBVIOUS
  <2>1. PICK c \in 1 .. n : \E j \in DOMAIN up[c].text : m = Match(up, c, j)
    BY <1>1, MatchesAre
  <2>2. PICK j \in DOMAIN up[c].text : m = Match(up, c, j)
    BY <2>1
  <2>3. j \in J
    OBVIOUS
  <2>4. m[1] = c /\ m[2][2] = j
    BY <2>2 DEF Match
  <2> QED  BY <2>2, <2>3, <2>4
<1>7. g \in Injection(M, P)
  <2>1. g \in [M -> P]
    <3>1. \A m \in M : <<m[1], m[2][2]>> \in P
      <4> HIDE DEF J, M
      <4> QED  BY <1>6
    <3> HIDE DEF P, M
    <3> QED  BY <3>1
  <2>2. \A x, y \in M : g[x] = g[y] => x = y
    <3> HIDE DEF J, M
    <3> QED  BY <1>6
  <2> HIDE DEF g, P, M
  <2> QED  BY <2>1, <2>2, Zenon DEF Injection, IsInjective
<1> HIDE DEF g, P, M
<1>8. IsFiniteSet(M)
  BY <1>5, <1>7, FS_Injection
<1> QED  BY <1>8 DEF M

\* The components that come from the k-th field.
Belongs(r, off, c, k) ==
  \/ c = 1 + k
  \/ 1 + Len(r.parts) + off[k - 1] < c /\ c <= 1 + Len(r.parts) + off[k]

\* Two fields apart.
LEMMA Apart ==
  ASSUME NEW n \in Nat, NEW i \in Nat, NEW j \in Nat, NEW a \in Nat, NEW b \in Nat, NEW d \in Nat, NEW e \in Nat,
         NEW c \in Nat, i <= n, j <= n, i < j, b <= d
  PROVE  ~(/\ c = 1 + i \/ (1 + n + a < c /\ c <= 1 + n + b)
           /\ c = 1 + j \/ (1 + n + d < c /\ c <= 1 + n + e))
OBVIOUS

\* No component comes from two fields.
LEMMA OneOwner ==
  ASSUME NEW r, IsUpload(r), NEW up, NEW off, Laid(r, up, off), NEW c \in Nat,
         NEW k \in 1 .. Len(r.parts), NEW l \in 1 .. Len(r.parts), Belongs(r, off, c, k), Belongs(r, off, c, l)
  PROVE  k = l
<1>1. PICK n \in Nat : n = Len(r.parts)
  BY FieldsAre
<1>2. PICK D : D = Decodings(r)
  OBVIOUS
<1>3. Ends(off, n, D)
  BY <1>1, <1>2 DEF Laid
<1>4. PICK S : D \in [1 .. n -> Seq(S)]
  <2>1. DOMAIN D = 1 .. n /\ D = [i \in 1 .. n |-> D[i]]
    <3>1. DOMAIN Fields(r) = 1 .. n
      BY <1>1, FieldsAre
    <3> QED  BY <1>2, <3>1 DEF Decodings
  <2>2. \A i \in 1 .. n : D[i] \in Seq(ToSet(D[i]))
    BY <1>1, <1>2, DecodingsAre DEF Sequence
  <2> DEFINE U == UNION {ToSet(D[i]) : i \in 1 .. n}
  <2>3. \A i \in 1 .. n : ToSet(D[i]) \subseteq U
    OBVIOUS
  <2> HIDE DEF U
  <2>4. \A i \in 1 .. n : D[i] \in Seq(U)
    BY <2>2, <2>3, SeqMonotonic
  <2> QED  BY <2>1, <2>4
<1>5. \A i \in 0 .. n : off[i] \in Nat
  BY <1>3 DEF Ends
<1>6. ASSUME NEW i \in 1 .. n, NEW j \in 1 .. n, i < j PROVE ~(Belongs(r, off, c, i) /\ Belongs(r, off, c, j))
  <2>1. i \in 0 .. n /\ j - 1 \in i .. n /\ i - 1 \in 0 .. n /\ j \in 0 .. n /\ j - 1 \in 0 .. n
    BY <1>6
  <2>2. PICK m \in i .. n : m = j - 1
    BY <2>1
  <2>3. off[i] <= off[m]
    BY <1>3, <1>4, <2>1, EndsGrow
  <2>4. PICK a \in Nat, b \in Nat, d \in Nat, e \in Nat : a = off[i - 1] /\ b = off[i] /\ d = off[j - 1] /\ e = off[j]
    BY <1>5, <2>1
  <2>5. b <= d
    BY <2>2, <2>3, <2>4
  <2>6. Belongs(r, off, c, i) <=> c = 1 + i \/ (1 + n + a < c /\ c <= 1 + n + b)
    BY <1>1, <2>4 DEF Belongs
  <2>7. Belongs(r, off, c, j) <=> c = 1 + j \/ (1 + n + d < c /\ c <= 1 + n + e)
    BY <1>1, <2>4 DEF Belongs
  <2>8. i \in Nat /\ j \in Nat /\ i <= n /\ j <= n /\ i < j
    BY <1>1, <1>6
  <2>9. ~(/\ c = 1 + i \/ (1 + n + a < c /\ c <= 1 + n + b)
          /\ c = 1 + j \/ (1 + n + d < c /\ c <= 1 + n + e))
    BY <1>1, <2>4, <2>5, <2>8, Apart
  <2> QED  BY <2>6, <2>7, <2>9, Zenon
<1> QED  BY <1>1, <1>6

\* The j-th item of the k-th field is an identifier that the gateway can get at.
Carries(r, k, j) ==
  LET x == Raw(r.parts[k].inner)[j]
  IN Decodable(x) /\ Accepted([x EXCEPT !.code = << >>], GatewayEngine)

\* An identifier that a field carries, plain or encoded, has a match in a component of the field.
LEMMA Placed ==
  ASSUME NEW r, IsUpload(r), NEW up, NEW off, Laid(r, up, off),
         NEW k \in 1 .. Len(r.parts), NEW j \in DOMAIN Raw(r.parts[k].inner), Carries(r, k, j)
  PROVE  \E c \in DOMAIN up : Belongs(r, off, c, k) /\ j \in DOMAIN up[c].text /\ Hit(GatewayEngine[1], up, c, j)
<1>1. PICK n \in Nat : n = Len(r.parts)
  BY FieldsAre
<1>2. PICK text : text = Raw(r.parts[k].inner)
  OBVIOUS
<1>3. PICK x : x = text[j]
  OBVIOUS
<1>4. IsText(text) /\ Fields(r)[k].text = text /\ j \in DOMAIN text
  BY <1>2, FieldsAre
<1>5. Decodable(x) /\ x = Item(x.value, x.code, x.hidden)
  BY <1>2, <1>3, <1>4, TextIs DEF Carries
<1>6. x.value.is \in GatewayEngine[1].looks /\ Valid(x.value)
  <2>1. PICK y : y = [x EXCEPT !.code = << >>]
    OBVIOUS
  <2>2. y.value = x.value
    BY <1>5, <2>1 DEF Item
  <2>3. Accepted(y, GatewayEngine)
    BY <1>2, <1>3, <2>1 DEF Carries
  <2> QED  BY <2>2, <2>3 DEF Accepted
<1>7. ASSUME NEW t, j \in DOMAIN t, t[j].code = << >>, t[j].value = x.value
      PROVE  Seen(t)[j] = x.value
  BY <1>7 DEF Seen
<1>8. CASE x.code = << >>
  <2>1. PICK c : c = 1 + k
    OBVIOUS
  <2>2. c \in DOMAIN up /\ up[c] = Fields(r)[k] /\ Belongs(r, off, c, k)
    BY <2>1 DEF Laid, Belongs
  <2>3. up[c].text = text
    BY <1>4, <2>2
  <2>4. Seen(text)[j] = x.value
    BY <1>3, <1>4, <1>7, <1>8
  <2>5. Hit(GatewayEngine[1], up, c, j)
    BY <1>6, <2>3, <2>4 DEF Hit
  <2> QED  BY <1>4, <2>2, <2>3, <2>5
<1>9. CASE x.code # << >>
  <2>1. PICK d : d = Decodings(r)[k]
    OBVIOUS
  <2>2. PICK e \in 0 .. Passes : AllDecoded(text, e) /\ Len(d) = e /\ \A v \in 1 .. e : d[v].text = Decoded(text, v)
    BY <1>2, <2>1, DecodingsAre
  <2>3. PICK v \in 1 .. e : Decoded(text, v)[j] = Item(x.value, << >>, x.hidden)
    BY <1>3, <1>4, <1>5, <1>9, <2>2, Uncovered
  <2>4. PICK t : t = Decoded(text, v)
    OBVIOUS
  <2>5. v \in Nat /\ e \in Nat /\ 1 <= v /\ v <= e
    BY <2>2, BoundsAssumption
  <2>6. j \in DOMAIN t /\ t[j].code = << >> /\ t[j].value = x.value
    <3>1. DOMAIN t = DOMAIN text
      BY <1>4, <2>4, <2>5, DecodedSteps DEF Recodings
    <3> QED  BY <1>4, <2>3, <2>4, <3>1 DEF Item
  <2>7. Seen(t)[j] = x.value
    BY <1>7, <2>6
  <2>8. PICK o \in Nat : o = off[k - 1] /\ off[k] = o + e
    <3>1. Ends(off, n, Decodings(r)) /\ k - 1 \in 0 .. n
      BY <1>1 DEF Laid
    <3>2. off[k - 1] \in Nat /\ off[k] = off[k - 1] + Len(Decodings(r)[k])
      BY <1>1, <3>1 DEF Ends
    <3> QED  BY <2>1, <2>2, <3>2
  <2>9. PICK c : c = 1 + n + o + v
    OBVIOUS
  <2>10. c \in DOMAIN up /\ up[c] = d[v]
    <3>1. v \in 1 .. Len(d)
      BY <2>2
    <3> QED  BY <1>1, <2>1, <2>8, <2>9, <3>1 DEF Laid
  <2>11. Belongs(r, off, c, k)
    <3>1. 1 + n + o < c /\ c <= 1 + n + (o + e)
      <4>1. PICK y \in Nat : y = 1 + n + o
        BY <1>1, <2>8
      <4>2. c = y + v /\ 1 + n + (o + e) = y + e
        BY <1>1, <2>5, <2>8, <2>9, <4>1
      <4> QED  BY <2>5, <4>1, <4>2
    <3> QED  BY <1>1, <2>8, <3>1 DEF Belongs
  <2>12. up[c].text = t
    BY <2>2, <2>4, <2>10
  <2>13. Hit(GatewayEngine[1], up, c, j)
    BY <1>6, <2>7, <2>12 DEF Hit
  <2> QED  BY <2>6, <2>10, <2>11, <2>12, <2>13
<1> QED  BY <1>8, <1>9

\* As many matches as identifiers that an upload carries.
LEMMA CarriedCounts ==
  ASSUME NEW r, IsUpload(r), NEW there,
         \A p \in there : \E k \in 1 .. Len(r.parts) : \E j \in DOMAIN Raw(r.parts[k].inner) :
           p = <<k, j>> /\ Carries(r, k, j)
  PROVE  /\ IsFiniteSet(there) /\ IsFiniteSet(Matched(GatewayEngine[1], Uploaded(r)))
         /\ Cardinality(there) <= Cardinality(Matched(GatewayEngine[1], Uploaded(r)))
<1>1. PICK a, up : a = GatewayEngine[1] /\ up = Uploaded(r)
  OBVIOUS
<1>2. PICK off : Laid(r, up, off)
  BY <1>1, UploadedIs
<1>3. Identifying(a)
  BY <1>1, EngineAssumption DEF Identifying
<1>4. PICK M : M = Matched(a, up)
  OBVIOUS
<1>5. IsFiniteSet(M)
  BY <1>2, <1>3, <1>4, MatchesFinite DEF Laid
<1> DEFINE Of(m, p) == Belongs(r, off, m[1], p[1]) /\ m[2][2] = p[2] /\ m[1] \in Nat
           f == [p \in there |-> CHOOSE m \in M : Of(m, p)]
<1>6. ASSUME NEW p \in there PROVE \E m \in M : Of(m, p)
  <2>1. PICK k \in 1 .. Len(r.parts) : \E j \in DOMAIN Raw(r.parts[k].inner) : p = <<k, j>> /\ Carries(r, k, j)
    OBVIOUS
  <2>2. PICK j \in DOMAIN Raw(r.parts[k].inner) : p = <<k, j>> /\ Carries(r, k, j)
    BY <2>1
  <2>3. PICK c \in DOMAIN up : Belongs(r, off, c, k) /\ j \in DOMAIN up[c].text /\ Hit(a, up, c, j)
    BY <1>1, <1>2, <2>2, Placed
  <2>4. PICK m : m = Match(up, c, j)
    OBVIOUS
  <2>5. m \in M
    BY <1>3, <1>4, <2>3, <2>4, MatchesAre
  <2>6. m[1] = c /\ m[2][2] = j /\ p[1] = k /\ p[2] = j
    BY <2>2, <2>4 DEF Match
  <2>7. c \in Nat
    BY <1>2, SequenceFacts DEF Laid
  <2> QED  BY <2>3, <2>5, <2>6, <2>7
<1>7. ASSUME NEW p \in there, NEW q \in there, NEW m, Of(m, p), Of(m, q) PROVE p = q
  <2>1. PICK k \in 1 .. Len(r.parts) : \E j : p = <<k, j>>
    OBVIOUS
  <2>2. PICK l \in 1 .. Len(r.parts) : \E j : q = <<l, j>>
    OBVIOUS
  <2>3. PICK i, j : p = <<k, i>> /\ q = <<l, j>>
    BY <2>1, <2>2
  <2>4. PICK c \in Nat : c = m[1]
    BY <1>7
  <2>5. Belongs(r, off, c, k) /\ Belongs(r, off, c, l) /\ i = j
    BY <1>7, <2>3, <2>4
  <2>6. k = l
    BY <1>2, <2>5, OneOwner
  <2> QED  BY <2>3, <2>5, <2>6
<1> HIDE DEF Of
<1>8. \A p \in there : f[p] \in M /\ Of(f[p], p)
  BY <1>6
<1>9. f \in [there -> M]
  BY <1>6
<1> HIDE DEF f
<1>10. \A p, q \in there : f[p] = f[q] => p = q
  BY <1>7, <1>8
<1>11. f \in Injection(there, M)
  BY <1>9, <1>10, Zenon DEF Injection, IsInjective
<1>12. IsFiniteSet(there) /\ Cardinality(there) <= Cardinality(M)
  BY <1>5, <1>11, FS_Injection
<1> QED  BY <1>1, <1>4, <1>5, <1>12

\* The matches of one analyzer are counted once.
LEMMA SingleCount ==
  ASSUME NEW engine, NEW message, IsFiniteSet(Matched(engine[1], message))
  PROVE  MatchCount(Single(engine, message)) = Cardinality(Matched(engine[1], message))
<1>1. PICK M : M = Matched(engine[1], message)
  OBVIOUS
<1>2. PICK n \in Nat : n = Cardinality(M)
  BY <1>1, FS_CardinalityType
<1>3. PICK ms : ms = Single(engine, message).matches
  OBVIOUS
<1>4. DOMAIN ms = 1 .. 1 /\ ms[1] = M
  BY <1>1, <1>3 DEF Single
<1>5. PICK terms : terms = [k \in 1 .. 1 |-> n]
  OBVIOUS
<1>6. [k \in DOMAIN ms |-> Cardinality(ms[k])] = terms
  <2>1. \A k \in 1 .. 1 : Cardinality(ms[k]) = n
    BY <1>2, <1>4
  <2> QED  BY <1>4, <1>5, <2>1
<1>7. MatchCount(Single(engine, message)) = Total(terms)
  BY <1>3, <1>6 DEF MatchCount
<1>8. PICK one \in Nat : one = 1
  OBVIOUS
<1>9. terms \in [1 .. one -> Int]
  BY <1>5, <1>8
<1>10. PICK g : Sums(g, one, terms) /\ Total(terms) = g[one]
  BY <1>9, TotalIs
<1>11. g[one] = n
  BY <1>5, <1>8, <1>10 DEF Sums
<1> QED  BY <1>1, <1>2, <1>7, <1>10, <1>11

\* An upload with as many identifiers as block_threshold is refused.
LEMMA NoEncodingHelps ==
  ASSUME Jobs, Results
  PROVE  EncodingsDoNotHelp
<1> DEFINE There(r) ==
      LET parts == r.parts
      IN UNION {{<<k, j>> : j \in {l \in DOMAIN Raw(parts[k].inner) :
                  LET x == Raw(parts[k].inner)[l]
                  IN Decodable(x) /\ Accepted([x EXCEPT !.code = << >>], GatewayEngine)}} :
                 k \in DOMAIN parts}
<1>1. ASSUME NEW i \in Requests, state[i] = "done", requests[i].via = "http", requests[i].mode = "prevent",
             Inspected(requests[i]), There(requests[i]) # {}, Cardinality(There(requests[i])) >= BlockAt
      PROVE  answer[i] = "403"
  <2>1. PICK r : r = requests[i]
    OBVIOUS
  <2>2. IsUpload(r)
    BY <1>1, <2>1, ScenariosAssumption DEF Jobs, Requests, IsRequest, IsUpload
  <2>3. DOMAIN r.parts = 1 .. Len(r.parts)
    BY <2>2, FieldsAre
  <2>4. PICK there : there = There(r)
    OBVIOUS
  <2>5. \A p \in there : \E k \in 1 .. Len(r.parts) : \E j \in DOMAIN Raw(r.parts[k].inner) :
           p = <<k, j>> /\ Carries(r, k, j)
    BY <2>3, <2>4 DEF Carries
  <2> HIDE DEF There
  <2>6. there # {} /\ Cardinality(there) >= BlockAt
    BY <1>1, <2>1, <2>4
  <2>7. PICK M : M = Matched(GatewayEngine[1], Uploaded(r))
    OBVIOUS
  <2>8. IsFiniteSet(there) /\ IsFiniteSet(M) /\ Cardinality(there) <= Cardinality(M)
    BY <2>2, <2>5, <2>7, CarriedCounts
  <2>9. Cardinality(there) \in Nat /\ Cardinality(M) \in Nat /\ Cardinality(there) # 0
    BY <2>6, <2>8, FS_CardinalityType, FS_EmptySet
  <2>10. PICK n \in Nat : n = Cardinality(M)
    BY <2>9
  <2>11. n > 0 /\ n >= BlockAt
    BY <2>6, <2>8, <2>9, <2>10, LimitsAssumption
  <2>12. MatchCount(GatewayResult(r)) = n
    BY <1>1, <2>1, <2>7, <2>8, <2>10, SingleCount DEF GatewayResult
  <2>13. Blocked(r, n)
    BY <1>1, <2>1, <2>11 DEF Blocked
  <2>14. Right(r, state[i], result[i], answer[i])
    BY <2>1 DEF Results
  <2> QED  BY <1>1, <2>1, <2>12, <2>13, <2>14 DEF Right
<1> QED  BY <1>1 DEF EncodingsDoNotHelp

(***************************************************************************)
(* What the analyzers and the normaliser promise each holds of everything  *)
(* that was detected (AnalyzersAreRight), whatever the requests, the       *)
(* dictionaries, the rules, the numbers and the encodings: threads and     *)
(* results are what TypeOK says; block_threshold identifiers in an upload, *)
(* plain or under encodings that max_depth passes take off, are refused;   *)
(* keywords, pairs of keywords and file types are found as their options   *)
(* say; and no accepted card, IBAN or routing number is one typo away from *)
(* another (DetectionEngine.detect, normalize, the analyzers, validators). *)
(***************************************************************************)
THEOREM AnalyzersSound == Spec => []AnalyzersAreRight
<1> DEFINE Inv == GatewayInv /\ Results /\ Threads /\ LoopHeld
<1>1. Init => Inv
  BY GatewayInitial, ThreadsInitial, LoopInitial
<1>2. Inv /\ [Next]_vars => Inv'
  BY GatewayStep, ResultsStep, ThreadsStep, LoopStep DEF GatewayInv
<1>3. Inv => AnalyzersAreRight
  <2> SUFFICES ASSUME Inv PROVE AnalyzersAreRight
    OBVIOUS
  <2>1. Jobs /\ Logs /\ Turns /\ Results /\ Threads /\ LoopHeld
    BY DEF GatewayInv
  <2> QED  BY <2>1, TypesHold, NoEncodingHelps, Keywords, Typos, FileTypes DEF AnalyzersAreRight
<1> QED  BY <1>1, <1>2, <1>3, PTL DEF Spec
-----------------------------------------------------------------------------
(* Files in files.                                                         *)

\* Two functions that agree on what is attached to a file; and what the recursive
\* definitions say of a file, given what they say of what is attached to it.
Same(f, g, h) == \A p \in ToSet(f.parts) : p.kind \in Attached => g[p.inner] = h[p.inner]
InsideOf(f, g) ==
  {f} \cup UNION {g[p.inner] : p \in {q \in ToSet(f.parts) : q.kind \in {"bytes", "message"}}}
InspectOf(f, g) ==
  Inspection(f, [i \in DOMAIN f.parts |-> IF f.parts[i].kind = "bytes" THEN g[f.parts[i].inner] ELSE Nothing])

\* What is said of a file depends on what is attached to it only.
LEMMA SameInside ==
  ASSUME NEW f, NEW g, NEW h, Same(f, g, h)
  PROVE  InsideOf(f, g) = InsideOf(f, h)
<1>1. \A p \in {q \in ToSet(f.parts) : q.kind \in {"bytes", "message"}} : g[p.inner] = h[p.inner]
  BY DEF Same, Attached
<1> QED  BY <1>1 DEF InsideOf

\* The same of what is inspected.
LEMMA SameInspected ==
  ASSUME NEW f, NEW g, NEW h, Same(f, g, h)
  PROVE  InspectOf(f, g) = InspectOf(f, h)
<1> DEFINE inner(k) == [i \in DOMAIN f.parts |-> IF f.parts[i].kind = "bytes" THEN k[f.parts[i].inner] ELSE Nothing]
<1>1. inner(g) = inner(h)
  <2>1. ASSUME NEW i \in DOMAIN f.parts, f.parts[i].kind = "bytes" PROVE g[f.parts[i].inner] = h[f.parts[i].inner]
    <3>1. f.parts[i] \in ToSet(f.parts)
      BY DEF ToSet
    <3> QED  BY <2>1, <3>1 DEF Same, Attached
  <2> QED  BY <2>1
<1>2. \A k : InspectOf(f, k) = Inspection(f, inner(k))
  BY DEF InspectOf
<1> HIDE DEF inner
<1> QED  BY <1>1, <1>2

\* What is attached to a file is a file, less deep.
LEMMA AttachedIs ==
  ASSUME NEW f \in Files, NEW p \in ToSet(f.parts), p.kind \in Attached
  PROVE  p.inner \in Files /\ Nesting[p.inner] \in Nat /\ Nesting[f] \in Nat /\ Nesting[p.inner] < Nesting[f]
BY FilesAssumption

\* Up to some depth the recursive definition has a solution, and one only; what a solution
\* for every depth is.
InsideTo(n, g) == \A f \in Files : Nesting[f] < n => g[f] = InsideOf(f, g)
\* There is a solution up to every depth.
LEMMA InsideExists ==
  ASSUME NEW n \in Nat
  PROVE  \E g : InsideTo(n, g)
<1> DEFINE Bad == {k \in Nat : ~\E g : InsideTo(k, g)}
<1>1. ASSUME Bad # {} PROVE FALSE
  <2>1. PICK m \in Bad : \A y \in Bad : m <= y
    <3>1. Bad \subseteq Nat
      OBVIOUS
    <3> HIDE DEF Bad
    <3> QED  BY <1>1, <3>1, LeastOf
  <2>2. m # 0
    <3>1. \A f \in Files : Nesting[f] \in Nat
      BY FilesAssumption
    <3>2. InsideTo(0, 0)
      BY <3>1 DEF InsideTo
    <3> QED  BY <3>2
  <2>3. PICK k \in Nat : m = k + 1
    BY <2>2
  <2>4. PICK g : InsideTo(k, g)
    BY <2>1, <2>3
  <2>5. PICK h : h = [f \in Files |-> InsideOf(f, g)]
    OBVIOUS
  <2>6. ASSUME NEW f \in Files, Nesting[f] < m PROVE h[f] = InsideOf(f, h)
    <3>1. ASSUME NEW p \in ToSet(f.parts), p.kind \in Attached PROVE g[p.inner] = h[p.inner]
      <4>1. p.inner \in Files /\ Nesting[p.inner] < k
        BY <2>3, <2>6, <3>1, AttachedIs
      <4> QED  BY <2>4, <2>5, <4>1 DEF InsideTo
    <3>2. InsideOf(f, g) = InsideOf(f, h)
      BY <3>1, SameInside DEF Same
    <3> QED  BY <2>5, <3>2
  <2>7. InsideTo(m, h)
    BY <2>6 DEF InsideTo
  <2> QED  BY <2>1, <2>7
<1> QED  BY <1>1

\* Two solutions agree on the files that are less deep than either goes.
LEMMA InsideUnique ==
  ASSUME NEW n \in Nat, NEW m \in Nat, NEW g, NEW h, InsideTo(n, g), InsideTo(m, h),
         NEW f \in Files, Nesting[f] < n, Nesting[f] < m
  PROVE  g[f] = h[f]
<1> DEFINE Bad == {k \in Nat : \E e \in Files : Nesting[e] = k /\ k < n /\ k < m /\ g[e] # h[e]}
<1>1. ASSUME Bad # {} PROVE FALSE
  <2>1. PICK k \in Bad : \A y \in Bad : k <= y
    <3>1. Bad \subseteq Nat
      OBVIOUS
    <3> HIDE DEF Bad
    <3> QED  BY <1>1, <3>1, LeastOf
  <2>2. PICK e \in Files : Nesting[e] = k /\ k < n /\ k < m /\ g[e] # h[e]
    BY <2>1
  <2>3. ASSUME NEW p \in ToSet(e.parts), p.kind \in Attached PROVE g[p.inner] = h[p.inner]
    <3>1. PICK l \in Nat : l = Nesting[p.inner] /\ p.inner \in Files /\ l < k
      BY <2>2, <2>3, AttachedIs
    <3>2. l \notin Bad
      BY <2>1, <3>1
    <3> QED  BY <2>2, <3>1, <3>2
  <2>4. InsideOf(e, g) = InsideOf(e, h)
    BY <2>3, SameInside DEF Same
  <2> QED  BY <2>2, <2>4 DEF InsideTo
<1>2. Nesting[f] \in Nat
  BY FilesAssumption
<1> QED  BY <1>1, <1>2

\* What Inside is of a file, by what it is of the files attached to it.
LEMMA InsideIs ==
  ASSUME NEW f \in Files
  PROVE  Inside[f] = InsideOf(f, Inside)
<1> DEFINE chosen(e) == CHOOSE g : InsideTo(Nesting[e] + 1, g)
           G == [e \in Files |-> chosen(e)[e]]
<1>1. ASSUME NEW e \in Files PROVE Nesting[e] \in Nat /\ InsideTo(Nesting[e] + 1, chosen(e))
  <2>1. Nesting[e] \in Nat
    BY FilesAssumption
  <2>2. Nesting[e] + 1 \in Nat
    BY <2>1
  <2>3. PICK n \in Nat : n = Nesting[e] + 1
    BY <2>2
  <2>4. \E g : InsideTo(n, g)
    BY InsideExists
  <2> QED  BY <2>1, <2>3, <2>4
<1> HIDE DEF chosen
<1>2. ASSUME NEW e \in Files PROVE G[e] = InsideOf(e, G)
  <2>0. PICK g : g = chosen(e)
    OBVIOUS
  <2>1. PICK n \in Nat : n = Nesting[e] + 1 /\ InsideTo(n, g)
    BY <1>1, <2>0
  <2>2. G[e] = InsideOf(e, g)
    BY <1>1, <2>0, <2>1 DEF InsideTo
  <2>3. ASSUME NEW p \in ToSet(e.parts), p.kind \in Attached PROVE g[p.inner] = G[p.inner]
    <3>1. PICK i \in Files : i = p.inner /\ Nesting[i] \in Nat /\ Nesting[i] < n
      BY <2>1, <2>3, AttachedIs
    <3>2. PICK h : h = chosen(i)
      OBVIOUS
    <3>3. PICK m \in Nat : m = Nesting[i] + 1 /\ InsideTo(m, h)
      BY <1>1, <3>2
    <3>4. Nesting[i] < m
      BY <3>1, <3>3
    <3>5. g[i] = h[i]
      BY <2>1, <3>1, <3>3, <3>4, InsideUnique
    <3> QED  BY <3>1, <3>2, <3>5
  <2>4. InsideOf(e, g) = InsideOf(e, G)
    <3> HIDE DEF G
    <3> QED  BY <2>3, SameInside DEF Same
  <2> QED  BY <2>2, <2>4
<1>3. G = [e \in Files |-> InsideOf(e, G)]
  <2>1. PICK H : H = G
    OBVIOUS
  <2>2. H = [e \in Files |-> H[e]]
    BY <2>1
  <2> HIDE DEF G
  <2>3. \A e \in Files : H[e] = InsideOf(e, H)
    BY <1>2, <2>1
  <2>4. [e \in Files |-> H[e]] = [e \in Files |-> InsideOf(e, H)]
    BY <2>3
  <2>5. H = [e \in Files |-> InsideOf(e, H)]
    BY <2>2, <2>4
  <2> QED  BY <2>1, <2>5
<1>4. Inside = CHOOSE g : g = [e \in Files |-> InsideOf(e, g)]
  BY DEF Inside, InsideOf
<1> HIDE DEF G
<1>5. Inside = [e \in Files |-> InsideOf(e, Inside)]
  BY <1>3, <1>4
<1> QED  BY <1>5

\* The same of Inspect.
InspectTo(n, g) == \A f \in Files : Nesting[f] < n => g[f] = InspectOf(f, g)
\* There is a solution up to every depth.
LEMMA InspectExists ==
  ASSUME NEW n \in Nat
  PROVE  \E g : InspectTo(n, g)
<1> DEFINE Bad == {k \in Nat : ~\E g : InspectTo(k, g)}
<1>1. ASSUME Bad # {} PROVE FALSE
  <2>1. PICK m \in Bad : \A y \in Bad : m <= y
    <3>1. Bad \subseteq Nat
      OBVIOUS
    <3> HIDE DEF Bad
    <3> QED  BY <1>1, <3>1, LeastOf
  <2>2. m # 0
    <3>1. \A f \in Files : Nesting[f] \in Nat
      BY FilesAssumption
    <3>2. InspectTo(0, 0)
      BY <3>1 DEF InspectTo
    <3> QED  BY <3>2
  <2>3. PICK k \in Nat : m = k + 1
    BY <2>2
  <2>4. PICK g : InspectTo(k, g)
    BY <2>1, <2>3
  <2>5. PICK h : h = [f \in Files |-> InspectOf(f, g)]
    OBVIOUS
  <2>6. ASSUME NEW f \in Files, Nesting[f] < m PROVE h[f] = InspectOf(f, h)
    <3>1. ASSUME NEW p \in ToSet(f.parts), p.kind \in Attached PROVE g[p.inner] = h[p.inner]
      <4>1. p.inner \in Files /\ Nesting[p.inner] < k
        BY <2>3, <2>6, <3>1, AttachedIs
      <4> QED  BY <2>4, <2>5, <4>1 DEF InspectTo
    <3>2. InspectOf(f, g) = InspectOf(f, h)
      BY <3>1, SameInspected DEF Same
    <3> QED  BY <2>5, <3>2
  <2>7. InspectTo(m, h)
    BY <2>6 DEF InspectTo
  <2> QED  BY <2>1, <2>7
<1> QED  BY <1>1

\* Two solutions agree on the files that are less deep than either goes.
LEMMA InspectUnique ==
  ASSUME NEW n \in Nat, NEW m \in Nat, NEW g, NEW h, InspectTo(n, g), InspectTo(m, h),
         NEW f \in Files, Nesting[f] < n, Nesting[f] < m
  PROVE  g[f] = h[f]
<1> DEFINE Bad == {k \in Nat : \E e \in Files : Nesting[e] = k /\ k < n /\ k < m /\ g[e] # h[e]}
<1>1. ASSUME Bad # {} PROVE FALSE
  <2>1. PICK k \in Bad : \A y \in Bad : k <= y
    <3>1. Bad \subseteq Nat
      OBVIOUS
    <3> HIDE DEF Bad
    <3> QED  BY <1>1, <3>1, LeastOf
  <2>2. PICK e \in Files : Nesting[e] = k /\ k < n /\ k < m /\ g[e] # h[e]
    BY <2>1
  <2>3. ASSUME NEW p \in ToSet(e.parts), p.kind \in Attached PROVE g[p.inner] = h[p.inner]
    <3>1. PICK l \in Nat : l = Nesting[p.inner] /\ p.inner \in Files /\ l < k
      BY <2>2, <2>3, AttachedIs
    <3>2. l \notin Bad
      BY <2>1, <3>1
    <3> QED  BY <2>2, <3>1, <3>2
  <2>4. InspectOf(e, g) = InspectOf(e, h)
    BY <2>3, SameInspected DEF Same
  <2> QED  BY <2>2, <2>4 DEF InspectTo
<1>2. Nesting[f] \in Nat
  BY FilesAssumption
<1> QED  BY <1>1, <1>2

\* What Inspect is of a file, by what it is of the files attached to it.
LEMMA InspectIs ==
  ASSUME NEW f \in Files
  PROVE  Inspect[f] = InspectOf(f, Inspect)
<1> DEFINE chosen(e) == CHOOSE g : InspectTo(Nesting[e] + 1, g)
           G == [e \in Files |-> chosen(e)[e]]
<1>1. ASSUME NEW e \in Files PROVE Nesting[e] \in Nat /\ InspectTo(Nesting[e] + 1, chosen(e))
  <2>1. Nesting[e] \in Nat
    BY FilesAssumption
  <2>2. Nesting[e] + 1 \in Nat
    BY <2>1
  <2>3. PICK n \in Nat : n = Nesting[e] + 1
    BY <2>2
  <2>4. \E g : InspectTo(n, g)
    BY InspectExists
  <2> QED  BY <2>1, <2>3, <2>4
<1> HIDE DEF chosen
<1>2. ASSUME NEW e \in Files PROVE G[e] = InspectOf(e, G)
  <2>0. PICK g : g = chosen(e)
    OBVIOUS
  <2>1. PICK n \in Nat : n = Nesting[e] + 1 /\ InspectTo(n, g)
    BY <1>1, <2>0
  <2>2. G[e] = InspectOf(e, g)
    BY <1>1, <2>0, <2>1 DEF InspectTo
  <2>3. ASSUME NEW p \in ToSet(e.parts), p.kind \in Attached PROVE g[p.inner] = G[p.inner]
    <3>1. PICK i \in Files : i = p.inner /\ Nesting[i] \in Nat /\ Nesting[i] < n
      BY <2>1, <2>3, AttachedIs
    <3>2. PICK h : h = chosen(i)
      OBVIOUS
    <3>3. PICK m \in Nat : m = Nesting[i] + 1 /\ InspectTo(m, h)
      BY <1>1, <3>2
    <3>4. Nesting[i] < m
      BY <3>1, <3>3
    <3>5. g[i] = h[i]
      BY <2>1, <3>1, <3>3, <3>4, InspectUnique
    <3> QED  BY <3>1, <3>2, <3>5
  <2>4. InspectOf(e, g) = InspectOf(e, G)
    <3> HIDE DEF G
    <3> QED  BY <2>3, SameInspected DEF Same
  <2> QED  BY <2>2, <2>4
<1>3. G = [e \in Files |-> InspectOf(e, G)]
  <2>1. PICK H : H = G
    OBVIOUS
  <2>2. H = [e \in Files |-> H[e]]
    BY <2>1
  <2> HIDE DEF G
  <2>3. \A e \in Files : H[e] = InspectOf(e, H)
    BY <1>2, <2>1
  <2>4. [e \in Files |-> H[e]] = [e \in Files |-> InspectOf(e, H)]
    BY <2>3
  <2>5. H = [e \in Files |-> InspectOf(e, H)]
    BY <2>2, <2>4
  <2> QED  BY <2>1, <2>5
<1>4. Inspect = CHOOSE g : g = [e \in Files |-> InspectOf(e, g)]
  BY DEF Inspect, InspectOf
<1> HIDE DEF G
<1>5. Inspect = [e \in Files |-> InspectOf(e, Inspect)]
  BY <1>3, <1>4
<1> QED  BY <1>5

-----------------------------------------------------------------------------
(* What is read of a file.                                                 *)

\* The members of sequences joined, and of some of the members of one.
LEMMA FlattenMembers ==
  ASSUME NEW S, NEW n \in Nat, NEW seqs \in [1 .. n -> Seq(S)]
  PROVE  /\ Sequence(FlattenSeq(seqs))
         /\ \A x : x \in ToSet(FlattenSeq(seqs)) <=> \E k \in 1 .. n : x \in ToSet(seqs[k])
<1>1. PICK off : Ends(off, n, seqs) /\ Flat(FlattenSeq(seqs), off, n, S, seqs)
  BY FlattenIs
<1>2. PICK flat : flat = FlattenSeq(seqs)
  OBVIOUS
<1>3. flat \in Seq(S) /\ Sequence(flat)
  BY <1>1, <1>2, SeqIsSequence DEF Flat
<1>4. DOMAIN flat = 1 .. Len(flat) /\ \A k \in 1 .. n : DOMAIN seqs[k] = 1 .. Len(seqs[k])
  BY <1>3, LenProperties
<1>5. ASSUME NEW x \in ToSet(flat) PROVE \E k \in 1 .. n : x \in ToSet(seqs[k])
  <2>1. PICK p \in 1 .. Len(flat) : x = flat[p]
    BY <1>4 DEF ToSet
  <2>2. PICK k \in 1 .. n : \E j \in 1 .. Len(seqs[k]) : p = off[k - 1] + j
    BY <1>1, <1>2 DEF Flat
  <2>3. PICK j \in 1 .. Len(seqs[k]) : p = off[k - 1] + j
    BY <2>2
  <2>4. x = seqs[k][j]
    BY <1>1, <1>2, <2>1, <2>3 DEF Flat
  <2> QED  BY <1>4, <2>4 DEF ToSet
<1>6. ASSUME NEW k \in 1 .. n, NEW x \in ToSet(seqs[k]) PROVE x \in ToSet(flat)
  <2>1. PICK j \in 1 .. Len(seqs[k]) : x = seqs[k][j]
    BY <1>4 DEF ToSet
  <2>2. flat[off[k - 1] + j] = x
    BY <1>1, <1>2, <2>1 DEF Flat
  <2>3. off[k - 1] + j \in 1 .. Len(flat)
    <3>1. k - 1 \in 0 .. n /\ k \in 0 .. n /\ n \in k .. n
      OBVIOUS
    <3>2. off[k] <= off[n]
      BY <1>1, <3>1, EndsGrow
    <3>3. PICK a \in Nat, l \in Nat, b \in Nat : a = off[k - 1] /\ l = Len(seqs[k]) /\ b = off[n] /\ off[k] = a + l
      <4>1. Len(seqs[k]) \in Nat
        BY LenProperties
      <4>2. n \in 0 .. n
        OBVIOUS
      <4> QED  BY <1>1, <3>1, <4>1, <4>2 DEF Ends
    <3>4. Len(flat) = b
      BY <1>1, <1>2, <3>3 DEF Flat
    <3>5. j \in 1 .. l
      BY <3>3
    <3> QED  BY <3>2, <3>3, <3>4, <3>5
  <2> QED  BY <1>4, <2>2, <2>3 DEF ToSet
<1> QED  BY <1>2, <1>3, <1>5, <1>6

\* The members of a sequence that are picked.
LEMMA PickedIs ==
  ASSUME NEW s, Sequence(s), NEW P
  PROVE  /\ Sequence(Picked(s, P))
         /\ \A x : x \in ToSet(Picked(s, P)) <=> \E i \in DOMAIN s : i \in P /\ x = s[i]
<1>1. PICK n \in Nat : n = Len(s) /\ DOMAIN s = 1 .. n
  BY SequenceFacts
<1>2. PICK S : S = ToSet(s)
  OBVIOUS
<1>3. PICK seqs : seqs = [i \in 1 .. n |-> IF i \in P THEN <<s[i]>> ELSE << >>]
  OBVIOUS
<1>4. \A i \in 1 .. n : s[i] \in S
  BY <1>1, <1>2 DEF ToSet
<1>5. seqs \in [1 .. n -> Seq(S)]
  <2>1. ASSUME NEW i \in 1 .. n PROVE (IF i \in P THEN <<s[i]>> ELSE << >>) \in Seq(S)
    <3>1. PICK x \in S : x = s[i]
      BY <1>4
    <3>2. <<x>> \in Seq(S) /\ << >> \in Seq(S)
      BY EmptySeq
    <3> QED  BY <3>1, <3>2
  <2> QED  BY <1>3, <2>1
<1>6. ASSUME NEW i \in 1 .. n, NEW x PROVE x \in ToSet(seqs[i]) <=> i \in P /\ x = s[i]
  <2>1. PICK y : y = s[i]
    OBVIOUS
  <2>2. ToSet(<<y>>) = {y} /\ ToSet(<< >>) = {}
    BY DEF ToSet
  <2> QED  BY <1>3, <2>1, <2>2
<1>7. Picked(s, P) = FlattenSeq(seqs)
  BY <1>1, <1>3 DEF Picked
<1>8. /\ Sequence(FlattenSeq(seqs))
      /\ \A x : x \in ToSet(FlattenSeq(seqs)) <=> \E k \in 1 .. n : x \in ToSet(seqs[k])
  BY <1>5, FlattenMembers
<1>9. ASSUME NEW x PROVE x \in ToSet(Picked(s, P)) <=> \E i \in DOMAIN s : i \in P /\ x = s[i]
  BY <1>1, <1>6, <1>7, <1>8
<1> QED  BY <1>7, <1>8, <1>9

\* A component of a text has it, or the beginning of it and a note.
IsComponent(c) == c = Component(c.type, c.text, c.note, c.file) /\ Sequence(c.text)
\* It is what TextComponent makes of a text.
LEMMA TextComponentIs ==
  ASSUME NEW type, NEW text, Sequence(text), NEW c, c = TextComponent(type, text)
  PROVE  /\ IsComponent(c) /\ c.file = << >> /\ ToSet(c.text) \subseteq ToSet(text)
         /\ c.note = "none" => c.text = text
<1>1. PICK n \in Nat : n = Len(text) /\ DOMAIN text = 1 .. n
  BY SequenceFacts
<1>2. PICK m \in Nat : m = Min({n, MaxText}) /\ m <= n /\ (n <= MaxText => m = n)
  <2>1. MaxText \in Nat
    BY BoundsAssumption
  <2>2. PICK S : S = {n, MaxText}
    OBVIOUS
  <2>3. PICK k \in S : \A y \in S : k <= y
    <3>1. CASE n <= MaxText
      BY <2>1, <2>2, <3>1
    <3>2. CASE ~(n <= MaxText)
      BY <2>1, <2>2, <3>2
    <3> QED  BY <3>1, <3>2
  <2>4. Min(S) \in S /\ \A y \in S : Min(S) <= y
    BY <2>3 DEF Min
  <2> QED  BY <2>1, <2>2, <2>4
<1>3. PICK t : t = SubSeq(text, 1, m)
  OBVIOUS
<1>4. text \in Seq(ToSet(text))
  BY DEF Sequence
<1>5. PICK S : S = ToSet(text)
  OBVIOUS
<1>6. t \in Seq(S) /\ Len(t) = m /\ DOMAIN t = 1 .. m /\ \A i \in 1 .. m : t[i] = text[i]
  <2>1. \A i \in 1 .. m : text[i] \in S
    BY <1>1, <1>2, <1>5 DEF ToSet
  <2>2. PICK one \in Nat : one = 1
    OBVIOUS
  <2>3. t = SubSeq(text, one, m) /\ \A i \in one .. m : text[i] \in S
    BY <1>3, <2>1, <2>2
  <2>4. /\ t \in Seq(S) /\ Len(t) = IF one <= m THEN m - one + 1 ELSE 0
        /\ \A i \in 1 .. m - one + 1 : t[i] = text[one + i - 1]
    BY <2>2, <2>3, SubSeqProperties
  <2>5. Len(t) = m /\ m - one + 1 = m
    BY <2>2, <2>4
  <2>6. \A i \in 1 .. m : one + i - 1 = i
    BY <2>2
  <2>7. DOMAIN t = 1 .. m
    BY <2>4, <2>5, LenProperties
  <2> QED  BY <2>4, <2>5, <2>6, <2>7
<1>7. Sequence(t) /\ ToSet(t) \subseteq S
  BY <1>6, SeqIsSequence
<1>8. n <= MaxText => t = text
  <2>1. text \in Seq(S) /\ t \in Seq(S)
    BY <1>4, <1>5, <1>6
  <2> QED  BY <1>1, <1>2, <1>6, <2>1, SeqEqual
<1>9. PICK note : note = IF n > MaxText THEN "truncated" ELSE "none"
  OBVIOUS
<1>10. c = Component(type, t, note, << >>)
  BY <1>1, <1>2, <1>3, <1>9 DEF TextComponent, Truncated
<1>11. c.type = type /\ c.text = t /\ c.note = note /\ c.file = << >>
  BY <1>10 DEF Component
<1>12. note = "none" => n <= MaxText
  BY <1>1, <1>9, BoundsAssumption
<1> QED  BY <1>5, <1>7, <1>8, <1>10, <1>11, <1>12 DEF IsComponent

\* What components cs tell of these parts: nothing else, and everything if no part is broken
\* and no component has a note.
Reads(cs, parts) ==
  /\ Sequence(cs)
  /\ \A c \in ToSet(cs) : IsComponent(c) /\ \E p \in ToSet(parts) : ToSet(c.text) \subseteq ToSet(p.text)
  /\ (\A p \in ToSet(parts) : ~p.broken) /\ (\A c \in ToSet(cs) : c.note = "none") =>
       \A p \in ToSet(parts) : \A x \in ToSet(p.text) : \E c \in ToSet(cs) : x \in ToSet(c.text)
Parts(parts) == Sequence(parts) /\ \A p \in ToSet(parts) : Sequence(p.text)

\* A sequence that is as long as another one.
LEMMA AsLong ==
  ASSUME NEW s, Sequence(s), NEW t, t = [i \in DOMAIN s |-> t[i]]
  PROVE  Sequence(t) /\ DOMAIN t = DOMAIN s
<1>1. PICK n \in Nat : DOMAIN s = 1 .. n
  BY SequenceFacts
<1>2. PICK S : S = {t[i] : i \in 1 .. n}
  OBVIOUS
<1>3. \A i \in 1 .. n : t[i] \in S
  BY <1>2
<1>4. t = [i \in 1 .. n |-> t[i]]
  BY <1>1
<1>5. t \in Seq(S)
  BY <1>3, <1>4, IsASeq
<1>6. DOMAIN t = DOMAIN s
  BY <1>1, <1>4
<1> QED  BY <1>5, <1>6, SeqIsSequence

\* What is read of parts: some of them, and all if none is broken.
LEMMA ReadableIs ==
  ASSUME NEW parts, Sequence(parts)
  PROVE  /\ Sequence(Readable(parts)) /\ ToSet(Readable(parts)) \subseteq ToSet(parts)
         /\ (\A p \in ToSet(parts) : ~p.broken) => ToSet(parts) \subseteq ToSet(Readable(parts))
<1>1. PICK P : P = {i \in DOMAIN parts : \A j \in 1 .. i : ~parts[j].broken}
  OBVIOUS
<1>2. /\ Sequence(Readable(parts))
      /\ \A x : x \in ToSet(Readable(parts)) <=> \E i \in DOMAIN parts : i \in P /\ x = parts[i]
  BY <1>1, PickedIs DEF Readable
<1>3. PICK n \in Nat : DOMAIN parts = 1 .. n /\ \A i \in 1 .. n : parts[i] \in ToSet(parts)
  BY SequenceFacts
<1>4. \A x \in ToSet(parts) : \E i \in DOMAIN parts : x = parts[i]
  BY DEF ToSet
<1>5. (\A p \in ToSet(parts) : ~p.broken) => \A i \in 1 .. n : i \in P
  BY <1>1, <1>3
<1> QED  BY <1>2, <1>3, <1>4, <1>5

\* Pages, sheets, slides and tables are read as they should be.
LEMMA PagesRead ==
  ASSUME NEW parts, Parts(parts)
  PROVE  Reads(Pages(parts), parts)
<1>1. PICK read : read = Readable(parts)
  OBVIOUS
<1>2. /\ Sequence(read) /\ ToSet(read) \subseteq ToSet(parts)
      /\ (\A p \in ToSet(parts) : ~p.broken) => ToSet(parts) \subseteq ToSet(read)
  BY <1>1, ReadableIs DEF Parts
<1>3. PICK there : there = Picked(read, {i \in DOMAIN read : read[i].text # << >>})
  OBVIOUS
<1>4. /\ Sequence(there)
      /\ \A x : x \in ToSet(there) <=> \E i \in DOMAIN read : read[i].text # << >> /\ x = read[i]
  BY <1>2, <1>3, PickedIs
<1>5. \A x : x \in ToSet(there) <=> x \in ToSet(read) /\ x.text # << >>
  BY <1>4 DEF ToSet
<1>6. PICK cs : cs = Pages(parts)
  OBVIOUS
<1>7. cs = [i \in DOMAIN there |-> TextComponent("body", there[i].text)]
  BY <1>1, <1>3, <1>6 DEF Pages
<1>8. Sequence(cs) /\ DOMAIN cs = DOMAIN there
  <2>1. cs = [i \in DOMAIN there |-> cs[i]]
    BY <1>7
  <2> QED  BY <1>4, <2>1, AsLong
<1>9. ASSUME NEW p \in ToSet(there)
      PROVE  \E c \in ToSet(cs) : c = TextComponent("body", p.text)
  BY <1>7, <1>8 DEF ToSet
<1>10. ASSUME NEW c \in ToSet(cs)
       PROVE  \E p \in ToSet(there) : c = TextComponent("body", p.text)
  BY <1>7, <1>8 DEF ToSet
<1>11. ASSUME NEW p \in ToSet(there), NEW c, c = TextComponent("body", p.text)
       PROVE  /\ IsComponent(c) /\ ToSet(c.text) \subseteq ToSet(p.text)
              /\ c.note = "none" => c.text = p.text
  <2>1. Sequence(p.text)
    BY <1>2, <1>5 DEF Parts
  <2> QED  BY <1>11, <2>1, TextComponentIs
<1>12. ASSUME NEW c \in ToSet(cs) PROVE IsComponent(c) /\ \E p \in ToSet(parts) : ToSet(c.text) \subseteq ToSet(p.text)
  BY <1>2, <1>5, <1>10, <1>11
<1>13. ASSUME \A p \in ToSet(parts) : ~p.broken, \A c \in ToSet(cs) : c.note = "none",
              NEW p \in ToSet(parts), NEW x \in ToSet(p.text)
       PROVE  \E c \in ToSet(cs) : x \in ToSet(c.text)
  <2>1. p.text # << >>
    BY DEF ToSet
  <2>2. p \in ToSet(there)
    BY <1>2, <1>5, <1>13, <2>1
  <2>3. PICK c \in ToSet(cs) : c = TextComponent("body", p.text)
    BY <1>9, <2>2
  <2>4. c.text = p.text
    BY <1>11, <1>13, <2>2, <2>3
  <2> QED  BY <2>4
<1> QED  BY <1>6, <1>8, <1>12, <1>13 DEF Reads

\* So are the parts of a mail.
LEMMA MailRead ==
  ASSUME NEW parts, Parts(parts)
  PROVE  Reads(MailParts(parts), parts)
<1>1. PICK read : read = Readable(parts)
  OBVIOUS
<1>2. /\ Sequence(read) /\ ToSet(read) \subseteq ToSet(parts)
      /\ (\A p \in ToSet(parts) : ~p.broken) => ToSet(parts) \subseteq ToSet(read)
  BY <1>1, ReadableIs DEF Parts
<1>3. PICK there : there = Picked(read, {i \in DOMAIN read : read[i].text # << >> \/ read[i].kind \in Attached})
  OBVIOUS
<1>4. /\ Sequence(there)
      /\ \A x : x \in ToSet(there) <=>
           \E i \in DOMAIN read : (read[i].text # << >> \/ read[i].kind \in Attached) /\ x = read[i]
  BY <1>2, <1>3, PickedIs
<1>5. \A x : x \in ToSet(there) <=> x \in ToSet(read) /\ (x.text # << >> \/ x.kind \in Attached)
  BY <1>4 DEF ToSet
<1>6. PICK cs : cs = MailParts(parts)
  OBVIOUS
<1>7. cs = [i \in DOMAIN there |-> MailPart(there[i])]
  BY <1>1, <1>3, <1>6 DEF MailParts
<1>11. ASSUME NEW p \in ToSet(there), NEW c, c = MailPart(p)
       PROVE  /\ IsComponent(c) /\ ToSet(c.text) \subseteq ToSet(p.text)
              /\ c.note = "none" => c.text = p.text
  <2>1. Sequence(p.text)
    BY <1>2, <1>5 DEF Parts
  <2>2. CASE p.kind \notin Bodies \cup Attached
    <3>1. c = Component(p.kind, p.text, "none", << >>)
      BY <1>11, <2>2 DEF MailPart
    <3> QED  BY <2>1, <3>1 DEF IsComponent, Component
  <2>3. CASE p.kind \in Bodies \cup Attached
    <3>1. PICK d : d = TextComponent(TypeOf(p), p.text)
      OBVIOUS
    <3>2. IsComponent(d) /\ ToSet(d.text) \subseteq ToSet(p.text) /\ (d.note = "none" => d.text = p.text)
      BY <2>1, <3>1, TextComponentIs
    <3>3. PICK file : file = IF p.kind \in Attached THEN <<p.inner.meta>> ELSE << >>
      OBVIOUS
    <3>4. c = [d EXCEPT !.file = file]
      BY <1>11, <2>3, <3>1, <3>3 DEF MailPart
    <3>5. c = Component(d.type, d.text, d.note, file)
      BY <3>2, <3>4 DEF IsComponent, Component
    <3>6. c.type = d.type /\ c.text = d.text /\ c.note = d.note /\ c.file = file
      BY <3>5 DEF Component
    <3> QED  BY <3>2, <3>5, <3>6 DEF IsComponent
  <2> QED  BY <2>2, <2>3
<1>8. Sequence(cs) /\ DOMAIN cs = DOMAIN there
  <2>1. cs = [i \in DOMAIN there |-> cs[i]]
    BY <1>7
  <2> QED  BY <1>4, <2>1, AsLong
<1>9. ASSUME NEW p \in ToSet(there) PROVE \E c \in ToSet(cs) : c = MailPart(p)
  BY <1>7, <1>8 DEF ToSet
<1>10. ASSUME NEW c \in ToSet(cs) PROVE \E p \in ToSet(there) : c = MailPart(p)
  BY <1>7, <1>8 DEF ToSet
<1>12. ASSUME NEW c \in ToSet(cs) PROVE IsComponent(c) /\ \E p \in ToSet(parts) : ToSet(c.text) \subseteq ToSet(p.text)
  BY <1>2, <1>5, <1>10, <1>11
<1>13. ASSUME \A p \in ToSet(parts) : ~p.broken, \A c \in ToSet(cs) : c.note = "none",
              NEW p \in ToSet(parts), NEW x \in ToSet(p.text)
       PROVE  \E c \in ToSet(cs) : x \in ToSet(c.text)
  <2>1. p.text # << >>
    BY DEF ToSet
  <2>2. p \in ToSet(there)
    BY <1>2, <1>5, <1>13, <2>1
  <2>3. PICK c \in ToSet(cs) : c = MailPart(p)
    BY <1>9, <2>2
  <2>4. c.text = p.text
    BY <1>11, <1>13, <2>2, <2>3
  <2> QED  BY <2>4
<1> QED  BY <1>6, <1>8, <1>12, <1>13 DEF Reads

\* The texts of components joined.
LEMMA JoinedIs ==
  ASSUME NEW cs, Sequence(cs), \A c \in ToSet(cs) : Sequence(c.text)
  PROVE  /\ Sequence(Joined(cs))
         /\ \A x : x \in ToSet(Joined(cs)) <=> \E c \in ToSet(cs) : x \in ToSet(c.text)
<1>1. PICK n \in Nat : DOMAIN cs = 1 .. n /\ \A k \in 1 .. n : cs[k] \in ToSet(cs)
  BY SequenceFacts
<1>2. PICK seqs : seqs = [k \in 1 .. n |-> cs[k].text]
  OBVIOUS
<1>3. PICK S : S = UNION {ToSet(cs[k].text) : k \in 1 .. n}
  OBVIOUS
<1>4. seqs \in [1 .. n -> Seq(S)]
  <2>1. ASSUME NEW k \in 1 .. n PROVE cs[k].text \in Seq(S)
    <3>1. cs[k].text \in Seq(ToSet(cs[k].text)) /\ ToSet(cs[k].text) \subseteq S
      BY <1>1, <1>3 DEF Sequence
    <3> QED  BY <3>1, SeqMonotonic
  <2> QED  BY <1>2, <2>1
<1>5. Joined(cs) = FlattenSeq(seqs)
  BY <1>1, <1>2 DEF Joined
<1>6. /\ Sequence(FlattenSeq(seqs))
      /\ \A x : x \in ToSet(FlattenSeq(seqs)) <=> \E k \in 1 .. n : x \in ToSet(seqs[k])
  BY <1>4, FlattenMembers
<1>7. ASSUME NEW x PROVE (\E k \in 1 .. n : x \in ToSet(seqs[k])) <=> \E c \in ToSet(cs) : x \in ToSet(c.text)
  <2>1. \A c \in ToSet(cs) : \E k \in 1 .. n : c = cs[k]
    BY <1>1 DEF ToSet
  <2> QED  BY <1>1, <1>2, <2>1
<1> QED  BY <1>5, <1>6, <1>7

\* What stripping HTML leaves: what is not hidden.
LEMMA StrippedIs ==
  ASSUME NEW text, Sequence(text)
  PROVE  /\ Sequence(Stripped(text))
         /\ \A x : x \in ToSet(Stripped(text)) <=> x \in ToSet(text) /\ ~x.hidden
<1>1. PICK P : P = {i \in DOMAIN text : ~text[i].hidden}
  OBVIOUS
<1>2. /\ Sequence(Stripped(text))
      /\ \A x : x \in ToSet(Stripped(text)) <=> \E i \in DOMAIN text : i \in P /\ x = text[i]
  BY <1>1, PickedIs DEF Stripped
<1> QED  BY <1>1, <1>2 DEF ToSet

\* The outcome of an inspection, as far as it is used by that of a mail.
Outcome(o) == Sequence(o.components) /\ \A c \in ToSet(o.components) : IsComponent(c)
\* A part of a mail, with what was seen of the file that it is.
LEMMA OpenedIs ==
  ASSUME NEW p, {"kind", "text", "broken"} \subseteq DOMAIN p, Sequence(p.text),
         p.kind \in {"bytes", "message"} => p.text = << >>, NEW inner, Outcome(inner), NEW q, q = OpenedPart(p, inner)
  PROVE  /\ q.broken <=> p.broken \/ inner.raised
         /\ Sequence(q.text) /\ q.kind = p.kind
         /\ \A x \in ToSet(q.text) :
              x \in ToSet(p.text) \/ (p.kind = "bytes" /\ \E c \in ToSet(inner.components) : x \in ToSet(c.text))
         /\ \A x \in ToSet(p.text) : ~x.hidden => x \in ToSet(q.text)
         /\ p.kind = "bytes" => \A c \in ToSet(inner.components) : ToSet(c.text) \subseteq ToSet(q.text)
<1>1. PICK text : text = CASE p.kind = "bytes" -> Joined(inner.components)
                           [] p.kind = "message" -> << >>
                           [] p.kind = "markup" -> Stripped(p.text)
                           [] OTHER -> p.text
  OBVIOUS
<1>2. PICK broken : broken = (p.broken \/ inner.raised)
  OBVIOUS
<1>3. q = [p EXCEPT !.broken = broken, !.text = text]
  BY <1>1, <1>2 DEF OpenedPart
<1>4. (q.broken <=> p.broken \/ inner.raised) /\ q.text = text /\ q.kind = p.kind
  <2>1. q.broken = broken /\ q.text = text /\ q.kind = p.kind
    BY <1>3
  <2> QED  BY <1>2, <2>1
<1>5. ToSet(<< >>) = {} /\ Sequence(<< >>)
  BY EmptySeq DEF ToSet, Sequence
<1>6. CASE p.kind = "bytes"
  <2>1. text = Joined(inner.components)
    BY <1>1, <1>6
  <2>2. \A c \in ToSet(inner.components) : Sequence(c.text)
    BY DEF Outcome, IsComponent
  <2>3. Sequence(text) /\ \A x : x \in ToSet(text) <=> \E c \in ToSet(inner.components) : x \in ToSet(c.text)
    BY <2>1, <2>2, JoinedIs DEF Outcome
  <2>4. ToSet(p.text) = {}
    BY <1>5, <1>6
  <2> QED  BY <1>4, <1>6, <2>3, <2>4
<1>7. CASE p.kind = "message"
  <2>1. text = << >> /\ p.text = << >>
    BY <1>1, <1>7
  <2> QED  BY <1>4, <1>5, <1>7, <2>1
<1>8. CASE p.kind = "markup"
  <2>1. text = Stripped(p.text)
    BY <1>1, <1>8
  <2>2. Sequence(text) /\ \A x : x \in ToSet(text) <=> x \in ToSet(p.text) /\ ~x.hidden
    BY <2>1, StrippedIs
  <2> QED  BY <1>4, <1>8, <2>2
<1>9. CASE p.kind \notin {"bytes", "message", "markup"}
  <2>1. text = p.text
    BY <1>1, <1>9
  <2> QED  BY <1>4, <1>9, <2>1
<1> QED  BY <1>6, <1>7, <1>8, <1>9

\* Components that have got the name of the file.
LEMMA WithNameIs ==
  ASSUME NEW all, Sequence(all), \A c \in ToSet(all) : IsComponent(c), NEW f, NEW cs, cs = WithName(f, all)
  PROVE  /\ Sequence(cs) /\ \A c \in ToSet(cs) : IsComponent(c)
         /\ \A c \in ToSet(cs) : \E d \in ToSet(all) : c.text = d.text /\ c.note = d.note
         /\ \A d \in ToSet(all) : \E c \in ToSet(cs) : c.text = d.text /\ c.note = d.note
<1> DEFINE of(i) == IF all[i].file # << >> THEN all[i] ELSE [all[i] EXCEPT !.file = <<Unseen(f.meta)>>]
<1>0. cs = [i \in DOMAIN all |-> of(i)]
  BY DEF WithName
<1>1. Sequence(cs) /\ DOMAIN cs = DOMAIN all
  <2> HIDE DEF of
  <2>1. cs = [i \in DOMAIN all |-> cs[i]]
    BY <1>0, SMT
  <2> QED  BY <2>1, AsLong
<1>2. ASSUME NEW i \in DOMAIN all
      PROVE  IsComponent(cs[i]) /\ cs[i].text = all[i].text /\ cs[i].note = all[i].note
  <2>1. PICK d : d = all[i]
    OBVIOUS
  <2>2. IsComponent(d)
    BY <2>1 DEF ToSet
  <2>3. CASE d.file # << >>
    <3>1. cs[i] = d
      BY <1>0, <2>1, <2>3, SMT
    <3> QED  BY <2>1, <2>2, <3>1
  <2>4. CASE d.file = << >>
    <3>1. PICK c : c = cs[i]
      OBVIOUS
    <3>2. PICK file : file = <<Unseen(f.meta)>>
      OBVIOUS
    <3>3. c = [d EXCEPT !.file = file]
      BY <1>0, <2>1, <2>4, <3>1, <3>2, SMT
    <3>4. c = Component(d.type, d.text, d.note, file)
      BY <2>2, <3>3 DEF IsComponent, Component
    <3>5. c.type = d.type /\ c.text = d.text /\ c.note = d.note /\ c.file = file
      BY <3>4 DEF Component
    <3> QED  BY <2>1, <2>2, <3>1, <3>4, <3>5 DEF IsComponent
  <2> QED  BY <2>3, <2>4
<1>3. (\A i \in DOMAIN all : cs[i] \in ToSet(cs)) /\ \A c \in ToSet(cs) : \E i \in DOMAIN all : c = cs[i]
  BY <1>1 DEF ToSet
<1>4. (\A i \in DOMAIN all : all[i] \in ToSet(all)) /\ \A d \in ToSet(all) : \E i \in DOMAIN all : d = all[i]
  BY DEF ToSet
<1>5. ASSUME NEW c \in ToSet(cs) PROVE IsComponent(c) /\ \E d \in ToSet(all) : c.text = d.text /\ c.note = d.note
  <2>1. PICK i \in DOMAIN all : c = cs[i]
    BY <1>3, SMT
  <2>2. PICK d \in ToSet(all) : d = all[i]
    BY <1>4, SMT
  <2>3. IsComponent(c)
    BY <1>2, <2>1, SMT
  <2>4. c.text = d.text /\ c.note = d.note
    BY <1>2, <2>1, <2>2, SMT
  <2> QED  BY <2>3, <2>4, SMT
<1>6. ASSUME NEW d \in ToSet(all) PROVE \E c \in ToSet(cs) : c.text = d.text /\ c.note = d.note
  <2>1. PICK i \in DOMAIN all : d = all[i]
    BY <1>4, SMT
  <2>2. PICK c \in ToSet(cs) : c = cs[i]
    BY <1>3, SMT
  <2>3. c.text = d.text /\ c.note = d.note
    BY <1>2, <2>1, <2>2, SMT
  <2> QED  BY <2>3, SMT
<1> QED  BY <1>1, <1>5, <1>6, SMT

\* An item is in a part, or in what was seen of the file that the part is.
HasItem(p, inner, x) ==
  x \in ToSet(p.text) \/ (p.kind = "bytes" /\ \E c \in ToSet(inner.components) : x \in ToSet(c.text))
IsHeld(f, inner, x) == \E i \in DOMAIN f.parts : HasItem(f.parts[i], inner[i], x)
IsGiven(f, inner, x) == \E i \in DOMAIN f.parts \ PassedOver(f.parts) : HasItem(f.parts[i], inner[i], x)
IsTold(o, x) == \E c \in ToSet(o.components) : x \in ToSet(c.text)
Whole(o) == ~o.raised /\ \A c \in ToSet(o.components) : c.note = "none"
\* The parts as they are read.
AsRead(f, inner) ==
  CASE f.format \in {"paged", "text"} -> f.parts
    [] f.format = "html" -> <<[Head(f.parts) EXCEPT !.text = Stripped(@)]>>
    [] f.format = "eml" -> OpenedParts(f.parts, inner)
Broken(f, inner) == \E i \in DOMAIN f.parts : OpenedParts(f.parts, inner)[i].broken
Known(f, inner) == \A i \in DOMAIN f.parts : Outcome(inner[i])

\* A part of a mail that is passed over has nothing, and is not broken.
LEMMA PassedIs ==
  ASSUME NEW p, {"kind", "text", "broken"} \subseteq DOMAIN p, NEW q, q = [p EXCEPT !.text = << >>, !.broken = FALSE]
  PROVE  ~q.broken /\ Sequence(q.text) /\ ToSet(q.text) = {}
<1>1. q.text = << >> /\ q.broken = FALSE
  OBVIOUS
<1>2. ToSet(<< >>) = {} /\ Sequence(<< >>)
  BY EmptySeq DEF ToSet, Sequence
<1> QED  BY <1>1, <1>2

\* The parts as they are read have what the parts have that are not passed over, but for
\* what is hidden.
LEMMA ReadAre ==
  ASSUME NEW f \in Files, f.format \in {"paged", "text", "html", "eml"}, NEW inner, Known(f, inner),
         NEW read, read = AsRead(f, inner)
  PROVE  /\ Parts(read)
         /\ ~Broken(f, inner) => \A q \in ToSet(read) : ~q.broken
         /\ \A q \in ToSet(read) : \A x \in ToSet(q.text) : IsHeld(f, inner, x)
         /\ \A x : IsGiven(f, inner, x) /\ ~x.hidden => \E q \in ToSet(read) : x \in ToSet(q.text)
<1>1. IsFile(f) /\ IsDocumentFile(f)
  BY FilesAssumption
<1>2. PICK n \in Nat : n = Len(f.parts) /\ DOMAIN f.parts = 1 .. n /\ \A i \in 1 .. n : f.parts[i] \in ToSet(f.parts)
  BY <1>1, SequenceFacts DEF IsFile
<1>3. \A i \in 1 .. n : {"kind", "text", "broken"} \subseteq DOMAIN f.parts[i] /\ Sequence(f.parts[i].text)
  BY <1>1, <1>2 DEF IsFile, IsText
<1>4. \A i \in 1 .. n : /\ f.parts[i].kind \in {"bytes", "message"} => f.parts[i].text = << >>
                        /\ f.parts[i].kind \in Bodies \cup {"bytes"} => f.format = "eml"
  <2>1. \A p \in ToSet(f.parts) : /\ p.kind \in Bodies \cup Attached => f.format = "eml"
                                  /\ p.kind \in {"bytes", "message"} => p.text = << >>
    BY <1>1 DEF IsDocumentFile
  <2>2. Bodies \cup {"bytes"} \subseteq Bodies \cup Attached
    BY DEF Attached
  <2> QED  BY <1>2, <2>1, <2>2
<1>5. PICK over : over = PassedOver(f.parts)
  OBVIOUS
<1>11. f.format # "eml" => over = {}
  <2>1. \A i \in over : i \in 1 .. n /\ f.parts[i].kind \in Bodies
    BY <1>2, <1>5 DEF PassedOver
  <2> QED  BY <1>4, <2>1
<1>12. PICK opened : opened = OpenedParts(f.parts, inner)
  OBVIOUS
<1>13. opened = [i \in 1 .. n |-> IF i \in over THEN [f.parts[i] EXCEPT !.text = << >>, !.broken = FALSE]
                                  ELSE OpenedPart(f.parts[i], inner[i])]
  BY <1>2, <1>5, <1>12 DEF OpenedParts
<1>6. ASSUME NEW i \in 1 .. n
      PROVE  /\ i \notin over => (opened[i].broken <=> f.parts[i].broken \/ inner[i].raised)
             /\ Sequence(opened[i].text)
             /\ \A x \in ToSet(opened[i].text) : HasItem(f.parts[i], inner[i], x)
             /\ i \notin over => \A x : HasItem(f.parts[i], inner[i], x) /\ ~x.hidden => x \in ToSet(opened[i].text)
  <2>1. PICK p, k, q : p = f.parts[i] /\ k = inner[i] /\ q = opened[i]
    OBVIOUS
  <2>0. CASE i \in over
    <3>1. q = [p EXCEPT !.text = << >>, !.broken = FALSE]
      BY <1>13, <2>0, <2>1
    <3>2. Sequence(q.text) /\ ToSet(q.text) = {}
      BY <1>3, <2>1, <3>1, PassedIs
    <3> QED  BY <2>0, <2>1, <3>2
  <2>8. ASSUME i \notin over PROVE q = OpenedPart(p, k)
    BY <1>13, <2>1, <2>8
  <2>9. SUFFICES ASSUME i \notin over
                 PROVE  /\ opened[i].broken <=> f.parts[i].broken \/ inner[i].raised
                        /\ Sequence(opened[i].text)
                        /\ \A x \in ToSet(opened[i].text) : HasItem(f.parts[i], inner[i], x)
                        /\ \A x : HasItem(f.parts[i], inner[i], x) /\ ~x.hidden => x \in ToSet(opened[i].text)
    BY <2>0
  <2>2. q = OpenedPart(p, k)
    BY <2>8, <2>9
  <2>3. Outcome(k)
    BY <1>2, <2>1 DEF Known
  <2>4. {"kind", "text", "broken"} \subseteq DOMAIN p /\ Sequence(p.text) /\ (p.kind \in {"bytes", "message"} => p.text = << >>)
    BY <1>3, <1>4, <2>1
  <2>5. /\ q.broken <=> p.broken \/ k.raised
        /\ Sequence(q.text)
        /\ \A x \in ToSet(q.text) :
             x \in ToSet(p.text) \/ (p.kind = "bytes" /\ \E c \in ToSet(k.components) : x \in ToSet(c.text))
        /\ \A x \in ToSet(p.text) : ~x.hidden => x \in ToSet(q.text)
        /\ p.kind = "bytes" => \A c \in ToSet(k.components) : ToSet(c.text) \subseteq ToSet(q.text)
    BY <2>2, <2>3, <2>4, OpenedIs
  <2>6. \A x \in ToSet(q.text) : HasItem(p, k, x)
    BY <2>5 DEF HasItem
  <2>7. \A x : HasItem(p, k, x) /\ ~x.hidden => x \in ToSet(q.text)
    BY <2>5 DEF HasItem
  <2> QED  BY <2>1, <2>5, <2>6, <2>7
<1>7. ~Broken(f, inner) => \A i \in 1 .. n : ~opened[i].broken
  BY <1>2, <1>12 DEF Broken
<1>8. CASE f.format \in {"paged", "text"}
  <2>1. read = f.parts
    BY <1>8 DEF AsRead
  <2>2. \A q \in ToSet(read) : \E i \in 1 .. n : q = f.parts[i]
    BY <1>2, <2>1 DEF ToSet
  <2>3. Parts(read)
    BY <1>1, <1>3, <2>1, <2>2 DEF Parts, IsFile
  <2>4. ~Broken(f, inner) => \A q \in ToSet(read) : ~q.broken
    BY <1>6, <1>7, <1>8, <1>11, <2>2
  <2>5. ASSUME NEW q \in ToSet(read), NEW x \in ToSet(q.text) PROVE IsHeld(f, inner, x)
    BY <1>2, <2>2 DEF IsHeld, HasItem
  <2>6. ASSUME NEW x, IsGiven(f, inner, x) PROVE \E q \in ToSet(read) : x \in ToSet(q.text)
    BY <1>2, <1>4, <1>8, <2>1, <2>6 DEF IsGiven, HasItem
  <2> QED  BY <2>3, <2>4, <2>5, <2>6
<1>9. CASE f.format = "html"
  <2>1. n = 1
    BY <1>1, <1>2, <1>9 DEF IsDocumentFile
  <2>2. PICK p : p = f.parts[1]
    OBVIOUS
  <2>3. PICK q : q = [p EXCEPT !.text = Stripped(p.text)]
    OBVIOUS
  <2>4. {"kind", "text", "broken"} \subseteq DOMAIN p /\ Sequence(p.text) /\ p.kind # "bytes"
    BY <1>3, <1>4, <1>9, <2>1, <2>2
  <2>5. q.text = Stripped(p.text) /\ q.broken = p.broken
    BY <2>3, <2>4
  <2>6. Sequence(q.text) /\ \A x : x \in ToSet(q.text) <=> x \in ToSet(p.text) /\ ~x.hidden
    BY <2>4, <2>5, StrippedIs
  <2>7. read = <<q>>
    <3>1. Head(f.parts) = p
      BY <1>1, <1>2, <2>1, <2>2 DEF IsFile, Sequence
    <3> QED  BY <1>9, <2>3, <3>1 DEF AsRead
  <2>8. ToSet(read) = {q} /\ Sequence(read)
    <3>1. ToSet(<<q>>) = {q} /\ <<q>> \in Seq({q})
      BY DEF ToSet
    <3> QED  BY <2>7, <3>1 DEF Sequence
  <2>9. Parts(read)
    BY <2>6, <2>8 DEF Parts
  <2>10. ~Broken(f, inner) => \A r \in ToSet(read) : ~r.broken
    BY <1>6, <1>7, <1>9, <1>11, <2>1, <2>2, <2>5, <2>8
  <2>11. ASSUME NEW r \in ToSet(read), NEW x \in ToSet(r.text) PROVE IsHeld(f, inner, x)
    BY <1>2, <2>1, <2>2, <2>6, <2>8 DEF IsHeld, HasItem
  <2>12. ASSUME NEW x, IsGiven(f, inner, x), ~x.hidden PROVE \E r \in ToSet(read) : x \in ToSet(r.text)
    <3>1. x \in ToSet(p.text)
      BY <1>2, <2>1, <2>2, <2>4, <2>12 DEF IsGiven, HasItem
    <3> QED  BY <2>6, <2>8, <2>12, <3>1
  <2> QED  BY <2>9, <2>10, <2>11, <2>12
<1>10. CASE f.format = "eml"
  <2>1. read = opened
    BY <1>12, <1>10 DEF AsRead
  <2>2. Sequence(read) /\ DOMAIN read = 1 .. n
    <3>1. read = [i \in DOMAIN f.parts |-> read[i]]
      BY <1>2, <1>13, <2>1
    <3> QED  BY <1>1, <1>2, <3>1, AsLong DEF IsFile
  <2>3. (\A q \in ToSet(read) : \E i \in 1 .. n : q = opened[i]) /\ \A i \in 1 .. n : opened[i] \in ToSet(read)
    BY <2>1, <2>2 DEF ToSet
  <2>4. Parts(read)
    BY <1>6, <2>2, <2>3 DEF Parts
  <2>5. ~Broken(f, inner) => \A q \in ToSet(read) : ~q.broken
    BY <1>7, <2>3
  <2>6. ASSUME NEW q \in ToSet(read), NEW x \in ToSet(q.text) PROVE IsHeld(f, inner, x)
    BY <1>2, <1>6, <2>3 DEF IsHeld
  <2>7. ASSUME NEW x, IsGiven(f, inner, x), ~x.hidden PROVE \E q \in ToSet(read) : x \in ToSet(q.text)
    BY <1>2, <1>5, <1>6, <2>3, <2>7 DEF IsGiven
  <2> QED  BY <2>4, <2>5, <2>6, <2>7
<1> QED  BY <1>8, <1>9, <1>10

\* What an inspection tells of a file, given what was seen of those attached to it.
LEMMA InspectionIs ==
  ASSUME NEW f \in Files, NEW inner, Known(f, inner), NEW o, o = Inspection(f, inner)
  PROVE  /\ Outcome(o)
         /\ \A x : IsTold(o, x) => IsHeld(f, inner, x)
         /\ Whole(o) => \A x : IsGiven(f, inner, x) /\ ~x.hidden => IsTold(o, x)
<1>1. f.format \in Formats
  BY FilesAssumption DEF IsDocumentFile
<1>2. PICK opened : opened = OpenedParts(f.parts, inner)
  OBVIOUS
<1>3. PICK found : found = Extracted(f, opened)
  OBVIOUS
<1>4. PICK all : all = IF f.format \in Handled /\ Broken(f, inner) THEN Append(found, Failed) ELSE found
  OBVIOUS
<1>5. (\E i \in DOMAIN opened : opened[i].broken) <=> Broken(f, inner)
  BY <1>2 DEF Broken, OpenedParts
<1>6. o.components = WithName(f, all) /\ (o.raised <=> f.format = "text" /\ Broken(f, inner))
  <2> DEFINE op == OpenedParts(f.parts, inner)
  <2>0. /\ o.components = WithName(f, IF f.format \in Handled /\ (\E i \in DOMAIN op : op[i].broken)
                                   THEN Append(Extracted(f, op), Failed) ELSE Extracted(f, op))
        /\ o.raised <=> f.format = "text" /\ \E i \in DOMAIN op : op[i].broken
    BY DEF Inspection
  <2> HIDE DEF op
  <2>1. op = opened
    BY <1>2 DEF op
  <2>2. all = IF f.format \in Handled /\ (\E i \in DOMAIN opened : opened[i].broken)
              THEN Append(found, Failed) ELSE found
    BY <1>4, <1>5
  <2>3. o.components = WithName(f, all)
    BY <1>3, <2>0, <2>1, <2>2
  <2>4. o.raised <=> f.format = "text" /\ \E i \in DOMAIN opened : opened[i].broken
    BY <2>0, <2>1
  <2> QED  BY <1>5, <2>3, <2>4
<1>7. ToSet(<< >>) = {} /\ Sequence(<< >>)
  BY EmptySeq DEF ToSet, Sequence
<1>8. CASE f.format \in {"binary", "large"}
  <2>1. PICK c : /\ c \in {Component("attachment", << >>, "unsupported", <<f.meta>>), Component("generic", << >>, "large", << >>)}
                 /\ found = <<c>>
    BY <1>3, <1>8 DEF Extracted
  <2>2. IsComponent(c) /\ c.text = << >> /\ c.note # "none"
    BY <1>7, <2>1 DEF IsComponent, Component
  <2>3. all = <<c>>
    BY <1>4, <1>8, <2>1 DEF Handled
  <2>4. ToSet(all) = {c} /\ Sequence(all)
    <3>1. ToSet(<<c>>) = {c} /\ <<c>> \in Seq({c})
      BY DEF ToSet
    <3> QED  BY <2>3, <3>1 DEF Sequence
  <2>5. /\ Sequence(o.components) /\ \A d \in ToSet(o.components) : IsComponent(d)
        /\ \A d \in ToSet(o.components) : \E e \in ToSet(all) : d.text = e.text /\ d.note = e.note
        /\ \A e \in ToSet(all) : \E d \in ToSet(o.components) : d.text = e.text /\ d.note = e.note
    BY <1>6, <2>2, <2>4, WithNameIs
  <2>6. \A x : ~IsTold(o, x)
    BY <1>7, <2>2, <2>4, <2>5 DEF IsTold
  <2>7. ~Whole(o)
    BY <2>2, <2>4, <2>5 DEF Whole
  <2> QED  BY <2>5, <2>6, <2>7 DEF Outcome
<1>9. CASE f.format \in {"paged", "text", "html", "eml"}
  <2>1. PICK read : read = AsRead(f, inner)
    OBVIOUS
  <2>2. /\ Parts(read)
        /\ ~Broken(f, inner) => \A q \in ToSet(read) : ~q.broken
        /\ \A q \in ToSet(read) : \A x \in ToSet(q.text) : IsHeld(f, inner, x)
        /\ \A x : IsGiven(f, inner, x) /\ ~x.hidden => \E q \in ToSet(read) : x \in ToSet(q.text)
    BY <1>9, <2>1, ReadAre
  <2>3. Reads(found, read)
    <3>1. CASE f.format \in {"paged", "text", "html"}
      <4>1. found = Pages(read)
        BY <1>3, <2>1, <3>1 DEF AsRead, HtmlPage, Extracted
      <4> QED  BY <2>2, <4>1, PagesRead
    <3>2. CASE f.format = "eml"
      <4>1. found = MailParts(read)
        BY <1>2, <1>3, <2>1, <3>2 DEF AsRead, Extracted
      <4> QED  BY <2>2, <4>1, MailRead
    <3> QED  BY <1>9, <3>1, <3>2
  <2>4. IsComponent(Failed) /\ Failed.text = << >> /\ Failed.note = "failed"
    BY <1>7 DEF IsComponent, Component, Failed
  <2>5. CASE f.format \in Handled /\ Broken(f, inner)
    <3>1. all = Append(found, Failed)
      BY <1>4, <2>5
    <3>2. Sequence(all) /\ \A c : c \in ToSet(all) <=> c \in ToSet(found) \/ c = Failed
      <4>1. PICK n \in Nat : n = Len(found) /\ DOMAIN found = 1 .. n
        BY <2>3, SequenceFacts DEF Reads
      <4>2. /\ Sequence(all) /\ DOMAIN all = DOMAIN found \cup {n + 1} /\ \A k \in DOMAIN found : all[k] = found[k]
            /\ all[n + 1] = Failed
        BY <2>3, <3>1, <4>1, SequenceAppend DEF Reads
      <4> QED  BY <4>2 DEF ToSet
    <3>3. \A c \in ToSet(all) : IsComponent(c)
      BY <2>3, <2>4, <3>2 DEF Reads
    <3>4. /\ Sequence(o.components) /\ \A d \in ToSet(o.components) : IsComponent(d)
          /\ \A d \in ToSet(o.components) : \E e \in ToSet(all) : d.text = e.text /\ d.note = e.note
          /\ \A e \in ToSet(all) : \E d \in ToSet(o.components) : d.text = e.text /\ d.note = e.note
      BY <1>6, <3>2, <3>3, WithNameIs
    <3>5. ~Whole(o)
      BY <2>4, <3>2, <3>4 DEF Whole
    <3>6. ASSUME NEW x, IsTold(o, x) PROVE IsHeld(f, inner, x)
      <4>1. PICK e \in ToSet(all) : x \in ToSet(e.text)
        BY <3>4, <3>6 DEF IsTold
      <4>2. e \in ToSet(found)
        BY <1>7, <2>4, <3>2, <4>1
      <4> QED  BY <2>2, <2>3, <4>1, <4>2 DEF Reads
    <3> QED  BY <3>4, <3>5, <3>6 DEF Outcome
  <2>6. CASE ~(f.format \in Handled /\ Broken(f, inner))
    <3>1. all = found
      BY <1>4, <2>6
    <3>2. Sequence(all) /\ \A c \in ToSet(all) : IsComponent(c)
      BY <2>3, <3>1 DEF Reads
    <3>4. /\ Sequence(o.components) /\ \A d \in ToSet(o.components) : IsComponent(d)
          /\ \A d \in ToSet(o.components) : \E e \in ToSet(all) : d.text = e.text /\ d.note = e.note
          /\ \A e \in ToSet(all) : \E d \in ToSet(o.components) : d.text = e.text /\ d.note = e.note
      BY <1>6, <3>2, WithNameIs
    <3>5. ASSUME NEW x, IsTold(o, x) PROVE IsHeld(f, inner, x)
      <4>1. PICK e \in ToSet(found) : x \in ToSet(e.text)
        BY <3>1, <3>4, <3>5 DEF IsTold
      <4> QED  BY <2>2, <2>3, <4>1 DEF Reads
    <3>6. ASSUME Whole(o), NEW x, IsGiven(f, inner, x), ~x.hidden PROVE IsTold(o, x)
      <4>1. ~Broken(f, inner)
        BY <1>6, <1>9, <2>6, <3>6 DEF Whole, Handled
      <4>2. PICK q \in ToSet(read) : x \in ToSet(q.text)
        BY <2>2, <3>6
      <4>3. \A c \in ToSet(found) : c.note = "none"
        BY <3>1, <3>4, <3>6 DEF Whole
      <4>4. PICK e \in ToSet(found) : x \in ToSet(e.text)
        BY <2>2, <2>3, <4>1, <4>2, <4>3 DEF Reads
      <4> QED  BY <3>1, <3>4, <4>4 DEF IsTold
    <3> QED  BY <3>4, <3>5, <3>6 DEF Outcome
  <2> QED  BY <2>5, <2>6
<1> QED  BY <1>1, <1>8, <1>9 DEF Formats, Handled

\* What a file has of its own, with and without what is passed over, and its parts that
\* are files.
Own(f) == UNION {ToSet(p.text) : p \in ToSet(f.parts)}
OwnRead(f) == UNION {ToSet(f.parts[i].text) : i \in DOMAIN f.parts \ PassedOver(f.parts)}
Enclosed(f) == {p \in ToSet(f.parts) : p.kind \in {"bytes", "message"}}

\* The items of a file are its own and those of the files in it; and what is missing below
\* a file is missing in it.
LEMMA ItemsAre ==
  ASSUME NEW f \in Files
  PROVE  /\ \A x : x \in Items(f) <=> x \in Own(f) \/ \E p \in Enclosed(f) : x \in Items(p.inner)
         /\ \A x : x \in ReadItems(f) <=> x \in OwnRead(f) \/ \E p \in Enclosed(f) : x \in ReadItems(p.inner)
         /\ \A p \in Enclosed(f) : Incomplete(p.inner) => Incomplete(f)
         /\ ~Incomplete(f) => Whole(Inspect[f]) /\ \A p \in Enclosed(f) : p.kind = "bytes"
<1>1. PICK below : below = {Inside[p.inner] : p \in Enclosed(f)}
  OBVIOUS
<1>2. Inside[f] = {f} \cup UNION below
  BY <1>1, InsideIs DEF InsideOf, Enclosed
<1>3. \A g : g \in Inside[f] <=> g = f \/ \E p \in Enclosed(f) : g \in Inside[p.inner]
  BY <1>1, <1>2
<1>4. \A e, x : x \in Items(e) <=> \E g \in Inside[e] : x \in Own(g)
  BY DEF Items, Own
<1>5. ASSUME NEW x PROVE x \in Items(f) <=> x \in Own(f) \/ \E p \in Enclosed(f) : x \in Items(p.inner)
  BY <1>3, <1>4
<1>8. \A e, x : x \in ReadItems(e) <=> \E g \in Inside[e] : x \in OwnRead(g)
  BY DEF ReadItems, OwnRead
<1>9. ASSUME NEW x PROVE x \in ReadItems(f) <=> x \in OwnRead(f) \/ \E p \in Enclosed(f) : x \in ReadItems(p.inner)
  BY <1>3, <1>8
<1>6. ASSUME NEW p \in Enclosed(f), Incomplete(p.inner) PROVE Incomplete(f)
  BY <1>3, <1>6 DEF Incomplete
<1>7. ASSUME ~Incomplete(f) PROVE Whole(Inspect[f]) /\ \A p \in Enclosed(f) : p.kind = "bytes"
  <2>1. f \in Inside[f]
    BY <1>3
  <2>2. /\ ~Inspect[f].raised
        /\ ~\E c \in ToSet(Inspect[f].components) : c.note # "none"
        /\ ~\E p \in ToSet(f.parts) : p.kind = "message"
    BY <1>7, <2>1 DEF Incomplete
  <2> QED  BY <2>2 DEF Whole, Enclosed
<1> QED  BY <1>5, <1>6, <1>7, <1>9

\* What the inspector makes of a file: components of what is in it, and of all that is
\* neither hidden nor passed over, unless something is missing.
Reported(f) ==
  /\ Outcome(Inspect[f])
  /\ \A x : IsTold(Inspect[f], x) => x \in Items(f)
  /\ ~Incomplete(f) => \A x \in ReadItems(f) : ~x.hidden => IsTold(Inspect[f], x)

\* It is so of a file if it is of those in it.
LEMMA ReportedFrom ==
  ASSUME NEW f \in Files, \A p \in Enclosed(f) : Reported(p.inner)
  PROVE  Reported(f)
<1>1. PICK inner : inner = [i \in DOMAIN f.parts |->
                              IF f.parts[i].kind = "bytes" THEN Inspect[f.parts[i].inner] ELSE Nothing]
  OBVIOUS
<1>2. PICK o : o = Inspect[f]
  OBVIOUS
<1>3. o = Inspection(f, inner)
  BY <1>1, <1>2, InspectIs DEF InspectOf
<1>4. ToSet(<< >>) = {} /\ Sequence(<< >>)
  BY EmptySeq DEF ToSet, Sequence
<1>5. Nothing.components = << >>
  BY DEF Nothing
<1>6. \A i \in DOMAIN f.parts : f.parts[i] \in ToSet(f.parts)
  BY DEF ToSet
<1>7. ASSUME NEW i \in DOMAIN f.parts, f.parts[i].kind = "bytes"
      PROVE  f.parts[i] \in Enclosed(f) /\ inner[i] = Inspect[f.parts[i].inner]
  BY <1>1, <1>6, <1>7 DEF Enclosed
<1>8. ASSUME NEW i \in DOMAIN f.parts PROVE Outcome(inner[i])
  <2>1. CASE f.parts[i].kind = "bytes"
    BY <1>7, <2>1 DEF Reported
  <2>2. CASE f.parts[i].kind # "bytes"
    <3>1. inner[i] = Nothing
      BY <1>1, <2>2
    <3>2. Outcome(Nothing)
      BY <1>4, <1>5 DEF Outcome
    <3> QED  BY <3>1, <3>2
  <2> QED  BY <2>1, <2>2
<1>9. /\ Outcome(o)
      /\ \A x : IsTold(o, x) => IsHeld(f, inner, x)
      /\ Whole(o) => \A x : IsGiven(f, inner, x) /\ ~x.hidden => IsTold(o, x)
  BY <1>3, <1>8, InspectionIs DEF Known
<1>10. ASSUME NEW x, IsHeld(f, inner, x) PROVE x \in Items(f)
  <2>1. PICK i \in DOMAIN f.parts : HasItem(f.parts[i], inner[i], x)
    BY <1>10 DEF IsHeld
  <2>2. CASE x \in ToSet(f.parts[i].text)
    <3>1. x \in Own(f)
      BY <1>6, <2>2 DEF Own
    <3> QED  BY <3>1, ItemsAre
  <2>3. CASE x \notin ToSet(f.parts[i].text)
    <3>1. f.parts[i].kind = "bytes" /\ IsTold(inner[i], x)
      BY <2>1, <2>3 DEF HasItem, IsTold
    <3>2. PICK p \in Enclosed(f) : p = f.parts[i] /\ IsTold(Inspect[p.inner], x)
      BY <1>7, <3>1
    <3>3. x \in Items(p.inner)
      BY <3>2 DEF Reported
    <3> QED  BY <3>3, ItemsAre
  <2> QED  BY <2>2, <2>3
<1>11. ASSUME ~Incomplete(f), NEW x \in ReadItems(f), ~x.hidden PROVE IsGiven(f, inner, x)
  <2>1. CASE x \in OwnRead(f)
    <3>1. PICK i \in DOMAIN f.parts \ PassedOver(f.parts) : x \in ToSet(f.parts[i].text)
      BY <2>1 DEF OwnRead
    <3> QED  BY <3>1 DEF IsGiven, HasItem
  <2>2. CASE x \notin OwnRead(f)
    <3>1. PICK p \in Enclosed(f) : x \in ReadItems(p.inner)
      BY <2>2, ItemsAre
    <3>2. p.kind = "bytes" /\ ~Incomplete(p.inner)
      BY <1>11, ItemsAre
    <3>3. IsTold(Inspect[p.inner], x)
      BY <1>11, <3>1, <3>2 DEF Reported
    <3>4. PICK i \in DOMAIN f.parts : p = f.parts[i]
      BY DEF Enclosed, ToSet
    <3>5. HasItem(p, inner[i], x)
      BY <1>7, <3>2, <3>3, <3>4 DEF HasItem, IsTold
    <3>6. i \notin PassedOver(f.parts)
      BY <3>2, <3>4 DEF PassedOver, Bodies
    <3> QED  BY <3>4, <3>5, <3>6 DEF IsGiven
  <2> QED  BY <2>1, <2>2
<1>12. ASSUME ~Incomplete(f), NEW x \in ReadItems(f), ~x.hidden PROVE IsTold(o, x)
  <2>1. Whole(o)
    BY <1>2, <1>12, ItemsAre
  <2> QED  BY <1>9, <1>11, <1>12, <2>1
<1> QED  BY <1>2, <1>9, <1>10, <1>12 DEF Reported

\* So it is of every file: by induction on how deep files are attached in it.
LEMMA ReportedAll ==
  ASSUME NEW f \in Files
  PROVE  Reported(f)
<1> DEFINE Bad == {k \in Nat : \E e \in Files : Nesting[e] = k /\ ~Reported(e)}
<1>1. ASSUME Bad # {} PROVE FALSE
  <2>1. PICK k \in Bad : \A y \in Bad : k <= y
    <3>1. Bad \subseteq Nat
      OBVIOUS
    <3> HIDE DEF Bad
    <3> QED  BY <1>1, <3>1, LeastOf
  <2>2. PICK e \in Files : Nesting[e] = k /\ ~Reported(e)
    BY <2>1
  <2>3. ASSUME NEW p \in Enclosed(e) PROVE Reported(p.inner)
    <3>1. p \in ToSet(e.parts) /\ p.kind \in Attached
      BY DEF Enclosed, Attached
    <3>2. PICK l \in Nat : l = Nesting[p.inner] /\ p.inner \in Files /\ l < k
      BY <2>2, <3>1, AttachedIs
    <3>3. l \notin Bad
      BY <2>1, <3>2
    <3> QED  BY <3>2, <3>3
  <2> QED  BY <2>2, <2>3, ReportedFrom
<1>2. Nesting[f] \in Nat
  BY FilesAssumption
<1> QED  BY <1>1, <1>2

\* What is read of the bytes of a file is in it.
LEMMA RawItems ==
  ASSUME NEW f \in Files
  PROVE  Sequence(Raw(f)) /\ ToSet(Raw(f)) \subseteq Items(f)
<1>1. IsFile(f)
  BY FilesAssumption
<1>2. Sequence(Raw(f))
  BY <1>1, RawIs DEF IsText
<1>3. CASE f.format \in {"text", "html"}
  <2>1. PICK n \in Nat : DOMAIN f.parts = 1 .. n /\ \A i \in 1 .. n : f.parts[i] \in ToSet(f.parts)
    BY <1>1, SequenceFacts DEF IsFile
  <2>2. PICK seqs : seqs = [i \in 1 .. n |-> f.parts[i].text]
    OBVIOUS
  <2>3. PICK S : S = Own(f)
    OBVIOUS
  <2>4. \A i \in 1 .. n : seqs[i] \in Seq(S) /\ ToSet(seqs[i]) \subseteq S
    <3>1. ASSUME NEW i \in 1 .. n PROVE seqs[i] \in Seq(S) /\ ToSet(seqs[i]) \subseteq S
      <4>1. PICK t : t = f.parts[i].text /\ t = seqs[i]
        BY <2>2
      <4>2. ToSet(t) \subseteq S
        BY <2>1, <2>3, <4>1 DEF Own
      <4>3. t \in Seq(ToSet(t))
        BY <1>1, <2>1, <4>1 DEF IsFile, IsText, Sequence
      <4> QED  BY <4>1, <4>2, <4>3, SeqMonotonic
    <3> QED  BY <3>1
  <2>5. seqs \in [1 .. n -> Seq(S)]
    BY <2>2, <2>4
  <2>6. Raw(f) = FlattenSeq(seqs)
    BY <1>3, <2>1, <2>2 DEF Raw
  <2>7. \A x : x \in ToSet(FlattenSeq(seqs)) <=> \E k \in 1 .. n : x \in ToSet(seqs[k])
    BY <2>5, FlattenMembers
  <2>8. ToSet(Raw(f)) \subseteq S
    BY <2>4, <2>6, <2>7
  <2> QED  BY <1>2, <2>3, <2>8, ItemsAre
<1>4. CASE f.format \notin {"text", "html"}
  <2>1. Raw(f) = << >>
    BY <1>4 DEF Raw
  <2>2. ToSet(<< >>) = {}
    BY DEF ToSet
  <2> QED  BY <1>2, <2>1, <2>2
<1> QED  BY <1>3, <1>4

-----------------------------------------------------------------------------
(* What the verdicts say of files.                                         *)

\* The engine of one analyzer of identifiers counts something exactly if there is something
\* that it accepts.
LEMMA CountedIs ==
  ASSUME NEW engine, Identifying(engine[1]), NEW message, Sequence(message),
         \A c \in ToSet(message) : Sequence(c.text), NEW n, n = MatchCount(Single(engine, message))
  PROVE  n \in Nat /\ (n > 0 <=> \E c \in ToSet(message) : \E x \in ToSet(c.text) : Accepted(x, engine))
<1>1. PICK a, M : a = engine[1] /\ M = Matched(a, message)
  OBVIOUS
<1>2. \A k \in DOMAIN message : message[k] \in ToSet(message)
  BY DEF ToSet
<1>3. ASSUME NEW k \in DOMAIN message PROVE IsFiniteSet(DOMAIN message[k].text)
  <2>1. PICK t : t = message[k].text
    OBVIOUS
  <2>2. PICK l \in Nat : DOMAIN t = 1 .. l
    BY <1>2, <2>1, SequenceFacts
  <2>3. IsFiniteSet(1 .. l)
    BY FS_Interval
  <2> QED  BY <2>1, <2>2, <2>3
<1>4. IsFiniteSet(M)
  BY <1>1, <1>3, MatchesFinite
<1>5. n = Cardinality(M) /\ n \in Nat
  BY <1>1, <1>4, SingleCount, FS_CardinalityType
<1>6. n = 0 <=> M = {}
  BY <1>4, <1>5, FS_EmptySet
<1>7. ASSUME NEW c \in DOMAIN message, NEW j \in DOMAIN message[c].text
      PROVE  Hit(a, message, c, j) <=> Accepted(message[c].text[j], engine)
  <2>1. PICK t : t = message[c].text
    OBVIOUS
  <2>2. ~Valid(Opaque)
    BY DEF Valid, Opaque
  <2>3. Seen(t)[j] = IF t[j].code = << >> THEN t[j].value ELSE Opaque
    BY <2>1 DEF Seen
  <2>4. CASE t[j].code = << >>
    <3>1. Seen(t)[j] = t[j].value
      BY <2>3, <2>4
    <3> QED  BY <1>1, <2>1, <2>4, <3>1 DEF Hit, Accepted
  <2>5. CASE t[j].code # << >>
    <3>1. Seen(t)[j] = Opaque
      BY <2>3, <2>5
    <3> QED  BY <2>1, <2>2, <2>5, <3>1 DEF Hit, Accepted
  <2> QED  BY <2>4, <2>5
<1>8. ASSUME NEW m \in M PROVE \E c \in ToSet(message) : \E x \in ToSet(c.text) : Accepted(x, engine)
  <2>1. PICK c \in DOMAIN message : \E j \in DOMAIN message[c].text : Hit(a, message, c, j)
    BY <1>1, MatchesAre
  <2>2. PICK j \in DOMAIN message[c].text : Hit(a, message, c, j)
    BY <2>1
  <2>3. message[c].text[j] \in ToSet(message[c].text)
    BY DEF ToSet
  <2> QED  BY <1>2, <1>7, <2>2, <2>3
<1>9. ASSUME NEW c \in ToSet(message), NEW x \in ToSet(c.text), Accepted(x, engine) PROVE M # {}
  <2>1. PICK k \in DOMAIN message : c = message[k]
    BY DEF ToSet
  <2>2. PICK j \in DOMAIN message[k].text : x = message[k].text[j]
    BY <2>1 DEF ToSet
  <2>3. Hit(a, message, k, j)
    BY <1>7, <1>9, <2>2
  <2>4. PICK m : m = Match(message, k, j)
    OBVIOUS
  <2>5. m \in M
    BY <1>1, <2>3, <2>4, MatchesAre
  <2> QED  BY <2>5
<1> QED  BY <1>5, <1>6, <1>8, <1>9

\* What is detected in what the inspector makes of a file, or in its bytes if that raises.
Examined(f, message) ==
  \/ message = Inspect[f].components
  \/ Inspect[f].raised /\ message = <<Carried("body", Raw(f))>>
\* A count of something means that the file has it; a count of none, that it has nothing
\* that is neither hidden nor passed over, unless something is missing.
LEMMA CountFollows ==
  ASSUME NEW f \in Files, NEW engine, Identifying(engine[1]), NEW message, Examined(f, message),
         NEW n, n = MatchCount(Single(engine, message))
  PROVE  /\ n \in Nat
         /\ n > 0 => \E x \in Items(f) : Accepted(x, engine)
         /\ n = 0 /\ ~Incomplete(f) => \A x \in ReadItems(f) : Accepted(x, engine) => x.hidden
<1>1. Reported(f)
  BY ReportedAll
<1>2. /\ Sequence(message) /\ \A c \in ToSet(message) : Sequence(c.text)
      /\ \A c \in ToSet(message) : ToSet(c.text) \subseteq Items(f)
  <2>1. CASE message = Inspect[f].components
    BY <1>1, <2>1 DEF Reported, Outcome, IsComponent, IsTold
  <2>2. CASE message = <<Carried("body", Raw(f))>>
    <3>1. PICK c : c = Carried("body", Raw(f))
      OBVIOUS
    <3>2. ToSet(<<c>>) = {c} /\ <<c>> \in Seq({c})
      BY DEF ToSet
    <3>3. c.text = Raw(f)
      BY <3>1 DEF Carried, Component
    <3> QED  BY <2>2, <3>1, <3>2, <3>3, RawItems DEF Sequence
  <2> QED  BY <2>1, <2>2 DEF Examined
<1>3. n \in Nat /\ (n > 0 <=> \E c \in ToSet(message) : \E x \in ToSet(c.text) : Accepted(x, engine))
  BY <1>2, CountedIs
<1>4. ASSUME n = 0, ~Incomplete(f), NEW x \in ReadItems(f), Accepted(x, engine), ~x.hidden PROVE FALSE
  <2>1. IsTold(Inspect[f], x)
    BY <1>1, <1>4 DEF Reported
  <2>2. message = Inspect[f].components
    BY <1>4, ItemsAre DEF Examined, Whole
  <2>3. \E c \in ToSet(message) : x \in ToSet(c.text)
    BY <2>1, <2>2 DEF IsTold
  <2> QED  BY <1>3, <1>4, <2>3
<1> QED  BY <1>2, <1>3, <1>4

\* The verdict on one file.
LEMMA Follows ==
  ASSUME Jobs, Results, NEW i \in Requests, state[i] = "done", result[i] # NoResult,
         requests[i].via \in {"grpc", "api"}, requests[i].file # << >>, NEW f, f = requests[i].file[1],
         NEW engine, engine = IF requests[i].via = "grpc" THEN ServerEngine ELSE ApiEngine
  PROVE  /\ answer[i] \in {"block", "matches"} => \E x \in Items(f) : Accepted(x, engine)
         /\ answer[i] \in {"allow", "clean", "nothing"} /\ ~Incomplete(f) =>
              \A x \in ReadItems(f) : Accepted(x, engine) => x.hidden
<1>1. PICK r, a, res : r = requests[i] /\ a = answer[i] /\ res = result[i]
  OBVIOUS
<1>2. IsRequest(r)
  BY <1>1, ScenariosAssumption DEF Jobs, Requests
<1>3. f \in Files
  BY <1>1, <1>2 DEF IsRequest
<1>4. Right(r, state[i], res, a)
  BY <1>1 DEF Results
<1>5. Identifying(engine[1])
  BY DEF Identifying, ServerEngine, ApiEngine, Analyzer
<1>6. CASE r.via = "grpc"
  <2>1. PICK message : message = Submitted(r)
    OBVIOUS
  <2>2. Examined(f, message)
    <3>1. CASE Inspect[f].raised
      BY <1>1, <2>1, <3>1 DEF Submitted, Examined
    <3>2. CASE ~Inspect[f].raised
      BY <1>1, <2>1, <3>2 DEF Submitted, Examined
    <3> QED  BY <3>1, <3>2
  <2>3. res = Single(engine, message) /\ a = Verdict(res)
    BY <1>1, <1>4, <1>6, <2>1 DEF Right
  <2>4. PICK n : n = MatchCount(Single(engine, message))
    OBVIOUS
  <2>5. /\ n \in Nat
        /\ n > 0 => \E x \in Items(f) : Accepted(x, engine)
        /\ n = 0 /\ ~Incomplete(f) => \A x \in ReadItems(f) : Accepted(x, engine) => x.hidden
    BY <1>3, <1>5, <2>2, <2>4, CountFollows
  <2>6. a = IF n > 0 THEN "block" ELSE "allow"
    BY <2>3, <2>4 DEF Verdict
  <2> QED  BY <1>1, <2>5, <2>6
<1>7. CASE r.via = "api"
  <2>1. PICK message : message = Inspect[f].components
    OBVIOUS
  <2>2. Examined(f, message)
    BY <2>1 DEF Examined
  <2>3. res = Single(engine, message) /\ a = IF message = << >> THEN "nothing" ELSE Report(res)
    BY <1>1, <1>4, <1>7, <2>1 DEF Right
  <2>4. PICK n : n = MatchCount(Single(engine, message))
    OBVIOUS
  <2>5. /\ n \in Nat
        /\ n > 0 => \E x \in Items(f) : Accepted(x, engine)
        /\ n = 0 /\ ~Incomplete(f) => \A x \in ReadItems(f) : Accepted(x, engine) => x.hidden
    BY <1>3, <1>5, <2>2, <2>4, CountFollows
  <2>6. a = IF message = << >> THEN "nothing" ELSE IF n > 0 THEN "matches" ELSE "clean"
    BY <2>3, <2>4 DEF Report
  <2>7. message = << >> => n = 0
    <3>1. ToSet(<< >>) = {} /\ Sequence(<< >>)
      BY EmptySeq DEF ToSet, Sequence
    <3>2. message = << >> => (n \in Nat /\ (n > 0 <=> \E c \in ToSet(message) : \E x \in ToSet(c.text) : Accepted(x, engine)))
      BY <1>5, <2>4, <3>1, CountedIs
    <3> QED  BY <3>1, <3>2
  <2> QED  BY <1>1, <2>5, <2>6, <2>7
<1> QED  BY <1>1, <1>6, <1>7

(***************************************************************************)
(* The verdict on a file follows its content (VerdictFollowsContent), for  *)
(* all files, however deep attached and however long their texts: what the *)
(* gRPC server or the API reports is in the file, and what they report as  *)
(* clean has nothing that their identifiers accept, but for scripts,       *)
(* encodings, the bodies of a mail besides the one that get_body takes,    *)
(* and what the inspector says, or does not say, it left out               *)
(* (FileInspector.inspect, DetectContent, detect_file).                    *)
(***************************************************************************)
THEOREM VerdictsFollow == Spec => []VerdictFollowsContent
<1> DEFINE Inv == GatewayInv /\ Results /\ Threads
<1>1. Init => Inv
  BY GatewayInitial, ThreadsInitial
<1>2. Inv /\ [Next]_vars => Inv'
  BY GatewayStep, ResultsStep, ThreadsStep DEF GatewayInv
<1>3. Inv => VerdictFollowsContent
  <2> SUFFICES ASSUME Inv, NEW i \in Requests, state[i] = "done", result[i] # NoResult,
                      requests[i].via \in {"grpc", "api"}, requests[i].file # << >>
               PROVE  LET f == requests[i].file[1]
                          engine == IF requests[i].via = "grpc" THEN ServerEngine ELSE ApiEngine
                      IN /\ answer[i] \in {"block", "matches"} => \E x \in Items(f) : Accepted(x, engine)
                         /\ answer[i] \in {"allow", "clean", "nothing"} /\ ~Incomplete(f) =>
                              \A x \in ReadItems(f) : Accepted(x, engine) => x.hidden
    BY DEF VerdictFollowsContent
  <2>1. Jobs /\ Results
    BY DEF GatewayInv
  <2>2. PICK f, engine : f = requests[i].file[1] /\ engine = IF requests[i].via = "grpc" THEN ServerEngine ELSE ApiEngine
    OBVIOUS
  <2>3. /\ answer[i] \in {"block", "matches"} => \E x \in Items(f) : Accepted(x, engine)
        /\ answer[i] \in {"allow", "clean", "nothing"} /\ ~Incomplete(f) =>
             \A x \in ReadItems(f) : Accepted(x, engine) => x.hidden
    BY <2>1, <2>2, Follows
  <2> QED  BY <2>2, <2>3
<1> QED  BY <1>1, <1>2, <1>3, PTL DEF Spec
=============================================================================
