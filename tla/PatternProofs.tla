------------------------------ MODULE PatternProofs ------------------------------
(***************************************************************************)
(* For every pattern that the validator accepts, however long, and every   *)
(* domain the matcher does what the pattern means.                         *)
(***************************************************************************)
EXTENDS Patterns, FiniteSetTheorems, SequenceTheorems, TLAPS

-----------------------------------------------------------------------------
(* Induction.  The theorems of the library take a predicate; these take the set *)
(* of the numbers for which it holds.                                           *)

LEMMA LeastNatural ==
  ASSUME NEW T, T \subseteq Nat, T # {}
  PROVE  \E m \in T : \A n \in T : m <= n
<1>1. PICK R : IsWellFoundedOn(R, Nat) /\ \A m, n \in Nat : n < m => <<n, m>> \in R
  <2>1. \A m, n \in Nat : n < m => <<n, m>> \in OpToRel(<, Nat)
    BY DEF OpToRel
  <2> QED BY <2>1, NatLessThanWellFounded
<1>2. PICK m \in T : \A n \in T : <<n, m>> \notin R
  BY <1>1, WFMin
<1>3. ASSUME NEW n \in T PROVE m <= n
  <2>1. m \in Nat /\ n \in Nat
    OBVIOUS
  <2>2. ~(n < m)
    BY <1>1, <1>2, <2>1
  <2> QED BY <2>1, <2>2
<1> QED BY <1>3

LEMMA Induction ==
  ASSUME NEW n \in Nat, NEW T,
         0 \in T, \A i \in 1 .. n : i - 1 \in T => i \in T
  PROVE  0 .. n \subseteq T
<1> DEFINE Missing == 0 .. n \ T
<1> SUFFICES ASSUME Missing # {} PROVE FALSE
  OBVIOUS
<1>1. PICK m \in Missing : \A i \in Missing : m <= i
  <2>1. Missing \subseteq Nat
    OBVIOUS
  <2> HIDE DEF Missing
  <2> QED BY <2>1, LeastNatural
<1>2. m \in 1 .. n
  OBVIOUS
<1>3. m - 1 \in T
  BY <1>1, <1>2
<1> QED BY <1>2, <1>3

-----------------------------------------------------------------------------
(* The reference is well defined: the equation that Matched is defined by has one *)
(* solution.                                                                      *)

Solves(M, p, domain) ==
  M = [i \in 0 .. Len(p) |-> IF i = 0 THEN {0} ELSE Extend(p, domain, i, M[i - 1])]

LEMMA SolutionsAgree ==
  ASSUME NEW p, Len(p) \in Nat, NEW domain, NEW M, Solves(M, p, domain),
         NEW W, Solves(W, p, domain)
  PROVE  M = W
<1> DEFINE T == {i \in 0 .. Len(p) : M[i] = W[i]}
<1>1. \A i \in 0 .. Len(p) :
        /\ M[i] = IF i = 0 THEN {0} ELSE Extend(p, domain, i, M[i - 1])
        /\ W[i] = IF i = 0 THEN {0} ELSE Extend(p, domain, i, W[i - 1])
  BY DEF Solves
<1>2. 0 \in T
  BY <1>1
<1>3. ASSUME NEW i \in 1 .. Len(p), i - 1 \in T PROVE i \in T
  BY <1>1, <1>3
<1>4. 0 .. Len(p) \subseteq T
  <2> HIDE DEF T
  <2> QED BY <1>2, <1>3, Induction
<1>5. \A i \in 0 .. Len(p) : M[i] = W[i]
  BY <1>4
<1> QED BY <1>5 DEF Solves

LEMMA MatchedIsSolution ==
  ASSUME NEW p, Len(p) \in Nat, NEW domain, NEW W, Solves(W, p, domain)
  PROVE  Matched(p, domain) = W
<1>1. Matched(p, domain) = CHOOSE M : Solves(M, p, domain)
  BY DEF Matched, Solves
<1>2. Solves(CHOOSE M : Solves(M, p, domain), p, domain)
  OBVIOUS
<1> QED BY <1>1, <1>2, SolutionsAgree

-----------------------------------------------------------------------------
(* Beginnings and ends, letter by letter. *)

LEMMA LongerThanOne ==
  ASSUME NEW s, NEW x, Len(s) >= 2
  PROVE  s # <<x>>
OBVIOUS

LEMMA PrefixMeans ==
  ASSUME NEW s \in Seq(Letters), NEW t \in Seq(Letters), Len(s) <= Len(t)
  PROVE  IsPrefix(s, t) <=> \A i \in 1 .. Len(s) : s[i] = t[i]
<1>1. SubSeq(s, 1, Len(s)) = s
  BY SubSeqFull
<1>2. SubSeq(t, 1, Len(s)) = [i \in 1 .. Len(s) |-> t[i]]
  <2>1. /\ SubSeq(t, 1, Len(s)) \in Seq(Letters)
        /\ Len(SubSeq(t, 1, Len(s))) = Len(s)
        /\ \A i \in 1 .. Len(s) : SubSeq(t, 1, Len(s))[i] = t[i]
    BY SubSeqProperties
  <2> QED BY <2>1
<1>3. s = [i \in 1 .. Len(s) |-> s[i]]
  OBVIOUS
<1>4. IsPrefix(s, t) <=> s = [i \in 1 .. Len(s) |-> t[i]]
  BY <1>1, <1>2 DEF IsPrefix
<1> QED BY <1>3, <1>4

LEMMA SuffixMeans ==
  ASSUME NEW s \in Seq(Letters), NEW t \in Seq(Letters), Len(s) <= Len(t)
  PROVE  IsSuffix(s, t) <=> \A i \in 1 .. Len(s) : s[i] = t[Len(t) - Len(s) + i]
<1>1. /\ Reverse(s) \in Seq(Letters) /\ Len(Reverse(s)) = Len(s)
      /\ Reverse(t) \in Seq(Letters) /\ Len(Reverse(t)) = Len(t)
  BY DEF Reverse
<1>2. IsSuffix(s, t) <=> \A i \in 1 .. Len(s) : Reverse(s)[i] = Reverse(t)[i]
  BY <1>1, PrefixMeans DEF IsSuffix
<1>3. \A i \in 1 .. Len(s) :
        Reverse(s)[i] = s[Len(s) - i + 1] /\ Reverse(t)[i] = t[Len(t) - i + 1]
  BY DEF Reverse
<1>4. IsSuffix(s, t) <=> \A i \in 1 .. Len(s) : s[Len(s) - i + 1] = t[Len(t) - i + 1]
  BY <1>2, <1>3
<1>5. ASSUME IsSuffix(s, t), NEW i \in 1 .. Len(s) PROVE s[i] = t[Len(t) - Len(s) + i]
  <2>1. Len(s) - i + 1 \in 1 .. Len(s)
    OBVIOUS
  <2>2. s[Len(s) - (Len(s) - i + 1) + 1] = t[Len(t) - (Len(s) - i + 1) + 1]
    BY <1>4, <1>5, <2>1
  <2> QED BY <2>2
<1>6. ASSUME \A i \in 1 .. Len(s) : s[i] = t[Len(t) - Len(s) + i],
             NEW i \in 1 .. Len(s)
      PROVE  s[Len(s) - i + 1] = t[Len(t) - i + 1]
  <2>1. Len(s) - i + 1 \in 1 .. Len(s)
    OBVIOUS
  <2>2. s[Len(s) - i + 1] = t[Len(t) - Len(s) + (Len(s) - i + 1)]
    BY <1>6, <2>1
  <2> QED BY <2>2
<1> QED BY <1>4, <1>5, <1>6

-----------------------------------------------------------------------------
(* What the reference says of a pattern with one star, first or last. *)

LEMMA StarFirst ==
  ASSUME NEW p \in Seq(Letters), NEW domain \in Seq(Letters),
         Len(p) >= 2, p[1] = Star, \A m \in 2 .. Len(p) : p[m] # Star
  PROVE  GlobMatches(p, domain) <=>
           /\ Len(domain) >= Len(p)
           /\ \A m \in 2 .. Len(p) : p[m] = domain[Len(domain) - Len(p) + m]
<1> DEFINE n == Len(p)
           l == Len(domain)
           Ends(i, j) == \A m \in 2 .. i : p[m] = domain[j - i + m]
           After(i) == {j \in i .. l : Ends(i, j)}
           W == [i \in 0 .. n |-> IF i = 0 THEN {0} ELSE After(i)]
<1>1. n \in Nat /\ l \in Nat
  OBVIOUS
<1>2. W[0] = {0} /\ \A i \in 1 .. n : W[i] = After(i)
  <2> HIDE DEF After
  <2> QED BY <1>1
<1>3. ASSUME NEW i \in 1 .. n PROVE W[i] = Extend(p, domain, i, W[i - 1])
  <2>1. CASE i = 1
    <3>1. W[i - 1] = {0}
      BY <1>2, <2>1
    <3>2. Extend(p, domain, i, W[i - 1]) = {j \in 1 .. l : \E k \in {0} : k < j}
      BY <2>1, <3>1 DEF Extend
    <3>3. After(i) = 1 .. l
      BY <1>1, <2>1
    <3>4. {j \in 1 .. l : \E k \in {0} : k < j} = 1 .. l
      BY <1>1
    <3>5. W[i] = After(i)
      BY <1>2
    <3> HIDE DEF W, After
    <3> QED BY <3>2, <3>3, <3>4, <3>5
  <2>2. CASE i # 1
    <3>1. W[i - 1] = After(i - 1)
      <4>1. i - 1 \in 1 .. n
        BY <1>1, <2>2
      <4> HIDE DEF W, After
      <4> QED BY <1>2, <4>1
    <3>2. Extend(p, domain, i, W[i - 1]) = {j \in 1 .. l : j - 1 \in W[i - 1] /\ p[i] = domain[j]}
      <4>1. p[i] # Star
        BY <1>1, <2>2
      <4> HIDE DEF W
      <4> QED BY <4>1 DEF Extend
    <3>3. ASSUME NEW j \in i .. l
          PROVE  Ends(i, j) <=> Ends(i - 1, j - 1) /\ p[i] = domain[j]
      <4>1. \A m \in 2 .. i - 1 : j - i + m = j - 1 - (i - 1) + m
        BY <1>1
      <4>2. j - i + i = j /\ i \in 2 .. i /\ 2 .. i = (2 .. i - 1) \cup {i}
        BY <1>1, <2>2
      <4> QED BY <1>1, <4>1, <4>2
    <3>4. ASSUME NEW j \in Nat PROVE j \in i .. l <=> j \in 1 .. l /\ j - 1 \in i - 1 .. l
      BY <1>1
    <3>5. After(i) = {j \in 1 .. l : j - 1 \in After(i - 1) /\ p[i] = domain[j]}
      <4> HIDE DEF Ends
      <4> QED BY <1>1, <3>3, <3>4
    <3> QED BY <1>2, <3>1, <3>2, <3>5
  <2> QED BY <2>1, <2>2
<1>4. W = [i \in 0 .. n |-> W[i]]
  <2> HIDE DEF After
  <2> QED OBVIOUS
<1>5. Matched(p, domain) = W
  <2>1. Solves(W, p, domain)
    <3> HIDE DEF W
    <3>1. ASSUME NEW i \in 0 .. n
          PROVE  W[i] = IF i = 0 THEN {0} ELSE Extend(p, domain, i, W[i - 1])
      <4>1. i = 0 \/ i \in 1 .. n
        BY <1>1
      <4> QED BY <1>2, <1>3, <4>1
    <3> QED BY <1>4, <3>1 DEF Solves
  <2> HIDE DEF W
  <2> QED BY <1>1, <2>1, MatchedIsSolution
<1>6. Matched(p, domain)[n] = After(n)
  BY <1>1, <1>2, <1>5
<1>7. p # <<Star>>
  BY LongerThanOne
<1> QED BY <1>1, <1>6, <1>7 DEF GlobMatches

LEMMA StarLast ==
  ASSUME NEW p \in Seq(Letters), NEW domain \in Seq(Letters),
         Len(p) >= 2, p[Len(p)] = Star, \A m \in 1 .. Len(p) - 1 : p[m] # Star
  PROVE  GlobMatches(p, domain) <=>
           /\ Len(domain) >= Len(p)
           /\ \A m \in 1 .. Len(p) - 1 : p[m] = domain[m]
<1> DEFINE n == Len(p)
           l == Len(domain)
           Begins(i) == i <= l /\ \A m \in 1 .. i : p[m] = domain[m]
           So(i) == {j \in {i} : Begins(i)}
           All == {j \in n .. l : Begins(n - 1)}
           W == [i \in 0 .. n |-> IF i = n THEN All ELSE So(i)]
<1>1. n \in Nat /\ l \in Nat
  OBVIOUS
<1>2. W[n] = All /\ \A i \in 0 .. n - 1 : W[i] = So(i)
  <2> HIDE DEF So, All
  <2> QED BY <1>1
<1>3. W[0] = {0}
  BY <1>1, <1>2
<1>4. ASSUME NEW i \in 1 .. n PROVE W[i] = Extend(p, domain, i, W[i - 1])
  <2>1. W[i - 1] = So(i - 1)
    BY <1>1, <1>2
  <2>2. CASE i = n
    <3>1. Extend(p, domain, i, W[i - 1]) = {j \in 1 .. l : \E k \in So(i - 1) : k < j}
      BY <2>1, <2>2 DEF Extend
    <3>2. \A j \in 1 .. l : j \in n .. l <=> n - 1 < j
      BY <1>1
    <3>3. n .. l \subseteq 1 .. l
      BY <1>1
    <3>4. {j \in 1 .. l : \E k \in So(i - 1) : k < j} = All
      <4> HIDE DEF Begins
      <4> QED BY <2>2, <3>2, <3>3
    <3> QED BY <1>2, <2>2, <3>1, <3>4
  <2>3. CASE i # n
    <3>1. W[i] = So(i) /\ p[i] # Star
      BY <1>1, <1>2, <2>3
    <3>2. Extend(p, domain, i, W[i - 1]) = {j \in 1 .. l : j - 1 \in So(i - 1) /\ p[i] = domain[j]}
      BY <2>1, <3>1 DEF Extend
    <3>3. Begins(i) <=> i \in 1 .. l /\ Begins(i - 1) /\ p[i] = domain[i]
      <4>1. i \in 1 .. i /\ 1 .. i = (1 .. i - 1) \cup {i}
        BY <1>1
      <4> QED BY <1>1, <4>1
    <3>4. \A j \in 1 .. l : j - 1 = i - 1 <=> j = i
      BY <1>1
    <3>5. {j \in 1 .. l : j - 1 \in So(i - 1) /\ p[i] = domain[j]} = So(i)
      <4> HIDE DEF Begins
      <4> QED BY <3>3, <3>4
    <3> QED BY <3>1, <3>2, <3>5
  <2> QED BY <2>2, <2>3
<1>5. W = [i \in 0 .. n |-> W[i]]
  <2> HIDE DEF So, All
  <2> QED OBVIOUS
<1>6. Matched(p, domain) = W
  <2>1. Solves(W, p, domain)
    <3> HIDE DEF W
    <3>1. ASSUME NEW i \in 0 .. n
          PROVE  W[i] = IF i = 0 THEN {0} ELSE Extend(p, domain, i, W[i - 1])
      <4>1. i = 0 \/ i \in 1 .. n
        BY <1>1
      <4> QED BY <1>3, <1>4, <4>1
    <3> QED BY <1>5, <3>1 DEF Solves
  <2> HIDE DEF W
  <2> QED BY <1>1, <2>1, MatchedIsSolution
<1>7. Matched(p, domain)[n] = All
  BY <1>2, <1>6
<1>8. p # <<Star>>
  BY LongerThanOne
<1> QED BY <1>1, <1>7, <1>8 DEF GlobMatches

-----------------------------------------------------------------------------
(* The matcher. *)

LEMMA MatcherStarFirst ==
  ASSUME NEW p \in Seq(Letters), NEW domain \in Seq(Letters),
         Len(p) >= 2, Head(p) = Star, Star \notin ToSet(Tail(p))
  PROVE  matches_wildcard(p, domain) <=> GlobMatches(p, domain)
<1>1. /\ Tail(p) \in Seq(Letters) /\ Len(Tail(p)) = Len(p) - 1
      /\ \A i \in 1 .. Len(p) - 1 : Tail(p)[i] = p[i + 1]
  BY HeadTailProperties
<1>2. /\ p[1] = Star
      /\ \A m \in 2 .. Len(p) : p[m] # Star
  <2>1. ASSUME NEW m \in 2 .. Len(p) PROVE p[m] # Star
    <3>1. m - 1 \in DOMAIN Tail(p) /\ Tail(p)[m - 1] = p[m]
      BY <1>1
    <3> QED BY <3>1 DEF ToSet
  <2> QED BY <2>1
<1>3. matches_wildcard(p, domain) <=>
        Len(domain) > Len(Tail(p)) /\ IsSuffix(Tail(p), domain)
  <2>1. p # <<Star>> /\ p # <<>>
    <3>1. Len(p) \in Nat
      OBVIOUS
    <3>2. p # <<Star>>
      BY LongerThanOne
    <3>3. p # <<>>
      BY <3>1, EmptySeq
    <3> QED BY <3>2, <3>3
  <2> QED BY <2>1 DEF matches_wildcard
<1>4. ASSUME Len(domain) >= Len(p)
      PROVE  IsSuffix(Tail(p), domain) <=>
               \A m \in 2 .. Len(p) : p[m] = domain[Len(domain) - Len(p) + m]
  <2>1. IsSuffix(Tail(p), domain) <=>
          \A i \in 1 .. Len(p) - 1 : Tail(p)[i] = domain[Len(domain) - (Len(p) - 1) + i]
    <3>1. Len(Tail(p)) <= Len(domain)
      BY <1>1, <1>4
    <3>2. IsSuffix(Tail(p), domain) <=>
            \A i \in 1 .. Len(Tail(p)) : Tail(p)[i] = domain[Len(domain) - Len(Tail(p)) + i]
      BY <1>1, <3>1, SuffixMeans
    <3> QED BY <1>1, <3>2
  <2>2. ASSUME \A i \in 1 .. Len(p) - 1 : Tail(p)[i] = domain[Len(domain) - (Len(p) - 1) + i],
               NEW m \in 2 .. Len(p)
        PROVE  p[m] = domain[Len(domain) - Len(p) + m]
    <3>1. m - 1 \in 1 .. Len(p) - 1 /\ m - 1 + 1 = m
            /\ Len(domain) - (Len(p) - 1) + (m - 1) = Len(domain) - Len(p) + m
      OBVIOUS
    <3>2. Tail(p)[m - 1] = domain[Len(domain) - (Len(p) - 1) + (m - 1)]
      BY <2>2, <3>1
    <3> QED BY <1>1, <3>1, <3>2
  <2>3. ASSUME \A m \in 2 .. Len(p) : p[m] = domain[Len(domain) - Len(p) + m],
               NEW i \in 1 .. Len(p) - 1
        PROVE  Tail(p)[i] = domain[Len(domain) - (Len(p) - 1) + i]
    <3>1. i + 1 \in 2 .. Len(p)
            /\ Len(domain) - (Len(p) - 1) + i = Len(domain) - Len(p) + (i + 1)
      OBVIOUS
    <3>2. p[i + 1] = domain[Len(domain) - Len(p) + (i + 1)]
      BY <2>3, <3>1
    <3> QED BY <1>1, <3>1, <3>2
  <2> QED BY <2>1, <2>2, <2>3
<1>5. Len(domain) > Len(Tail(p)) <=> Len(domain) >= Len(p)
  BY <1>1
<1> QED BY <1>2, <1>3, <1>4, <1>5, StarFirst

LEMMA MatcherStarLast ==
  ASSUME NEW p \in Seq(Letters), NEW domain \in Seq(Letters),
         Len(p) >= 2, Last(p) = Star, Star \notin ToSet(Front(p))
  PROVE  matches_wildcard(p, domain) <=> GlobMatches(p, domain)
<1>1. /\ Front(p) \in Seq(Letters) /\ Len(Front(p)) = Len(p) - 1
      /\ \A i \in 1 .. Len(p) - 1 : Front(p)[i] = p[i]
  <2>1. \A i \in 1 .. Len(p) - 1 : p[i] \in Letters
    OBVIOUS
  <2> QED BY <2>1, SubSeqProperties DEF Front
<1>2. /\ p[Len(p)] = Star
      /\ \A m \in 1 .. Len(p) - 1 : p[m] # Star
  BY <1>1 DEF Last, ToSet
<1>3. matches_wildcard(p, domain) <=>
        Len(domain) > Len(Front(p)) /\ IsPrefix(Front(p), domain)
  <2>1. p # <<Star>> /\ p # <<>> /\ Head(p) # Star
    BY <1>2
  <2> QED BY <2>1 DEF matches_wildcard
<1>4. ASSUME Len(domain) >= Len(p)
      PROVE  IsPrefix(Front(p), domain) <=> \A m \in 1 .. Len(p) - 1 : p[m] = domain[m]
  BY <1>1, <1>4, PrefixMeans
<1>5. Len(domain) > Len(Front(p)) <=> Len(domain) >= Len(p)
  BY <1>1
<1> QED BY <1>2, <1>3, <1>4, <1>5, StarLast

(* What the validator lets through, the matcher understands. *)
THEOREM ValidPatternsMean ==
  ASSUME NEW p \in Seq(Letters), NEW domains \in SUBSET Seq(Letters),
         validate_domain_pattern(p)
  PROVE  MatcherMeans(p, domains)
<1> SUFFICES ASSUME NEW domain \in domains
             PROVE  matches_wildcard(p, domain) <=> GlobMatches(p, domain)
  BY DEF MatcherMeans
<1>1. p # <<>>
  BY DEF validate_domain_pattern
<1>2. CASE Len(p) = 1
  <2>1. p[1] = Star
    BY <1>2 DEF validate_domain_pattern, Last
  <2>2. p = <<Star>>
    BY <1>2, <2>1
  <2> QED BY <2>2 DEF matches_wildcard, GlobMatches
<1>3. CASE Len(p) # 1
  <2>1. Len(p) >= 2
    <3>1. Len(p) \in Nat \ {0}
      BY <1>1, EmptySeq
    <3>2. \A n \in Nat \ {0} : n # 1 => n >= 2
      OBVIOUS
    <3> QED BY <1>3, <3>1, <3>2
  <2> QED BY <2>1, MatcherStarFirst, MatcherStarLast DEF validate_domain_pattern
<1> QED BY <1>2, <1>3
===============================================================================
