-------------------------- MODULE SessionCacheProofs --------------------------
(* Proofs about SessionCache, for any log and any number of hazards.       *)
EXTENDS SessionCache, SequenceTheorems, FiniteSetTheorems, WellFoundedInduction, TLAPS

-----------------------------------------------------------------------------
(* Sequences of events.                                                    *)

\* What holds of all numbers but, perhaps, some, fails first at one of these.
LEMMA Least ==
  ASSUME NEW T \in SUBSET Nat, T # {}
  PROVE  \E x \in T : \A y \in T : x <= y
  <1> DEFINE R == OpToRel(<, Nat)
  <1>1. \A x, y \in Nat : x < y => <<x, y>> \in R
    BY DEF OpToRel
  <1>2. IsWellFoundedOn(R, Nat)
    BY NatLessThanWellFounded
  <1> HIDE DEF R
  <1>3. \E x \in T : \A y \in T : ~ (<<y, x>> \in R)
    BY <1>2, WFMin
  <1>4. \A x, y \in T : x \in Nat /\ y \in Nat
    OBVIOUS
  <1>5. \A x, y \in T : ~ (y < x) => x <= y
    BY <1>4
  <1>6. \A x, y \in T : ~ (<<y, x>> \in R) => ~ (y < x)
    BY <1>1, <1>4
  <1> QED
    BY <1>3, <1>5, <1>6, Zenon

\* The elements of a sequence of numbers.
LEMMA Elements ==
  ASSUME NEW t \in Seq(Nat)
  PROVE  /\ Len(t) \in Nat /\ DOMAIN t = 1 .. Len(t)
         /\ \A i \in DOMAIN t : i \in Nat /\ t[i] \in Nat /\ t[i] \in ToSet(t)
         /\ ToSet(t) \subseteq Nat
         /\ \A x \in ToSet(t) : \E i \in DOMAIN t : x = t[i]
  BY DEF ToSet

LEMMA EmptyElements ==
  /\ <<>> \in Seq(Nat) /\ ToSet(<<>>) = {} /\ Increasing(<<>>) /\ LastId(<<>>) = 0
  BY DEF ToSet, Increasing, LastId

\* One more element.
LEMMA AppendElements ==
  ASSUME NEW t \in Seq(Nat), NEW x \in Nat
  PROVE  /\ Append(t, x) \in Seq(Nat) /\ ToSet(Append(t, x)) = ToSet(t) \cup {x}
         /\ Increasing(t) /\ (\A y \in ToSet(t) : y < x) => Increasing(Append(t, x))
  <1> DEFINE u == Append(t, x)
  <1>1. /\ u \in Seq(Nat) /\ Len(u) = Len(t) + 1 /\ Len(t) \in Nat
        /\ \A i \in 1 .. Len(t) : u[i] = t[i]
        /\ u[Len(t) + 1] = x
    BY AppendProperties, LenProperties
  <1>2. DOMAIN t = 1 .. Len(t) /\ DOMAIN u = 1 .. (Len(t) + 1)
    BY <1>1, LenProperties
  <1> HIDE DEF u
  <1>3. ToSet(u) = ToSet(t) \cup {x}
    BY <1>1, <1>2 DEF ToSet
  <1>4. ASSUME Increasing(t), \A y \in ToSet(t) : y < x
        PROVE  Increasing(u)
    <2> SUFFICES ASSUME NEW i \in DOMAIN u, NEW j \in DOMAIN u, i < j
                 PROVE  u[i] < u[j]
      BY DEF Increasing
    <2>1. i \in DOMAIN t /\ u[i] = t[i]
      BY <1>1, <1>2
    <2>2. CASE j = Len(t) + 1
      BY <1>1, <1>4, <2>1, <2>2, Elements
    <2>3. CASE j # Len(t) + 1
      <3>1. j \in DOMAIN t /\ u[j] = t[j]
        BY <1>1, <1>2, <2>3
      <3> QED
        BY <1>4, <2>1, <3>1 DEF Increasing
    <2> QED
      BY <2>2, <2>3
  <1> QED
    BY <1>1, <1>3, <1>4 DEF u

\* One sequence after another.
LEMMA ConcatElements ==
  ASSUME NEW s \in Seq(Nat), NEW t \in Seq(Nat)
  PROVE  /\ s \o t \in Seq(Nat) /\ ToSet(s \o t) = ToSet(s) \cup ToSet(t)
         /\ /\ Increasing(s) /\ Increasing(t)
            /\ \A x \in ToSet(s), y \in ToSet(t) : x < y
            => Increasing(s \o t)
  <1> DEFINE u == s \o t
  <1>1. /\ u \in Seq(Nat) /\ Len(u) = Len(s) + Len(t)
        /\ \A i \in 1 .. Len(u) : u[i] = IF i <= Len(s) THEN s[i] ELSE t[i - Len(s)]
    BY ConcatProperties
  <1>2. /\ Len(s) \in Nat /\ DOMAIN s = 1 .. Len(s)
        /\ Len(t) \in Nat /\ DOMAIN t = 1 .. Len(t)
        /\ DOMAIN u = 1 .. (Len(s) + Len(t))
    BY <1>1, LenProperties
  <1> HIDE DEF u
  <1>3. /\ \A i \in DOMAIN s : i \in DOMAIN u /\ u[i] = s[i]
        /\ \A i \in DOMAIN t : i + Len(s) \in DOMAIN u /\ u[i + Len(s)] = t[i]
        /\ \A i \in DOMAIN u : i \in DOMAIN s \/ i - Len(s) \in DOMAIN t
    BY <1>1, <1>2
  <1>4. ToSet(u) = ToSet(s) \cup ToSet(t)
    <2>1. ToSet(s) \subseteq ToSet(u)
      BY <1>3 DEF ToSet
    <2>2. ToSet(t) \subseteq ToSet(u)
      BY <1>3 DEF ToSet
    <2>3. ASSUME NEW i \in DOMAIN u PROVE u[i] \in ToSet(s) \cup ToSet(t)
      <3>1. CASE i \in DOMAIN s
        BY <1>3, <3>1 DEF ToSet
      <3>2. CASE i \notin DOMAIN s
        <4>1. i - Len(s) \in DOMAIN t /\ (i - Len(s)) + Len(s) = i
          BY <1>2, <1>3, <3>2
        <4>2. u[i] = t[i - Len(s)]
          BY <1>3, <4>1
        <4> QED
          BY <4>1, <4>2 DEF ToSet
      <3> QED
        BY <3>1, <3>2
    <2> QED
      BY <2>1, <2>2, <2>3 DEF ToSet
  <1>5. ASSUME Increasing(s), Increasing(t), \A x \in ToSet(s), y \in ToSet(t) : x < y
        PROVE  Increasing(u)
    <2> SUFFICES ASSUME NEW i \in DOMAIN u, NEW j \in DOMAIN u, i < j
                 PROVE  u[i] < u[j]
      BY DEF Increasing
    <2>1. CASE j \in DOMAIN s
      <3>1. i \in DOMAIN s
        BY <1>2, <2>1
      <3> QED
        BY <1>3, <1>5, <2>1, <3>1 DEF Increasing
    <2>2. CASE i \in DOMAIN s /\ j \notin DOMAIN s
      <3>1. u[i] = s[i] /\ j - Len(s) \in DOMAIN t /\ u[j] = t[j - Len(s)]
        BY <1>1, <1>2, <1>3, <2>2
      <3> QED
        BY <1>5, <2>2, <3>1, Elements
    <2>3. CASE i \notin DOMAIN s
      <3>1. /\ i - Len(s) \in DOMAIN t /\ j - Len(s) \in DOMAIN t
            /\ u[i] = t[i - Len(s)] /\ u[j] = t[j - Len(s)] /\ i - Len(s) < j - Len(s)
        <4>1. i \in Nat /\ j \in Nat /\ i > Len(s) /\ j > Len(s) /\ j \notin DOMAIN s
          BY <1>2, <2>3
        <4>2. i - Len(s) \in DOMAIN t /\ j - Len(s) \in DOMAIN t
          BY <1>3, <2>3, <4>1
        <4>3. (i - Len(s)) + Len(s) = i /\ (j - Len(s)) + Len(s) = j /\ i - Len(s) < j - Len(s)
          BY <1>2, <4>1
        <4> QED
          BY <1>3, <4>2, <4>3
      <3> QED
        BY <1>5, <3>1 DEF Increasing
    <2> QED
      BY <2>1, <2>2, <2>3
  <1> QED
    BY <1>1, <1>4, <1>5 DEF u

\* The last event is the greatest.
LEMMA LastElement ==
  ASSUME NEW t \in Seq(Nat), Increasing(t)
  PROVE  /\ LastId(t) \in Nat /\ \A x \in ToSet(t) : x <= LastId(t)
         /\ t = <<>> => LastId(t) = 0
         /\ t # <<>> => LastId(t) \in ToSet(t)
  <1>1. CASE t = <<>>
    BY <1>1, EmptyElements
  <1>2. CASE t # <<>>
    <2>1. Len(t) \in DOMAIN t /\ LastId(t) = t[Len(t)]
      BY <1>2, EmptySeq, Elements DEF LastId, Last
    <2>2. \A i \in DOMAIN t : t[i] <= t[Len(t)]
      <3> SUFFICES ASSUME NEW i \in DOMAIN t PROVE t[i] <= t[Len(t)]
        OBVIOUS
      <3>1. i < Len(t) \/ i = Len(t)
        BY Elements
      <3>2. t[i] \in Nat /\ t[Len(t)] \in Nat
        BY <2>1, Elements
      <3>3. i < Len(t) => t[i] < t[Len(t)]
        BY <2>1 DEF Increasing
      <3> QED
        BY <3>1, <3>2, <3>3
    <2> QED
      BY <1>2, <2>1, <2>2, Elements
  <1> QED
    BY <1>1, <1>2

\* A prefix of the log.
LEMMA PrefixElements ==
  ASSUME NEW n \in Nat
  PROVE  /\ Prefix(n) \in Seq(Nat) /\ ToSet(Prefix(n)) = 1 .. n /\ Increasing(Prefix(n))
         /\ Len(Prefix(n)) = n /\ DOMAIN Prefix(n) = 1 .. n
         /\ \A i \in 1 .. n : Prefix(n)[i] = i
  BY DEF Prefix, ToSet, Increasing

\* A sequence in order gets on by one at least.
LEMMA GetsOn ==
  ASSUME NEW t \in Seq(Nat), Increasing(t), 0 \notin ToSet(t), NEW i \in DOMAIN t
  PROVE  i <= t[i]
  <1> DEFINE Bad == {k \in DOMAIN t : t[k] < k}
  <1>1. \A k \in DOMAIN t : k \in Nat /\ t[k] \in Nat /\ t[k] # 0
    BY Elements
  <1>2. ASSUME NEW k \in Bad, \A j \in Bad : k <= j
        PROVE  FALSE
    <2>1. k \in DOMAIN t /\ t[k] < k /\ k > 1
      BY <1>1
    <2>2. k - 1 \in DOMAIN t
      BY <2>1, Elements
    <2>3. t[k - 1] < t[k]
      BY <2>1, <2>2, <1>1 DEF Increasing
    <2>4. k - 1 \in Bad
      BY <1>1, <2>1, <2>2, <2>3
    <2> QED
      BY <1>1, <1>2, <2>1, <2>4
  <1>3. Bad \in SUBSET Nat
    BY <1>1
  <1> HIDE DEF Bad
  <1>4. Bad = {}
    BY <1>2, <1>3, Least
  <1> QED
    BY <1>1, <1>4 DEF Bad

\* One that lacks nothing is a prefix of the log.
LEMMA LacksNothing ==
  ASSUME NEW t \in Seq(Nat), Increasing(t), NEW n \in Nat, ToSet(t) = 1 .. n
  PROVE  t = Prefix(n) /\ Len(t) = n
  <1>1. \A k \in DOMAIN t : k \in Nat /\ t[k] \in 1 .. n /\ k <= t[k]
    BY Elements, GetsOn
  <1> DEFINE Bad == {k \in DOMAIN t : t[k] # k}
  <1>2. ASSUME NEW k \in Bad, \A j \in Bad : k <= j
        PROVE  FALSE
    <2>1. k \in DOMAIN t /\ k < t[k] /\ k \in 1 .. n
      BY <1>1, Elements
    <2>2. PICK j \in DOMAIN t : t[j] = k
      BY <2>1, Elements
    <2>3. CASE j < k
      BY <1>1, <1>2, <2>1, <2>2, <2>3
    <2>4. CASE k < j
      <3>1. t[k] < t[j]
        BY <2>1, <2>4 DEF Increasing
      <3> QED
        BY <1>1, <2>1, <2>2, <3>1
    <2> QED
      BY <1>1, <2>1, <2>2, <2>3, <2>4
  <1>3. Bad \in SUBSET Nat
    BY <1>1
  <1>4. Bad = {}
    <2> HIDE DEF Bad
    <2> QED
      BY <1>2, <1>3, Least
  <1>5. \A k \in DOMAIN t : t[k] = k
    BY <1>4
  <1>6. Len(t) = n
    <2>1. Len(t) \in Nat /\ DOMAIN t = 1 .. Len(t) /\ \A k \in 1 .. n : \E i \in DOMAIN t : k = t[i]
      BY Elements
    <2>2. \A k \in 1 .. n : k \in DOMAIN t
      BY <1>5, <2>1
    <2>3. n > 0 => n <= Len(t)
      BY <2>1, <2>2
    <2>4. Len(t) > 0 => Len(t) <= n
      BY <1>1, <1>5, <2>1
    <2>5. Len(t) \in Nat
      BY <2>1
    <2> QED
      BY <2>3, <2>4, <2>5
  <1>7. DOMAIN t = 1 .. n /\ t \in [1 .. n -> Nat]
    BY <1>6, LenProperties
  <1>8. t = [i \in 1 .. n |-> t[i]]
    BY <1>7
  <1>9. \A i \in 1 .. n : t[i] = i
    BY <1>5, <1>7
  <1> QED
    BY <1>6, <1>8, <1>9 DEF Prefix

-----------------------------------------------------------------------------
(* The events that are not known yet.                                      *)

\* What one more event makes of those that were kept.
Grown(s, known, t, n) == IF s[n] \in known THEN t ELSE Append(t, s[n])

\* What is kept of the first n events of s.
Kept(s, known, n, t) ==
  /\ t \in Seq(Nat)
  /\ ToSet(t) = {s[i] : i \in 1 .. n} \ known
  /\ Increasing(s) => Increasing(t)

LEMMA Growing ==
  ASSUME NEW s \in Seq(Nat), NEW known, NEW n \in 1 .. Len(s), NEW t,
         Kept(s, known, n - 1, t)
  PROVE  Kept(s, known, n, Grown(s, known, t, n))
  <1>1. /\ Len(s) \in Nat /\ n \in Nat /\ n \in DOMAIN s /\ DOMAIN s = 1 .. Len(s)
        /\ s[n] \in Nat /\ 1 .. n = 1 .. (n - 1) \cup {n}
    BY Elements
  <1>2. {s[i] : i \in 1 .. n} = {s[i] : i \in 1 .. (n - 1)} \cup {s[n]}
    BY <1>1
  <1>3. CASE s[n] \in known
    BY <1>2, <1>3 DEF Kept, Grown
  <1>4. CASE s[n] \notin known
    <2>1. t \in Seq(Nat) /\ ToSet(t) = {s[i] : i \in 1 .. (n - 1)} \ known
      BY DEF Kept
    <2>2. Append(t, s[n]) \in Seq(Nat) /\ ToSet(Append(t, s[n])) = ToSet(t) \cup {s[n]}
      BY <1>1, <2>1, AppendElements
    <2>3. ASSUME Increasing(s) PROVE Increasing(Append(t, s[n]))
      <3>1. \A i \in 1 .. (n - 1) : i \in DOMAIN s /\ i < n
        BY <1>1
      <3>2. \A y \in ToSet(t) : y < s[n]
        BY <1>1, <2>1, <2>3, <3>1 DEF Increasing
      <3> QED
        BY <1>1, <2>1, <2>3, <3>2, AppendElements DEF Kept
    <2> QED
      BY <1>2, <1>4, <2>1, <2>2, <2>3 DEF Kept, Grown
  <1> QED
    BY <1>3, <1>4

\* The definition of Without has a solution, and what it gives is what is kept.
LEMMA Selects ==
  ASSUME NEW s \in Seq(Nat), NEW known
  PROVE  Kept(s, known, Len(s), Without(s, known))
  <1> DEFINE Solves(n, G) ==
        /\ G \in [0 .. n -> Seq(Nat)] /\ G[0] = <<>>
        /\ \A i \in 1 .. n : G[i] = Grown(s, known, G[i - 1], i)
      Rule(G) == [i \in 0 .. Len(s) |->
                    IF i = 0 THEN <<>>
                    ELSE IF s[i] \in known THEN G[i - 1] ELSE Append(G[i - 1], s[i])]
      Solvable(n) == \E G : Solves(n, G)
      Bad == {n \in 0 .. Len(s) : ~ Solvable(n)}
  <1>0. Len(s) \in Nat /\ DOMAIN s = 1 .. Len(s) /\ \A i \in 1 .. Len(s) : s[i] \in Nat
    BY Elements
  <1>1. ASSUME NEW n \in Bad, \A m \in Bad : n <= m
        PROVE  FALSE
    <2>1. n \in 0 .. Len(s) /\ n \in Nat /\ ~ Solvable(n)
      <3> HIDE DEF Solvable
      <3> QED
        BY <1>0
    <2>2. CASE n = 0
      <3> DEFINE G == [i \in 0 .. 0 |-> <<>>]
      <3>1. G \in [0 .. 0 -> Seq(Nat)] /\ G[0] = <<>> /\ 1 .. 0 = {}
        OBVIOUS
      <3>2. Solves(0, G)
        BY <3>1
      <3> QED
        BY <2>1, <2>2, <3>2
    <2>3. CASE n # 0
      <3>1. n - 1 \in 0 .. Len(s) /\ ~ (n <= n - 1)
        BY <1>0, <2>1, <2>3
      <3>a. Solvable(n - 1)
        <4> HIDE DEF Solvable
        <4> QED
          BY <1>1, <3>1
      <3>2. PICK G : Solves(n - 1, G)
        BY <3>a
      <3> DEFINE x == Grown(s, known, G[n - 1], n)
                 H == [i \in 0 .. n |-> IF i = n THEN x ELSE G[i]]
      <3>3. x \in Seq(Nat)
        <4>1. G[n - 1] \in Seq(Nat) /\ s[n] \in Nat
          BY <1>0, <2>1, <2>3, <3>1, <3>2
        <4> QED
          BY <4>1, AppendElements DEF Grown
      <3>4. /\ \A i \in 0 .. (n - 1) : i # n /\ H[i] = G[i] /\ G[i] \in Seq(Nat)
            /\ H[n] = x /\ H \in [0 .. n -> Seq(Nat)]
        <4> HIDE DEF x
        <4>1. \A i \in 0 .. n : i # n => i \in 0 .. (n - 1)
          BY <2>1
        <4>2. \A i \in 0 .. (n - 1) : i # n /\ i \in 0 .. n /\ G[i] \in Seq(Nat)
          BY <2>1, <3>2
        <4> QED
          BY <2>1, <3>3, <4>1, <4>2
      <3>5. ASSUME NEW i \in 1 .. n PROVE H[i] = Grown(s, known, H[i - 1], i)
        <4>1. i - 1 \in 0 .. (n - 1) /\ H[i - 1] = G[i - 1]
          BY <2>1, <3>4
        <4>2. CASE i = n
          BY <3>4, <4>1, <4>2
        <4>3. CASE i # n
          <5>1. i \in 1 .. (n - 1) /\ i \in 0 .. (n - 1)
            BY <2>1, <4>3
          <5> QED
            BY <3>2, <3>4, <4>1, <5>1
        <4> QED
          BY <4>2, <4>3
      <3>6. H[0] = <<>>
        BY <2>1, <2>3, <3>2, <3>4
      <3> HIDE DEF H, x
      <3>7. Solves(n, H)
        BY <3>4, <3>5, <3>6
      <3> QED
        BY <2>1, <3>7
    <2> QED
      BY <2>2, <2>3
  <1>2. Bad \in SUBSET Nat
    <2> HIDE DEF Solvable
    <2> QED
      BY <1>0
  <1>3. Bad = {}
    <2> HIDE DEF Bad
    <2> QED
      BY <1>1, <1>2, Least
  <1>a. Solvable(Len(s))
    <2> HIDE DEF Solvable
    <2> QED
      BY <1>0, <1>3
  <1>4. PICK G : Solves(Len(s), G)
    BY <1>a
  <1>5. G = Rule(G)
    <2>1. \A i \in 0 .. Len(s) : i # 0 => i \in 1 .. Len(s)
      BY <1>0
    <2>2. \A i \in 0 .. Len(s) : G[i] = Rule(G)[i]
      BY <1>4, <2>1 DEF Grown
    <2>3. G = [i \in 0 .. Len(s) |-> G[i]]
      BY <1>4
    <2> QED
      BY <2>2, <2>3
  <1> DEFINE F == CHOOSE H : H = Rule(H)
  <1>6. F = Rule(F)
    <2> HIDE DEF Rule
    <2> QED
      BY <1>5
  <1>7. Without(s, known) = F[Len(s)]
    BY Zenon DEF Without
  <1> HIDE DEF F
  <1>8. /\ F[0] = <<>>
        /\ \A i \in 1 .. Len(s) : F[i] = Grown(s, known, F[i - 1], i)
    <2>1. \A i \in 0 .. Len(s) : F[i] = Rule(F)[i]
      BY <1>6
    <2>2. 0 \in 0 .. Len(s) /\ \A i \in 1 .. Len(s) : i \in 0 .. Len(s) /\ i # 0
      BY <1>0
    <2> QED
      BY <2>1, <2>2 DEF Grown
  <1> HIDE DEF Rule, Solves, Solvable, Bad
  <1> DEFINE Wrong == {n \in 0 .. Len(s) : ~ Kept(s, known, n, F[n])}
  <1>9. ASSUME NEW n \in Wrong, \A m \in Wrong : n <= m
        PROVE  FALSE
    <2>1. n \in 0 .. Len(s) /\ n \in Nat /\ ~ Kept(s, known, n, F[n])
      BY <1>0
    <2>2. CASE n = 0
      <3>1. {s[i] : i \in 1 .. 0} = {}
        OBVIOUS
      <3>2. Kept(s, known, 0, <<>>)
        BY <3>1, EmptyElements DEF Kept
      <3> QED
        BY <1>8, <2>1, <2>2, <3>2
    <2>3. CASE n # 0
      <3>1. n \in 1 .. Len(s) /\ n - 1 \in 0 .. Len(s) /\ ~ (n <= n - 1)
        BY <1>0, <2>1, <2>3
      <3>2. Kept(s, known, n - 1, F[n - 1])
        BY <1>9, <3>1
      <3> QED
        BY <1>8, <2>1, <3>1, <3>2, Growing
    <2> QED
      BY <2>2, <2>3
  <1>10. Wrong \in SUBSET Nat
    BY <1>0
  <1>11. Wrong = {}
    <2> HIDE DEF Wrong
    <2> QED
      BY <1>9, <1>10, Least
  <1>12. Len(s) \in 0 .. Len(s)
    BY <1>0
  <1> QED
    BY <1>7, <1>11, <1>12

\* The new events of a sequence, in its order.
LEMMA WithoutElements ==
  ASSUME NEW s \in Seq(Nat), NEW known
  PROVE  /\ Without(s, known) \in Seq(Nat)
         /\ ToSet(Without(s, known)) = ToSet(s) \ known
         /\ Increasing(s) => Increasing(Without(s, known))
  <1>1. ToSet(s) = {s[i] : i \in 1 .. Len(s)}
    BY Elements DEF ToSet
  <1> QED
    BY <1>1, Selects DEF Kept

-----------------------------------------------------------------------------
(* Transcripts.                                                            *)

\* The bounds are numbers.
LEMMA Bounds ==
  MaxEvents \in Nat /\ MaxHazards \in Nat /\ Possible \subseteq Hazards
  BY HazardsAssumption

\* Sequences of at most n elements.
LEMMA BoundedSeqs ==
  ASSUME NEW S, NEW n \in Nat, NEW t
  PROVE  t \in BoundedSeq(S, n) <=> t \in Seq(S) /\ Len(t) <= n
  <1>1. ASSUME t \in BoundedSeq(S, n)
        PROVE  t \in Seq(S) /\ Len(t) <= n
    <2>1. PICK m \in 0 .. n : t \in [1 .. m -> S]
      BY <1>1 DEF BoundedSeq, SeqOf
    <2> QED
      BY <2>1
  <1>2. ASSUME t \in Seq(S), Len(t) <= n
        PROVE  t \in BoundedSeq(S, n)
    <2>1. t \in [1 .. Len(t) -> S] /\ Len(t) \in 0 .. n
      BY <1>2, LenProperties
    <2> QED
      BY <2>1 DEF BoundedSeq, SeqOf
  <1> QED
    BY <1>1, <1>2

\* A status stays one, whatever the events.
LEMMA StatusTypes ==
  /\ \A kinds : \A status \in {"running", "over"} : After(status, kinds) \in {"running", "over"}
  /\ \A n : StatusAt(n) \in {"running", "over"}
  BY DEF After, StatusAt

\* Later events make a transcript of a transcript.
LEMMA AppliedEvents ==
  ASSUME NEW e, Transcript(e), NEW events \in Seq(Nat), Increasing(events),
         ToSet(events) \subseteq 1 .. Len(log),
         \A x \in ToSet(e.events), y \in ToSet(events) : x < y
  PROVE  /\ Transcript(Applied(e, events))
         /\ ToSet(Applied(e, events).events) = ToSet(e.events) \cup ToSet(events)
  <1> DEFINE f == Applied(e, events)
  <1>1. e.events \in Seq(Nat) /\ e.status \in {"running", "over"}
    BY DEF Transcript
  <1>2. f.events = e.events \o events /\ f.status \in {"running", "over"}
        /\ f = [events |-> f.events, status |-> f.status]
    BY <1>1, StatusTypes DEF Applied
  <1>3. /\ f.events \in Seq(Nat) /\ ToSet(f.events) = ToSet(e.events) \cup ToSet(events)
        /\ Increasing(f.events)
    BY <1>1, <1>2, ConcatElements DEF Transcript
  <1> HIDE DEF f
  <1>4. Transcript(f)
    BY <1>2, <1>3 DEF Transcript
  <1> QED
    BY <1>3, <1>4 DEF f

\* The last event of a transcript.
LEMMA LastEvent ==
  ASSUME NEW e, Transcript(e), Len(log) \in Nat
  PROVE  /\ LastId(e.events) \in 0 .. Len(log)
         /\ \A x \in ToSet(e.events) : x <= LastId(e.events) /\ x \in Nat /\ x > 0
         /\ LastId(e.events) = 0 \/ LastId(e.events) \in ToSet(e.events)
  <1>1. e.events \in Seq(Nat) /\ Increasing(e.events) /\ ToSet(e.events) \subseteq 1 .. Len(log)
    BY DEF Transcript
  <1> QED
    BY <1>1, LastElement

\* A transcript f follows e: it has all that e has, and lacks nothing that e does not.
Follows(f, e) ==
  /\ ToSet(e.events) \subseteq ToSet(f.events)
  /\ LastId(e.events) <= LastId(f.events)
  /\ Missing(f) \subseteq Missing(e)

\* A snapshot without anything to add.
LEMMA SnapshotAlone ==
  ASSUME NEW n \in Nat, Len(log) \in Nat, n <= Len(log)
  PROVE  LET f == [events |-> Prefix(n), status |-> StatusAt(n)]
         IN /\ Transcript(f) /\ ToSet(f.events) = 1 .. n /\ LastId(f.events) = n
            /\ Missing(f) = {}
  <1> DEFINE f == [events |-> Prefix(n), status |-> StatusAt(n)]
  <1>1. f.events = Prefix(n) /\ f.status \in {"running", "over"}
    BY StatusTypes
  <1>2. f.events \in Seq(Nat) /\ ToSet(f.events) = 1 .. n /\ Increasing(f.events)
    BY <1>1, PrefixElements
  <1>3. Transcript(f)
    BY <1>1, <1>2 DEF Transcript
  <1> HIDE DEF f
  <1>4. LastId(f.events) = n
    <2>1. /\ LastId(f.events) \in 0 .. Len(log)
          /\ \A x \in 1 .. n : x <= LastId(f.events)
          /\ LastId(f.events) = 0 \/ LastId(f.events) \in 1 .. n
      BY <1>2, <1>3, LastEvent
    <2>2. n > 0 => n <= LastId(f.events)
      BY <2>1
    <2> QED
      BY <2>1, <2>2
  <1>5. Missing(f) = {}
    BY <1>2, <1>4 DEF Missing
  <1> QED
    BY <1>2, <1>3, <1>4, <1>5 DEF f

\* A snapshot and the cached events that it lacks.
LEMMA SnapshotAnd ==
  ASSUME NEW n \in Nat, Len(log) \in Nat, n <= Len(log), NEW e, Transcript(e)
  PROVE  LET f == Applied([events |-> Prefix(n), status |-> StatusAt(n)],
                          Without(e.events, 1 .. n))
         IN Transcript(f) /\ Follows(f, e)
  <1> DEFINE p == [events |-> Prefix(n), status |-> StatusAt(n)]
             w == Without(e.events, 1 .. n)
             f == Applied(p, w)
  <1>1. Transcript(p) /\ ToSet(p.events) = 1 .. n
    BY SnapshotAlone
  <1>2. e.events \in Seq(Nat) /\ Increasing(e.events) /\ ToSet(e.events) \subseteq 1 .. Len(log)
    BY DEF Transcript
  <1>3. w \in Seq(Nat) /\ ToSet(w) = ToSet(e.events) \ (1 .. n) /\ Increasing(w)
    BY <1>2, WithoutElements
  <1> HIDE DEF p, w
  <1>4. \A x \in 1 .. n, y \in ToSet(w) : x < y
    BY <1>2, <1>3
  <1>5. Transcript(f) /\ ToSet(f.events) = 1 .. n \cup ToSet(e.events)
    BY <1>1, <1>2, <1>3, <1>4, AppliedEvents
  <1> HIDE DEF f
  <1>6. /\ LastId(e.events) \in Nat /\ LastId(f.events) \in Nat
        /\ LastId(e.events) = 0 \/ LastId(e.events) \in ToSet(e.events)
        /\ LastId(f.events) = 0 \/ LastId(f.events) \in ToSet(f.events)
        /\ \A x \in ToSet(e.events) : x <= LastId(e.events)
        /\ \A x \in ToSet(f.events) : x <= LastId(f.events)
    BY <1>5, LastEvent
  <1>7. LastId(e.events) <= LastId(f.events)
    BY <1>5, <1>6
  <1>8. Missing(f) \subseteq Missing(e)
    <2> SUFFICES ASSUME NEW x \in Missing(f) PROVE x \in Missing(e)
      OBVIOUS
    <2>1. x \in Nat /\ x > 0 /\ x <= LastId(f.events) /\ x \notin 1 .. n /\ x \notin ToSet(e.events)
      BY <1>5, <1>6 DEF Missing
    <2>2. LastId(f.events) \notin 1 .. n
      BY <1>6, <2>1
    <2>3. LastId(f.events) \in ToSet(e.events)
      BY <1>5, <1>6, <2>1, <2>2
    <2>4. x <= LastId(e.events)
      BY <1>6, <2>1, <2>3
    <2> QED
      BY <1>6, <2>1, <2>4 DEF Missing
  <1> QED
    BY <1>5, <1>7, <1>8 DEF Follows, f, p, w

-----------------------------------------------------------------------------
(* What a step does to each part.                                          *)

\* The log grows, within its bound.
LEMMA StepLog ==
  ASSUME TypeOK, [Next]_vars
  PROVE  /\ log' \in BoundedSeq({"start", "output", "end"}, MaxEvents)
         /\ Len(log) \in Nat /\ Len(log') \in Nat /\ Len(log) <= Len(log')
         /\ Len(log') <= MaxEvents
  <1> DEFINE K == {"start", "output", "end"}
  <1>1. log \in Seq(K) /\ Len(log) \in Nat /\ Len(log) <= MaxEvents
    BY Bounds, BoundedSeqs, LenProperties DEF TypeOK
  <1>2. CASE UNCHANGED log
    BY <1>1, <1>2, Bounds, BoundedSeqs
  <1>3. ASSUME NEW kind \in K, Len(log) < MaxEvents, log' = log \o <<kind>>
        PROVE  log' \in Seq(K) /\ Len(log') = Len(log) + 1
    <2>1. <<kind>> \in Seq(K) /\ Len(<<kind>>) = 1
      OBVIOUS
    <2> QED
      BY <1>1, <1>3, <2>1, ConcatProperties
  <1>4. UNCHANGED log \/ \E kind \in K : Len(log) < MaxEvents /\ log' = log \o <<kind>>
    BY DEF Next, vars, used, Report, Request, Render, Navigate, PollRead, Fetch, PollMerge,
       DetailRead, DetailMerge, RequestAnswered, Stream, Receive, Flush, SendDone,
       ReceiveDone, Reconnect, Drop, Delete, Deleted, RollBack
  <1>5. CASE ~ UNCHANGED log
    <2>1. log' \in Seq(K) /\ Len(log') = Len(log) + 1 /\ Len(log) < MaxEvents
      BY <1>3, <1>4, <1>5
    <2> HIDE DEF K
    <2>2. Len(log') \in Nat /\ Len(log) <= Len(log') /\ Len(log') <= MaxEvents
      BY <1>1, <2>1, Bounds
    <2>3. log' \in BoundedSeq(K, MaxEvents)
      BY <2>1, <2>2, Bounds, BoundedSeqs
    <2> QED
      BY <1>1, <2>2, <2>3 DEF K
  <1> QED
    BY <1>2, <1>5

\* What happened is possible, or the code's own, and is not forgotten.
LEMMA StepHappened ==
  ASSUME TypeOK, CacheInv, [Next]_vars
  PROVE  /\ happened \subseteq happened'
         /\ happened' \subseteq Possible \cup {"ahead", "behind", "midway"}
         /\ left' \in 0 .. MaxHazards
  <1> DEFINE Goal == /\ happened \subseteq happened'
                     /\ happened' \subseteq Possible \cup {"ahead", "behind", "midway"}
                     /\ left' \in 0 .. MaxHazards
  <1>0. /\ happened \subseteq Possible \cup {"ahead", "behind", "midway"}
        /\ left \in 0 .. MaxHazards
    BY DEF TypeOK
  <1>1. UNCHANGED used => Goal
    BY <1>0 DEF used
  <1>2. \A k : Spend(k) => Goal
    BY <1>0, Bounds DEF Spend
  <1>3. \A n : Note(n) => Goal
    BY <1>0 DEF Note
  <1>4. \A kind : Request(kind) => Goal
    BY <1>0 DEF Request
  <1>5. Delete => Goal
    BY <1>0, Bounds DEF Delete
  <1>6. RollBack => Goal
    BY <1>0 DEF RollBack, CacheInv, SavedOlder
  <1> SUFFICES Goal
    OBVIOUS
  <1> HIDE DEF Goal
  <1>7. CASE \E kind \in {"output", "end"} : Report(kind)
    BY <1>1, <1>7 DEF Report
  <1>8. CASE Render \/ Navigate \/ PollRead \/ Drop \/ Deleted
    BY <1>1, <1>2, <1>8 DEF Render, Navigate, PollRead, Drop, Deleted
  <1>9. CASE Fetch
    BY <1>1, <1>2, <1>3, <1>9 DEF Fetch, PollMerge, DetailRead, DetailMerge, RequestAnswered
  <1>10. CASE Stream
    BY <1>1, <1>2, <1>10 DEF Stream, Receive, Flush, SendDone, ReceiveDone, Reconnect
  <1>11. CASE UNCHANGED vars
    BY <1>1, <1>11 DEF vars
  <1> QED
    BY <1>4, <1>5, <1>6, <1>7, <1>8, <1>9, <1>10, <1>11 DEF Next

\* Responses hold a prefix of the log.
Fetched ==
  \A r \in {poll, detail, request} :
    r.st \in {"idle", "asked", "read"} /\ r.at \in 0 .. Len(log)

LEMMA StepFetched ==
  ASSUME TypeOK, [Next]_vars
  PROVE  Fetched'
  <1>1. /\ Len(log) \in Nat /\ Len(log') \in Nat /\ Len(log) <= Len(log')
        /\ \A x \in 0 .. Len(log) : x \in 0 .. Len(log')
    BY StepLog
  <1>2. Fetched
    BY DEF TypeOK, Fetched
  <1> DEFINE Fine(r) == r.st \in {"idle", "asked", "read"} /\ r.at \in 0 .. Len(log)'
  <1>3. /\ \A r \in {poll, detail, request} : Fine(r)
        /\ Fine(Idle) /\ Fine(Read) /\ Fine([st |-> "asked", at |-> 0])
        /\ Fine([st |-> "read", at |-> Len(log)'])
    BY <1>1, <1>2 DEF Fetched, Idle, Read
  <1> HIDE DEF Fine
  <1>4. Fine(poll') /\ Fine(detail') /\ Fine(request')
    <2>1. CASE \E kind \in {"output", "end"} : Report(kind)
      BY <1>3, <2>1 DEF Report
    <2>2. CASE \E kind \in {"start", "end"} : Request(kind)
      BY <1>3, <2>2 DEF Request
    <2>3. CASE Render \/ Navigate \/ PollRead \/ Drop
      BY <1>3, <2>3 DEF Render, Navigate, PollRead, Drop
    <2>4. CASE Fetch
      BY <1>3, <2>4 DEF Fetch, PollMerge, DetailRead, DetailMerge, RequestAnswered
    <2>5. CASE Stream
      BY <1>3, <2>5 DEF Stream, Receive, Flush, SendDone, ReceiveDone, Reconnect
    <2>6. CASE Delete \/ Deleted \/ RollBack
      BY <1>3, <2>6 DEF Delete, Deleted, RollBack
    <2>7. CASE UNCHANGED vars
      BY <1>3, <2>7 DEF vars
    <2> QED
      BY <2>1, <2>2, <2>3, <2>4, <2>5, <2>6, <2>7 DEF Next
  <1> QED
    BY <1>4 DEF Fine, Fetched

\* A known thread and its responses are there when the log has begun.
LEMMA StepAnswers ==
  ASSUME TypeOK, CacheInv, [Next]_vars
  PROVE  Answers'
  <1>1. /\ Len(log) \in Nat /\ Len(log') \in Nat /\ Len(log) <= Len(log')
        /\ log \in Seq({"start", "output", "end"})
    BY StepLog, Bounds, BoundedSeqs DEF TypeOK
  <1>2. /\ poll.at \in 0 .. Len(log) /\ detail.at \in 0 .. Len(log)
        /\ request.at \in 0 .. Len(log) /\ Answers
    BY DEF TypeOK, CacheInv
  <1>3. log # <<>> => Len(log) > 0
    BY <1>1, EmptySeq, LenProperties
  <1>4. entry' # {} => Len(log') > 0
    <2>1. CASE UNCHANGED entry
      BY <1>1, <1>2, <2>1 DEF Answers
    <2>2. CASE PollMerge
      BY <1>1, <1>2, <2>2 DEF PollMerge, WithSummary, Answers
    <2>3. CASE DetailMerge \/ RequestAnswered
      BY <1>1, <1>2, <2>3 DEF DetailMerge, RequestAnswered, Answers
    <2>4. CASE Flush
      BY <1>1, <1>2, <2>4 DEF Flush, Answers
    <2>5. CASE RollBack
      BY <1>1, <1>2, <2>5 DEF RollBack, CacheInv, SavedOlder, Answers
    <2> QED
      BY <2>1, <2>2, <2>3, <2>4, <2>5 DEF Next, vars, Report, Request, Render, Navigate,
         PollRead, Fetch, DetailRead, Stream, Receive, SendDone, ReceiveDone, Reconnect,
         Drop, Delete, Deleted
  <1>5. detail'.st = "read" => detail'.at > 0
    <2>1. CASE UNCHANGED detail
      BY <1>2, <2>1 DEF Answers
    <2>2. CASE DetailRead
      BY <1>1, <1>3, <2>2 DEF DetailRead, Read, Idle
    <2>3. CASE Render
      BY <1>2, <2>3 DEF Render, Idle, Answers
    <2>4. CASE DetailMerge
      BY <2>4 DEF DetailMerge, Idle
    <2> QED
      BY <2>1, <2>2, <2>3, <2>4 DEF Next, vars, Report, Request, Navigate, PollRead, Fetch,
         PollMerge, RequestAnswered, Stream, Receive, Flush, SendDone, ReceiveDone,
         Reconnect, Drop, Delete, Deleted, RollBack
  <1>6. request' # Idle => request'.at > 0
    <2>1. CASE UNCHANGED request
      BY <1>2, <2>1 DEF Answers
    <2>2. ASSUME NEW kind \in {"start", "end"}, Request(kind)
          PROVE  request'.at > 0
      <3>1. request'.at = Len(log') /\ log' = log \o <<kind>>
        BY <2>2 DEF Request
      <3>2. Len(log') = Len(log) + 1
        <4>1. <<kind>> \in Seq({"start", "output", "end"}) /\ Len(<<kind>>) = 1
          OBVIOUS
        <4> QED
          BY <1>1, <3>1, <4>1, ConcatProperties
      <3> QED
        BY <1>1, <3>1, <3>2
    <2>3. CASE RequestAnswered
      BY <2>3 DEF RequestAnswered
    <2> QED
      BY <2>1, <2>2, <2>3 DEF Next, vars, Report, Render, Navigate, PollRead, Fetch,
         PollMerge, DetailRead, DetailMerge, Stream, Receive, Flush, SendDone, ReceiveDone,
         Reconnect, Drop, Delete, Deleted, RollBack
  <1> QED
    BY <1>4, <1>5, <1>6 DEF Answers

\* The index holds what is in the cache, and nothing that it did not hold.
LEMMA Synchronizes ==
  ASSUME NEW t \in Tails, NEW events \in Seq(Nat), Increasing(events)
  PROVE  LET r == Synchronized(t, events)
         IN /\ r \in Tails /\ r.stream = t.stream /\ r.cursor = t.cursor
            /\ r.pending = t.pending
            /\ ToSet(events) \subseteq r.ids /\ r.ids \subseteq t.ids \cup ToSet(events)
  <1>1. Len(events) \in Nat /\ LastId(events) \in Nat /\ ToSet(events) \subseteq Nat
    BY Elements, LastElement
  <1>2. PICK ids \in {ToSet(events), t.ids \cup ToSet(events)} :
          Synchronized(t, events) = [t EXCEPT !.ids = ids, !.count = Len(events),
                                             !.boundary = LastId(events)]
    BY DEF Synchronized
  <1>3. ids \in SUBSET Nat
    BY <1>1 DEF Tails
  <1>4. t = [stream |-> t.stream, cursor |-> t.cursor, pending |-> t.pending, ids |-> t.ids,
             count |-> t.count, boundary |-> t.boundary]
    BY DEF Tails
  <1> DEFINE r == [stream |-> t.stream, cursor |-> t.cursor, pending |-> t.pending,
                   ids |-> ids, count |-> Len(events), boundary |-> LastId(events)]
  <1>5. Synchronized(t, events) = r
    BY <1>2, <1>4
  <1>6. r \in Tails
    BY <1>1, <1>3 DEF Tails
  <1> QED
    BY <1>2, <1>5, <1>6

\* What is left to hold when there is nothing any more.
LEMMA Empties ==
  ASSUME NEW t \in Tails
  PROVE  LET r == [t EXCEPT !.pending = <<>>]
         IN /\ r \in Tails /\ r.stream = t.stream /\ r.cursor = t.cursor
            /\ r.pending = <<>> /\ r.ids = t.ids
  BY EmptyElements DEF Tails

\* Where a stream begins.
LEMMA Begins ==
  ASSUME NEW t \in Tails, NEW c \in Nat
  PROVE  LET r == [t EXCEPT !.stream = "open", !.cursor = c]
         IN /\ r \in Tails /\ r.stream = "open" /\ r.cursor = c
            /\ r.pending = t.pending /\ r.ids = t.ids
  BY DEF Tails

LEMMA UnmountedTail ==
  /\ Unmounted \in Tails /\ Unmounted.stream = "none" /\ Unmounted.cursor = 0
  /\ Unmounted.pending = <<>> /\ Unmounted.ids = {}
  <1>1. <<>> \in Seq(Nat) /\ {} \in SUBSET Nat
    BY EmptyElements
  <1> QED
    BY <1>1 DEF Unmounted, Tails

\* The stream runs after the last event in the cache.
LEMMA Mounts ==
  ASSUME NEW e \in entry, entry = {e}, Transcript(e), Len(log) \in Nat
  PROVE  /\ Mount \in Tails /\ Mount.stream = "open" /\ Mount.cursor = LastId(e.events)
         /\ Mount.pending = <<>> /\ Mount.ids = ToSet(e.events)
  <1> DEFINE c == LastId(e.events)
             t == [Unmounted EXCEPT !.stream = "open", !.cursor = c]
  <1>1. c \in Nat
    BY LastEvent
  <1>2. e = CHOOSE x \in entry : TRUE
    OBVIOUS
  <1>3. Mount = Synchronized(t, e.events)
    BY <1>2, Zenon DEF Mount
  <1> HIDE DEF c
  <1>4. /\ t \in Tails /\ t.stream = "open" /\ t.cursor = c /\ t.pending = <<>>
        /\ t.ids = {}
    BY <1>1, UnmountedTail, Begins
  <1>5. e.events \in Seq(Nat) /\ Increasing(e.events)
    BY DEF Transcript
  <1> HIDE DEF t
  <1> QED
    BY <1>3, <1>4, <1>5, Synchronizes DEF c

\* The stream's state: what it holds back it has received, from the log.
Streamed ==
  /\ Buffered
  /\ tail.cursor \in 0 .. Len(log) /\ ToSet(tail.pending) \subseteq 1 .. tail.cursor
  /\ tail.stream = "none" => tail = Unmounted

\* An event is received.
LEMMA Receives ==
  ASSUME TypeOK, CacheInv, Receive
  PROVE  /\ tail'.stream = tail.stream /\ tail' \in Tails /\ tail'.ids = tail.ids
         /\ tail.stream = "open" /\ tail.cursor \in Nat /\ Len(log) \in Nat
         /\ tail'.cursor = tail.cursor + 1 /\ tail'.cursor <= Len(log)
         /\ Increasing(tail'.pending)
         /\ ToSet(tail'.pending) = ToSet(tail.pending) \cup {tail.cursor + 1}
            \/ /\ ToSet(tail'.pending) = ToSet(tail.pending)
               /\ tail.cursor + 1 \in tail.ids \cup ToSet(tail.pending)
  <1> DEFINE id == tail.cursor + 1
  <1>1. /\ tail \in Tails /\ Increasing(tail.pending) /\ tail.pending \in Seq(Nat)
        /\ tail.cursor \in Nat /\ id \in Nat /\ Len(log) \in Nat
        /\ ToSet(tail.pending) \subseteq 1 .. tail.cursor /\ tail.cursor < Len(log)
    BY BoundedSeqs, Bounds, LenProperties DEF CacheInv, Buffered, TypeOK, Tails, Receive
  <1>2. PICK q \in {tail.pending, Append(tail.pending, id)} :
          /\ tail' = [tail EXCEPT !.cursor = id, !.pending = q]
          /\ q = tail.pending => id \in tail.ids \cup ToSet(tail.pending)
                                 \/ q = Append(tail.pending, id)
    BY DEF Receive
  <1>3. /\ Append(tail.pending, id) \in Seq(Nat) /\ Increasing(Append(tail.pending, id))
        /\ ToSet(Append(tail.pending, id)) = ToSet(tail.pending) \cup {id}
    <2>1. \A y \in ToSet(tail.pending) : y < id
      BY <1>1
    <2> HIDE DEF id
    <2> QED
      BY <1>1, <2>1, AppendElements
  <1>4. q \in Seq(Nat) /\ Increasing(q)
    BY <1>1, <1>2, <1>3
  <1> HIDE DEF id
  <1>5. /\ tail'.stream = tail.stream /\ tail' \in Tails /\ tail'.ids = tail.ids
        /\ tail'.cursor = id /\ tail'.pending = q
    BY <1>1, <1>2, <1>4 DEF Tails
  <1>6. \/ ToSet(q) = ToSet(tail.pending) \cup {id}
        \/ ToSet(q) = ToSet(tail.pending) /\ id \in tail.ids \cup ToSet(tail.pending)
    BY <1>2, <1>3
  <1>7. id = tail.cursor + 1 /\ id <= Len(log)
    BY <1>1 DEF id
  <1> QED
    BY <1>1, <1>4, <1>5, <1>6, <1>7 DEF Receive

\* The cache is brought up to date, and nothing is held back.
LEMMA Flushes ==
  ASSUME TypeOK, CacheInv, Flush
  PROVE  /\ tail' \in Tails /\ tail'.stream = tail.stream /\ tail'.cursor = tail.cursor
         /\ tail'.pending = <<>>
         /\ \/ entry = {} /\ entry' = {} /\ tail'.ids = tail.ids
            \/ \E e \in entry, known \in SUBSET Nat : \E f :
                 /\ entry = {e} /\ Transcript(e) /\ entry' = {f} /\ Transcript(f)
                 /\ ToSet(e.events) \subseteq known
                 /\ known \subseteq tail.ids \cup ToSet(e.events)
                 /\ ToSet(f.events) = ToSet(e.events) \cup (ToSet(tail.pending) \ known)
                 /\ tail'.ids \subseteq known \cup ToSet(f.events)
  <1>1. /\ tail \in Tails /\ Increasing(tail.pending) /\ tail.pending \in Seq(Nat)
        /\ tail.cursor \in 0 .. Len(log) /\ Len(log) \in Nat
        /\ ToSet(tail.pending) \subseteq 1 .. tail.cursor
    BY BoundedSeqs, Bounds, LenProperties DEF CacheInv, Buffered, TypeOK, Tails
  <1>2. CASE entry = {}
    <2>1. entry' = {} /\ tail' = [tail EXCEPT !.pending = <<>>]
      BY <1>2 DEF Flush
    <2> QED
      BY <1>1, <1>2, <2>1, Empties
  <1>3. CASE entry # {}
    <2>1. PICK e \in entry :
            LET known  == Synchronized(tail, e.events)
                merged == Applied(e, Without(tail.pending, known.ids))
            IN /\ entry' = {merged}
               /\ tail' = [Synchronized(known, merged.events) EXCEPT !.pending = <<>>]
      BY <1>3 DEF Flush
    <2> DEFINE known == Synchronized(tail, e.events)
               w     == Without(tail.pending, known.ids)
               f     == Applied(e, w)
               last  == Synchronized(known, f.events)
    <2>2. /\ entry = {e} /\ Transcript(e) /\ e.events \in Seq(Nat) /\ Increasing(e.events)
          /\ ToSet(e.events) \subseteq 1 .. Len(log)
      BY DEF CacheInv, Ordered, Cached, Transcript
    <2>3. tail.stream # "none"
      BY DEF Flush, TypeOK, Unmounted
    <2>4. /\ Missing(e) \cap ToSet(tail.pending) = {}
      BY <2>3 DEF CacheInv, MissingPassed, Mounted, Cached
    <2>5. entry' = {f} /\ tail' = [last EXCEPT !.pending = <<>>]
      BY <2>1
    <2>6. /\ known \in Tails /\ known.stream = tail.stream /\ known.cursor = tail.cursor
          /\ ToSet(e.events) \subseteq known.ids
          /\ known.ids \subseteq tail.ids \cup ToSet(e.events)
      BY <1>1, <2>2, Synchronizes
    <2> HIDE DEF known
    <2>7. /\ w \in Seq(Nat) /\ Increasing(w) /\ ToSet(w) = ToSet(tail.pending) \ known.ids
      BY <1>1, WithoutElements
    <2> HIDE DEF w
    <2>8. ASSUME NEW x \in ToSet(e.events), NEW y \in ToSet(w)
          PROVE  x < y
      <3>1. y \in Nat /\ y > 0 /\ y \notin Missing(e) /\ y \notin ToSet(e.events)
        BY <1>1, <2>4, <2>6, <2>7
      <3>2. LastId(e.events) \in Nat /\ x <= LastId(e.events) /\ x \in Nat
        BY <1>1, <2>2, LastEvent
      <3>3. ~ (y <= LastId(e.events))
        BY <3>1, <3>2 DEF Missing
      <3> QED
        BY <3>1, <3>2, <3>3
    <2>9. Transcript(f) /\ ToSet(f.events) = ToSet(e.events) \cup ToSet(w)
      BY <1>1, <2>2, <2>7, <2>8, AppliedEvents
    <2> HIDE DEF f
    <2>10. /\ last \in Tails /\ last.stream = tail.stream /\ last.cursor = tail.cursor
           /\ last.ids \subseteq known.ids \cup ToSet(f.events)
      BY <2>6, <2>9, Synchronizes DEF Transcript
    <2> HIDE DEF last
    <2>11. /\ tail' \in Tails /\ tail'.stream = tail.stream /\ tail'.cursor = tail.cursor
           /\ tail'.pending = <<>> /\ tail'.ids = last.ids
      BY <2>5, <2>10, Empties
    <2>12. known.ids \in SUBSET Nat
      BY <2>6 DEF Tails
    <2> QED
      BY <2>2, <2>5, <2>6, <2>7, <2>9, <2>10, <2>11, <2>12
  <1> QED
    BY <1>2, <1>3

\* A stream that is opened, ended or broken stays what it was otherwise.
LEMMA Restreams ==
  ASSUME tail \in Tails, NEW s \in {"open", "connecting", "done", "closed"},
         tail' = [tail EXCEPT !.stream = s]
  PROVE  /\ tail' \in Tails /\ tail'.stream = s /\ tail'.cursor = tail.cursor
         /\ tail'.pending = tail.pending /\ tail'.ids = tail.ids
  BY DEF Tails

\* What the numbers of the log and of the stream are.
LEMMA Numbers ==
  ASSUME TypeOK, CacheInv, [Next]_vars
  PROVE  /\ Len(log) \in Nat /\ Len(log') \in Nat /\ Len(log) <= Len(log')
         /\ tail \in Tails /\ Streamed /\ Ordered
         /\ Mounted => tail.stream # "none"
         /\ ~ Mounted => tail.cursor = 0 /\ tail.pending = <<>> /\ tail.ids = {}
  BY StepLog, UnmountedTail DEF TypeOK, CacheInv, Buffered, Streamed, Mounted

LEMMA StepStreamed ==
  ASSUME TypeOK, CacheInv, [Next]_vars
  PROVE  Streamed'
  <1>0. /\ Len(log) \in Nat /\ Len(log') \in Nat /\ Len(log) <= Len(log')
        /\ \A x \in 0 .. Len(log) : x \in 0 .. Len(log')
        /\ tail \in Tails /\ Streamed
    BY Numbers
  <1>1. UNCHANGED tail => Streamed'
    BY <1>0 DEF Streamed, Buffered
  <1>2. ASSUME NEW s \in {"open", "connecting", "done", "closed"}, UNCHANGED log,
               tail' = [tail EXCEPT !.stream = s]
        PROVE  Streamed'
    BY <1>0, <1>2, Restreams DEF Streamed, Buffered
  <1>3. CASE Render
    <2>1. CASE tail' = Unmounted
      BY <1>0, <2>1, UnmountedTail, EmptyElements DEF Streamed, Buffered
    <2>2. CASE tail' = Mount /\ Tailing
      <3>1. PICK e \in entry : entry = {e} /\ Transcript(e)
        BY <2>2 DEF Tailing, Open, CacheInv, Ordered, Cached
      <3>2. /\ Mount \in Tails /\ Mount.stream = "open" /\ Mount.cursor = LastId(e.events)
            /\ Mount.pending = <<>>
        BY <1>0, <3>1, Mounts
      <3>3. LastId(e.events) \in 0 .. Len(log)
        BY <1>0, <3>1, LastEvent
      <3> QED
        BY <1>0, <2>2, <3>2, <3>3, EmptyElements DEF Streamed, Buffered
    <2>3. CASE UNCHANGED tail
      BY <1>1, <2>3
    <2> QED
      BY <1>3, <2>1, <2>2, <2>3 DEF Render
  <1>4. CASE Receive
    <2>1. /\ tail'.stream = "open" /\ tail' \in Tails
          /\ tail.cursor \in Nat /\ Len(log) \in Nat
          /\ tail'.cursor = tail.cursor + 1 /\ tail'.cursor <= Len(log)
          /\ Increasing(tail'.pending)
          /\ ToSet(tail'.pending) \subseteq ToSet(tail.pending) \cup {tail.cursor + 1}
      BY <1>4, Receives
    <2>2. ToSet(tail.pending) \subseteq 1 .. tail.cursor /\ UNCHANGED log
      BY <1>0, <1>4 DEF Streamed, Receive
    <2>3. ToSet(tail'.pending) \subseteq 1 .. tail'.cursor
      BY <2>1, <2>2
    <2> QED
      BY <2>1, <2>2, <2>3 DEF Streamed, Buffered
  <1>5. CASE Flush
    <2>1. /\ tail' \in Tails /\ tail'.stream = tail.stream /\ tail'.cursor = tail.cursor
          /\ tail'.pending = <<>>
      BY <1>5, Flushes
    <2>2. tail.stream # "none" /\ UNCHANGED log
      BY <1>0, <1>5, UnmountedTail DEF Flush, Streamed
    <2> QED
      BY <1>0, <2>1, <2>2, EmptyElements DEF Streamed, Buffered
  <1>6. CASE SendDone \/ ReceiveDone \/ Reconnect \/ Drop
    BY <1>2, <1>6 DEF SendDone, ReceiveDone, Reconnect, Drop
  <1> QED
    BY <1>1, <1>3, <1>4, <1>5, <1>6 DEF Next, vars, Report, Request, Navigate, PollRead,
       Fetch, PollMerge, DetailRead, DetailMerge, RequestAnswered, Stream, Delete, Deleted,
       RollBack

-----------------------------------------------------------------------------
(* What is cached.                                                         *)

Coherent == Ordered /\ MissingPassed /\ SavedOlder /\ Whole

\* Transcripts stay transcripts.
LEMMA StaysTranscript ==
  ASSUME TypeOK, CacheInv, [Next]_vars, NEW e, Transcript(e)
  PROVE  Transcript(e)'
  BY Numbers DEF Transcript

\* The stream holds what it held, and neither the cache nor what is saved changes, but
\* that it may be forgotten.
LEMMA Settles ==
  ASSUME TypeOK, CacheInv, [Next]_vars, UNCHANGED entry, saved' = saved \/ saved' = {},
         Mounted' => Mounted, tail'.cursor = tail.cursor, tail'.pending = tail.pending,
         tail'.ids = tail.ids,
         saved' # {} /\ poll' # Idle => poll' = poll \/ poll'.at > 0
  PROVE  Coherent'
  <1>1. Ordered'
    BY StaysTranscript DEF CacheInv, Ordered, Cached
  <1>2. MissingPassed'
    BY DEF CacheInv, MissingPassed, Cached, Missing
  <1>3. SavedOlder'
    BY DEF CacheInv, SavedOlder
  <1>4. Whole'
    BY StepHappened DEF CacheInv, Whole, Missing
  <1> QED
    BY <1>1, <1>2, <1>3, <1>4 DEF Coherent

\* The cached transcript is replaced by one that follows it.
LEMMA Replaces ==
  ASSUME TypeOK, CacheInv, [Next]_vars, NEW f, Transcript(f), entry' = {f},
         entry = {} => Missing(f) = {}, \A e \in entry : Follows(f, e),
         UNCHANGED <<tail, saved>>, poll' = Idle \/ poll' = poll
  PROVE  Coherent'
  <1>0. /\ \A e \in Cached : Transcript(e) /\ LastId(e.events) \in Nat
        /\ LastId(f.events) \in Nat
    BY Numbers, LastEvent DEF Ordered
  <1>1. Ordered'
    BY StaysTranscript DEF CacheInv, Ordered, Cached
  <1>2. MissingPassed'
    <2> SUFFICES ASSUME Mounted, NEW e \in {f} \cup saved
                 PROVE  /\ Missing(e) \subseteq 1 .. tail.cursor
                        /\ Missing(e) \cap ToSet(tail.pending) = {}
      BY DEF MissingPassed, Mounted, Cached, Missing
    <2>1. CASE e \in saved
      BY <2>1 DEF CacheInv, MissingPassed, Cached
    <2>2. CASE e = f /\ entry = {}
      BY <2>2
    <2>3. CASE e = f /\ entry # {}
      <3>1. PICK g \in entry : Missing(f) \subseteq Missing(g)
        BY <2>3 DEF Follows
      <3> QED
        BY <2>3, <3>1 DEF CacheInv, MissingPassed, Cached
    <2> QED
      BY <2>1, <2>2, <2>3
  <1>3. SavedOlder'
    <2> SUFFICES ASSUME saved # {}
                 PROVE  /\ "rollback" \in Possible
                        /\ poll' # Idle => poll'.at > 0
                        /\ \A g \in saved : LastId(g.events) <= LastId(f.events)
      BY DEF SavedOlder
    <2>1. /\ "rollback" \in Possible /\ entry # {}
          /\ poll # Idle => poll.at > 0
          /\ \A g \in saved, e \in entry : LastId(g.events) <= LastId(e.events)
      BY DEF CacheInv, SavedOlder
    <2>2. ASSUME NEW g \in saved PROVE LastId(g.events) <= LastId(f.events)
      <3>1. PICK e \in entry : LastId(e.events) <= LastId(f.events)
        BY <2>1 DEF Follows
      <3>2. LastId(g.events) <= LastId(e.events)
        BY <2>1
      <3>3. /\ LastId(g.events) \in Nat /\ LastId(e.events) \in Nat /\ LastId(f.events) \in Nat
        BY <1>0 DEF Cached
      <3> QED
        BY <3>1, <3>2, <3>3
    <2> QED
      BY <2>1, <2>2
  <1>4. Whole'
    <2> SUFFICES ASSUME happened' \cap {"rollback", "behind"} = {}
                 PROVE  /\ Missing(f) = {}
                        /\ 1 .. tail.cursor \subseteq ToSet(f.events) \cup ToSet(tail.pending)
                        /\ tail.ids \subseteq ToSet(f.events)
      BY DEF Whole, Missing
    <2>1. /\ Mounted => entry # {}
          /\ \A e \in entry :
               /\ Missing(e) = {}
               /\ 1 .. tail.cursor \subseteq ToSet(e.events) \cup ToSet(tail.pending)
               /\ tail.ids \subseteq ToSet(e.events)
      BY StepHappened DEF CacheInv, Whole
    <2>2. CASE entry = {}
      BY <2>1, <2>2, Numbers
    <2>3. CASE entry # {}
      BY <2>1, <2>3 DEF Follows
    <2> QED
      BY <2>2, <2>3
  <1> QED
    BY <1>1, <1>2, <1>3, <1>4 DEF Coherent

\* A snapshot of the thread follows what is cached of it.
LEMMA Snapshots ==
  ASSUME TypeOK, CacheInv, [Next]_vars, NEW n \in 0 .. Len(log), entry' = WithSnapshot(n),
         UNCHANGED <<tail, saved, poll>>
  PROVE  Coherent'
  <1>0. n \in Nat /\ n <= Len(log) /\ Len(log) \in Nat
    BY Numbers
  <1> DEFINE p == [events |-> Prefix(n), status |-> StatusAt(n)]
  <1>1. CASE entry = {}
    <2>1. entry' = {p}
      BY <1>1 DEF WithSnapshot
    <2>2. Transcript(p) /\ Missing(p) = {}
      BY <1>0, SnapshotAlone
    <2> HIDE DEF p
    <2> QED
      BY <1>1, <2>1, <2>2, Replaces
  <1>2. CASE entry # {}
    <2>1. PICK e \in entry : entry = {e} /\ Transcript(e)
      BY <1>2 DEF CacheInv, Ordered, Cached
    <2> DEFINE f == Applied(p, Without(e.events, 1 .. n))
    <2>2. entry' = {f}
      BY <2>1 DEF WithSnapshot
    <2>3. Transcript(f) /\ Follows(f, e)
      BY <1>0, <2>1, SnapshotAnd
    <2> HIDE DEF f, p
    <2> QED
      BY <2>1, <2>2, <2>3, Replaces
  <1> QED
    BY <1>1, <1>2

\* A summary adds no event.
LEMMA Summaries ==
  ASSUME TypeOK, CacheInv, [Next]_vars, PollMerge
  PROVE  Coherent'
  <1>0. /\ poll.at \in 0 .. Len(log) /\ Len(log) \in Nat /\ poll' = Idle
        /\ UNCHANGED <<tail, saved>>
        /\ entry' = WithSummary(poll.at) /\ poll # Idle
    BY Numbers DEF TypeOK, PollMerge
  <1>1. CASE poll.at = 0
    <2>1. entry' = {} /\ saved' = {}
      BY <1>0, <1>1 DEF WithSummary, CacheInv, SavedOlder
    <2>2. entry # {} => "behind" \in happened'
      BY <2>1 DEF PollMerge, Note
    <2>3. Ordered' /\ MissingPassed' /\ SavedOlder'
      BY <2>1 DEF Ordered, MissingPassed, SavedOlder, Cached
    <2>4. Whole'
      BY <1>0, <2>1, <2>2, StepHappened DEF CacheInv, Whole, Mounted
    <2> QED
      BY <2>3, <2>4 DEF Coherent
  <1>2. CASE poll.at # 0 /\ entry = {}
    <2> DEFINE f == [events |-> <<>>, status |-> StatusAt(poll.at)]
    <2>1. entry' = {f}
      BY <1>0, <1>2 DEF WithSummary
    <2>2. Transcript(f) /\ Missing(f) = {}
      <3>1. f.events = <<>> /\ f.status \in {"running", "over"}
        BY StatusTypes
      <3>2. Transcript(f)
        BY <3>1, EmptyElements DEF Transcript
      <3>3. 1 .. LastId(f.events) = {}
        BY <3>1, EmptyElements
      <3> QED
        BY <3>2, <3>3 DEF Missing
    <2> HIDE DEF f
    <2> QED
      BY <1>0, <1>2, <2>1, <2>2, Replaces
  <1>3. CASE poll.at # 0 /\ entry # {}
    <2>1. PICK e \in entry : entry = {e} /\ Transcript(e)
      BY <1>3 DEF CacheInv, Ordered, Cached
    <2>2. PICK f \in {e, [e EXCEPT !.status = StatusAt(poll.at)]} : entry' = {f}
      BY <1>0, <1>3, <2>1 DEF WithSummary
    <2>3. f.events = e.events /\ Transcript(f)
      BY <2>1, <2>2, StatusTypes DEF Transcript
    <2>4. LastId(e.events) \in Nat
      BY <1>0, <2>1, LastEvent
    <2>5. Follows(f, e)
      BY <2>3, <2>4 DEF Follows, Missing
    <2> QED
      BY <1>0, <2>1, <2>2, <2>3, <2>5, Replaces
  <1> QED
    BY <1>1, <1>2, <1>3

\* A stream is opened or closed.
LEMMA Renders ==
  ASSUME TypeOK, CacheInv, [Next]_vars, Render
  PROVE  Coherent'
  <1>0. UNCHANGED <<log, entry, saved, poll, happened>> /\ Len(log) \in Nat
    BY Numbers DEF Render, used
  <1>1. CASE UNCHANGED tail
    BY <1>0, <1>1, Settles DEF Mounted
  <1>a. Ordered' /\ SavedOlder'
    BY <1>0 DEF CacheInv, Ordered, SavedOlder, Cached, Transcript
  <1>2. CASE tail' = Unmounted
    <2>1. ~ Mounted' /\ tail'.cursor = 0 /\ tail'.ids = {}
      BY <1>2, UnmountedTail DEF Mounted
    <2>2. MissingPassed'
      BY <2>1 DEF MissingPassed
    <2>3. Whole'
      BY <1>0, <2>1 DEF CacheInv, Whole, Missing
    <2> QED
      BY <1>a, <2>2, <2>3 DEF Coherent
  <1>3. CASE tail' = Mount /\ Tailing
    <2>1. PICK e \in entry : entry = {e} /\ Transcript(e)
      BY <1>3 DEF Tailing, Open, CacheInv, Ordered, Cached
    <2>2. /\ tail'.cursor = LastId(e.events) /\ tail'.pending = <<>>
          /\ tail'.ids = ToSet(e.events) /\ ToSet(tail'.pending) = {}
      BY <1>0, <1>3, <2>1, Mounts, EmptyElements
    <2>3. MissingPassed'
      <3> SUFFICES ASSUME NEW f \in Cached
                   PROVE  Missing(f) \subseteq 1 .. tail'.cursor
        BY <1>0, <2>2 DEF MissingPassed, Cached, Missing
      <3>1. LastId(f.events) \in Nat /\ LastId(e.events) \in Nat
        BY <1>0, <2>1, LastEvent DEF CacheInv, Ordered
      <3>2. LastId(f.events) <= LastId(e.events)
        BY <2>1, <3>1 DEF Cached, CacheInv, SavedOlder
      <3> QED
        BY <2>2, <3>1, <3>2 DEF Missing
    <2>4. Whole'
      <3> SUFFICES ASSUME happened \cap {"rollback", "behind"} = {}
                   PROVE  /\ Missing(e) = {}
                          /\ 1 .. tail'.cursor \subseteq ToSet(e.events) \cup ToSet(tail'.pending)
                          /\ tail'.ids \subseteq ToSet(e.events)
        BY <1>0, <2>1 DEF Whole, Missing
      <3>1. Missing(e) = {}
        BY DEF CacheInv, Whole
      <3>2. 1 .. LastId(e.events) \subseteq ToSet(e.events)
        BY <3>1 DEF Missing
      <3> QED
        BY <2>2, <3>1, <3>2
    <2> QED
      BY <1>a, <2>3, <2>4 DEF Coherent
  <1> QED
    BY <1>1, <1>2, <1>3 DEF Render

\* What is received is next, and is held back unless it is known.
LEMMA ReceivesNext ==
  ASSUME TypeOK, CacheInv, [Next]_vars, Receive
  PROVE  Coherent'
  <1>0. UNCHANGED <<log, entry, saved, poll, happened>>
    BY DEF Receive, used
  <1>a. Ordered' /\ SavedOlder'
    BY <1>0 DEF CacheInv, Ordered, SavedOlder, Cached, Transcript
  <1> DEFINE id == tail.cursor + 1
  <1>1. /\ tail'.stream = tail.stream /\ tail'.ids = tail.ids
        /\ tail.cursor \in Nat /\ tail'.cursor = id /\ id \in Nat /\ id \notin 1 .. tail.cursor
        /\ 1 .. id = 1 .. tail.cursor \cup {id}
        /\ ToSet(tail'.pending) \subseteq ToSet(tail.pending) \cup {id}
        /\ ToSet(tail.pending) \subseteq ToSet(tail'.pending)
        /\ id \in tail.ids \cup ToSet(tail'.pending)
    BY Receives
  <1> HIDE DEF id
  <1>2. MissingPassed'
    <2> SUFFICES ASSUME Mounted, NEW e \in Cached
                 PROVE  /\ Missing(e) \subseteq 1 .. id
                        /\ Missing(e) \cap ToSet(tail'.pending) = {}
      BY <1>0, <1>1 DEF MissingPassed, Mounted, Cached, Missing
    <2>1. Missing(e) \subseteq 1 .. tail.cursor /\ Missing(e) \cap ToSet(tail.pending) = {}
      BY DEF CacheInv, MissingPassed
    <2> QED
      BY <1>1, <2>1
  <1>3. Whole'
    <2> SUFFICES ASSUME happened \cap {"rollback", "behind"} = {}
                 PROVE  /\ Mounted => entry # {}
                        /\ \A e \in entry :
                             /\ Missing(e) = {}
                             /\ 1 .. id \subseteq ToSet(e.events) \cup ToSet(tail'.pending)
                             /\ tail.ids \subseteq ToSet(e.events)
      BY <1>0, <1>1 DEF Whole, Mounted, Missing
    <2>1. /\ Mounted => entry # {}
          /\ \A e \in entry :
               /\ Missing(e) = {}
               /\ 1 .. tail.cursor \subseteq ToSet(e.events) \cup ToSet(tail.pending)
               /\ tail.ids \subseteq ToSet(e.events)
      BY DEF CacheInv, Whole
    <2> QED
      BY <1>1, <2>1
  <1> QED
    BY <1>a, <1>2, <1>3 DEF Coherent

\* What was held back follows what is cached, and completes it.
LEMMA FlushesAll ==
  ASSUME TypeOK, CacheInv, [Next]_vars, Flush
  PROVE  Coherent'
  <1>0. UNCHANGED <<log, saved, poll, happened>> /\ Len(log) \in Nat /\ Len(log') \in Nat
    BY Numbers DEF Flush, used
  <1>1. /\ tail'.stream = tail.stream /\ tail'.cursor = tail.cursor /\ tail'.pending = <<>>
        /\ ToSet(tail'.pending) = {} /\ tail.cursor \in Nat
        /\ ToSet(tail.pending) \subseteq 1 .. tail.cursor /\ Mounted
    BY Numbers, Flushes, EmptyElements, UnmountedTail DEF Streamed, Tails, Flush, Mounted
  <1>2. CASE entry = {}
    <2>1. entry' = {} /\ saved' = {}
      BY <1>0, <1>2, Flushes DEF CacheInv, SavedOlder
    <2>2. Ordered' /\ MissingPassed' /\ SavedOlder'
      BY <2>1 DEF Ordered, MissingPassed, SavedOlder, Cached
    <2>3. Whole'
      BY <1>0, <1>1, <1>2, <2>1 DEF CacheInv, Whole
    <2> QED
      BY <2>2, <2>3 DEF Coherent
  <1>3. CASE entry # {}
    <2>0. PICK e \in entry, known \in SUBSET Nat : \E f :
            /\ entry = {e} /\ Transcript(e) /\ entry' = {f} /\ Transcript(f)
            /\ ToSet(e.events) \subseteq known
            /\ known \subseteq tail.ids \cup ToSet(e.events)
            /\ ToSet(f.events) = ToSet(e.events) \cup (ToSet(tail.pending) \ known)
            /\ tail'.ids \subseteq known \cup ToSet(f.events)
      BY <1>3, Flushes
    <2>1. PICK f :
            /\ entry = {e} /\ Transcript(e) /\ entry' = {f} /\ Transcript(f)
            /\ ToSet(e.events) \subseteq known
            /\ known \subseteq tail.ids \cup ToSet(e.events)
            /\ ToSet(f.events) = ToSet(e.events) \cup (ToSet(tail.pending) \ known)
            /\ tail'.ids \subseteq known \cup ToSet(f.events)
      BY <2>0
    <2>2. /\ LastId(e.events) \in Nat /\ LastId(f.events) \in Nat
          /\ LastId(e.events) = 0 \/ LastId(e.events) \in ToSet(e.events)
          /\ LastId(f.events) = 0 \/ LastId(f.events) \in ToSet(f.events)
          /\ \A x \in ToSet(f.events) : x <= LastId(f.events)
          /\ \A x \in ToSet(e.events) : x <= LastId(e.events)
      BY <1>0, <2>1, LastEvent
    <2>3. LastId(e.events) <= LastId(f.events)
      BY <2>1, <2>2
    <2>4. Ordered'
      BY <1>0, <2>1, StaysTranscript DEF CacheInv, Ordered, Cached
    <2>5. MissingPassed'
      <3> SUFFICES ASSUME NEW g \in {f} \cup saved
                   PROVE  Missing(g) \subseteq 1 .. tail.cursor
        BY <1>0, <1>1, <2>1 DEF MissingPassed, Cached, Missing
      <3>1. \A h \in Cached : Missing(h) \subseteq 1 .. tail.cursor
        BY <1>1 DEF CacheInv, MissingPassed
      <3>2. CASE g \in saved
        BY <3>1, <3>2 DEF Cached
      <3>3. CASE g = f
        <4> SUFFICES ASSUME NEW x \in Missing(f) PROVE x \in 1 .. tail.cursor
          BY <3>3
        <4>1. x \in Nat /\ x > 0 /\ x <= LastId(f.events) /\ x \notin ToSet(e.events)
          BY <2>1, <2>2 DEF Missing
        <4>2. CASE LastId(f.events) \in ToSet(e.events)
          <5>1. x <= LastId(e.events)
            BY <2>2, <4>1, <4>2
          <5>2. x \in Missing(e)
            BY <2>2, <4>1, <5>1 DEF Missing
          <5> QED
            BY <3>1, <5>2 DEF Cached
        <4>3. CASE LastId(f.events) \in ToSet(tail.pending)
          <5>1. LastId(f.events) <= tail.cursor
            BY <1>1, <4>3
          <5> QED
            BY <1>1, <2>2, <4>1, <5>1
        <4> QED
          BY <2>1, <2>2, <4>1, <4>2, <4>3
      <3> QED
        BY <3>2, <3>3
    <2>6. SavedOlder'
      <3> SUFFICES ASSUME saved # {}
                   PROVE  /\ "rollback" \in Possible
                          /\ poll # Idle => poll.at > 0
                          /\ \A g \in saved : LastId(g.events) <= LastId(f.events)
        BY <1>0, <2>1 DEF SavedOlder
      <3>1. /\ "rollback" \in Possible
            /\ poll # Idle => poll.at > 0
            /\ \A g \in saved : LastId(g.events) <= LastId(e.events)
        BY DEF CacheInv, SavedOlder
      <3>2. \A g \in saved : LastId(g.events) \in Nat
        BY <1>0, LastEvent DEF CacheInv, Ordered, Cached
      <3> QED
        BY <2>2, <2>3, <3>1, <3>2
    <2>7. Whole'
      <3> SUFFICES ASSUME happened \cap {"rollback", "behind"} = {}
                   PROVE  /\ Missing(f) = {}
                          /\ 1 .. tail.cursor \subseteq ToSet(f.events)
                          /\ tail'.ids \subseteq ToSet(f.events)
        BY <1>0, <1>1, <2>1 DEF Whole, Missing
      <3>1. /\ Missing(e) = {}
            /\ 1 .. tail.cursor \subseteq ToSet(e.events) \cup ToSet(tail.pending)
            /\ tail.ids \subseteq ToSet(e.events)
        BY DEF CacheInv, Whole
      <3>2. /\ known = ToSet(e.events)
            /\ ToSet(f.events) = ToSet(e.events) \cup ToSet(tail.pending)
        BY <2>1, <3>1
      <3>3. Missing(f) = {}
        <4> SUFFICES ASSUME NEW x \in Missing(f) PROVE FALSE
          OBVIOUS
        <4>1. x \in Nat /\ x > 0 /\ x <= LastId(f.events) /\ x \notin ToSet(e.events)
              /\ x \notin ToSet(tail.pending)
          BY <2>2, <3>2 DEF Missing
        <4>2. x \notin 1 .. tail.cursor
          BY <3>1, <4>1
        <4>3. x <= LastId(e.events)
          <5>1. LastId(f.events) \notin ToSet(tail.pending)
            BY <1>1, <2>2, <4>1, <4>2
          <5> QED
            BY <2>2, <3>2, <4>1, <5>1
        <4> QED
          BY <2>2, <3>1, <4>1, <4>3 DEF Missing
      <3> QED
        BY <2>1, <3>1, <3>2, <3>3
    <2> QED
      BY <2>4, <2>5, <2>6, <2>7 DEF Coherent
  <1> QED
    BY <1>2, <1>3

\* The list is saved, and put back.
LEMMA Saves ==
  ASSUME TypeOK, CacheInv, [Next]_vars, Delete \/ RollBack
  PROVE  Coherent'
  <1>0. Len(log) \in Nat /\ UNCHANGED <<log, tail>>
    BY Numbers DEF Delete, RollBack
  <1>1. CASE Delete
    <2>1. /\ UNCHANGED <<entry, happened>> /\ saved' = entry /\ poll' = Idle
          /\ "rollback" \in Possible /\ entry # {}
      BY <1>1 DEF Delete
    <2>2. Ordered'
      BY <1>0, <2>1 DEF CacheInv, Ordered, Cached, Transcript
    <2>3. MissingPassed'
      BY <1>0, <2>1 DEF CacheInv, MissingPassed, Cached, Missing, Mounted
    <2>4. SavedOlder'
      <3>1. \A f, e \in entry : LastId(f.events) <= LastId(e.events)
        <4> SUFFICES ASSUME NEW f \in entry, NEW e \in entry
                     PROVE  LastId(f.events) <= LastId(e.events)
          OBVIOUS
        <4>1. e = f /\ Transcript(e)
          BY DEF CacheInv, Ordered, Cached
        <4> QED
          BY <1>0, <4>1, LastEvent
      <3> QED
        BY <2>1, <3>1 DEF SavedOlder
    <2>5. Whole'
      BY <1>0, <2>1 DEF CacheInv, Whole, Mounted, Missing
    <2> QED
      BY <2>2, <2>3, <2>4, <2>5 DEF Coherent
  <1>2. CASE RollBack
    <2>1. entry' = saved /\ saved' = {} /\ "rollback" \in happened'
      BY <1>2 DEF RollBack
    <2>2. Ordered'
      BY <1>0, <2>1 DEF CacheInv, Ordered, Cached, Transcript
    <2>3. MissingPassed'
      BY <1>0, <2>1 DEF CacheInv, MissingPassed, Cached, Missing, Mounted
    <2>4. SavedOlder' /\ Whole'
      BY <2>1 DEF SavedOlder, Whole
    <2> QED
      BY <2>2, <2>3, <2>4 DEF Coherent
  <1> QED
    BY <1>1, <1>2

\* The stream is ended, broken or opened again.
LEMMA Restarts ==
  ASSUME TypeOK, CacheInv, [Next]_vars, SendDone \/ ReceiveDone \/ Reconnect \/ Drop
  PROVE  Coherent'
  <1>1. UNCHANGED <<entry, saved, poll>> /\ tail \in Tails
    BY Numbers DEF SendDone, ReceiveDone, Reconnect, Drop
  <1>2. PICK s \in {"open", "connecting", "done", "closed"} : tail' = [tail EXCEPT !.stream = s]
    BY DEF SendDone, ReceiveDone, Reconnect, Drop
  <1>3. Mounted
    BY DEF SendDone, ReceiveDone, Reconnect, Drop, Mounted
  <1> QED
    BY <1>1, <1>2, <1>3, Restreams, Settles

\* Every step keeps what is cached in order, and whole.
LEMMA StepCoherent ==
  ASSUME TypeOK, CacheInv, [Next]_vars
  PROVE  Coherent'
  <1>0. /\ detail.at \in 0 .. Len(log) /\ request.at \in 0 .. Len(log) /\ Len(log) \in Nat
    BY Numbers DEF TypeOK
  <1>1. CASE UNCHANGED <<entry, saved, tail, poll>>
    BY <1>1, Settles DEF Mounted
  <1>2. CASE PollRead
    <2>1. UNCHANGED <<entry, saved, tail, log>> /\ poll'.at = Len(log)
      BY <1>2 DEF PollRead, Read
    <2>2. saved # {} => Len(log) > 0
      BY DEF CacheInv, SavedOlder, Answers
    <2> QED
      BY <2>1, <2>2, Settles DEF Mounted
  <1>3. CASE Deleted
    BY <1>3, Settles DEF Deleted, Mounted
  <1>4. CASE DetailMerge
    BY <1>0, <1>4, Snapshots DEF DetailMerge
  <1>5. CASE RequestAnswered
    <2>1. CASE entry' = WithSnapshot(request.at)
      BY <1>0, <1>5, <2>1, Snapshots DEF RequestAnswered
    <2>2. CASE UNCHANGED entry
      BY <1>1, <1>5, <2>2 DEF RequestAnswered
    <2> QED
      BY <1>5, <2>1, <2>2 DEF RequestAnswered
  <1> QED
    BY <1>1, <1>2, <1>3, <1>4, <1>5, Summaries, Renders, ReceivesNext, FlushesAll, Saves,
       Restarts DEF Next, vars, Report, Request, Navigate, Fetch, DetailRead, Stream

-----------------------------------------------------------------------------
(* The theorems.                                                           *)

\* Transcripts of a log that is bounded are entries of the cache.
LEMMA Shapes ==
  ASSUME NEW E, NEW n \in Nat, n <= MaxEvents,
         E = {} \/ \E e \in E : E = {e},
         \A e \in E : /\ e \in [events : Seq(Nat), status : {"running", "over"}]
                      /\ ToSet(e.events) \subseteq 1 .. n /\ Increasing(e.events)
  PROVE  E \subseteq Entries /\ Cardinality(E) <= 1
  <1>1. ASSUME NEW e \in E PROVE e \in Entries
    <2>1. /\ e \in [events : Seq(Nat), status : {"running", "over"}]
          /\ e.events \in Seq(Nat) /\ Increasing(e.events)
          /\ ToSet(e.events) \subseteq 1 .. n
      OBVIOUS
    <2>2. \A i \in DOMAIN e.events : i <= e.events[i] /\ e.events[i] \in 1 .. MaxEvents
      <3>1. 0 \notin ToSet(e.events)
        BY <2>1
      <3>2. \A i \in DOMAIN e.events : i <= e.events[i]
        BY <2>1, <3>1, GetsOn
      <3>3. \A i \in DOMAIN e.events : e.events[i] \in ToSet(e.events)
        BY <2>1, Elements
      <3>4. ToSet(e.events) \subseteq 1 .. MaxEvents
        BY <2>1, Bounds
      <3> QED
        BY <3>2, <3>3, <3>4
    <2>3. /\ Len(e.events) \in Nat /\ DOMAIN e.events = 1 .. Len(e.events)
          /\ e.events \in [1 .. Len(e.events) -> Nat]
      BY <2>1, LenProperties
    <2>4. Len(e.events) <= MaxEvents
      <3>1. Len(e.events) > 0 => Len(e.events) \in DOMAIN e.events
        BY <2>3
      <3> QED
        BY <2>2, <2>3, <3>1, Bounds
    <2>5. e.events \in Seq(Ids)
      <3>1. \A i \in 1 .. Len(e.events) : e.events[i] \in Ids
        BY <2>2, <2>3 DEF Ids
      <3>2. e.events \in [1 .. Len(e.events) -> Ids]
        BY <2>3, <3>1
      <3> QED
        BY <2>3, <3>2
    <2>6. e.events \in BoundedSeq(Ids, MaxEvents)
      BY <2>4, <2>5, Bounds, BoundedSeqs
    <2> QED
      BY <2>1, <2>6 DEF Entries
  <1>2. Cardinality(E) <= 1
    <2>1. CASE E = {}
      BY <2>1, FS_EmptySet
    <2>2. CASE \E e \in E : E = {e}
      <3>1. PICK e \in E : E = {e}
        BY <2>2
      <3>2. Cardinality({e}) = 1
        BY FS_Singleton
      <3> QED
        BY <3>1, <3>2
    <2> QED
      BY <2>1, <2>2
  <1> QED
    BY <1>1, <1>2

LEMMA StepTypes ==
  ASSUME TypeOK, CacheInv, [Next]_vars
  PROVE  TypeOK' /\ CacheInv'
  <1>1. Streamed' /\ Coherent' /\ Answers' /\ Fetched'
    BY StepStreamed, StepCoherent, StepAnswers, StepFetched
  <1>2. CacheInv'
    BY <1>1 DEF CacheInv, Coherent, Streamed
  <1>3. /\ log' \in BoundedSeq({"start", "output", "end"}, MaxEvents) /\ Len(log') \in Nat
        /\ Len(log') <= MaxEvents
    BY StepLog
  <1>4. entry' \subseteq Entries /\ Cardinality(entry') <= 1
    <2>1. Ordered'
      BY <1>1 DEF Coherent
    <2>2. /\ entry' = {} \/ \E e \in entry' : entry' = {e}
          /\ \A e \in entry' :
               /\ e \in [events : Seq(Nat), status : {"running", "over"}]
               /\ ToSet(e.events) \subseteq 1 .. Len(log') /\ Increasing(e.events)
      BY <2>1 DEF Ordered, Cached, Transcript
    <2> QED
      BY <1>3, <2>2, Shapes
  <1>5. /\ tail'.stream \in {"none", "open", "connecting", "done", "closed"}
        /\ tail'.cursor \in 0 .. Len(log') /\ ToSet(tail'.pending) \subseteq 1 .. tail'.cursor
        /\ tail'.stream = "none" => tail' = Unmounted
    BY <1>1 DEF Streamed, Buffered, Tails
  <1> QED
    BY <1>1, <1>2, <1>3, <1>4, <1>5, StepHappened DEF TypeOK, Fetched

\* The cache, what is on its way to it and what is saved of it, however polls, fetches,
\* answers, the stream and failed deletions interleave: TypeOK and CacheInv, of every
\* behaviour.
THEOREM CacheInvariance == Spec => [](TypeOK /\ CacheInv)
  <1>1. Init => TypeOK /\ CacheInv
    <2> SUFFICES ASSUME Init PROVE TypeOK /\ CacheInv
      OBVIOUS
    <2>1. /\ log \in BoundedSeq({"start", "output", "end"}, MaxEvents)
          /\ Len(log) \in 0 .. 1 /\ Len(log) <= MaxEvents
      <3>1. log \in Seq({"start", "output", "end"}) /\ Len(log) \in 0 .. 1
        <4>1. CASE log = <<>>
          BY <4>1
        <4>2. CASE log = <<"start">>
          BY <4>2
        <4> QED
          BY <4>1, <4>2 DEF Init
      <3>2. Len(log) <= MaxEvents
        <4>1. MaxEvents \in Nat /\ MaxEvents # 0
          BY HazardsAssumption
        <4>2. Len(log) \in 0 .. 1
          BY <3>1
        <4> QED
          BY <4>1, <4>2
      <3> QED
        BY <3>1, <3>2, Bounds, BoundedSeqs
    <2>2. Ordered /\ SavedOlder /\ Answers /\ MissingPassed
      BY UnmountedTail
         DEF Init, Ordered, SavedOlder, Answers, MissingPassed, Cached, Idle, Mounted
    <2>3. Buffered /\ Whole
      BY UnmountedTail, EmptyElements DEF Init, Buffered, Whole, Mounted
    <2>4. entry \subseteq Entries /\ Cardinality(entry) <= 1
      BY FS_EmptySet DEF Init
    <2>5. /\ tail.stream = "none" /\ tail = Unmounted /\ tail.cursor = 0
          /\ ToSet(tail.pending) = {}
      BY UnmountedTail, EmptyElements DEF Init
    <2>6. \A r \in {poll, detail, request} : r.st = "idle" /\ r.at = 0
      BY DEF Init, Idle
    <2> QED
      BY <2>1, <2>2, <2>3, <2>4, <2>5, <2>6, Bounds DEF Init, TypeOK, CacheInv
  <1>2. TypeOK /\ CacheInv /\ [Next]_vars => TypeOK' /\ CacheInv'
    BY StepTypes
  <1> QED
    BY <1>1, <1>2, PTL DEF Spec

\* The cache holds one entry of the thread at most, with events of the log only; the
\* stream holds back nothing that it has not received (useSessionEvents,
\* mergeSessionSummaries).
THEOREM TypeCorrect == Spec => []TypeOK
  BY CacheInvariance, PTL

\* The transcript has every event once, in the order of the log: what the stream held
\* back comes after all that is cached, even when deletions are rolled back
\* (mergeSessionEventsIntoSessions, mergeSessionSnapshotIntoSessions).
THEOREM KeepsOrder == Spec => []InOrder
  <1>1. TypeOK /\ CacheInv => InOrder
    BY DEF CacheInv, Ordered, Cached, Transcript, Increasing, InOrder
  <1> QED
    BY <1>1, CacheInvariance, PTL

\* The transcript is all of the log up to its last event, unless a deletion failed or a
\* poll dropped the thread: what was received is cached or held back until it is, and
\* the stream is opened after the last cached event (useSessionEvents,
\* SessionEventIdIndex, mergeSessionSnapshotIntoSessions).
THEOREM LeavesNoGap == Spec => []NoGap
  <1>1. TypeOK /\ CacheInv => NoGap
    <2> SUFFICES ASSUME TypeOK, CacheInv, happened \cap {"rollback", "behind"} = {},
                        NEW e \in entry
                 PROVE  e.events = Prefix(Len(e.events))
      BY DEF NoGap
    <2>1. Len(log) \in Nat
      BY BoundedSeqs, Bounds, LenProperties DEF TypeOK
    <2>2. /\ Transcript(e) /\ e.events \in Seq(Nat) /\ Increasing(e.events)
          /\ Missing(e) = {}
      BY DEF CacheInv, Whole, Ordered, Cached, Transcript
    <2>3. /\ LastId(e.events) \in Nat
          /\ \A x \in ToSet(e.events) : x <= LastId(e.events) /\ x \in Nat /\ x > 0
      BY <2>1, <2>2, LastEvent
    <2>4. ToSet(e.events) = 1 .. LastId(e.events)
      <3>1. ToSet(e.events) \subseteq 1 .. LastId(e.events)
        BY <2>3
      <3>2. 1 .. LastId(e.events) \subseteq ToSet(e.events)
        BY <2>2 DEF Missing
      <3> QED
        BY <3>1, <3>2
    <2> QED
      BY <2>2, <2>3, <2>4, LacksNothing
  <1> QED
    BY <1>1, CacheInvariance, PTL

=============================================================================
