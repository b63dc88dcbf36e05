--------------------------- MODULE Integrity_proofs --------------------------
(***************************************************************************)
(* Proofs about the integrity plane.                                       *)
(*                                                                         *)
(* The tree: its root commits to the logs and their order; every audit     *)
(* path and every consistency proof that the program makes is accepted,    *)
(* and what is accepted is true, for trees of any size.                    *)
(*                                                                         *)
(* The auditor: for blocks of any size and any sequence of edits, an audit *)
(* passes exactly when logs, order and digests are those that were         *)
(* flushed, and isolates exactly the rows the `tamper` command changed.    *)
(***************************************************************************)
EXTENDS Tamper, Histories, FiniteSetTheorems, SequenceTheorems, WellFoundedInduction, TLAPS

-----------------------------------------------------------------------------
(* Induction, for a set of numbers.                                        *)

\* Among the numbers for which something fails there is a least one.
LEMMA LeastMember ==
  ASSUME NEW S, S \subseteq Nat, S # {}
  PROVE  \E p \in S : \A q \in S : p <= q
<1> DEFINE below == {1..n : n \in S}
<1>1. below \subseteq FiniteSubsetsOf(Nat) /\ below # {}
  <2>1. \A n \in S : n \in Int /\ IsFiniteSet(1..n)
    BY FS_Interval
  <2>2. \A n \in S : 1..n \in FiniteSubsetsOf(Nat)
    BY <2>1 DEF FiniteSubsetsOf
  <2> QED
    BY <2>2
<1>2. PICK b \in below : \A c \in below : ~(<<c, b>> \in StrictSubsetOrdering(Nat))
  BY <1>1, FS_StrictSubsetOrderingWellFounded, WFMin
<1>3. PICK p \in S : b = 1..p
  BY <1>2
<1>4. \A q \in S : p <= q
  <2> SUFFICES ASSUME NEW q \in S, q < p PROVE FALSE
    OBVIOUS
  <2>1. 1..q \in SUBSET Nat /\ 1..p \in SUBSET Nat /\ 1..q \subseteq 1..p
    OBVIOUS
  <2>2. p \in 1..p /\ p \notin 1..q
    OBVIOUS
  <2>3. <<1..q, 1..p>> \in StrictSubsetOrdering(Nat)
    BY <2>1, <2>2 DEF StrictSubsetOrdering
  <2> QED
    BY <1>2, <1>3, <2>3
<1> QED
  BY <1>4

\* What holds of a number when it holds of those below holds of all.
LEMMA FromBelow ==
  ASSUME NEW S, \A n \in Nat : (\A m \in 0..(n - 1) : m \in S) => n \in S
  PROVE  Nat \subseteq S
<1> SUFFICES ASSUME Nat \ S # {} PROVE FALSE
  OBVIOUS
<1>1. PICK p \in Nat \ S : \A q \in Nat \ S : p <= q
  <2>1. Nat \ S \subseteq Nat
    OBVIOUS
  <2> QED
    BY <2>1, LeastMember
<1>2. ASSUME NEW m \in 0..(p - 1) PROVE m \in S
  BY <1>1
<1> QED
  BY <1>1, <1>2

-----------------------------------------------------------------------------
(* Powers of two.                                                          *)

\* A function that is twice as large at each number as at the one before exists.
LEMMA ShlExists == \E f : f = [e \in Nat |-> IF e = 0 THEN 1 ELSE 2 * f[e - 1]]
<1> DEFINE Doubles(f, n) == \A e \in 0..n : f[e] = IF e = 0 THEN 1 ELSE 2 * f[e - 1]
           S == {n \in Nat : \E f : Doubles(f, n)}
<1>1. ASSUME NEW n \in Nat, \A m \in 0..(n - 1) : m \in S PROVE n \in S
  <2>1. CASE n = 0
    <3>1. Doubles([e \in {0} |-> 1], n)
      BY <2>1
    <3> QED
      BY <3>1
  <2>2. CASE n # 0
    <3>1. n - 1 \in 0..(n - 1) /\ n - 1 \in Nat
      BY <2>2
    <3>2. PICK g : Doubles(g, n - 1)
      BY <1>1, <3>1
    <3> DEFINE f == [e \in 0..n |-> IF e = n THEN 2 * g[n - 1] ELSE g[e]]
    <3>3. f[n] = 2 * g[n - 1] /\ \A e \in 0..(n - 1) : f[e] = g[e]
      OBVIOUS
    <3> HIDE DEF f
    <3>4. ASSUME NEW e \in 0..n PROVE f[e] = IF e = 0 THEN 1 ELSE 2 * f[e - 1]
      <4>1. CASE e = n
        BY <2>2, <3>1, <3>3, <4>1
      <4>2. CASE e # n
        <5>1. e \in 0..(n - 1) /\ (e # 0 => e - 1 \in 0..(n - 1))
          BY <4>2
        <5>2. g[e] = IF e = 0 THEN 1 ELSE 2 * g[e - 1]
          BY <3>2, <5>1
        <5> QED
          BY <3>3, <5>1, <5>2
      <4> QED
        BY <4>1, <4>2
    <3>5. Doubles(f, n)
      BY <3>4
    <3> QED
      BY <3>5
  <2> QED
    BY <2>1, <2>2
<1>2. \A n \in Nat : \E f : Doubles(f, n)
  <2> HIDE DEF Doubles
  <2>1. Nat \subseteq S
    <3> HIDE DEF S
    <3> QED
      BY <1>1, FromBelow
  <2> QED
    BY <2>1
\* Any two such functions agree where both are defined.
<1>3. ASSUME NEW f, NEW g, NEW n \in Nat, NEW p \in Nat, Doubles(f, n), Doubles(g, p)
      PROVE  \A e \in Nat : e <= n /\ e <= p => f[e] = g[e]
  <2> DEFINE T == {e \in Nat : e <= n /\ e <= p => f[e] = g[e]}
  <2>1. ASSUME NEW e \in Nat, \A m \in 0..(e - 1) : m \in T PROVE e \in T
    <3> SUFFICES ASSUME e <= n, e <= p PROVE f[e] = g[e]
      OBVIOUS
    <3>1. e \in 0..n /\ e \in 0..p
      OBVIOUS
    <3>2. CASE e = 0
      BY <1>3, <3>1, <3>2
    <3>3. CASE e # 0
      <4>1. e - 1 \in 0..(e - 1)
        BY <3>3
      <4>2. f[e - 1] = g[e - 1]
        BY <2>1, <4>1
      <4> QED
        BY <1>3, <3>1, <3>3, <4>2
    <3> QED
      BY <3>2, <3>3
  <2>2. Nat \subseteq T
    <3> HIDE DEF T
    <3> QED
      BY <2>1, FromBelow
  <2> QED
    BY <2>2
<1> DEFINE upto(n) == CHOOSE f : Doubles(f, n)
           F == [n \in Nat |-> upto(n)[n]]
<1>4. \A n \in Nat : Doubles(upto(n), n)
  <2> HIDE DEF Doubles
  <2> QED
    BY <1>2
<1> HIDE DEF upto
<1>5. ASSUME NEW e \in Nat PROVE F[e] = IF e = 0 THEN 1 ELSE 2 * F[e - 1]
  <2>1. F[e] = upto(e)[e] /\ e \in 0..e
    OBVIOUS
  <2>2. upto(e)[e] = IF e = 0 THEN 1 ELSE 2 * upto(e)[e - 1]
    BY <1>4, <2>1
  <2>3. CASE e = 0
    BY <2>1, <2>2, <2>3
  <2>4. CASE e # 0
    <3>1. e - 1 \in Nat /\ e - 1 <= e
      BY <2>4
    <3>2. Doubles(upto(e), e) /\ Doubles(upto(e - 1), e - 1)
      BY <1>4, <3>1
    <3> HIDE DEF Doubles
    <3>3. upto(e)[e - 1] = upto(e - 1)[e - 1]
      BY <1>3, <3>1, <3>2
    <3>4. F[e - 1] = upto(e - 1)[e - 1]
      BY <3>1
    <3> QED
      BY <2>1, <2>2, <2>4, <3>3, <3>4
  <2> QED
    BY <2>3, <2>4
<1>6. F = [e \in Nat |-> IF e = 0 THEN 1 ELSE 2 * F[e - 1]]
  <2>1. DOMAIN F = Nat /\ F = [e \in Nat |-> F[e]]
    OBVIOUS
  <2> HIDE DEF F
  <2> QED
    BY <1>5, <2>1
<1> QED
  BY <1>6

LEMMA ShlSteps ==
  /\ Shl[0] = 1
  /\ \A e \in Nat : Shl[e + 1] = 2 * Shl[e]
  /\ \A e \in Nat : Shl[e] \in Nat \ {0}
<1> DEFINE f == Shl
<1>1. f = [e \in Nat |-> IF e = 0 THEN 1 ELSE 2 * f[e - 1]]
  BY ShlExists DEF Shl
<1> HIDE DEF f
<1>2. f[0] = 1 /\ \A e \in Nat : f[e + 1] = 2 * f[e]
  <2>1. 0 \in Nat
    OBVIOUS
  <2>2. f[0] = 1
    BY <1>1, <2>1
  <2>3. ASSUME NEW e \in Nat PROVE f[e + 1] = 2 * f[e]
    <3>1. e + 1 \in Nat /\ e + 1 # 0 /\ (e + 1) - 1 = e
      OBVIOUS
    <3>2. f[e + 1] = IF e + 1 = 0 THEN 1 ELSE 2 * f[(e + 1) - 1]
      BY <1>1, <3>1
    <3> QED
      BY <3>1, <3>2
  <2> QED
    BY <2>2, <2>3
<1> DEFINE S == {e \in Nat : f[e] \in Nat \ {0}}
<1>3. ASSUME NEW e \in Nat, \A m \in 0..(e - 1) : m \in S PROVE e \in S
  <2>1. CASE e = 0
    BY <1>2, <2>1
  <2>2. CASE e # 0
    <3>1. e - 1 \in 0..(e - 1) /\ e - 1 \in Nat /\ (e - 1) + 1 = e
      BY <2>2
    <3>2. f[e - 1] \in Nat \ {0} /\ f[e] = 2 * f[e - 1]
      BY <1>2, <1>3, <3>1
    <3> QED
      BY <3>2
  <2> QED
    BY <2>1, <2>2
<1>4. Nat \subseteq S
  <2> HIDE DEF S
  <2> QED
    BY <1>3, FromBelow
<1> QED
  BY <1>2, <1>4 DEF f

\* Powers of two grow, and outgrow their exponents.
LEMMA ShlGrows ==
  /\ \A d, e \in Nat : d < e => Shl[d] < Shl[e]
  /\ \A e \in Nat : e < Shl[e]
<1> DEFINE S == {e \in Nat : e < Shl[e] /\ \A d \in Nat : d < e => Shl[d] < Shl[e]}
<1>1. ASSUME NEW e \in Nat, \A m \in 0..(e - 1) : m \in S PROVE e \in S
  <2>1. CASE e = 0
    BY <2>1, ShlSteps
  <2>2. CASE e # 0
    <3>1. e - 1 \in 0..(e - 1) /\ e - 1 \in Nat /\ (e - 1) + 1 = e
      BY <2>2
    <3>2. Shl[e - 1] \in Nat \ {0} /\ Shl[e] = 2 * Shl[e - 1]
      BY <3>1, ShlSteps
    <3>3. e - 1 < Shl[e - 1] /\ \A d \in Nat : d < e - 1 => Shl[d] < Shl[e - 1]
      BY <1>1, <3>1
    <3>4. ASSUME NEW d \in Nat, d < e PROVE Shl[d] < Shl[e]
      <4>1. Shl[d] \in Nat /\ (d = e - 1 \/ d < e - 1)
        BY <3>4, ShlSteps
      <4> QED
        BY <3>2, <3>3, <4>1
    <3> QED
      BY <3>2, <3>3, <3>4
  <2> QED
    BY <2>1, <2>2
<1>2. Nat \subseteq S
  <2> HIDE DEF S
  <2> QED
    BY <1>1, FromBelow
<1> QED
  BY <1>2

\* The top bit is where it should be, and nothing else is there.
LEMMA TopBitIs ==
  ASSUME NEW x \in Nat \ {0}
  PROVE  /\ TopBit(x) \in Nat /\ Shl[TopBit(x)] <= x /\ x < Shl[TopBit(x) + 1]
         /\ \A e \in Nat : Shl[e] <= x /\ x < Shl[e + 1] => e = TopBit(x)
<1> DEFINE S == {e \in Nat : x < Shl[e + 1]}
           Top(e) == Shl[e] <= x /\ x < Shl[e + 1]
<1>1. x \in S
  <2>1. x < Shl[x] /\ Shl[x] < Shl[x + 1] /\ Shl[x] \in Nat /\ Shl[x + 1] \in Nat
    BY ShlGrows, ShlSteps
  <2> QED
    BY <2>1
<1>2. PICK e \in S : \A d \in S : e <= d
  <2>1. S \subseteq Nat
    OBVIOUS
  <2> HIDE DEF S
  <2> QED
    BY <1>1, <2>1, LeastMember
<1>3. e \in 0..x /\ Top(e)
  <2>1. e <= x /\ e \in Nat /\ x < Shl[e + 1]
    BY <1>1, <1>2
  <2>2. Shl[e] <= x
    <3>1. CASE e = 0
      BY <3>1, ShlSteps
    <3>2. CASE e # 0
      <4>1. e - 1 \in Nat /\ (e - 1) + 1 = e /\ ~(e <= e - 1)
        BY <2>1, <3>2
      <4>2. e - 1 \notin S
        BY <1>2, <4>1
      <4>3. ~(x < Shl[e]) /\ Shl[e] \in Nat
        BY <2>1, <4>1, <4>2, ShlSteps
      <4> QED
        BY <4>3
    <3> QED
      BY <3>1, <3>2
  <2> QED
    BY <2>1, <2>2
<1>4. TopBit(x) \in 0..x /\ Top(TopBit(x))
  <2>1. TopBit(x) = CHOOSE d \in 0..x : Top(d)
    BY DEF TopBit
  <2> HIDE DEF Top
  <2> QED
    BY <1>3, <2>1
<1>5. ASSUME NEW c \in Nat, NEW d \in Nat, Top(c), Top(d) PROVE ~(c < d)
  <2> SUFFICES ASSUME c < d PROVE FALSE
    OBVIOUS
  <2>1. /\ Shl[c + 1] \in Nat /\ Shl[d] \in Nat
        /\ (c + 1 = d \/ c + 1 < d) /\ c + 1 \in Nat
    BY ShlSteps
  <2>2. Shl[c + 1] <= Shl[d]
    BY <2>1, ShlGrows
  <2> QED
    BY <1>5, <2>1, <2>2
<1>6. ASSUME NEW d \in Nat, Top(d) PROVE d = TopBit(x)
  <2>1. TopBit(x) \in Nat
    BY <1>4
  <2>2. ~(d < TopBit(x)) /\ ~(TopBit(x) < d)
    BY <1>4, <1>5, <1>6, <2>1
  <2> QED
    BY <2>1, <2>2
<1> QED
  BY <1>4, <1>6

Split(n) == largest_power_of_two_less_than(n)

\* k < n <= 2k, as the comment says; and every size above k up to n is split there too.
LEMMA SplitIs ==
  ASSUME NEW n \in Nat, n > 1
  PROVE  /\ Split(n) \in 1..(n - 1) /\ n - Split(n) \in 1..(n - 1)
         /\ n <= 2 * Split(n)
         /\ \A m \in Nat : Split(n) < m /\ m <= n => m > 1 /\ Split(m) = Split(n)
<1> DEFINE e == TopBit(n - 1)
<1>1. n - 1 \in Nat \ {0}
  OBVIOUS
<1>2. e \in Nat /\ Shl[e] <= n - 1 /\ n - 1 < Shl[e + 1] /\ Split(n) = Shl[e]
  BY <1>1, TopBitIs DEF Split, largest_power_of_two_less_than
<1> HIDE DEF e
<1>3. Shl[e] \in Nat \ {0} /\ Shl[e + 1] = 2 * Shl[e]
  BY <1>2, ShlSteps
<1>4. ASSUME NEW m \in Nat, Split(n) < m, m <= n PROVE m > 1 /\ Split(m) = Split(n)
  <2>1. m > 1 /\ m - 1 \in Nat \ {0} /\ Shl[e] <= m - 1 /\ m - 1 < Shl[e + 1]
    BY <1>2, <1>3, <1>4
  <2>2. TopBit(m - 1) = e
    BY <1>2, <2>1, TopBitIs
  <2> QED
    BY <1>2, <2>1, <2>2 DEF Split, largest_power_of_two_less_than
<1> QED
  BY <1>2, <1>3, <1>4

\* The two parts are lower than the whole.
LEMMA PartsAreLower ==
  ASSUME NEW n \in Nat, n > 1, NEW p \in {Split(n), n - Split(n)}, p > 1
  PROVE  TopBit(p - 1) \in Nat /\ TopBit(p - 1) < TopBit(n - 1)
<1> DEFINE e == TopBit(n - 1)
           d == TopBit(p - 1)
<1>1. n - 1 \in Nat \ {0} /\ Split(n) \in Nat /\ p \in Nat /\ p - 1 \in Nat \ {0} /\ p <= Split(n)
  BY SplitIs
<1>2. e \in Nat /\ Split(n) = Shl[e]
  BY <1>1, TopBitIs DEF Split, largest_power_of_two_less_than
<1>3. d \in Nat /\ Shl[d] <= p - 1
  BY <1>1, TopBitIs
<1> HIDE DEF e, d
<1>4. Shl[d] < Shl[e] /\ Shl[d] \in Nat /\ Shl[e] \in Nat
  BY <1>1, <1>2, <1>3, ShlSteps
<1>5. ~(e <= d)
  BY <1>2, <1>3, <1>4, ShlGrows
<1> QED
  BY <1>2, <1>3, <1>5 DEF e, d

-----------------------------------------------------------------------------
(* Trees.                                                                  *)

\* One step of build_subtree.
Subtree(leaves, hash, n) ==
  IF n = 1 THEN [lo \in Slices(leaves, 1) |-> leaves[lo + 1]]
  ELSE Joined(leaves, n, Split(n), hash[Split(n)], hash[n - Split(n)])

\* The hashes of slices of up to n leaves, given those of shorter ones.
TreeTo(f, leaves, n) == [i \in 1..n |-> Subtree(leaves, f, i)]

LEMMA TreeExists ==
  ASSUME NEW leaves, NEW n \in Nat
  PROVE  \E f : f = TreeTo(f, leaves, n)
<1> DEFINE S == {l \in Nat : \E f : f = [i \in 1..l |-> Subtree(leaves, f, i)]}
<1>1. ASSUME NEW l \in Nat, \A j \in 0..(l - 1) : j \in S PROVE l \in S
  <2>1. CASE l = 0
    <3> DEFINE f == [i \in 1..l |-> 0]
    <3>1. f = [i \in 1..l |-> Subtree(leaves, f, i)]
      BY <2>1
    <3> QED
      BY <3>1
  <2>2. CASE l # 0
    <3>1. l - 1 \in 0..(l - 1) /\ l \in 1..l /\ l \notin 1..(l - 1)
          /\ \A i \in 1..l : i = l \/ i \in 1..(l - 1)
      BY <2>2
    <3>2. PICK g : g = [i \in 1..(l - 1) |-> Subtree(leaves, g, i)]
      BY <1>1, <3>1
    <3> DEFINE v == Subtree(leaves, g, l)
    <3> HIDE DEF v
    <3> DEFINE f == [i \in 1..l |-> IF i = l THEN v ELSE g[i]]
    <3>3. f = [i \in 1..l |-> f[i]] /\ f[l] = v /\ \A i \in 1..(l - 1) : f[i] = g[i]
      BY <3>1
    <3> HIDE DEF f
    <3>4. ASSUME NEW i \in 1..l PROVE f[i] = Subtree(leaves, f, i)
      <4>1. Subtree(leaves, f, i) = Subtree(leaves, g, i)
        <5>1. CASE i = 1
          BY <5>1 DEF Subtree
        <5>2. CASE i # 1
          <6>1. Split(i) \in 1..(i - 1) /\ i - Split(i) \in 1..(i - 1)
            BY <5>2, SplitIs
          <6> DEFINE k == Split(i)
          <6>3. k \in 1..(l - 1) /\ i - k \in 1..(l - 1)
            BY <6>1
          <6>2. f[Split(i)] = g[Split(i)] /\ f[i - Split(i)] = g[i - Split(i)]
            BY <3>3, <6>3
          <6> QED
            BY <6>2 DEF Subtree
        <5> QED
          BY <5>1, <5>2
      <4>2. i = l \/ (g[i] = Subtree(leaves, g, i) /\ f[i] = g[i])
        BY <3>1, <3>2, <3>3
      <4> QED
        BY <3>3, <4>1, <4>2 DEF v
    <3>5. f = [i \in 1..l |-> Subtree(leaves, f, i)]
      BY <3>3, <3>4
    <3> QED
      BY <3>5
  <2> QED
    BY <2>1, <2>2
<1>2. Nat \subseteq S
  <2> HIDE DEF S
  <2> QED
    BY <1>1, FromBelow
<1>3. PICK f : f = [i \in 1..n |-> Subtree(leaves, f, i)]
  BY <1>2
<1>4. f = TreeTo(f, leaves, n)
  BY <1>3 DEF TreeTo
<1> QED
  BY <1>4

\* The tree over n leaves from lo on.
LEMMA TreeSteps ==
  ASSUME NEW leaves, Len(leaves) \in Nat
  PROVE  /\ Len(leaves) > 0 =>
              \A lo \in Slices(leaves, 1) : build_subtree(leaves)[1][lo] = leaves[lo + 1]
         /\ \A n \in 2..Len(leaves) : \A lo \in Slices(leaves, n) :
              build_subtree(leaves)[n][lo]
                = hash_children(build_subtree(leaves)[Split(n)][lo],
                                build_subtree(leaves)[n - Split(n)][lo + Split(n)])
<1> DEFINE hash == build_subtree(leaves)
<1>1. hash = [n \in 1..Len(leaves) |-> Subtree(leaves, hash, n)]
  <2>1. hash = CHOOSE f : f = TreeTo(f, leaves, Len(leaves))
    BY Zenon DEF build_subtree, TreeTo, Subtree, Split
  <2>2. \E f : f = TreeTo(f, leaves, Len(leaves))
    BY TreeExists
  <2> HIDE DEF hash
  <2>3. hash = TreeTo(hash, leaves, Len(leaves))
    BY <2>1, <2>2
  <2> QED
    BY <2>3 DEF TreeTo
<1> HIDE DEF hash
<1>2. ASSUME NEW lo \in Slices(leaves, 1), Len(leaves) > 0 PROVE hash[1][lo] = leaves[lo + 1]
  <2>1. hash[1] = [i \in Slices(leaves, 1) |-> leaves[i + 1]]
    BY <1>1, <1>2 DEF Subtree
  <2> QED
    BY <2>1
<1>3. ASSUME NEW n \in 2..Len(leaves), NEW lo \in Slices(leaves, n)
      PROVE  hash[n][lo] = hash_children(hash[Split(n)][lo], hash[n - Split(n)][lo + Split(n)])
  <2>1. hash[n] = Joined(leaves, n, Split(n), hash[Split(n)], hash[n - Split(n)])
    BY <1>1 DEF Subtree
  <2> QED
    BY <2>1 DEF Joined
<1> QED
  BY <1>2, <1>3 DEF hash

-----------------------------------------------------------------------------
(* Hashes.                                                                 *)

\* One token before a sequence.
LEMMA Prefixed ==
  ASSUME NEW S, NEW p \in Seq(S), Len(p) = 1, NEW s \in Seq(S)
  PROVE  /\ Len(s) \in Nat /\ Len(p \o s) = 1 + Len(s)
         /\ (p \o s)[1] = p[1]
         /\ \A i \in 1..Len(s) : (p \o s)[i + 1] = s[i]
<1>1. /\ Len(s) \in Nat /\ Len(p \o s) = 1 + Len(s)
      /\ \A i \in 1..(1 + Len(s)) : (p \o s)[i] = IF i <= 1 THEN p[i] ELSE s[i - 1]
  <2>1. /\ Len(p \o s) = Len(p) + Len(s)
        /\ \A i \in 1..(Len(p) + Len(s)) : (p \o s)[i] = IF i <= Len(p) THEN p[i] ELSE s[i - Len(p)]
    BY ConcatProperties
  <2> QED
    BY <2>1, LenProperties
<1>2. ASSUME NEW i \in 1..Len(s) PROVE (p \o s)[i + 1] = s[i]
  <2>1. i + 1 \in 1..(1 + Len(s)) /\ ~(i + 1 <= 1) /\ (i + 1) - 1 = i
    BY <1>1
  <2> QED
    BY <1>1, <2>1
<1>3. (p \o s)[1] = p[1]
  <2>1. 1 \in 1..(1 + Len(s))
    BY <1>1
  <2> QED
    BY <1>1, <2>1
<1> QED
  BY <1>1, <1>2, <1>3

\* Hashes tell what they were made of.
LEMMA ChildrenApart ==
  ASSUME NEW l, NEW r, NEW s, NEW t, hash_children(l, r) = hash_children(s, t)
  PROVE  l = s /\ r = t
<1>1. NODE_PREFIX \o <<l, r>> = NODE_PREFIX \o <<s, t>>
  BY DEF hash_children, Sha256
<1>2. ASSUME NEW x, NEW y
      PROVE  (NODE_PREFIX \o <<x, y>>)[2] = x /\ (NODE_PREFIX \o <<x, y>>)[3] = y
  <2> DEFINE All == {[byte |-> "0x01"], x, y}
  <2>1. NODE_PREFIX \in Seq(All) /\ Len(NODE_PREFIX) = 1
    BY DEF NODE_PREFIX
  <2>2. <<x, y>> \in Seq(All) /\ Len(<<x, y>>) = 2 /\ <<x, y>>[1] = x /\ <<x, y>>[2] = y
    OBVIOUS
  <2> HIDE DEF All
  <2> DEFINE q == <<x, y>>
  <2>3. \A i \in 1..2 : (NODE_PREFIX \o q)[i + 1] = q[i]
    <3> HIDE DEF q
    <3> QED
      BY <2>1, <2>2, Prefixed DEF q
  <2> DEFINE w == NODE_PREFIX \o q
  <2> HIDE DEF w
  <2>4. w[2] = x /\ w[3] = y
    <3>1. 1 \in 1..2 /\ 2 \in 1..2 /\ 1 + 1 = 2 /\ 2 + 1 = 3
      OBVIOUS
    <3>2. w[1 + 1] = q[1] /\ w[2 + 1] = q[2]
      BY <2>3, <3>1 DEF w
    <3> QED
      BY <2>2, <3>1, <3>2
  <2> QED
    BY <2>4 DEF w
<1> QED
  BY <1>1, <1>2

LEMMA LeavesApart ==
  ASSUME NEW c \in Seq(Bytes), NEW d \in Seq(Bytes), hash_leaf(c) = hash_leaf(d)
  PROVE  c = d
<1>1. LEAF_PREFIX \o c = LEAF_PREFIX \o d
  BY DEF hash_leaf, Sha256
<1> DEFINE All == Bytes \cup {[byte |-> "0x00"]}
<1>2. LEAF_PREFIX \in Seq(All) /\ Len(LEAF_PREFIX) = 1
  BY DEF LEAF_PREFIX
<1>3. c \in Seq(All) /\ d \in Seq(All)
  OBVIOUS
<1> HIDE DEF All
<1>4. ASSUME NEW s \in Seq(All)
      PROVE  /\ Len(s) \in Nat /\ Len(LEAF_PREFIX \o s) = 1 + Len(s)
             /\ \A i \in 1..Len(s) : (LEAF_PREFIX \o s)[i + 1] = s[i]
  BY <1>2, Prefixed
<1>5. Len(c) = Len(d)
  <2>1. Len(c) \in Nat /\ Len(d) \in Nat /\ 1 + Len(c) = 1 + Len(d)
    BY <1>1, <1>3, <1>4
  <2> QED
    BY <2>1
<1>6. ASSUME NEW i \in 1..Len(c) PROVE c[i] = d[i]
  BY <1>1, <1>3, <1>4, <1>5
<1> QED
  BY <1>5, <1>6

\* The prefixes keep leaves and inner nodes apart, whatever a log spells.
LEMMA LeafIsNoNode ==
  ASSUME NEW d \in Seq(Bytes), NEW l, NEW r
  PROVE  hash_leaf(d) # hash_children(l, r)
<1> SUFFICES ASSUME hash_leaf(d) = hash_children(l, r) PROVE FALSE
  OBVIOUS
<1>1. LEAF_PREFIX \o d = NODE_PREFIX \o <<l, r>>
  BY DEF hash_leaf, hash_children, Sha256
<1> DEFINE All == Bytes \cup {[byte |-> "0x00"]}
<1>2. (LEAF_PREFIX \o d)[1] = [byte |-> "0x00"]
  <2>1. LEAF_PREFIX \in Seq(All) /\ d \in Seq(All) /\ Len(LEAF_PREFIX) = 1 /\ LEAF_PREFIX[1] = [byte |-> "0x00"]
    BY DEF LEAF_PREFIX
  <2> HIDE DEF All
  <2> QED
    BY <2>1, Prefixed
<1>3. (NODE_PREFIX \o <<l, r>>)[1] = [byte |-> "0x01"]
  BY DEF NODE_PREFIX
<1>4. [byte |-> "0x00"] # [byte |-> "0x01"]
  <2>1. [byte |-> "0x00"].byte # [byte |-> "0x01"].byte
    OBVIOUS
  <2> QED
    BY <2>1
<1> QED
  BY <1>1, <1>2, <1>3, <1>4

-----------------------------------------------------------------------------
(* What roots commit to.                                                   *)

\* The hash of the n logs from position lo (0-based) on.
Span(raw, n, lo) == build_subtree(LeafHashes(raw))[n][lo]

\* The n logs of raw after lo are those of sec after mo.
Agree(raw, sec, lo, mo, n) == \A i \in 1..n : raw[lo + i] = sec[mo + i]

LEMMA LeafHashesOf ==
  ASSUME NEW raw \in Seq(RawLogs)
  PROVE  /\ Len(raw) \in Nat /\ Len(LeafHashes(raw)) = Len(raw)
         /\ \A n : Slices(LeafHashes(raw), n) = 0..(Len(raw) - n)
         /\ \A i \in 1..Len(raw) : LeafHashes(raw)[i] = hash_leaf(raw[i]) /\ raw[i] \in Seq(Bytes)
<1>1. Len(raw) \in Nat /\ DOMAIN raw = 1..Len(raw) /\ \A i \in 1..Len(raw) : raw[i] \in RawLogs
  BY LenProperties, ElementOfSeq
<1>2. LeafHashes(raw) = [i \in 1..Len(raw) |-> hash_leaf(raw[i])]
  BY <1>1 DEF LeafHashes
<1>3. Len(LeafHashes(raw)) = Len(raw)
  BY <1>1, <1>2
<1> QED
  BY <1>1, <1>2, <1>3, MerkleAssumption DEF Slices

LEMMA SpanSteps ==
  ASSUME NEW raw \in Seq(RawLogs)
  PROVE  /\ Len(raw) > 0 =>
              \A lo \in 0..(Len(raw) - 1) : Span(raw, 1, lo) = hash_leaf(raw[lo + 1])
         /\ \A n \in 2..Len(raw) : \A lo \in 0..(Len(raw) - n) :
              Span(raw, n, lo)
                = hash_children(Span(raw, Split(n), lo), Span(raw, n - Split(n), lo + Split(n)))
<1> DEFINE leaves == LeafHashes(raw)
<1>1. /\ Len(leaves) = Len(raw) /\ Len(raw) \in Nat
      /\ \A n : Slices(leaves, n) = 0..(Len(raw) - n)
      /\ \A i \in 1..Len(raw) : leaves[i] = hash_leaf(raw[i])
  BY LeafHashesOf
<1> HIDE DEF leaves
<1>2. ASSUME NEW lo \in 0..(Len(raw) - 1), Len(raw) > 0
      PROVE  build_subtree(leaves)[1][lo] = hash_leaf(raw[lo + 1])
  <2>1. lo \in Slices(leaves, 1) /\ lo + 1 \in 1..Len(raw)
    BY <1>1
  <2> QED
    BY <1>1, <1>2, <2>1, TreeSteps
<1>3. ASSUME NEW n \in 2..Len(raw), NEW lo \in 0..(Len(raw) - n)
      PROVE  build_subtree(leaves)[n][lo]
               = hash_children(build_subtree(leaves)[Split(n)][lo],
                               build_subtree(leaves)[n - Split(n)][lo + Split(n)])
  <2>1. lo \in Slices(leaves, n) /\ n \in 2..Len(leaves)
    BY <1>1
  <2> QED
    BY <1>1, <2>1, TreeSteps
<1> QED
  BY <1>2, <1>3 DEF Span, leaves

\* Runs of logs agree when both their parts do.
LEMMA AgreeParts ==
  ASSUME NEW raw, NEW sec, NEW lo \in Nat, NEW mo \in Nat, NEW n \in Nat, NEW k \in 0..n
  PROVE  Agree(raw, sec, lo, mo, n)
           <=> Agree(raw, sec, lo, mo, k) /\ Agree(raw, sec, lo + k, mo + k, n - k)
<1>1. ASSUME Agree(raw, sec, lo, mo, n) PROVE Agree(raw, sec, lo, mo, k)
  BY <1>1 DEF Agree
<1>2. ASSUME Agree(raw, sec, lo, mo, n) PROVE Agree(raw, sec, lo + k, mo + k, n - k)
  <2>1. ASSUME NEW i \in 1..(n - k) PROVE raw[(lo + k) + i] = sec[(mo + k) + i]
    <3>1. k + i \in 1..n /\ (lo + k) + i = lo + (k + i) /\ (mo + k) + i = mo + (k + i)
      OBVIOUS
    <3> QED
      BY <1>2, <3>1 DEF Agree
  <2> QED
    BY <2>1 DEF Agree
<1>3. ASSUME Agree(raw, sec, lo, mo, k), Agree(raw, sec, lo + k, mo + k, n - k)
      PROVE  Agree(raw, sec, lo, mo, n)
  <2>1. ASSUME NEW i \in 1..n PROVE raw[lo + i] = sec[mo + i]
    <3>1. CASE i \in 1..k
      BY <1>3, <3>1 DEF Agree
    <3>2. CASE i \notin 1..k
      <4>1. i - k \in 1..(n - k) /\ (lo + k) + (i - k) = lo + i /\ (mo + k) + (i - k) = mo + i
        BY <3>2
      <4>2. raw[(lo + k) + (i - k)] = sec[(mo + k) + (i - k)]
        BY <1>3, <4>1 DEF Agree
      <4> QED
        BY <4>1, <4>2
    <3> QED
      BY <3>1, <3>2
  <2> QED
    BY <2>1 DEF Agree
<1> QED
  BY <1>1, <1>2, <1>3

\* Runs of one length have one hash exactly when they are the same logs.
LEMMA SameTree ==
  ASSUME NEW raw \in Seq(RawLogs), NEW sec \in Seq(RawLogs), NEW n \in Nat, n > 0,
         NEW lo \in 0..(Len(raw) - n), NEW mo \in 0..(Len(sec) - n)
  PROVE  Span(raw, n, lo) = Span(sec, n, mo) <=> Agree(raw, sec, lo, mo, n)
<1> DEFINE Same(l, x, y) == Span(raw, l, x) = Span(sec, l, y) <=> Agree(raw, sec, x, y, l)
           S == {l \in Nat : l > 0 => \A x \in 0..(Len(raw) - l), y \in 0..(Len(sec) - l) : Same(l, x, y)}
<1>0. Len(raw) \in Nat /\ Len(sec) \in Nat
  BY LenProperties
<1>1. ASSUME NEW l \in Nat, \A m \in 0..(l - 1) : m \in S PROVE l \in S
  <2> SUFFICES ASSUME l > 0, NEW x \in 0..(Len(raw) - l), NEW y \in 0..(Len(sec) - l)
               PROVE  Same(l, x, y)
    OBVIOUS
  <2>1. CASE l = 1
    <3>1. x + 1 \in 1..Len(raw) /\ y + 1 \in 1..Len(sec) /\ Len(raw) > 0 /\ Len(sec) > 0
          /\ x \in 0..(Len(raw) - 1) /\ y \in 0..(Len(sec) - 1)
      BY <1>0, <2>1
    <3>2. Span(raw, 1, x) = hash_leaf(raw[x + 1]) /\ Span(sec, 1, y) = hash_leaf(sec[y + 1])
      BY <3>1, SpanSteps
    <3>3. raw[x + 1] \in Seq(Bytes) /\ sec[y + 1] \in Seq(Bytes)
      BY <3>1, LeafHashesOf
    <3>4. Span(raw, 1, x) = Span(sec, 1, y) <=> raw[x + 1] = sec[y + 1]
      BY <3>2, <3>3, LeavesApart
    <3>5. Agree(raw, sec, x, y, 1) <=> raw[x + 1] = sec[y + 1]
      BY DEF Agree
    <3> QED
      BY <2>1, <3>4, <3>5
  <2>2. CASE l # 1
    <3> DEFINE k == Split(l)
    <3>1. k \in 1..(l - 1) /\ l - k \in 1..(l - 1)
      <4>1. l > 1
        BY <2>2
      <4> QED
        BY <4>1, SplitIs
    <3> HIDE DEF k
    <3>2. /\ x \in 0..(Len(raw) - k) /\ y \in 0..(Len(sec) - k)
          /\ x + k \in 0..(Len(raw) - (l - k)) /\ y + k \in 0..(Len(sec) - (l - k))
          /\ k \in S /\ l - k \in S /\ k > 0 /\ l - k > 0 /\ x \in Nat /\ y \in Nat /\ k \in 0..l
          /\ l \in 2..Len(raw) /\ l \in 2..Len(sec)
      <4>1. k \in 0..(l - 1) /\ l - k \in 0..(l - 1)
        BY <3>1
      <4>2. k \in S /\ l - k \in S
        <5> HIDE DEF S
        <5> QED
          BY <1>1, <4>1
      <4> HIDE DEF S
      <4> QED
        BY <1>0, <2>2, <3>1, <4>2
    <3>3. Same(k, x, y) /\ Same(l - k, x + k, y + k)
      BY <3>2
    <3>4. /\ Span(raw, l, x) = hash_children(Span(raw, k, x), Span(raw, l - k, x + k))
          /\ Span(sec, l, y) = hash_children(Span(sec, k, y), Span(sec, l - k, y + k))
      BY <3>2, SpanSteps DEF k
    <3>5. Span(raw, l, x) = Span(sec, l, y)
            <=> Span(raw, k, x) = Span(sec, k, y) /\ Span(raw, l - k, x + k) = Span(sec, l - k, y + k)
      BY <3>4, ChildrenApart
    <3>6. Agree(raw, sec, x, y, l)
            <=> Agree(raw, sec, x, y, k) /\ Agree(raw, sec, x + k, y + k, l - k)
      BY <3>2, AgreeParts
    <3> QED
      BY <3>3, <3>5, <3>6
  <2> QED
    BY <2>1, <2>2
<1>2. Nat \subseteq S
  <2> HIDE DEF S
  <2> QED
    BY <1>1, FromBelow
<1>3. Same(n, lo, mo)
  BY <1>2
<1> QED
  BY <1>3

LEMMA RootIs ==
  ASSUME NEW raw \in Seq(RawLogs)
  PROVE  from_raw_logs(raw) = IF Len(raw) = 0 THEN empty_tree_hash ELSE Span(raw, Len(raw), 0)
<1> DEFINE leaves == LeafHashes(raw)
<1>1. Len(leaves) = Len(raw) /\ Len(raw) \in Nat /\ leaves = [i \in 1..Len(raw) |-> hash_leaf(raw[i])]
  BY LeafHashesOf, LenProperties DEF LeafHashes
<1>2. leaves = <<>> <=> Len(raw) = 0
  BY <1>1
<1> QED
  BY <1>1, <1>2 DEF from_raw_logs, from_leaf_hashes, Span

\* The root of n logs commits to those logs and to their order.
THEOREM RootsInjective ==
  ASSUME NEW raw \in Seq(RawLogs), NEW sec \in Seq(RawLogs), Len(raw) = Len(sec),
         from_raw_logs(raw) = from_raw_logs(sec)
  PROVE  raw = sec
<1>1. Len(raw) \in Nat
  BY LenProperties
<1>2. ASSUME NEW i \in 1..Len(raw) PROVE raw[i] = sec[i]
  <2>1. Len(raw) > 0 /\ 0 \in 0..(Len(raw) - Len(raw)) /\ 0 \in 0..(Len(sec) - Len(raw))
    BY <1>1, <1>2
  <2>2. Span(raw, Len(raw), 0) = Span(sec, Len(raw), 0)
    BY <1>1, <2>1, RootIs
  <2>3. Agree(raw, sec, 0, 0, Len(raw))
    BY <1>1, <2>1, <2>2, SameTree
  <2> QED
    BY <1>1, <2>3 DEF Agree
<1> QED
  BY <1>1, <1>2, SeqEqual

-----------------------------------------------------------------------------
(* What an audit path proves.                                              *)

\* The hashes after the first n siblings, given the earlier ones.
ClimbedTo(f, leaf, path, n) == [i \in 0..n |-> IF i = 0 THEN leaf ELSE Climb(f[i - 1], path[i])]

LEMMA ClimbedExists ==
  ASSUME NEW leaf, NEW path, NEW n \in Nat
  PROVE  \E f : f = ClimbedTo(f, leaf, path, n)
<1> DEFINE Body(f, i) == IF i = 0 THEN leaf ELSE Climb(f[i - 1], path[i])
           S == {l \in Nat : \E f : f = [i \in 0..l |-> Body(f, i)]}
<1>1. ASSUME NEW l \in Nat, \A j \in 0..(l - 1) : j \in S PROVE l \in S
  <2>1. CASE l = 0
    <3> DEFINE f == [i \in 0..l |-> leaf]
    <3>1. f = [i \in 0..l |-> Body(f, i)]
      BY <2>1
    <3> QED
      BY <3>1
  <2>2. CASE l # 0
    <3>1. l - 1 \in 0..(l - 1) /\ l \in 0..l /\ l \notin 0..(l - 1)
          /\ \A i \in 0..l : i = l \/ i \in 0..(l - 1)
      BY <2>2
    <3>2. PICK g : g = [i \in 0..(l - 1) |-> Body(g, i)]
      BY <1>1, <3>1
    <3> DEFINE v == Body(g, l)
    <3> HIDE DEF v
    <3> DEFINE f == [i \in 0..l |-> IF i = l THEN v ELSE g[i]]
    <3>3. f = [i \in 0..l |-> f[i]] /\ f[l] = v /\ \A i \in 0..(l - 1) : f[i] = g[i]
      BY <3>1
    <3> HIDE DEF f
    <3>4. ASSUME NEW i \in 0..l PROVE f[i] = Body(f, i)
      <4>1. i # 0 => i - 1 \in 0..(l - 1)
        OBVIOUS
      <4>2. Body(f, i) = Body(g, i)
        BY <3>3, <4>1
      <4>3. i = l \/ (g[i] = Body(g, i) /\ f[i] = g[i])
        BY <3>1, <3>2, <3>3
      <4> HIDE DEF Body
      <4> QED
        BY <3>3, <4>2, <4>3 DEF v
    <3>5. f = [i \in 0..l |-> Body(f, i)]
      <4> HIDE DEF Body
      <4> QED
        BY <3>3, <3>4
    <3> QED
      BY <3>5
  <2> QED
    BY <2>1, <2>2
<1>2. Nat \subseteq S
  <2> HIDE DEF S
  <2> QED
    BY <1>1, FromBelow
<1> HIDE DEF Body
<1>3. PICK f : f = [i \in 0..n |-> Body(f, i)]
  BY <1>2
<1>4. f = ClimbedTo(f, leaf, path, n)
  BY <1>3 DEF ClimbedTo, Body
<1> QED
  BY <1>4

LEMMA ClimbedSteps ==
  ASSUME NEW leaf, NEW path, Len(path) \in Nat
  PROVE  /\ Climbed(leaf, path)[0] = leaf
         /\ \A i \in 1..Len(path) :
              Climbed(leaf, path)[i] = Climb(Climbed(leaf, path)[i - 1], path[i])
<1> DEFINE f == Climbed(leaf, path)
<1>1. f = [i \in 0..Len(path) |-> IF i = 0 THEN leaf ELSE Climb(f[i - 1], path[i])]
  <2>1. f = CHOOSE g : g = ClimbedTo(g, leaf, path, Len(path))
    BY Zenon DEF Climbed, ClimbedTo
  <2>2. \E g : g = ClimbedTo(g, leaf, path, Len(path))
    BY ClimbedExists
  <2> HIDE DEF f
  <2>3. f = ClimbedTo(f, leaf, path, Len(path))
    BY <2>1, <2>2
  <2> QED
    BY <2>3 DEF ClimbedTo
<1> HIDE DEF f
<1>2. f[0] = leaf
  <2>1. 0 \in 0..Len(path)
    OBVIOUS
  <2> QED
    BY <1>1, <2>1
<1>3. ASSUME NEW i \in 1..Len(path) PROVE f[i] = Climb(f[i - 1], path[i])
  <2>1. i \in 0..Len(path) /\ i # 0
    OBVIOUS
  <2> QED
    BY <1>1, <2>1
<1> QED
  BY <1>2, <1>3 DEF f

\* Whatever the path, a log from which one can climb to a node is a leaf below it.
LEMMA ClimbFromLeaf ==
  ASSUME NEW raw \in Seq(RawLogs), NEW d \in Seq(Bytes), NEW path, Len(path) \in Nat,
         NEW n \in Nat, n > 0, NEW lo \in 0..(Len(raw) - n), NEW i \in 0..Len(path),
         Climbed(hash_leaf(d), path)[i] = Span(raw, n, lo)
  PROVE  \E j \in 1..n : raw[lo + j] = d
<1> DEFINE f == Climbed(hash_leaf(d), path)
           Below(l, x) == \E j \in 1..l : raw[x + j] = d
           S == {l \in Nat : l > 0 => \A x \in 0..(Len(raw) - l), e \in 0..Len(path) :
                                        f[e] = Span(raw, l, x) => Below(l, x)}
<1>0. Len(raw) \in Nat
  BY LenProperties
<1>1. f[0] = hash_leaf(d) /\ \A e \in 1..Len(path) : f[e] = Climb(f[e - 1], path[e])
  BY ClimbedSteps
<1> HIDE DEF f
<1>2. ASSUME NEW l \in Nat, \A m \in 0..(l - 1) : m \in S PROVE l \in S
  <2> SUFFICES ASSUME l > 0, NEW x \in 0..(Len(raw) - l), NEW e \in 0..Len(path),
                      f[e] = Span(raw, l, x)
               PROVE  Below(l, x)
    OBVIOUS
  <2>1. CASE l = 1
    <3>1. x + 1 \in 1..Len(raw) /\ Len(raw) > 0 /\ x \in 0..(Len(raw) - 1)
      BY <1>0, <2>1
    <3>2. Span(raw, 1, x) = hash_leaf(raw[x + 1]) /\ raw[x + 1] \in Seq(Bytes)
      BY <3>1, SpanSteps, LeafHashesOf
    <3>3. CASE e = 0
      <4>1. raw[x + 1] = d
        BY <1>1, <2>1, <3>2, <3>3, LeavesApart
      <4> QED
        BY <2>1, <4>1
    <3>4. CASE e # 0
      <4>1. e \in 1..Len(path)
        BY <3>4
      <4>2. f[e] = Climb(f[e - 1], path[e])
        BY <1>1, <4>1
      <4>3. \E u, w : f[e] = hash_children(u, w)
        BY <4>2 DEF Climb
      <4> QED
        BY <2>1, <3>2, <4>3, LeafIsNoNode
    <3> QED
      BY <3>3, <3>4
  <2>2. CASE l # 1
    <3> DEFINE k == Split(l)
    <3>1. k \in 1..(l - 1) /\ l - k \in 1..(l - 1)
      <4>1. l > 1
        BY <2>2
      <4> QED
        BY <4>1, SplitIs
    <3>2. l \in 2..Len(raw)
      BY <1>0, <2>2
    <3>3. Span(raw, l, x) = hash_children(Span(raw, k, x), Span(raw, l - k, x + k))
      BY <3>2, SpanSteps
    <3> HIDE DEF k
    <3>4. e \in 1..Len(path)
      <4>1. e # 0
        BY <1>1, <3>3, LeafIsNoNode
      <4> QED
        BY <4>1
    <3>5. f[e] = Climb(f[e - 1], path[e]) /\ e - 1 \in 0..Len(path)
      BY <1>1, <3>4
    <3>6. f[e - 1] = Span(raw, k, x) \/ f[e - 1] = Span(raw, l - k, x + k)
      <4>1. CASE path[e][2] = "Right"
        <5>1. hash_children(f[e - 1], path[e][1]) = hash_children(Span(raw, k, x), Span(raw, l - k, x + k))
          BY <3>3, <3>5, <4>1 DEF Climb
        <5> QED
          BY <5>1, ChildrenApart
      <4>2. CASE path[e][2] # "Right"
        <5>1. hash_children(path[e][1], f[e - 1]) = hash_children(Span(raw, k, x), Span(raw, l - k, x + k))
          BY <3>3, <3>5, <4>2 DEF Climb
        <5> QED
          BY <5>1, ChildrenApart
      <4> QED
        BY <4>1, <4>2
    <3>7. /\ x \in 0..(Len(raw) - k) /\ x + k \in 0..(Len(raw) - (l - k))
          /\ k \in 0..(l - 1) /\ l - k \in 0..(l - 1) /\ k > 0 /\ l - k > 0
      BY <1>0, <3>1
    <3>8. k \in S /\ l - k \in S
      <4> HIDE DEF S
      <4> QED
        BY <1>2, <3>7
    <3>9. CASE f[e - 1] = Span(raw, k, x)
      <4>1. Below(k, x)
        BY <3>5, <3>7, <3>8, <3>9
      <4> QED
        BY <3>1, <4>1
    <3>10. CASE f[e - 1] = Span(raw, l - k, x + k)
      <4>1. PICK j \in 1..(l - k) : raw[(x + k) + j] = d
        BY <3>5, <3>7, <3>8, <3>10
      <4>2. x \in Nat /\ k \in Nat /\ j \in Nat \ {0} /\ l - k \in Nat /\ j <= l - k
        BY <1>0, <3>1
      <4>3. k + j \in 1..l /\ (x + k) + j = x + (k + j)
        BY <4>2
      <4> QED
        BY <4>1, <4>3
    <3> QED
      BY <3>6, <3>9, <3>10
  <2> QED
    BY <2>1, <2>2
<1>3. Nat \subseteq S
  <2> HIDE DEF S
  <2> QED
    BY <1>2, FromBelow
<1>4. \E j \in 1..n : raw[lo + j] = d
  BY <1>3 DEF f
<1> QED
  BY <1>4

-----------------------------------------------------------------------------
(* Audit paths.                                                            *)

\* One step of collect_audit_path.
Paths(leaves, path, n) ==
  IF n = 1 THEN [lo \in Slices(leaves, 1) |-> [target_idx \in {0} |-> <<>>]]
  ELSE Extended(leaves, n, Split(n), path[Split(n)], path[n - Split(n)])

\* The paths in slices of up to n leaves, given those in shorter ones.
PathsTo(f, leaves, n) == [i \in 1..n |-> Paths(leaves, f, i)]

LEMMA PathsExist ==
  ASSUME NEW leaves, NEW n \in Nat
  PROVE  \E f : f = PathsTo(f, leaves, n)
<1> DEFINE S == {l \in Nat : \E f : f = [i \in 1..l |-> Paths(leaves, f, i)]}
<1>1. ASSUME NEW l \in Nat, \A j \in 0..(l - 1) : j \in S PROVE l \in S
  <2>1. CASE l = 0
    <3> DEFINE f == [i \in 1..l |-> 0]
    <3>1. f = [i \in 1..l |-> Paths(leaves, f, i)]
      BY <2>1
    <3> QED
      BY <3>1
  <2>2. CASE l # 0
    <3>1. l - 1 \in 0..(l - 1) /\ l \in 1..l /\ l \notin 1..(l - 1)
          /\ \A i \in 1..l : i = l \/ i \in 1..(l - 1)
      BY <2>2
    <3>2. PICK g : g = [i \in 1..(l - 1) |-> Paths(leaves, g, i)]
      BY <1>1, <3>1
    <3> DEFINE v == Paths(leaves, g, l)
    <3> HIDE DEF v
    <3> DEFINE f == [i \in 1..l |-> IF i = l THEN v ELSE g[i]]
    <3>3. f = [i \in 1..l |-> f[i]] /\ f[l] = v /\ \A i \in 1..(l - 1) : f[i] = g[i]
      BY <3>1
    <3> HIDE DEF f
    <3>4. ASSUME NEW i \in 1..l PROVE f[i] = Paths(leaves, f, i)
      <4>1. Paths(leaves, f, i) = Paths(leaves, g, i)
        <5>1. CASE i = 1
          BY <5>1 DEF Paths
        <5>2. CASE i # 1
          <6>1. Split(i) \in 1..(i - 1) /\ i - Split(i) \in 1..(i - 1)
            BY <5>2, SplitIs
          <6> DEFINE k == Split(i)
          <6>3. k \in 1..(l - 1) /\ i - k \in 1..(l - 1)
            BY <6>1
          <6>2. f[Split(i)] = g[Split(i)] /\ f[i - Split(i)] = g[i - Split(i)]
            BY <3>3, <6>3
          <6> QED
            BY <6>2 DEF Paths
        <5> QED
          BY <5>1, <5>2
      <4>2. i = l \/ (g[i] = Paths(leaves, g, i) /\ f[i] = g[i])
        BY <3>1, <3>2, <3>3
      <4> QED
        BY <3>3, <4>1, <4>2 DEF v
    <3>5. f = [i \in 1..l |-> Paths(leaves, f, i)]
      BY <3>3, <3>4
    <3> QED
      BY <3>5
  <2> QED
    BY <2>1, <2>2
<1>2. Nat \subseteq S
  <2> HIDE DEF S
  <2> QED
    BY <1>1, FromBelow
<1>3. PICK f : f = [i \in 1..n |-> Paths(leaves, f, i)]
  BY <1>2
<1>4. f = PathsTo(f, leaves, n)
  BY <1>3 DEF PathsTo
<1> QED
  BY <1>4

\* What the path of a target is made of.
LEMMA PathSteps ==
  ASSUME NEW leaves, Len(leaves) \in Nat
  PROVE  /\ Len(leaves) > 0 =>
              \A lo \in Slices(leaves, 1) : collect_audit_path(leaves)[1][lo][0] = <<>>
         /\ \A n \in 2..Len(leaves) : \A lo \in Slices(leaves, n), t \in 0..(n - 1) :
              collect_audit_path(leaves)[n][lo][t]
                = IF t < Split(n)
                    THEN Append(collect_audit_path(leaves)[Split(n)][lo][t],
                                <<build_subtree(leaves)[n - Split(n)][lo + Split(n)], "Right">>)
                    ELSE Append(collect_audit_path(leaves)[n - Split(n)][lo + Split(n)][t - Split(n)],
                                <<build_subtree(leaves)[Split(n)][lo], "Left">>)
<1> DEFINE path == collect_audit_path(leaves)
           hash == build_subtree(leaves)
<1>1. path = [n \in 1..Len(leaves) |-> Paths(leaves, path, n)]
  <2>1. path = CHOOSE f : f = PathsTo(f, leaves, Len(leaves))
    BY Zenon DEF collect_audit_path, PathsTo, Paths, Split
  <2>2. \E f : f = PathsTo(f, leaves, Len(leaves))
    BY PathsExist
  <2> HIDE DEF path
  <2>3. path = PathsTo(path, leaves, Len(leaves))
    BY <2>1, <2>2
  <2> QED
    BY <2>3 DEF PathsTo
<1> HIDE DEF path
<1>2. ASSUME NEW lo \in Slices(leaves, 1), Len(leaves) > 0 PROVE path[1][lo][0] = <<>>
  <2>1. path[1] = [i \in Slices(leaves, 1) |-> [target_idx \in {0} |-> <<>>]]
    BY <1>1, <1>2 DEF Paths
  <2> QED
    BY <2>1
<1>3. ASSUME NEW n \in 2..Len(leaves), NEW lo \in Slices(leaves, n), NEW t \in 0..(n - 1)
      PROVE  path[n][lo][t] = IF t < Split(n)
                                THEN Append(path[Split(n)][lo][t], <<hash[n - Split(n)][lo + Split(n)], "Right">>)
                                ELSE Append(path[n - Split(n)][lo + Split(n)][t - Split(n)],
                                            <<hash[Split(n)][lo], "Left">>)
  <2>1. path[n] = Extended(leaves, n, Split(n), path[Split(n)], path[n - Split(n)])
    <3>1. n \in 1..Len(leaves) /\ n # 1
      OBVIOUS
    <3>2. path[n] = Paths(leaves, path, n)
      BY <1>1, <3>1
    <3> QED
      BY <3>1, <3>2 DEF Paths
  <2> HIDE DEF hash
  <2> QED
    BY <2>1 DEF Extended, hash
<1> QED
  BY <1>2, <1>3 DEF path

\* A fold over the beginning of a path is that of the path.
LEMMA ClimbedPrefix ==
  ASSUME NEW leaf, NEW p, NEW q, Len(p) \in Nat, Len(q) \in Nat, Len(p) <= Len(q),
         \A i \in 1..Len(p) : p[i] = q[i]
  PROVE  \A i \in 0..Len(p) : Climbed(leaf, p)[i] = Climbed(leaf, q)[i]
<1> DEFINE f == Climbed(leaf, p)
           g == Climbed(leaf, q)
           S == {i \in Nat : i <= Len(p) => f[i] = g[i]}
<1>1. /\ f[0] = leaf /\ \A i \in 1..Len(p) : f[i] = Climb(f[i - 1], p[i])
      /\ g[0] = leaf /\ \A i \in 1..Len(q) : g[i] = Climb(g[i - 1], q[i])
  BY ClimbedSteps
<1> HIDE DEF f, g
<1>2. ASSUME NEW i \in Nat, \A m \in 0..(i - 1) : m \in S PROVE i \in S
  <2>1. CASE i = 0
    BY <1>1, <2>1
  <2>2. CASE i # 0 /\ i <= Len(p)
    <3>1. i - 1 \in 0..(i - 1) /\ i - 1 <= Len(p) /\ i \in 1..Len(p) /\ i \in 1..Len(q)
      BY <2>2
    <3>2. f[i - 1] = g[i - 1]
      BY <1>2, <3>1
    <3> QED
      BY <1>1, <3>1, <3>2
  <2> QED
    BY <2>1, <2>2
<1>3. Nat \subseteq S
  <2> HIDE DEF S
  <2> QED
    BY <1>2, FromBelow
<1> QED
  BY <1>3 DEF f, g

\* The hashes of a tree, and the steps of a path through it.
Nodes(leaves) ==
  {build_subtree(leaves)[n][lo] : n \in 1..Len(leaves), lo \in 0..Len(leaves)}
AuditSteps(leaves) == Nodes(leaves) \X {"Left", "Right"}

\* At most as long as the tree is high.
Height(n) == IF n = 1 THEN 0 ELSE TopBit(n - 1) + 1

\* A path that proves d below the node v, in at most h steps.
Proves(leaves, path, d, v, h) ==
  /\ path \in Seq(AuditSteps(leaves))
  /\ Climbed(hash_leaf(d), path)[Len(path)] = v
  /\ Len(path) <= h

\* What one has of the path of a target.
PathIs(raw, n, lo, t) ==
  Proves(LeafHashes(raw), collect_audit_path(LeafHashes(raw))[n][lo][t],
         raw[lo + t + 1], Span(raw, n, lo), Height(n))

\* One more sibling, on either side.
LEMMA OneMoreSibling ==
  ASSUME NEW leaves, NEW p, NEW d, NEW v, NEW h \in Nat, Proves(leaves, p, d, v, h),
         NEW s \in AuditSteps(leaves)
  PROVE  Proves(leaves, Append(p, s), d, Climb(v, s), h + 1)
<1> DEFINE q == Append(p, s)
           leaf == hash_leaf(d)
           Step == AuditSteps(leaves)
<1>1. p \in Seq(Step) /\ s \in Step /\ Climbed(leaf, p)[Len(p)] = v /\ Len(p) <= h
  BY DEF Proves
<1> HIDE DEF leaf, Step
<1>2. /\ q \in Seq(Step) /\ Len(p) \in Nat /\ Len(q) = Len(p) + 1
      /\ q[Len(q)] = s /\ \A i \in 1..Len(p) : q[i] = p[i]
  <2>1. Len(p) \in Nat /\ q \in Seq(Step) /\ Len(q) = Len(p) + 1
    BY <1>1, AppendProperties, LenProperties
  <2>2. q[Len(p) + 1] = s /\ \A i \in 1..Len(p) : q[i] = p[i]
    BY <1>1, AppendProperties
  <2> HIDE DEF q
  <2> QED
    BY <2>1, <2>2
<1> HIDE DEF q
<1>3. Climbed(leaf, q)[Len(q) - 1] = v
  <2>1. Len(p) \in 0..Len(p) /\ Len(q) \in Nat /\ Len(p) <= Len(q) /\ Len(q) - 1 = Len(p)
    BY <1>2
  <2>2. Climbed(leaf, p)[Len(p)] = Climbed(leaf, q)[Len(p)]
    BY <1>2, <2>1, ClimbedPrefix
  <2> QED
    BY <1>1, <2>1, <2>2
<1>4. Climbed(leaf, q)[Len(q)] = Climb(v, s)
  <2>1. Len(q) \in Nat /\ Len(q) \in 1..Len(q)
    BY <1>2
  <2>2. Climbed(leaf, q)[Len(q)] = Climb(Climbed(leaf, q)[Len(q) - 1], q[Len(q)])
    BY <2>1, ClimbedSteps
  <2> QED
    BY <1>2, <1>3, <2>2
<1>5. Proves(leaves, q, d, Climb(v, s), h + 1)
  BY <1>1, <1>2, <1>4 DEF Proves, leaf, Step
<1> QED
  BY <1>5 DEF q

LEMMA LooserBound ==
  ASSUME NEW leaves, NEW p, NEW d, NEW v, NEW h \in Nat, NEW e \in Nat, h <= e,
         Proves(leaves, p, d, v, h)
  PROVE  Proves(leaves, p, d, v, e)
<1>1. Len(p) \in Nat
  BY LenProperties DEF Proves
<1> QED
  BY <1>1 DEF Proves

\* A part is at least one step lower than the whole.
LEMMA PartHeights ==
  ASSUME NEW n \in Nat, n > 1, NEW l, l = Split(n) \/ l = n - Split(n)
  PROVE  Height(l) \in Nat /\ Height(n) \in Nat /\ Height(l) + 1 <= Height(n)
<1>1. n # 1 /\ n - 1 \in Nat \ {0}
  OBVIOUS
<1>2. TopBit(n - 1) \in Nat
  BY <1>1, TopBitIs
<1>3. l \in 1..(n - 1)
  BY SplitIs
<1>4. CASE l = 1
  BY <1>1, <1>2, <1>4 DEF Height
<1>5. CASE l # 1
  <2>1. l > 1 /\ l \in {Split(n), n - Split(n)}
    BY <1>3, <1>5
  <2>2. TopBit(l - 1) \in Nat /\ TopBit(l - 1) < TopBit(n - 1)
    BY <2>1, PartsAreLower
  <2> QED
    BY <1>1, <1>2, <1>5, <2>2 DEF Height
<1> QED
  BY <1>4, <1>5

\* Every path that is made proves its target, and is no longer than the tree is high.
LEMMA HonestPaths ==
  ASSUME NEW raw \in Seq(RawLogs), NEW n \in Nat, n > 0,
         NEW lo \in 0..(Len(raw) - n), NEW t \in 0..(n - 1)
  PROVE  PathIs(raw, n, lo, t)
<1> DEFINE leaves == LeafHashes(raw)
           S == {l \in Nat : l > 0 => \A x \in 0..(Len(raw) - l), u \in 0..(l - 1) : PathIs(raw, l, x, u)}
<1>0. /\ Len(raw) \in Nat /\ Len(leaves) = Len(raw)
      /\ \A l : Slices(leaves, l) = 0..(Len(raw) - l)
  BY LeafHashesOf
<1>1. ASSUME NEW l \in Nat, \A m \in 0..(l - 1) : m \in S PROVE l \in S
  <2> SUFFICES ASSUME l > 0, NEW x \in 0..(Len(raw) - l), NEW u \in 0..(l - 1)
               PROVE  PathIs(raw, l, x, u)
    OBVIOUS
  <2>1. CASE l = 1
    <3>1. /\ u = 0 /\ x \in 0..(Len(raw) - 1) /\ Len(raw) > 0 /\ x + 0 + 1 = x + 1
          /\ x \in Slices(leaves, 1) /\ Len(leaves) > 0 /\ Len(leaves) \in Nat
      BY <1>0, <2>1
    <3>2. collect_audit_path(leaves)[1][x][0] = <<>>
      BY <3>1, PathSteps
    <3>3. Climbed(hash_leaf(raw[x + 1]), <<>>)[0] = hash_leaf(raw[x + 1])
      BY ClimbedSteps
    <3>4. Span(raw, 1, x) = hash_leaf(raw[x + 1])
      BY <3>1, SpanSteps
    <3> QED
      BY <2>1, <3>1, <3>2, <3>3, <3>4 DEF PathIs, Proves, Height
  <2>2. CASE l # 1
    <3> DEFINE k == Split(l)
               path == collect_audit_path(leaves)
               hash == build_subtree(leaves)
    <3>1. k \in 1..(l - 1) /\ l - k \in 1..(l - 1)
      <4>1. l > 1
        BY <2>2
      <4> QED
        BY <4>1, SplitIs
    <3>2. l \in 2..Len(raw) /\ l \in 2..Len(leaves) /\ x \in Slices(leaves, l) /\ Len(leaves) \in Nat
      BY <1>0, <2>2
    <3>3. Span(raw, l, x) = hash_children(Span(raw, k, x), Span(raw, l - k, x + k))
      BY <3>2, SpanSteps
    <3>4. path[l][x][u] = IF u < k THEN Append(path[k][x][u], <<hash[l - k][x + k], "Right">>)
                          ELSE Append(path[l - k][x + k][u - k], <<hash[k][x], "Left">>)
      BY <3>2, PathSteps
    <3>5. /\ <<hash[l - k][x + k], "Right">> \in AuditSteps(leaves)
          /\ <<hash[k][x], "Left">> \in AuditSteps(leaves)
          /\ hash[l - k][x + k] = Span(raw, l - k, x + k) /\ hash[k][x] = Span(raw, k, x)
      <4>1. /\ k \in 1..Len(leaves) /\ l - k \in 1..Len(leaves)
            /\ x \in 0..Len(leaves) /\ x + k \in 0..Len(leaves)
        BY <1>0, <3>1, <3>2
      <4> HIDE DEF k
      <4>2. hash[l - k][x + k] \in Nodes(leaves) /\ hash[k][x] \in Nodes(leaves)
        BY <4>1 DEF Nodes
      <4> HIDE DEF leaves
      <4> QED
        BY <4>2 DEF AuditSteps, Span, leaves
    <3>6. /\ x \in 0..(Len(raw) - k) /\ x + k \in 0..(Len(raw) - (l - k))
          /\ k \in 0..(l - 1) /\ l - k \in 0..(l - 1) /\ k > 0 /\ l - k > 0
      BY <1>0, <3>1
    <3>7. k \in S /\ l - k \in S
      <4> HIDE DEF S, k
      <4> QED
        BY <1>1, <3>6
    <3>8. /\ Height(l) \in Nat /\ Height(k) \in Nat /\ Height(k) + 1 <= Height(l)
          /\ Height(l - k) \in Nat /\ Height(l - k) + 1 <= Height(l)
      <4>1. l > 1
        BY <2>2
      <4> QED
        BY <4>1, PartHeights
    <3> HIDE DEF leaves, k, path, hash
    <3>9. CASE u < k
      <4> DEFINE s == <<Span(raw, l - k, x + k), "Right">>
      <4>1. Proves(leaves, path[k][x][u], raw[x + u + 1], Span(raw, k, x), Height(k))
        <5>1. u \in 0..(k - 1)
          BY <3>1, <3>9
        <5>2. PathIs(raw, k, x, u)
          BY <3>6, <3>7, <5>1
        <5> QED
          BY <5>2 DEF PathIs, leaves, path
      <4>2. s \in AuditSteps(leaves) /\ Climb(Span(raw, k, x), s) = Span(raw, l, x)
        BY <3>3, <3>5 DEF Climb
      <4>3. path[l][x][u] = Append(path[k][x][u], s)
        BY <3>4, <3>5, <3>9
      <4> HIDE DEF s
      <4>4. Proves(leaves, path[l][x][u], raw[x + u + 1], Span(raw, l, x), Height(k) + 1)
        BY <3>8, <4>1, <4>2, <4>3, OneMoreSibling
      <4>5. Height(k) + 1 \in Nat
        BY <3>8
      <4>6. Proves(leaves, path[l][x][u], raw[x + u + 1], Span(raw, l, x), Height(l))
        BY <3>8, <4>4, <4>5, LooserBound
      <4> QED
        BY <4>6 DEF PathIs, leaves, path
    <3>10. CASE ~(u < k)
      <4> DEFINE s == <<Span(raw, k, x), "Left">>
                 y == x + k
                 r == l - k
                 w == u - k
      <4>1. Proves(leaves, path[r][y][w], raw[x + u + 1], Span(raw, r, y), Height(r))
        <5>1. w \in 0..(r - 1) /\ y + w + 1 = x + u + 1
          BY <3>1, <3>10
        <5>2. PathIs(raw, r, y, w)
          BY <3>6, <3>7, <5>1
        <5> QED
          BY <5>1, <5>2 DEF PathIs, leaves, path
      <4>2. s \in AuditSteps(leaves) /\ Climb(Span(raw, r, y), s) = Span(raw, l, x)
        BY <3>3, <3>5 DEF Climb
      <4>3. path[l][x][u] = Append(path[r][y][w], s)
        BY <3>4, <3>5, <3>10
      <4>5. Height(l) \in Nat /\ Height(r) \in Nat /\ Height(r) + 1 <= Height(l)
        BY <3>8
      <4> HIDE DEF s, y, r, w
      <4>4. Proves(leaves, path[l][x][u], raw[x + u + 1], Span(raw, l, x), Height(r) + 1)
        BY <4>1, <4>2, <4>3, <4>5, OneMoreSibling
      <4>6. Height(r) + 1 \in Nat
        BY <4>5
      <4>7. Proves(leaves, path[l][x][u], raw[x + u + 1], Span(raw, l, x), Height(l))
        BY <4>4, <4>5, <4>6, LooserBound
      <4> QED
        BY <4>7 DEF PathIs, leaves, path
    <3> QED
      BY <3>9, <3>10
  <2> QED
    BY <2>1, <2>2
<1>2. Nat \subseteq S
  <2> HIDE DEF S
  <2> QED
    BY <1>1, FromBelow
<1> QED
  BY <1>2

-----------------------------------------------------------------------------
(* Inclusion: the theorems.                                                *)

\* Both histories are sequences of raw logs.
HistoriesTyped == log \in Seq(RawLogs) /\ fork \in Seq(RawLogs)

LEMMA TypedHistories == HistoriesSpec => []HistoriesTyped
<1>1. HistoriesInit => HistoriesTyped
  BY DEF HistoriesInit, HistoriesTyped
<1>2. HistoriesTyped /\ [HistoriesNext]_histories => HistoriesTyped'
  <2> SUFFICES ASSUME HistoriesTyped, [HistoriesNext]_histories PROVE HistoriesTyped'
    OBVIOUS
  <2>1. ASSUME NEW raw \in RawLogs, Grow(raw) PROVE HistoriesTyped'
    BY <2>1, AppendProperties DEF Grow, HistoriesTyped
  <2>2. ASSUME NEW raw \in RawLogs, GrowFork(raw) PROVE HistoriesTyped'
    BY <2>2, AppendProperties DEF GrowFork, HistoriesTyped
  <2>3. CASE UNCHANGED histories
    BY <2>3 DEF histories, HistoriesTyped
  <2> QED
    BY <2>1, <2>2, <2>3 DEF HistoriesNext
<1> QED
  BY <1>1, <1>2, PTL DEF HistoriesSpec

\* The path that inclusion_proof answers with.
LEMMA PathOf ==
  ASSUME log \in Seq(RawLogs), NEW i \in Indices
  PROVE  /\ Len(log) \in Nat /\ Len(log) > 0 /\ i \in Nat /\ i < Len(log) /\ i + 1 \in 1..Len(log)
         /\ Proves(LeafHashes(log), Path(i), log[i + 1], from_raw_logs(log), Height(Len(log)))
<1>1. Len(log) \in Nat
  BY LenProperties
<1>2. /\ Len(log) > 0 /\ i \in 0..(Len(log) - 1) /\ ~(i >= Len(log))
      /\ 0 \in 0..(Len(log) - Len(log)) /\ 0 + i + 1 = i + 1
  BY <1>1 DEF Indices
<1>3. PathIs(log, Len(log), 0, i)
  BY <1>1, <1>2, HonestPaths
<1>4. Path(i) = collect_audit_path(LeafHashes(log))[Len(log)][0][i]
  BY <1>2 DEF Path, inclusion_proof
<1>5. from_raw_logs(log) = Span(log, Len(log), 0)
  BY <1>2, RootIs
<1> QED
  BY <1>1, <1>2, <1>3, <1>4, <1>5 DEF PathIs

\* Every path that inclusion_proof makes is accepted, for trees of any size, and has
\* at most ceil(log2 n) steps.
THEOREM InclusionCompleteAlways == HistoriesSpec => []InclusionComplete
<1>1. HistoriesTyped => InclusionComplete
  <2> SUFFICES ASSUME HistoriesTyped PROVE InclusionComplete
    OBVIOUS
  <2>0. log \in Seq(RawLogs) /\ Len(log) \in Nat
    BY LenProperties DEF HistoriesTyped
  <2>1. ASSUME NEW i \in Indices
        PROVE  verify_inclusion_proof(log[i + 1], i, Len(log), Path(i), from_raw_logs(log))
    <3>1. /\ Len(log) > 0 /\ i \in Nat /\ i < Len(log) /\ i + 1 \in 1..Len(log)
          /\ Path(i) \in Seq(AuditSteps(LeafHashes(log)))
          /\ Climbed(hash_leaf(log[i + 1]), Path(i))[Len(Path(i))] = from_raw_logs(log)
          /\ Len(Path(i)) <= Height(Len(log))
      BY <2>0, PathOf DEF Proves
    <3>2. Len(log) = 1 => /\ Path(i) = <<>> /\ i = 0
                          /\ hash_leaf(log[i + 1]) = from_raw_logs(log)
      <4> SUFFICES ASSUME Len(log) = 1
                   PROVE  Path(i) = <<>> /\ i = 0 /\ hash_leaf(log[i + 1]) = from_raw_logs(log)
        OBVIOUS
      <4>1. i = 0 /\ Len(Path(i)) \in Nat /\ Len(Path(i)) <= 0
        BY <3>1, LenProperties DEF Height
      <4>2. Len(Path(i)) = 0
        BY <4>1
      <4>3. Path(i) = <<>>
        BY <3>1, <4>2, EmptySeq
      <4>4. hash_leaf(log[i + 1]) = from_raw_logs(log)
        BY <3>1, <4>2, ClimbedSteps
      <4> QED
        BY <4>1, <4>3, <4>4
    <3> QED
      BY <2>0, <3>1, <3>2 DEF verify_inclusion_proof, verify_inclusion_proof_by_hash
  <2>2. ASSUME NEW i \in Indices, Len(log) > 1 PROVE Len(Path(i)) <= TopBit(Len(log) - 1) + 1
    <3>1. Proves(LeafHashes(log), Path(i), log[i + 1], from_raw_logs(log), Height(Len(log)))
      BY <2>0, PathOf
    <3>2. Len(log) # 1
      <4>1. \A x \in Nat : x > 1 => x # 1
        OBVIOUS
      <4> QED
        BY <2>0, <2>2, <4>1
    <3> QED
      BY <3>1, <3>2 DEF Proves, Height
  <2>3. ~inclusion_proof(log, Len(log)).ok
    BY <2>0 DEF inclusion_proof
  <2> QED
    BY <2>1, <2>2, <2>3 DEF InclusionComplete
<1> QED
  BY <1>1, TypedHistories, PTL

\* A raw log that the verifier accepts is a leaf of the tree, whatever the path.
THEOREM AcceptedIsLeaf ==
  ASSUME NEW raw \in Seq(RawLogs), NEW d \in Seq(Bytes), NEW p, Len(p) \in Nat, NEW j,
         Len(raw) > 0, verify_inclusion_proof(d, j, Len(raw), p, from_raw_logs(raw))
  PROVE  \E i \in 1..Len(raw) : raw[i] = d
<1>1. Len(raw) \in Nat /\ 0 \in 0..(Len(raw) - Len(raw))
  BY LenProperties
<1>2. from_raw_logs(raw) = Span(raw, Len(raw), 0)
  BY RootIs
<1>3. PICK i \in 0..Len(p) : Climbed(hash_leaf(d), p)[i] = Span(raw, Len(raw), 0)
  <2>1. CASE Len(raw) = 1
    <3>1. hash_leaf(d) = Span(raw, Len(raw), 0)
      BY <1>2, <2>1 DEF verify_inclusion_proof, verify_inclusion_proof_by_hash
    <3>2. 0 \in 0..Len(p) /\ Climbed(hash_leaf(d), p)[0] = hash_leaf(d)
      BY ClimbedSteps
    <3> QED
      BY <3>1, <3>2
  <2>2. CASE Len(raw) # 1
    <3>1. Len(p) \in 0..Len(p)
      OBVIOUS
    <3> QED
      BY <1>2, <2>2, <3>1 DEF verify_inclusion_proof, verify_inclusion_proof_by_hash
  <2> QED
    BY <2>1, <2>2
<1>4. PICK e \in 1..Len(raw) : raw[0 + e] = d
  BY <1>1, <1>3, ClimbFromLeaf
<1> QED
  BY <1>4

\* What the verifier accepts is a leaf: for trees of any size, and with paths that
\* were cut short or turned round; no raw log passes for the inner node it spells.
THEOREM InclusionSoundAlways == HistoriesSpec => []InclusionSound
<1>1. HistoriesTyped => InclusionSound
  <2> SUFFICES ASSUME HistoriesTyped, NEW i \in Indices, NEW p \in Tampered(Path(i)),
                      NEW j \in Indices, NEW d \in RawLogs,
                      verify_inclusion_proof(d, j, Len(log), p, from_raw_logs(log))
               PROVE  \E l \in Indices : log[l + 1] = d
    BY DEF InclusionSound
  <2>1. log \in Seq(RawLogs) /\ d \in Seq(Bytes)
    BY MerkleAssumption DEF HistoriesTyped
  <2>2. Len(log) \in Nat /\ Len(log) > 0 /\ Path(i) \in Seq(AuditSteps(LeafHashes(log)))
    BY <2>1, PathOf DEF Proves
  <2>3. Len(p) \in Nat
    <3> DEFINE q == Path(i)
    <3>1. Len(q) \in Nat /\ DOMAIN q = 1..Len(q)
      BY <2>2, LenProperties
    <3> HIDE DEF q
    <3>2. p = q \/ (p = Tail(q) /\ 1 \in DOMAIN q) \/ \E x \in DOMAIN q : p = [q EXCEPT ![x] = Flip(q[x])]
      BY DEF Tampered, q
    <3>3. CASE p = q
      BY <3>1, <3>3
    <3>4. CASE p = Tail(q) /\ 1 \in DOMAIN q
      <4>1. q # <<>>
        BY <3>1, <3>4
      <4>2. Len(Tail(q)) = Len(q) - 1
        BY <2>2, <4>1, HeadTailProperties DEF q
      <4> QED
        BY <3>1, <3>4, <4>2
    <3>5. ASSUME NEW x \in DOMAIN q, p = [q EXCEPT ![x] = Flip(q[x])] PROVE Len(p) \in Nat
      <4>1. DOMAIN p = 1..Len(q)
        BY <3>1, <3>5
      <4>2. Len(p) = Len(q)
        BY <3>1, <3>5, <4>1
      <4> QED
        BY <3>1, <4>2
    <3> QED
      BY <3>2, <3>3, <3>4, <3>5
  <2>4. PICK e \in 1..Len(log) : log[e] = d
    BY <2>1, <2>2, <2>3, AcceptedIsLeaf
  <2>5. e - 1 \in Indices /\ (e - 1) + 1 = e
    BY <2>2 DEF Indices
  <2> QED
    BY <2>4, <2>5
<1> QED
  BY <1>1, TypedHistories, PTL

-----------------------------------------------------------------------------
(* The root, level by level.                                               *)

LEMMA Multiples ==
  ASSUME NEW i \in Int, NEW p \in Int
  PROVE  /\ i * p \in Int
         /\ (i - 1) * (2 * p) = (2 * i - 2) * p
         /\ i * (2 * p) = (2 * i - 2) * p + 2 * p
         /\ (2 * i - 1) * p = (2 * i - 2) * p + p
         /\ (2 * i) * p = (2 * i - 2) * p + 2 * p
         /\ (2 * i - 1 - 1) * p = (2 * i - 2) * p
         /\ (i - 1) * p = i * p - p
OBVIOUS

LEMMA MultiplesGrow ==
  ASSUME NEW i \in Int, NEW j \in Int, i <= j, NEW p \in Nat
  PROVE  i * p <= j * p
<1> DEFINE S == {k \in Nat : i * p <= (i + k) * p}
<1>1. ASSUME NEW k \in Nat, \A m \in 0..(k - 1) : m \in S PROVE k \in S
  <2>1. CASE k = 0
    <3>1. i + k = i /\ i * p \in Int
      BY <2>1
    <3> QED
      BY <3>1
  <2>2. CASE k # 0
    <3>1. k - 1 \in S
      BY <1>1, <2>2
    <3>2. (i + k) * p = (i + (k - 1)) * p + p /\ (i + (k - 1)) * p \in Int /\ i * p \in Int
      OBVIOUS
    <3>3. (i + k) * p \in Int /\ i * p <= (i + (k - 1)) * p
      BY <3>1
    <3> QED
      BY <3>2, <3>3
  <2> QED
    BY <2>1, <2>2
<1>2. Nat \subseteq S
  <2> HIDE DEF S
  <2> QED
    BY <1>1, FromBelow
<1>3. j - i \in S /\ i + (j - i) = j
  BY <1>2
<1> QED
  BY <1>3

\* How many logs the i-th node of a level of nodes over p logs each stands for.
Width(raw, p, i) == IF i * p <= Len(raw) THEN p ELSE Len(raw) - (i - 1) * p

\* The nodes are those of level e.
LevelIs(raw, e, nodes) ==
  LET p == Shl[e]
      c == Len(nodes)
  IN /\ c \in Nat \ {0} /\ nodes = [i \in 1..c |-> nodes[i]]
     /\ (c - 1) * p < Len(raw) /\ Len(raw) <= c * p
     /\ \A i \in 1..c : nodes[i] = Span(raw, Width(raw, p, i), (i - 1) * p)

LEMMA SplitAt ==
  ASSUME NEW e \in Nat, NEW n \in Nat, Shl[e] < n, n <= 2 * Shl[e]
  PROVE  n > 1 /\ Split(n) = Shl[e]
<1>1. Shl[e] \in Nat \ {0} /\ Shl[e + 1] = 2 * Shl[e]
  BY ShlSteps
<1>2. n - 1 \in Nat \ {0} /\ Shl[e] <= n - 1 /\ n - 1 < Shl[e + 1]
  BY <1>1
<1>3. TopBit(n - 1) = e
  BY <1>2, TopBitIs
<1> QED
  BY <1>1, <1>2, <1>3 DEF Split, largest_power_of_two_less_than

LEMMA NextLevelIs ==
  ASSUME NEW raw \in Seq(RawLogs), NEW e \in Nat, NEW nodes, LevelIs(raw, e, nodes)
  PROVE  LevelIs(raw, e + 1, NextLevel(nodes))
<1> DEFINE p == Shl[e]
           c == Len(nodes)
           n == Len(raw)
           d == (c + 1) \div 2
           next == NextLevel(nodes)
<1>1. /\ p \in Nat \ {0} /\ Shl[e + 1] = 2 * p /\ n \in Nat
      /\ c \in Nat \ {0} /\ (c - 1) * p < n /\ n <= c * p
      /\ \A i \in 1..c : nodes[i] = Span(raw, Width(raw, p, i), (i - 1) * p)
  BY ShlSteps, LenProperties DEF LevelIs
<1>2. d \in Nat \ {0} /\ (2 * d = c \/ 2 * d = c + 1)
  <2>1. c \in Nat \ {0}
    BY <1>1
  <2> HIDE DEF c
  <2> QED
    BY <2>1
<1>3. next = [i \in 1..d |-> IF 2 * i <= c THEN hash_children(nodes[2 * i - 1], nodes[2 * i])
                                           ELSE nodes[2 * i - 1]]
  BY DEF NextLevel
<1> HIDE DEF p, n, next, c, d
<1>4. Len(next) = d /\ next = [i \in 1..d |-> next[i]]
  BY <1>2, <1>3
<1>5. (d - 1) * (2 * p) < n /\ n <= d * (2 * p)
  <2>1. /\ (d - 1) * (2 * p) = (2 * d - 2) * p /\ d * (2 * p) = (2 * d - 2) * p + 2 * p
        /\ (2 * d) * p = (2 * d - 2) * p + 2 * p
        /\ (2 * d - 2) * p \in Int /\ (c - 1) * p \in Int /\ c * p \in Int /\ (2 * d) * p \in Int
    BY <1>1, <1>2, Multiples
  <2>2. (2 * d - 2) * p <= (c - 1) * p
    <3>1. 2 * d - 2 \in Int /\ c - 1 \in Int /\ 2 * d - 2 <= c - 1
      BY <1>1, <1>2
    <3> QED
      BY <1>1, <3>1, MultiplesGrow
  <2>3. c * p <= (2 * d) * p
    <3>1. 2 * d \in Int /\ c \in Int /\ c <= 2 * d
      BY <1>1, <1>2
    <3> QED
      BY <1>1, <3>1, MultiplesGrow
  <2> QED
    BY <1>1, <2>1, <2>2, <2>3
<1>6. ASSUME NEW i \in 1..d
      PROVE  next[i] = Span(raw, Width(raw, 2 * p, i), (i - 1) * (2 * p))
  <2> DEFINE x == (2 * i - 2) * p
  <2>1. /\ x \in Int /\ (i - 1) * (2 * p) = x /\ i * (2 * p) = x + 2 * p
        /\ (2 * i - 1) * p = x + p /\ (2 * i) * p = x + 2 * p /\ (2 * i - 1 - 1) * p = x
    BY <1>1, <1>2, Multiples
  <2>2. x >= 0
    <3>1. 0 \in Int /\ 2 * i - 2 \in Int /\ 0 <= 2 * i - 2 /\ 0 * p = 0
      BY <1>1, <1>2
    <3> QED
      BY <1>1, <3>1, MultiplesGrow
  <2>3. Width(raw, 2 * p, i) = IF x + 2 * p <= n THEN 2 * p ELSE n - x
    BY <2>1 DEF Width, n
  <2>4. /\ Width(raw, p, 2 * i - 1) = IF x + p <= n THEN p ELSE n - x
        /\ Width(raw, p, 2 * i) = IF x + 2 * p <= n THEN p ELSE n - (x + p)
    BY <2>1 DEF Width, n
  <2> HIDE DEF x
  <2>5. CASE 2 * i <= c
    <3> DEFINE w == Width(raw, 2 * p, i)
    <3>1. x + p < n
      <4>1. 2 * i - 1 \in Int /\ c - 1 \in Int /\ 2 * i - 1 <= c - 1
        BY <1>1, <1>2, <2>5
      <4>2. (2 * i - 1) * p <= (c - 1) * p /\ (c - 1) * p \in Int
        BY <1>1, <4>1, MultiplesGrow, Multiples
      <4> DEFINE y == (2 * i - 1) * p
                 z == (c - 1) * p
      <4>3. y = x + p /\ y <= z /\ z \in Int /\ z < n
        BY <1>1, <2>1, <4>2
      <4> HIDE DEF y, z
      <4> QED
        BY <1>1, <2>1, <4>3
    <3>2. /\ nodes[2 * i - 1] = Span(raw, p, x)
          /\ nodes[2 * i] = Span(raw, Width(raw, p, 2 * i), x + p)
      <4>1. 2 * i - 1 \in 1..c /\ 2 * i \in 1..c
        BY <1>1, <1>2, <2>5
      <4>2. Width(raw, p, 2 * i - 1) = p
        BY <1>1, <2>1, <2>4, <3>1
      <4>3. nodes[2 * i - 1] = Span(raw, Width(raw, p, 2 * i - 1), (2 * i - 1 - 1) * p)
        BY <1>1, <4>1
      <4>4. nodes[2 * i] = Span(raw, Width(raw, p, 2 * i), (2 * i - 1) * p)
        BY <1>1, <4>1
      <4> QED
        BY <2>1, <4>2, <4>3, <4>4
    <3>3. /\ w \in Nat /\ p < w /\ w <= 2 * p /\ x + w <= n
          /\ Width(raw, p, 2 * i) = w - p
      BY <1>1, <2>1, <2>2, <2>3, <2>4, <3>1
    <3> HIDE DEF w
    <3>4. w > 1 /\ Split(w) = p
      BY <3>3, SplitAt DEF p
    <3>5. w \in 2..n /\ x \in 0..(n - w)
      BY <1>1, <2>1, <2>2, <3>3, <3>4
    <3>6. Span(raw, w, x) = hash_children(Span(raw, p, x), Span(raw, w - p, x + p))
      BY <3>4, <3>5, SpanSteps DEF n
    <3>7. next[i] = hash_children(nodes[2 * i - 1], nodes[2 * i])
      BY <1>3, <2>5
    <3> QED
      BY <2>1, <3>2, <3>3, <3>6, <3>7 DEF w
  <2>6. CASE ~(2 * i <= c)
    <3>1. 2 * i - 1 = c
      BY <1>1, <1>2, <2>6
    <3>2. n <= x + p
      BY <1>1, <2>1, <3>1
    <3>3. Width(raw, 2 * p, i) = n - x /\ Width(raw, p, 2 * i - 1) = n - x
      BY <1>1, <2>1, <2>3, <2>4, <3>2
    <3>4. next[i] = nodes[c] /\ c \in 1..c
      <4>1. next[i] = nodes[2 * i - 1]
        BY <1>3, <2>6
      <4>2. c \in 1..c
        BY <1>1
      <4> QED
        BY <3>1, <4>1, <4>2
    <3>5. nodes[c] = Span(raw, Width(raw, p, c), (c - 1) * p)
      BY <1>1, <3>4
    <3>6. (c - 1) * p = x
      BY <2>1, <3>1
    <3> QED
      BY <2>1, <3>1, <3>3, <3>4, <3>5, <3>6
  <2> QED
    BY <2>5, <2>6
<1> QED
  BY <1>1, <1>2, <1>4, <1>5, <1>6 DEF LevelIs, next, n

\* The level n, given the one below.
LevelStep(leaves, f, n) == IF n = 0 THEN leaves ELSE NextLevel(f[n - 1])
LevelsTo(f, leaves, n)  == [i \in 0..n |-> LevelStep(leaves, f, i)]

LEMMA LevelsExist ==
  ASSUME NEW leaves, NEW n \in Nat
  PROVE  \E f : f = LevelsTo(f, leaves, n)
<1> DEFINE Body(f, i) == LevelStep(leaves, f, i)
           S == {l \in Nat : \E f : f = [i \in 0..l |-> Body(f, i)]}
<1>1. ASSUME NEW l \in Nat, \A j \in 0..(l - 1) : j \in S PROVE l \in S
  <2>1. CASE l = 0
    <3> DEFINE f == [i \in 0..l |-> leaves]
    <3>1. f = [i \in 0..l |-> Body(f, i)]
      BY <2>1 DEF LevelStep
    <3> QED
      BY <3>1
  <2>2. CASE l # 0
    <3>1. l - 1 \in 0..(l - 1) /\ l \in 0..l /\ l \notin 0..(l - 1)
          /\ \A i \in 0..l : i = l \/ i \in 0..(l - 1)
      BY <2>2
    <3>2. PICK g : g = [i \in 0..(l - 1) |-> Body(g, i)]
      BY <1>1, <3>1
    <3> DEFINE v == Body(g, l)
    <3> HIDE DEF v
    <3> DEFINE f == [i \in 0..l |-> IF i = l THEN v ELSE g[i]]
    <3>3. f = [i \in 0..l |-> f[i]] /\ f[l] = v /\ \A i \in 0..(l - 1) : f[i] = g[i]
      BY <3>1
    <3> HIDE DEF f
    <3>4. ASSUME NEW i \in 0..l PROVE f[i] = Body(f, i)
      <4>1. i # 0 => i - 1 \in 0..(l - 1)
        OBVIOUS
      <4>2. Body(f, i) = Body(g, i)
        BY <3>3, <4>1 DEF LevelStep
      <4>3. i = l \/ (g[i] = Body(g, i) /\ f[i] = g[i])
        BY <3>1, <3>2, <3>3
      <4> HIDE DEF Body
      <4> QED
        BY <3>3, <4>2, <4>3 DEF v
    <3>5. f = [i \in 0..l |-> Body(f, i)]
      <4> HIDE DEF Body
      <4> QED
        BY <3>3, <3>4
    <3> QED
      BY <3>5
  <2> QED
    BY <2>1, <2>2
<1>2. Nat \subseteq S
  <2> HIDE DEF S
  <2> QED
    BY <1>1, FromBelow
<1> HIDE DEF Body
<1>3. PICK f : f = [i \in 0..n |-> Body(f, i)]
  BY <1>2
<1>4. f = LevelsTo(f, leaves, n)
  BY <1>3 DEF LevelsTo, Body
<1> QED
  BY <1>4

LEMMA LevelSteps ==
  ASSUME NEW leaves, Len(leaves) \in Nat
  PROVE  /\ Levels(leaves)[0] = leaves
         /\ \A e \in 1..Len(leaves) : Levels(leaves)[e] = NextLevel(Levels(leaves)[e - 1])
<1> DEFINE f == Levels(leaves)
<1>1. f = LevelsTo(f, leaves, Len(leaves))
  <2>1. f = CHOOSE g : g = LevelsTo(g, leaves, Len(leaves))
    BY Zenon DEF Levels, LevelsTo, LevelStep
  <2>2. \E g : g = LevelsTo(g, leaves, Len(leaves))
    BY LevelsExist
  <2> HIDE DEF f
  <2> QED
    BY <2>1, <2>2
<1> HIDE DEF f
<1>2. f[0] = leaves
  <2>1. 0 \in 0..Len(leaves)
    OBVIOUS
  <2> QED
    BY <1>1, <2>1 DEF LevelsTo, LevelStep
<1>3. ASSUME NEW e \in 1..Len(leaves) PROVE f[e] = NextLevel(f[e - 1])
  <2>1. e \in 0..Len(leaves) /\ e # 0
    OBVIOUS
  <2> QED
    BY <1>1, <2>1 DEF LevelsTo, LevelStep
<1> QED
  BY <1>2, <1>3 DEF f

LEMMA LevelsAre ==
  ASSUME NEW raw \in Seq(RawLogs), Len(raw) > 0
  PROVE  \A e \in 0..Len(raw) : LevelIs(raw, e, Levels(LeafHashes(raw))[e])
<1> DEFINE leaves == LeafHashes(raw)
           f == Levels(leaves)
           S == {e \in Nat : e <= Len(raw) => LevelIs(raw, e, f[e])}
<1>1. /\ Len(raw) \in Nat \ {0} /\ Len(leaves) = Len(raw)
      /\ leaves = [i \in 1..Len(raw) |-> hash_leaf(raw[i])]
  BY LeafHashesOf, LenProperties DEF LeafHashes
<1> HIDE DEF leaves
<1>2. f[0] = leaves /\ \A e \in 1..Len(raw) : f[e] = NextLevel(f[e - 1])
  BY <1>1, LevelSteps
<1> HIDE DEF f
<1>3. LevelIs(raw, 0, leaves)
  <2>1. Shl[0] = 1 /\ \A i \in Int : i * 1 = i
    BY ShlSteps
  <2>2. ASSUME NEW i \in 1..Len(raw)
        PROVE  leaves[i] = Span(raw, Width(raw, Shl[0], i), (i - 1) * Shl[0])
    <3>1. i * Shl[0] = i /\ (i - 1) * Shl[0] = i - 1
      BY <1>1, <2>1
    <3>2. Width(raw, Shl[0], i) = 1
      <4>1. Width(raw, Shl[0], i) = IF i * Shl[0] <= Len(raw) THEN Shl[0]
                                    ELSE Len(raw) - (i - 1) * Shl[0]
        BY DEF Width
      <4>2. Shl[0] = 1 /\ i <= Len(raw)
        BY <1>1, ShlSteps
      <4> QED
        BY <3>1, <4>1, <4>2
    <3>3. i - 1 \in 0..(Len(raw) - 1) /\ (i - 1) + 1 = i
      BY <1>1
    <3>4. Span(raw, 1, i - 1) = hash_leaf(raw[i])
      BY <3>3, SpanSteps
    <3> QED
      BY <1>1, <3>1, <3>2, <3>4
  <2>3. (Len(raw) - 1) * Shl[0] = Len(raw) - 1 /\ Len(raw) * Shl[0] = Len(raw)
    <3>1. Len(raw) \in Int /\ Len(raw) - 1 \in Int
      BY <1>1
    <3> QED
      BY <2>1, <3>1
  <2>4. leaves = [i \in 1..Len(raw) |-> leaves[i]]
    BY <1>1
  <2> QED
    BY <1>1, <2>2, <2>3, <2>4 DEF LevelIs
<1>4. ASSUME NEW e \in Nat, \A m \in 0..(e - 1) : m \in S PROVE e \in S
  <2> SUFFICES ASSUME e <= Len(raw) PROVE LevelIs(raw, e, f[e])
    OBVIOUS
  <2>1. CASE e = 0
    BY <1>2, <1>3, <2>1
  <2>2. CASE e # 0
    <3>1. e - 1 \in Nat /\ e \in 1..Len(raw) /\ (e - 1) + 1 = e
      BY <1>1, <2>2
    <3>2. LevelIs(raw, e - 1, f[e - 1])
      BY <1>1, <1>4, <3>1
    <3>3. LevelIs(raw, (e - 1) + 1, NextLevel(f[e - 1]))
      BY <3>1, <3>2, NextLevelIs
    <3> QED
      BY <1>2, <3>1, <3>3
  <2> QED
    BY <2>1, <2>2
<1>5. Nat \subseteq S
  <2> HIDE DEF S
  <2> QED
    BY <1>4, FromBelow
<1>6. \A e \in 0..Len(raw) : LevelIs(raw, e, f[e])
  BY <1>1, <1>5
<1> QED
  BY <1>6 DEF f, leaves

\* For trees of any size: the recursive split makes the tree that is made level by
\* level.
THEOREM RootIsReferenceAlways == HistoriesSpec => []RootIsReference
<1>1. ASSUME NEW raw \in Seq(RawLogs) PROVE from_raw_logs(raw) = ReferenceRoot(raw)
  <2> DEFINE n == Len(raw)
             top == Levels(LeafHashes(raw))[n]
             p == Shl[n]
  <2>1. n \in Nat /\ (raw = <<>> <=> n = 0)
    BY LenProperties, EmptySeq
  <2>2. CASE n = 0
    BY <2>1, <2>2, RootIs DEF ReferenceRoot
  <2>3. CASE n # 0
    <3>1. /\ Len(top) \in Nat \ {0} /\ (Len(top) - 1) * p < n
          /\ \A i \in 1..Len(top) : top[i] = Span(raw, Width(raw, p, i), (i - 1) * p)
      <4>1. n \in 0..n
        BY <2>1
      <4>2. LevelIs(raw, n, top)
        BY <2>1, <2>3, <4>1, LevelsAre
      <4> QED
        BY <4>2 DEF LevelIs
    <3>2. p \in Nat /\ n < p
      BY <2>1, ShlGrows, ShlSteps
    <3> HIDE DEF p, top, n
    <3>3. Len(top) = 1
      <4> SUFFICES ASSUME Len(top) # 1 PROVE FALSE
        OBVIOUS
      <4>1. 1 \in Int /\ Len(top) - 1 \in Int /\ 1 <= Len(top) - 1
        <5> DEFINE c == Len(top)
        <5>1. c \in Nat \ {0} /\ c # 1
          BY <3>1
        <5> HIDE DEF c
        <5>2. 1 <= c - 1 /\ c - 1 \in Int
          BY <5>1
        <5> QED
          BY <5>2 DEF c
      <4>2. 1 * p <= (Len(top) - 1) * p
        BY <3>2, <4>1, MultiplesGrow
      <4>3. 1 * p = p /\ (Len(top) - 1) * p \in Int
        BY <3>2, <4>1, Multiples
      <4> QED
        BY <2>1, <3>1, <3>2, <4>2, <4>3
    <3>4. 1 * p = p /\ (1 - 1) * p = 0
      BY <3>2
    <3>5. Width(raw, p, 1) = n
      BY <2>1, <3>2, <3>4 DEF Width, n
    <3>6. top[1] = Span(raw, n, 0)
      BY <3>1, <3>3, <3>4, <3>5
    <3>7. from_raw_logs(raw) = Span(raw, n, 0)
      BY <2>1, <2>3, RootIs DEF n
    <3>8. ReferenceRoot(raw) = top[1]
      BY <2>1, <2>3 DEF ReferenceRoot, top, n
    <3> QED
      BY <3>6, <3>7, <3>8
  <2> QED
    BY <2>2, <2>3
<1>2. HistoriesTyped => RootIsReference
  BY <1>1 DEF HistoriesTyped, RootIsReference
<1> QED
  BY <1>2, TypedHistories, PTL

-----------------------------------------------------------------------------
(* The verifier of consistency proofs.                                     *)

\* What is left of an empty stack.
AllNone == [n \in Sizes |-> [m \in 1..n |-> None]]
Emptied(prev_root) ==
  [n \in Sizes |-> [m \in 1..n |-> IF m = n THEN [ok |-> TRUE, root |-> prev_root, rest |-> 0] ELSE None]]

\* The values of verify_subproof_full on the first n hashes, given the earlier ones.
FullTo(f, proof, n) ==
  [i \in 0..n |-> IF i = 0 THEN AllNone ELSE FullStep(proof[i], i - 1, f[i - 1])]

LEMMA FullExists ==
  ASSUME NEW proof, NEW n \in Nat
  PROVE  \E f : f = FullTo(f, proof, n)
<1> DEFINE Body(f, i) == IF i = 0 THEN AllNone ELSE FullStep(proof[i], i - 1, f[i - 1])
           S == {l \in Nat : \E f : f = [i \in 0..l |-> Body(f, i)]}
<1>1. ASSUME NEW l \in Nat, \A j \in 0..(l - 1) : j \in S PROVE l \in S
  <2>1. CASE l = 0
    <3> DEFINE f == [i \in 0..l |-> AllNone]
    <3>1. f = [i \in 0..l |-> Body(f, i)]
      BY <2>1
    <3> QED
      BY <3>1
  <2>2. CASE l # 0
    <3>1. l - 1 \in 0..(l - 1) /\ l \in 0..l /\ l \notin 0..(l - 1)
          /\ \A i \in 0..l : i = l \/ i \in 0..(l - 1)
      BY <2>2
    <3>2. PICK g : g = [i \in 0..(l - 1) |-> Body(g, i)]
      BY <1>1, <3>1
    <3> DEFINE v == Body(g, l)
    <3> HIDE DEF v
    <3> DEFINE f == [i \in 0..l |-> IF i = l THEN v ELSE g[i]]
    <3>3. f = [i \in 0..l |-> f[i]] /\ f[l] = v /\ \A i \in 0..(l - 1) : f[i] = g[i]
      BY <3>1
    <3> HIDE DEF f
    <3>4. ASSUME NEW i \in 0..l PROVE f[i] = Body(f, i)
      <4>1. i # 0 => i - 1 \in 0..(l - 1)
        OBVIOUS
      <4>2. Body(f, i) = Body(g, i)
        BY <3>3, <4>1
      <4>3. i = l \/ (g[i] = Body(g, i) /\ f[i] = g[i])
        BY <3>1, <3>2, <3>3
      <4> HIDE DEF Body
      <4> QED
        BY <3>3, <4>2, <4>3 DEF v
    <3>5. f = [i \in 0..l |-> Body(f, i)]
      <4> HIDE DEF Body
      <4> QED
        BY <3>3, <3>4
    <3> QED
      BY <3>5
  <2> QED
    BY <2>1, <2>2
<1>2. Nat \subseteq S
  <2> HIDE DEF S
  <2> QED
    BY <1>1, FromBelow
<1> HIDE DEF Body
<1>3. PICK f : f = [i \in 0..n |-> Body(f, i)]
  BY <1>2
<1>4. f = FullTo(f, proof, n)
  BY <1>3 DEF FullTo, Body
<1> QED
  BY <1>4

\* The values of verify_consistency_internal on the first n hashes, given the earlier ones.
InternalTo(f, proof, prev_root, n) ==
  [i \in 0..n |-> IF i = 0 THEN Emptied(prev_root)
                  ELSE InternalStep(proof[i], i, verify_subproof_full(proof)[i - 1],
                                    f[i - 1], prev_root)]

LEMMA InternalExists ==
  ASSUME NEW proof, NEW prev_root, NEW n \in Nat
  PROVE  \E f : f = InternalTo(f, proof, prev_root, n)
<1> DEFINE Body(f, i) == IF i = 0 THEN Emptied(prev_root)
                         ELSE InternalStep(proof[i], i, verify_subproof_full(proof)[i - 1],
                                           f[i - 1], prev_root)
           S == {l \in Nat : \E f : f = [i \in 0..l |-> Body(f, i)]}
<1>1. ASSUME NEW l \in Nat, \A j \in 0..(l - 1) : j \in S PROVE l \in S
  <2>1. CASE l = 0
    <3> DEFINE f == [i \in 0..l |-> Emptied(prev_root)]
    <3>1. f = [i \in 0..l |-> Body(f, i)]
      BY <2>1
    <3> QED
      BY <3>1
  <2>2. CASE l # 0
    <3>1. l - 1 \in 0..(l - 1) /\ l \in 0..l /\ l \notin 0..(l - 1)
          /\ \A i \in 0..l : i = l \/ i \in 0..(l - 1)
      BY <2>2
    <3>2. PICK g : g = [i \in 0..(l - 1) |-> Body(g, i)]
      BY <1>1, <3>1
    <3> DEFINE v == Body(g, l)
    <3> HIDE DEF v
    <3> DEFINE f == [i \in 0..l |-> IF i = l THEN v ELSE g[i]]
    <3>3. f = [i \in 0..l |-> f[i]] /\ f[l] = v /\ \A i \in 0..(l - 1) : f[i] = g[i]
      BY <3>1
    <3> HIDE DEF f
    <3>4. ASSUME NEW i \in 0..l PROVE f[i] = Body(f, i)
      <4>1. i # 0 => i - 1 \in 0..(l - 1)
        OBVIOUS
      <4>2. Body(f, i) = Body(g, i)
        BY <3>3, <4>1
      <4>3. i = l \/ (g[i] = Body(g, i) /\ f[i] = g[i])
        BY <3>1, <3>2, <3>3
      <4> HIDE DEF Body
      <4> QED
        BY <3>3, <4>2, <4>3 DEF v
    <3>5. f = [i \in 0..l |-> Body(f, i)]
      <4> HIDE DEF Body
      <4> QED
        BY <3>3, <3>4
    <3> QED
      BY <3>5
  <2> QED
    BY <2>1, <2>2
<1>2. Nat \subseteq S
  <2> HIDE DEF S
  <2> QED
    BY <1>1, FromBelow
<1> HIDE DEF Body
<1>3. PICK f : f = [i \in 0..n |-> Body(f, i)]
  BY <1>2
<1>4. f = InternalTo(f, proof, prev_root, n)
  BY <1>3 DEF InternalTo, Body
<1> QED
  BY <1>4

LEMMA FullSteps ==
  ASSUME NEW proof, Len(proof) \in Nat
  PROVE  /\ verify_subproof_full(proof)[0] = AllNone
         /\ \A i \in 1..Len(proof) :
              verify_subproof_full(proof)[i]
                = FullStep(proof[i], i - 1, verify_subproof_full(proof)[i - 1])
<1> DEFINE f == verify_subproof_full(proof)
<1>1. f = [i \in 0..Len(proof) |-> IF i = 0 THEN AllNone ELSE FullStep(proof[i], i - 1, f[i - 1])]
  <2>1. f = CHOOSE g : g = FullTo(g, proof, Len(proof))
    BY Zenon DEF verify_subproof_full, FullTo, AllNone
  <2>2. \E g : g = FullTo(g, proof, Len(proof))
    BY FullExists
  <2> HIDE DEF f
  <2>3. f = FullTo(f, proof, Len(proof))
    BY <2>1, <2>2
  <2> QED
    BY <2>3 DEF FullTo
<1> HIDE DEF f
<1>2. f[0] = AllNone
  <2>1. 0 \in 0..Len(proof)
    OBVIOUS
  <2> QED
    BY <1>1, <2>1
<1>3. ASSUME NEW i \in 1..Len(proof) PROVE f[i] = FullStep(proof[i], i - 1, f[i - 1])
  <2>1. i \in 0..Len(proof) /\ i # 0
    OBVIOUS
  <2> QED
    BY <1>1, <2>1
<1> QED
  BY <1>2, <1>3 DEF f

LEMMA InternalSteps ==
  ASSUME NEW proof, NEW prev_root, Len(proof) \in Nat
  PROVE  /\ verify_consistency_internal(proof, prev_root)[0] = Emptied(prev_root)
         /\ \A i \in 1..Len(proof) :
              verify_consistency_internal(proof, prev_root)[i]
                = InternalStep(proof[i], i, verify_subproof_full(proof)[i - 1],
                               verify_consistency_internal(proof, prev_root)[i - 1], prev_root)
<1> DEFINE f == verify_consistency_internal(proof, prev_root)
           full == verify_subproof_full(proof)
<1>1. f = [i \in 0..Len(proof) |-> IF i = 0 THEN Emptied(prev_root)
                                   ELSE InternalStep(proof[i], i, full[i - 1], f[i - 1], prev_root)]
  <2>1. f = CHOOSE g : g = InternalTo(g, proof, prev_root, Len(proof))
    BY Zenon DEF verify_consistency_internal, InternalTo, Emptied
  <2>2. \E g : g = InternalTo(g, proof, prev_root, Len(proof))
    BY InternalExists
  <2>3. f = InternalTo(f, proof, prev_root, Len(proof))
    <3> HIDE DEF f
    <3> QED
      BY <2>1, <2>2
  <2> HIDE DEF f
  <2> QED
    BY <2>3 DEF InternalTo
<1> HIDE DEF f, full
<1>2. f[0] = Emptied(prev_root)
  <2>1. 0 \in 0..Len(proof)
    OBVIOUS
  <2> QED
    BY <1>1, <2>1
<1>3. ASSUME NEW i \in 1..Len(proof)
      PROVE  f[i] = InternalStep(proof[i], i, full[i - 1], f[i - 1], prev_root)
  <2>1. i \in 0..Len(proof) /\ i # 0
    OBVIOUS
  <2> QED
    BY <1>1, <2>1
<1> QED
  BY <1>2, <1>3 DEF f, full

\* The two kinds of answers.
Found(m, n, rest) == [ok |-> TRUE, m |-> m, n |-> n, rest |-> rest]
Rebuilt(root, rest)  == [ok |-> TRUE, root |-> root, rest |-> rest]

LEMMA FoundFields ==
  ASSUME NEW a, NEW b, NEW c
  PROVE  Found(a, b, c).ok /\ Found(a, b, c).m = a /\ Found(a, b, c).n = b /\ Found(a, b, c).rest = c
BY DEF Found

LEMMA RebuiltFields ==
  ASSUME NEW a, NEW c
  PROVE  Rebuilt(a, c).ok /\ Rebuilt(a, c).root = a /\ Rebuilt(a, c).rest = c
BY DEF Rebuilt

\* What verify_subproof_full answers when it pops `top` and what is left answers `sub`.
LEMMA FullStepIs ==
  ASSUME NEW top, NEW left, NEW sub, NEW n \in Sizes, NEW m \in 1..n
  PROVE  LET r == FullStep(top, left, sub)[n][m]
             s == IF m <= Split(n) THEN sub[Split(n)][m] ELSE sub[n - Split(n)][m - Split(n)]
         IN /\ m = n => r = Found(top, top, left)
            /\ m # n /\ ~s.ok => r = None
            /\ \A a, b, c : m # n /\ s = Found(a, b, c) =>
                 r = IF m <= Split(n) THEN Found(a, hash_children(b, top), c)
                     ELSE Found(hash_children(top, a), hash_children(top, b), c)
<1> DEFINE k == Split(n)
           r == FullStep(top, left, sub)[n][m]
           s == IF m <= k THEN sub[k][m] ELSE sub[n - k][m - k]
<1>1. r = IF m = n THEN [ok |-> TRUE, m |-> top, n |-> top, rest |-> left]
          ELSE IF ~s.ok THEN None
          ELSE IF m <= k THEN Found(s.m, hash_children(s.n, top), s.rest)
          ELSE Found(hash_children(top, s.m), hash_children(top, s.n), s.rest)
  BY DEF FullStep, Found, Split
<1> HIDE DEF r, s
<1>2. m = n => r = Found(top, top, left)
  BY <1>1 DEF Found
<1>3. m # n /\ ~s.ok => r = None
  BY <1>1
<1>4. ASSUME NEW a, NEW b, NEW c, m # n, s = Found(a, b, c)
      PROVE  r = IF m <= k THEN Found(a, hash_children(b, top), c)
                 ELSE Found(hash_children(top, a), hash_children(top, b), c)
  <2>1. s.ok /\ s.m = a /\ s.n = b /\ s.rest = c
    BY <1>4, FoundFields
  <2> QED
    BY <1>1, <1>4, <2>1
<1> QED
  BY <1>2, <1>3, <1>4 DEF r, s

\* And verify_consistency_internal, when verify_subproof_full answers `full` instead.
LEMMA InternalStepIs ==
  ASSUME NEW top, NEW i, NEW full, NEW sub, NEW prev_root, NEW n \in Sizes, NEW m \in 1..n
  PROVE  LET r == InternalStep(top, i, full, sub, prev_root)[n][m]
             s == IF m <= Split(n) THEN sub[Split(n)][m] ELSE full[n - Split(n)][m - Split(n)]
         IN /\ m = n => r = Rebuilt(prev_root, i)
            /\ m # n /\ ~s.ok => r = None
            /\ \A a, c : m # n /\ m <= Split(n) /\ s = Rebuilt(a, c) => r = Rebuilt(hash_children(a, top), c)
            /\ \A a, b, c : m # n /\ ~(m <= Split(n)) /\ s = Found(a, b, c) =>
                 r = IF hash_children(top, a) = prev_root THEN Rebuilt(hash_children(top, b), c) ELSE None
<1> DEFINE k == Split(n)
           r == InternalStep(top, i, full, sub, prev_root)[n][m]
           s == IF m <= k THEN sub[k][m] ELSE full[n - k][m - k]
<1>1. r = IF m = n THEN [ok |-> TRUE, root |-> prev_root, rest |-> i]
          ELSE IF ~s.ok THEN None
          ELSE IF m <= k THEN Rebuilt(hash_children(s.root, top), s.rest)
          ELSE IF hash_children(top, s.m) # prev_root THEN None
          ELSE [ok |-> TRUE, root |-> hash_children(top, s.n), rest |-> s.rest]
  BY DEF InternalStep, Rebuilt, Split
<1> HIDE DEF r, s
<1>2. m = n => r = Rebuilt(prev_root, i)
  BY <1>1 DEF Rebuilt
<1>3. m # n /\ ~s.ok => r = None
  BY <1>1
<1>4. ASSUME NEW a, NEW c, m # n, m <= k, s = Rebuilt(a, c) PROVE r = Rebuilt(hash_children(a, top), c)
  <2>1. s.ok /\ s.root = a /\ s.rest = c
    BY <1>4, RebuiltFields
  <2> QED
    BY <1>1, <1>4, <2>1
<1>5. ASSUME NEW a, NEW b, NEW c, m # n, ~(m <= k), s = Found(a, b, c)
      PROVE  r = IF hash_children(top, a) = prev_root THEN Rebuilt(hash_children(top, b), c) ELSE None
  <2>1. s.ok /\ s.m = a /\ s.n = b /\ s.rest = c
    BY <1>5, FoundFields
  <2> QED
    BY <1>1, <1>5, <2>1 DEF Rebuilt
<1> QED
  BY <1>2, <1>3, <1>4, <1>5 DEF r, s

-----------------------------------------------------------------------------
(* Consistency proofs.                                                     *)

\* One step of subproof.
Subproofs(leaves, proof, n) ==
  IF n = 1 THEN [lo \in Slices(leaves, 1) |-> [m \in {1} |-> [b \in BOOLEAN |->
                   Whole(b, build_subtree(leaves)[1][lo])]]]
  ELSE Proven(leaves, n, Split(n), proof[Split(n)], proof[n - Split(n)])

\* The proofs for slices of up to n leaves, given those for shorter ones.
SubproofsTo(f, leaves, n) == [i \in 1..n |-> Subproofs(leaves, f, i)]

LEMMA SubproofsExist ==
  ASSUME NEW leaves, NEW n \in Nat
  PROVE  \E f : f = SubproofsTo(f, leaves, n)
<1> DEFINE S == {l \in Nat : \E f : f = [i \in 1..l |-> Subproofs(leaves, f, i)]}
<1>1. ASSUME NEW l \in Nat, \A j \in 0..(l - 1) : j \in S PROVE l \in S
  <2>1. CASE l = 0
    <3> DEFINE f == [i \in 1..l |-> 0]
    <3>1. f = [i \in 1..l |-> Subproofs(leaves, f, i)]
      BY <2>1
    <3> QED
      BY <3>1
  <2>2. CASE l # 0
    <3>1. l - 1 \in 0..(l - 1) /\ l \in 1..l /\ l \notin 1..(l - 1)
          /\ \A i \in 1..l : i = l \/ i \in 1..(l - 1)
      BY <2>2
    <3>2. PICK g : g = [i \in 1..(l - 1) |-> Subproofs(leaves, g, i)]
      BY <1>1, <3>1
    <3> DEFINE v == Subproofs(leaves, g, l)
    <3> HIDE DEF v
    <3> DEFINE f == [i \in 1..l |-> IF i = l THEN v ELSE g[i]]
    <3>3. f = [i \in 1..l |-> f[i]] /\ f[l] = v /\ \A i \in 1..(l - 1) : f[i] = g[i]
      BY <3>1
    <3> HIDE DEF f
    <3>4. ASSUME NEW i \in 1..l PROVE f[i] = Subproofs(leaves, f, i)
      <4>1. Subproofs(leaves, f, i) = Subproofs(leaves, g, i)
        <5>1. CASE i = 1
          BY <5>1 DEF Subproofs
        <5>2. CASE i # 1
          <6>1. Split(i) \in 1..(i - 1) /\ i - Split(i) \in 1..(i - 1)
            BY <5>2, SplitIs
          <6> DEFINE k == Split(i)
          <6>3. k \in 1..(l - 1) /\ i - k \in 1..(l - 1)
            BY <6>1
          <6>2. f[Split(i)] = g[Split(i)] /\ f[i - Split(i)] = g[i - Split(i)]
            BY <3>3, <6>3
          <6> QED
            BY <6>2 DEF Subproofs
        <5> QED
          BY <5>1, <5>2
      <4>2. i = l \/ (g[i] = Subproofs(leaves, g, i) /\ f[i] = g[i])
        BY <3>1, <3>2, <3>3
      <4> QED
        BY <3>3, <4>1, <4>2 DEF v
    <3>5. f = [i \in 1..l |-> Subproofs(leaves, f, i)]
      BY <3>3, <3>4
    <3> QED
      BY <3>5
  <2> QED
    BY <2>1, <2>2
<1>2. Nat \subseteq S
  <2> HIDE DEF S
  <2> QED
    BY <1>1, FromBelow
<1>3. PICK f : f = [i \in 1..n |-> Subproofs(leaves, f, i)]
  BY <1>2
<1>4. f = SubproofsTo(f, leaves, n)
  BY <1>3 DEF SubproofsTo
<1> QED
  BY <1>4

\* What proves the first m leaves of a slice.
ProofParts(leaves, n, lo, m, b) ==
  LET proof == subproof(leaves)
      hash  == build_subtree(leaves)
      k     == Split(n)
  IN /\ m = n => proof[n][lo][m][b] = Whole(b, hash[n][lo])
     /\ m # n /\ m <= k => proof[n][lo][m][b] = Append(proof[k][lo][m][b], hash[n - k][lo + k])
     /\ m # n /\ ~(m <= k) =>
          proof[n][lo][m][b] = Append(proof[n - k][lo + k][m - k][FALSE], hash[k][lo])

LEMMA SubproofSteps ==
  ASSUME NEW leaves, Len(leaves) \in Nat, NEW n \in 1..Len(leaves), NEW lo \in Slices(leaves, n),
         NEW m \in 1..n, NEW b \in BOOLEAN
  PROVE  ProofParts(leaves, n, lo, m, b)
<1> DEFINE proof == subproof(leaves)
           hash == build_subtree(leaves)
<1>1. proof = [i \in 1..Len(leaves) |-> Subproofs(leaves, proof, i)]
  <2>1. proof = CHOOSE f : f = SubproofsTo(f, leaves, Len(leaves))
    BY Zenon DEF subproof, SubproofsTo, Subproofs, Split
  <2>2. \E f : f = SubproofsTo(f, leaves, Len(leaves))
    BY SubproofsExist
  <2> HIDE DEF proof
  <2>3. proof = SubproofsTo(proof, leaves, Len(leaves))
    BY <2>1, <2>2
  <2> QED
    BY <2>3 DEF SubproofsTo
<1> HIDE DEF proof
<1>2. proof[n] = Subproofs(leaves, proof, n)
  BY <1>1
<1>3. CASE n = 1
  <2>1. m = 1
    BY <1>3
  <2> HIDE DEF hash
  <2>2. proof[1][lo][1][b] = Whole(b, hash[1][lo])
    BY <1>2, <1>3 DEF Subproofs, hash
  <2> QED
    BY <1>3, <2>1, <2>2 DEF ProofParts, proof, hash
<1>4. CASE n # 1
  <2>1. proof[n] = Proven(leaves, n, Split(n), proof[Split(n)], proof[n - Split(n)])
    BY <1>2, <1>4 DEF Subproofs
  <2> HIDE DEF hash
  <2>2. proof[n][lo][m][b] =
          IF m = n THEN Whole(b, hash[n][lo])
          ELSE IF m <= Split(n) THEN Append(proof[Split(n)][lo][m][b], hash[n - Split(n)][lo + Split(n)])
               ELSE Append(proof[n - Split(n)][lo + Split(n)][m - Split(n)][FALSE], hash[Split(n)][lo])
    BY <2>1 DEF Proven, hash
  <2> QED
    BY <2>2 DEF ProofParts, proof, hash
<1> QED
  BY <1>3, <1>4

\* A proof is a sequence of hashes of the tree.
LEMMA ProofsTyped ==
  ASSUME NEW raw \in Seq(RawLogs), NEW n \in Nat, n > 0,
         NEW lo \in 0..(Len(raw) - n), NEW m \in 1..n, NEW b \in BOOLEAN
  PROVE  subproof(LeafHashes(raw))[n][lo][m][b] \in Seq(Nodes(LeafHashes(raw)))
<1> DEFINE leaves == LeafHashes(raw)
           hash == build_subtree(leaves)
           proof == subproof(leaves)
           S == {l \in Nat : l > 0 => \A x \in 0..(Len(raw) - l), y \in 1..l, c \in BOOLEAN :
                                        proof[l][x][y][c] \in Seq(Nodes(leaves))}
<1>0. /\ Len(raw) \in Nat /\ Len(leaves) = Len(raw)
      /\ \A l : Slices(leaves, l) = 0..(Len(raw) - l)
  BY LeafHashesOf
<1> HIDE DEF leaves, proof
<1>1. ASSUME NEW l \in Nat, \A j \in 0..(l - 1) : j \in S PROVE l \in S
  <2> SUFFICES ASSUME l > 0, NEW x \in 0..(Len(raw) - l), NEW y \in 1..l, NEW c \in BOOLEAN
               PROVE  proof[l][x][y][c] \in Seq(Nodes(leaves))
    OBVIOUS
  <2> DEFINE k == Split(l)
  <2>1. l \in 1..Len(leaves) /\ x \in Slices(leaves, l) /\ Len(leaves) \in Nat
    BY <1>0
  <2>2. /\ y = l => proof[l][x][y][c] = Whole(c, hash[l][x])
        /\ y # l /\ y <= k => proof[l][x][y][c] = Append(proof[k][x][y][c], hash[l - k][x + k])
        /\ y # l /\ ~(y <= k) =>
             proof[l][x][y][c] = Append(proof[l - k][x + k][y - k][FALSE], hash[k][x])
    <3>1. ProofParts(leaves, l, x, y, c)
      BY <2>1, SubproofSteps
    <3> QED
      BY <3>1 DEF ProofParts, proof
  <2>3. CASE y = l
    <3>1. hash[l][x] \in Nodes(leaves)
      <4>1. x \in 0..Len(leaves)
        BY <1>0, <2>1
      <4> QED
        BY <2>1, <4>1 DEF Nodes
    <3> HIDE DEF hash
    <3>2. <<>> \in Seq(Nodes(leaves)) /\ <<hash[l][x]>> \in Seq(Nodes(leaves))
      BY <3>1
    <3> QED
      BY <2>2, <2>3, <3>2 DEF Whole
  <2>4. CASE y # l
    <3>1. k \in 1..(l - 1) /\ l - k \in 1..(l - 1)
      <4>1. l > 1
        BY <2>4
      <4> QED
        BY <4>1, SplitIs
    <3> HIDE DEF k
    <3>2. /\ x \in 0..(Len(raw) - k) /\ x + k \in 0..(Len(raw) - (l - k))
          /\ k \in 0..(l - 1) /\ l - k \in 0..(l - 1) /\ k > 0 /\ l - k > 0
          /\ k \in 1..Len(leaves) /\ l - k \in 1..Len(leaves)
          /\ x \in 0..Len(leaves) /\ x + k \in 0..Len(leaves)
      BY <1>0, <3>1
    <3>3. k \in S /\ l - k \in S
      <4> HIDE DEF S
      <4> QED
        BY <1>1, <3>2
    <3>4. hash[l - k][x + k] \in Nodes(leaves) /\ hash[k][x] \in Nodes(leaves)
      BY <3>2 DEF Nodes
    <3> HIDE DEF hash
    <3>5. CASE y <= k
      <4>1. proof[k][x][y][c] \in Seq(Nodes(leaves))
        <5>1. y \in 1..k
          BY <3>1, <3>5
        <5> QED
          BY <3>2, <3>3, <5>1
      <4> QED
        <5> DEFINE p == proof[k][x][y][c]
                   h == hash[l - k][x + k]
        <5>1. proof[l][x][y][c] = Append(p, h)
          BY <2>2, <2>4, <3>5
        <5>2. p \in Seq(Nodes(leaves)) /\ h \in Nodes(leaves)
          BY <3>4, <4>1
        <5> HIDE DEF p, h
        <5>3. Append(p, h) \in Seq(Nodes(leaves))
          BY <5>2, AppendProperties
        <5> QED
          BY <5>1, <5>3
    <3>6. CASE ~(y <= k)
      <4>1. proof[l - k][x + k][y - k][FALSE] \in Seq(Nodes(leaves))
        <5>1. y - k \in 1..(l - k) /\ FALSE \in BOOLEAN
          BY <3>1, <3>6
        <5> QED
          BY <3>2, <3>3, <5>1
      <4> QED
        <5> DEFINE p == proof[l - k][x + k][y - k][FALSE]
                   h == hash[k][x]
        <5>1. proof[l][x][y][c] = Append(p, h)
          BY <2>2, <2>4, <3>6
        <5>2. p \in Seq(Nodes(leaves)) /\ h \in Nodes(leaves)
          BY <3>4, <4>1
        <5> HIDE DEF p, h
        <5>3. Append(p, h) \in Seq(Nodes(leaves))
          BY <5>2, AppendProperties
        <5> QED
          BY <5>1, <5>3
    <3> QED
      BY <3>5, <3>6
  <2> QED
    BY <2>3, <2>4
<1>2. Nat \subseteq S
  <2> HIDE DEF S
  <2> QED
    BY <1>1, FromBelow
<1> QED
  BY <1>2 DEF leaves, proof

-----------------------------------------------------------------------------
(* What a consistency proof proves.                                        *)

\* What an answer of verify_subproof_full(m, n) tells of two histories: when its roots
\* are those of m logs of the one and of n of the other, then the m are the first of the n.
FullTells(raw, sec, r, n, m) ==
  r.ok => /\ r = Found(r.m, r.n, r.rest)
          /\ \A mo \in 0..(Len(raw) - m), lo \in 0..(Len(sec) - n) :
               r.m = Span(raw, m, mo) /\ r.n = Span(sec, n, lo) => Agree(raw, sec, mo, lo, m)

\* And one of verify_consistency_internal(m, n).
InternalTells(raw, sec, prev_root, r, n, m) ==
  r.ok => /\ r = Rebuilt(r.root, r.rest)
          /\ \A mo \in 0..(Len(raw) - m), lo \in 0..(Len(sec) - n) :
               prev_root = Span(raw, m, mo) /\ r.root = Span(sec, n, lo) => Agree(raw, sec, mo, lo, m)

\* A slice of a history and the two parts it is split into.
LEMMA SpanParts ==
  ASSUME NEW raw \in Seq(RawLogs), NEW n \in Nat, n > 1, NEW lo \in 0..(Len(raw) - n)
  PROVE  /\ lo \in Nat
         /\ lo \in 0..(Len(raw) - Split(n))
         /\ lo + Split(n) \in 0..(Len(raw) - (n - Split(n)))
         /\ Span(raw, n, lo)
              = hash_children(Span(raw, Split(n), lo), Span(raw, n - Split(n), lo + Split(n)))
<1>1. Len(raw) \in Nat
  BY LenProperties
<1>2. Split(n) \in 1..(n - 1)
  BY SplitIs
<1>3. n \in 2..Len(raw)
  BY <1>1
<1> QED
  BY <1>1, <1>2, <1>3, SpanSteps

\* The sizes that the verifier goes down to.
LEMMA SizeParts ==
  ASSUME NEW n \in Sizes, NEW m \in 1..n, m # n
  PROVE  /\ n \in Nat /\ n > 1 /\ m \in Nat /\ m > 0
         /\ Split(n) \in Sizes /\ n - Split(n) \in Sizes /\ Split(n) \in 0..n
         /\ m <= Split(n) => m \in 1..Split(n)
         /\ ~(m <= Split(n)) => /\ m - Split(n) \in 1..(n - Split(n))
                                /\ m > 1 /\ Split(m) = Split(n)
<1>1. n \in Nat /\ n > 1 /\ m \in Nat /\ m > 0 /\ m <= n
  BY DEF Sizes
<1>2. Split(n) \in 1..(n - 1) /\ n - Split(n) \in 1..(n - 1)
  BY <1>1, SplitIs
<1>3. Split(n) < m => m > 1 /\ Split(m) = Split(n)
  BY <1>1, SplitIs
<1> QED
  BY <1>1, <1>2, <1>3 DEF Sizes

\* The first k and the other m - k logs agree.
LEMMA TogetherAgree ==
  ASSUME NEW raw \in Seq(RawLogs), NEW sec \in Seq(RawLogs), NEW n \in Sizes, NEW m \in 1..n, m # n,
         ~(m <= Split(n)), NEW mo \in 0..(Len(raw) - m), NEW lo \in 0..(Len(sec) - n), NEW top,
         top = Span(raw, Split(m), mo), top = Span(sec, Split(n), lo),
         Agree(raw, sec, mo + Split(n), lo + Split(n), m - Split(n))
  PROVE  Agree(raw, sec, mo, lo, m)
<1> DEFINE k == Split(n)
<1>1. /\ n \in Nat /\ n > 1 /\ m \in Nat /\ m > 1 /\ k \in Sizes /\ Split(m) = k /\ k \in 0..m /\ k <= m
  <2>1. n \in Nat /\ n > 1 /\ k \in Sizes /\ k \in 0..n /\ m > 1 /\ Split(m) = k /\ m \in Nat
    BY SizeParts
  <2> QED
    BY <2>1
<1>2. mo \in 0..(Len(raw) - k) /\ mo \in Nat
  BY <1>1, SpanParts
<1>3. lo \in 0..(Len(sec) - k) /\ lo \in Nat
  BY <1>1, SpanParts
<1>4. Agree(raw, sec, mo, lo, k)
  <2>1. Span(raw, k, mo) = Span(sec, k, lo)
    BY <1>1
  <2>2. k \in Nat /\ k > 0
    BY <1>1 DEF Sizes
  <2> HIDE DEF k
  <2> QED
    BY <1>2, <1>3, <2>1, <2>2, SameTree
<1> HIDE DEF k
<1> QED
  BY <1>1, <1>2, <1>3, <1>4, AgreeParts DEF k

LEMMA FullStepTells ==
  ASSUME NEW raw \in Seq(RawLogs), NEW sec \in Seq(RawLogs), NEW top, NEW left, NEW sub,
         \A x \in Sizes : \A y \in 1..x : FullTells(raw, sec, sub[x][y], x, y),
         NEW n \in Sizes, NEW m \in 1..n
  PROVE  FullTells(raw, sec, FullStep(top, left, sub)[n][m], n, m)
<1> DEFINE k == Split(n)
           r == FullStep(top, left, sub)[n][m]
           s == IF m <= k THEN sub[k][m] ELSE sub[n - k][m - k]
<1>1. /\ m = n => r = Found(top, top, left)
      /\ m # n /\ ~s.ok => r = None
      /\ \A a, b, c : m # n /\ s = Found(a, b, c) =>
           r = IF m <= k THEN Found(a, hash_children(b, top), c)
               ELSE Found(hash_children(top, a), hash_children(top, b), c)
  BY FullStepIs
<1> HIDE DEF r
<1>2. CASE m = n
  <2>1. r = Found(top, top, left)
    BY <1>1, <1>2
  <2>2. r.ok /\ r.m = top /\ r.n = top /\ r.rest = left
    BY <2>1, FoundFields
  <2>3. ASSUME NEW mo \in 0..(Len(raw) - m), NEW lo \in 0..(Len(sec) - n),
               r.m = Span(raw, m, mo), r.n = Span(sec, n, lo)
        PROVE  Agree(raw, sec, mo, lo, m)
    <3>1. n \in Nat /\ n > 0
      BY DEF Sizes
    <3>2. Span(raw, n, mo) = Span(sec, n, lo) /\ mo \in 0..(Len(raw) - n)
      BY <1>2, <2>2, <2>3
    <3>3. Agree(raw, sec, mo, lo, n)
      BY <3>1, <3>2, SameTree
    <3> QED
      BY <1>2, <3>3
  <2>4. FullTells(raw, sec, r, n, m)
    BY <2>1, <2>2, <2>3 DEF FullTells
  <2> QED
    BY <2>4 DEF r
<1>3. CASE m # n /\ ~s.ok
  <2>1. ~r.ok
    BY <1>1, <1>3 DEF None
  <2> QED
    BY <2>1 DEF FullTells, r
<1>4. CASE m # n /\ s.ok /\ m <= k
  <2>1. n \in Nat /\ n > 1 /\ k \in Sizes /\ m \in 1..k
    BY <1>4, SizeParts
  <2>2. s = sub[k][m] /\ FullTells(raw, sec, s, k, m)
    BY <1>4, <2>1
  <2> HIDE DEF s
  <2>3. s = Found(s.m, s.n, s.rest)
    BY <1>4, <2>2 DEF FullTells
  <2>4. r = Found(s.m, hash_children(s.n, top), s.rest)
    BY <1>1, <1>4, <2>3
  <2>5. r.m = s.m /\ r.n = hash_children(s.n, top) /\ r.rest = s.rest
    BY <2>4, FoundFields
  <2>6. ASSUME NEW mo \in 0..(Len(raw) - m), NEW lo \in 0..(Len(sec) - n),
               r.m = Span(raw, m, mo), r.n = Span(sec, n, lo)
        PROVE  Agree(raw, sec, mo, lo, m)
    <3>1. /\ lo \in 0..(Len(sec) - k)
          /\ Span(sec, n, lo) = hash_children(Span(sec, k, lo), Span(sec, n - k, lo + k))
      BY <2>1, SpanParts
    <3>2. hash_children(s.n, top) = hash_children(Span(sec, k, lo), Span(sec, n - k, lo + k))
      BY <2>5, <2>6, <3>1
    <3>3. s.n = Span(sec, k, lo)
      BY <3>2, ChildrenApart
    <3> QED
      BY <1>4, <2>2, <2>5, <2>6, <3>1, <3>3 DEF FullTells
  <2>7. FullTells(raw, sec, r, n, m)
    BY <2>4, <2>5, <2>6 DEF FullTells
  <2> QED
    BY <2>7 DEF r
<1>5. CASE m # n /\ s.ok /\ ~(m <= k)
  <2>1. n \in Nat /\ n > 1 /\ m > 1 /\ m \in Nat /\ n - k \in Sizes /\ m - k \in 1..(n - k) /\ Split(m) = k
    BY <1>5, SizeParts
  <2>2. s = sub[n - k][m - k] /\ FullTells(raw, sec, s, n - k, m - k)
    BY <1>5, <2>1
  <2> HIDE DEF s
  <2>3. s = Found(s.m, s.n, s.rest)
    BY <1>5, <2>2 DEF FullTells
  <2>4. r = Found(hash_children(top, s.m), hash_children(top, s.n), s.rest)
    BY <1>1, <1>5, <2>3
  <2>5. r.m = hash_children(top, s.m) /\ r.n = hash_children(top, s.n) /\ r.rest = s.rest
    BY <2>4, FoundFields
  <2>6. ASSUME NEW mo \in 0..(Len(raw) - m), NEW lo \in 0..(Len(sec) - n),
               r.m = Span(raw, m, mo), r.n = Span(sec, n, lo)
        PROVE  Agree(raw, sec, mo, lo, m)
    <3>1. /\ lo + k \in 0..(Len(sec) - (n - k))
          /\ Span(sec, n, lo) = hash_children(Span(sec, k, lo), Span(sec, n - k, lo + k))
      BY <2>1, SpanParts
    <3>2. /\ mo + Split(m) \in 0..(Len(raw) - (m - Split(m)))
          /\ Span(raw, m, mo) = hash_children(Span(raw, Split(m), mo), Span(raw, m - Split(m), mo + Split(m)))
      BY <2>1, SpanParts
    <3>3. hash_children(top, s.n) = hash_children(Span(sec, k, lo), Span(sec, n - k, lo + k))
      BY <2>5, <2>6, <3>1
    <3>4. top = Span(sec, k, lo) /\ s.n = Span(sec, n - k, lo + k)
      BY <3>3, ChildrenApart
    <3>5. hash_children(top, s.m)
            = hash_children(Span(raw, Split(m), mo), Span(raw, m - Split(m), mo + Split(m)))
      BY <2>5, <2>6, <3>2
    <3>6. top = Span(raw, Split(m), mo) /\ s.m = Span(raw, m - Split(m), mo + Split(m))
      BY <3>5, ChildrenApart
    <3>7. mo + k \in 0..(Len(raw) - (m - k)) /\ s.m = Span(raw, m - k, mo + k)
      BY <2>1, <3>2, <3>6
    <3>8. Agree(raw, sec, mo + k, lo + k, m - k)
      BY <1>5, <2>2, <3>1, <3>4, <3>7 DEF FullTells
    <3> QED
      BY <1>5, <3>4, <3>6, <3>8, TogetherAgree
  <2>7. FullTells(raw, sec, r, n, m)
    BY <2>4, <2>5, <2>6 DEF FullTells
  <2> QED
    BY <2>7 DEF r
<1> QED
  BY <1>2, <1>3, <1>4, <1>5

LEMMA InternalStepTells ==
  ASSUME NEW raw \in Seq(RawLogs), NEW sec \in Seq(RawLogs), NEW prev_root,
         NEW top, NEW i, NEW full, NEW sub,
         \A x \in Sizes : \A y \in 1..x : FullTells(raw, sec, full[x][y], x, y),
         \A x \in Sizes : \A y \in 1..x : InternalTells(raw, sec, prev_root, sub[x][y], x, y),
         NEW n \in Sizes, NEW m \in 1..n
  PROVE  InternalTells(raw, sec, prev_root, InternalStep(top, i, full, sub, prev_root)[n][m], n, m)
<1> DEFINE k == Split(n)
           r == InternalStep(top, i, full, sub, prev_root)[n][m]
           s == IF m <= k THEN sub[k][m] ELSE full[n - k][m - k]
<1>1. /\ m = n => r = Rebuilt(prev_root, i)
      /\ m # n /\ ~s.ok => r = None
      /\ \A a, c : m # n /\ m <= k /\ s = Rebuilt(a, c) => r = Rebuilt(hash_children(a, top), c)
      /\ \A a, b, c : m # n /\ ~(m <= k) /\ s = Found(a, b, c) =>
           r = IF hash_children(top, a) = prev_root THEN Rebuilt(hash_children(top, b), c) ELSE None
  BY InternalStepIs
<1> HIDE DEF r
<1>2. CASE m = n
  <2>1. r = Rebuilt(prev_root, i)
    BY <1>1, <1>2
  <2>2. r.ok /\ r.root = prev_root /\ r.rest = i
    BY <2>1, RebuiltFields
  <2>3. ASSUME NEW mo \in 0..(Len(raw) - m), NEW lo \in 0..(Len(sec) - n),
               prev_root = Span(raw, m, mo), r.root = Span(sec, n, lo)
        PROVE  Agree(raw, sec, mo, lo, m)
    <3>1. n \in Nat /\ n > 0
      BY DEF Sizes
    <3>2. Span(raw, n, mo) = Span(sec, n, lo) /\ mo \in 0..(Len(raw) - n)
      BY <1>2, <2>2, <2>3
    <3>3. Agree(raw, sec, mo, lo, n)
      BY <3>1, <3>2, SameTree
    <3> QED
      BY <1>2, <3>3
  <2>4. InternalTells(raw, sec, prev_root, r, n, m)
    BY <2>1, <2>2, <2>3 DEF InternalTells
  <2> QED
    BY <2>4 DEF r
<1>3. CASE m # n /\ ~s.ok
  <2>1. ~r.ok
    BY <1>1, <1>3 DEF None
  <2> QED
    BY <2>1 DEF InternalTells, r
<1>4. CASE m # n /\ s.ok /\ m <= k
  <2>1. n \in Nat /\ n > 1 /\ k \in Sizes /\ m \in 1..k
    BY <1>4, SizeParts
  <2>2. s = sub[k][m] /\ InternalTells(raw, sec, prev_root, s, k, m)
    BY <1>4, <2>1
  <2> HIDE DEF s
  <2>3. s = Rebuilt(s.root, s.rest)
    BY <1>4, <2>2 DEF InternalTells
  <2>4. r = Rebuilt(hash_children(s.root, top), s.rest)
    BY <1>1, <1>4, <2>3
  <2>5. r.root = hash_children(s.root, top) /\ r.rest = s.rest
    BY <2>4, RebuiltFields
  <2>6. ASSUME NEW mo \in 0..(Len(raw) - m), NEW lo \in 0..(Len(sec) - n),
               prev_root = Span(raw, m, mo), r.root = Span(sec, n, lo)
        PROVE  Agree(raw, sec, mo, lo, m)
    <3>1. /\ lo \in 0..(Len(sec) - k)
          /\ Span(sec, n, lo) = hash_children(Span(sec, k, lo), Span(sec, n - k, lo + k))
      BY <2>1, SpanParts
    <3>2. hash_children(s.root, top) = hash_children(Span(sec, k, lo), Span(sec, n - k, lo + k))
      BY <2>5, <2>6, <3>1
    <3>3. s.root = Span(sec, k, lo)
      BY <3>2, ChildrenApart
    <3> QED
      BY <1>4, <2>2, <2>6, <3>1, <3>3 DEF InternalTells
  <2>7. InternalTells(raw, sec, prev_root, r, n, m)
    BY <2>4, <2>5, <2>6 DEF InternalTells
  <2> QED
    BY <2>7 DEF r
<1>5. CASE m # n /\ s.ok /\ ~(m <= k)
  <2>1. n \in Nat /\ n > 1 /\ m > 1 /\ m \in Nat /\ n - k \in Sizes /\ m - k \in 1..(n - k) /\ Split(m) = k
    BY <1>5, SizeParts
  <2>2. s = full[n - k][m - k] /\ FullTells(raw, sec, s, n - k, m - k)
    BY <1>5, <2>1
  <2> HIDE DEF s
  <2>3. s = Found(s.m, s.n, s.rest)
    BY <1>5, <2>2 DEF FullTells
  <2>4. r = IF hash_children(top, s.m) = prev_root THEN Rebuilt(hash_children(top, s.n), s.rest) ELSE None
    BY <1>1, <1>5, <2>3
  <2>5. r.ok => /\ hash_children(top, s.m) = prev_root
                /\ r = Rebuilt(hash_children(top, s.n), s.rest)
                /\ r.root = hash_children(top, s.n) /\ r.rest = s.rest
    <3>1. ~None.ok
      BY DEF None
    <3> QED
      BY <2>4, <3>1, RebuiltFields
  <2>6. ASSUME r.ok, NEW mo \in 0..(Len(raw) - m), NEW lo \in 0..(Len(sec) - n),
               prev_root = Span(raw, m, mo), r.root = Span(sec, n, lo)
        PROVE  Agree(raw, sec, mo, lo, m)
    <3>1. /\ lo + k \in 0..(Len(sec) - (n - k))
          /\ Span(sec, n, lo) = hash_children(Span(sec, k, lo), Span(sec, n - k, lo + k))
      BY <2>1, SpanParts
    <3>2. /\ mo + Split(m) \in 0..(Len(raw) - (m - Split(m)))
          /\ Span(raw, m, mo) = hash_children(Span(raw, Split(m), mo), Span(raw, m - Split(m), mo + Split(m)))
      BY <2>1, SpanParts
    <3>3. hash_children(top, s.n) = hash_children(Span(sec, k, lo), Span(sec, n - k, lo + k))
      BY <2>5, <2>6, <3>1
    <3>4. top = Span(sec, k, lo) /\ s.n = Span(sec, n - k, lo + k)
      BY <3>3, ChildrenApart
    <3>5. hash_children(top, s.m)
            = hash_children(Span(raw, Split(m), mo), Span(raw, m - Split(m), mo + Split(m)))
      BY <2>5, <2>6, <3>2
    <3>6. top = Span(raw, Split(m), mo) /\ s.m = Span(raw, m - Split(m), mo + Split(m))
      BY <3>5, ChildrenApart
    <3>7. mo + k \in 0..(Len(raw) - (m - k)) /\ s.m = Span(raw, m - k, mo + k)
      BY <2>1, <3>2, <3>6
    <3>8. Agree(raw, sec, mo + k, lo + k, m - k)
      BY <1>5, <2>2, <3>1, <3>4, <3>7 DEF FullTells
    <3> QED
      BY <1>5, <3>4, <3>6, <3>8, TogetherAgree
  <2>7. InternalTells(raw, sec, prev_root, r, n, m)
    BY <2>5, <2>6 DEF InternalTells
  <2> QED
    BY <2>7 DEF r
<1> QED
  BY <1>2, <1>3, <1>4, <1>5

\* Whatever the proof is made of.
LEMMA AnswersTell ==
  ASSUME NEW raw \in Seq(RawLogs), NEW sec \in Seq(RawLogs), NEW prev_root,
         NEW proof, Len(proof) \in Nat,
         NEW i \in 0..Len(proof), NEW n \in Sizes, NEW m \in 1..n
  PROVE  InternalTells(raw, sec, prev_root, verify_consistency_internal(proof, prev_root)[i][n][m], n, m)
<1> DEFINE full == verify_subproof_full(proof)
           int  == verify_consistency_internal(proof, prev_root)
           Full(e) == \A x \in Sizes : \A y \in 1..x : FullTells(raw, sec, full[e][x][y], x, y)
           Rebuilds(e) == \A x \in Sizes : \A y \in 1..x : InternalTells(raw, sec, prev_root, int[e][x][y], x, y)
           S == {e \in Nat : e <= Len(proof) => Full(e) /\ Rebuilds(e)}
<1>1. /\ full[0] = AllNone
      /\ \A e \in 1..Len(proof) : full[e] = FullStep(proof[e], e - 1, full[e - 1])
  BY FullSteps
<1>2. /\ int[0] = Emptied(prev_root)
      /\ \A e \in 1..Len(proof) :
           int[e] = InternalStep(proof[e], e, full[e - 1], int[e - 1], prev_root)
  BY InternalSteps
<1> HIDE DEF full, int
<1>3. Full(0) /\ Rebuilds(0)
  <2>0. ~None.ok
    BY DEF None
  <2>1. ASSUME NEW x \in Sizes, NEW y \in 1..x PROVE FullTells(raw, sec, full[0][x][y], x, y)
    <3>1. full[0][x][y] = None
      BY <1>1 DEF AllNone
    <3> QED
      BY <2>0, <3>1 DEF FullTells
  <2>2. ASSUME NEW x \in Sizes, NEW y \in 1..x
        PROVE  InternalTells(raw, sec, prev_root, int[0][x][y], x, y)
    <3> DEFINE r == int[0][x][y]
    <3>1. r = IF y = x THEN Rebuilt(prev_root, 0) ELSE None
      BY <1>2 DEF Emptied, Rebuilt
    <3> HIDE DEF r
    <3>2. CASE y = x
      <4>1. r = Rebuilt(prev_root, 0) /\ r.root = prev_root /\ r.rest = 0
        BY <3>1, <3>2, RebuiltFields
      <4>2. ASSUME NEW mo \in 0..(Len(raw) - y), NEW lo \in 0..(Len(sec) - x),
                   prev_root = Span(raw, y, mo), r.root = Span(sec, x, lo)
            PROVE  Agree(raw, sec, mo, lo, y)
        <5>1. x \in Nat /\ x > 0
          BY DEF Sizes
        <5>2. Span(raw, x, mo) = Span(sec, x, lo) /\ mo \in 0..(Len(raw) - x)
          BY <3>2, <4>1, <4>2
        <5>3. Agree(raw, sec, mo, lo, x)
          BY <5>1, <5>2, SameTree
        <5> QED
          BY <3>2, <5>3
      <4>3. InternalTells(raw, sec, prev_root, r, x, y)
        BY <4>1, <4>2 DEF InternalTells
      <4> QED
        BY <4>3 DEF r
    <3>3. CASE y # x
      <4>1. ~r.ok
        BY <2>0, <3>1, <3>3
      <4> QED
        BY <4>1 DEF InternalTells, r
    <3> QED
      BY <3>2, <3>3
  <2> QED
    BY <2>1, <2>2
<1>4. ASSUME NEW e \in Nat, \A l \in 0..(e - 1) : l \in S PROVE e \in S
  <2>1. CASE e = 0
    BY <1>3, <2>1
  <2>2. CASE e # 0
    <3> SUFFICES ASSUME e <= Len(proof) PROVE Full(e) /\ Rebuilds(e)
      OBVIOUS
    <3>1. e \in 1..Len(proof) /\ e - 1 \in 0..(e - 1) /\ e - 1 <= Len(proof)
      BY <2>2
    <3>2. Full(e - 1) /\ Rebuilds(e - 1)
      BY <1>4, <3>1
    <3>3. /\ full[e] = FullStep(proof[e], e - 1, full[e - 1])
          /\ int[e] = InternalStep(proof[e], e, full[e - 1], int[e - 1], prev_root)
      BY <1>1, <1>2, <3>1
    <3> DEFINE f == full[e - 1]
               g == int[e - 1]
    <3>4. \A x \in Sizes : \A y \in 1..x : FullTells(raw, sec, f[x][y], x, y)
      BY <3>2
    <3>5. \A x \in Sizes : \A y \in 1..x : InternalTells(raw, sec, prev_root, g[x][y], x, y)
      BY <3>2
    <3> HIDE DEF f, g
    <3>6. ASSUME NEW x \in Sizes, NEW y \in 1..x PROVE FullTells(raw, sec, full[e][x][y], x, y)
      <4>1. FullTells(raw, sec, FullStep(proof[e], e - 1, f)[x][y], x, y)
        BY <3>4, FullStepTells
      <4> QED
        BY <3>3, <4>1 DEF f
    <3>7. ASSUME NEW x \in Sizes, NEW y \in 1..x
          PROVE  InternalTells(raw, sec, prev_root, int[e][x][y], x, y)
      <4>1. InternalTells(raw, sec, prev_root, InternalStep(proof[e], e, f, g, prev_root)[x][y], x, y)
        BY <3>4, <3>5, InternalStepTells
      <4> QED
        BY <3>3, <4>1 DEF f, g
    <3> QED
      BY <3>6, <3>7
  <2> QED
    BY <2>1, <2>2
<1>5. Nat \subseteq S
  <2> HIDE DEF S
  <2> QED
    BY <1>4, FromBelow
<1>6. Rebuilds(i)
  BY <1>5
<1> QED
  BY <1>6 DEF int

\* What the verifier accepts as an earlier state of the log is one, whatever the proof.
THEOREM AcceptedIsPrefix ==
  ASSUME NEW raw \in Seq(RawLogs), NEW sec \in Seq(RawLogs), NEW proof, Len(proof) \in Nat,
         verify_consistency_proof(Len(raw), Len(sec), from_raw_logs(raw), from_raw_logs(sec), proof)
  PROVE  IsPrefix(raw, sec)
<1> DEFINE m == Len(raw)
           n == Len(sec)
<1>1. m \in Nat /\ n \in Nat
  BY LenProperties
<1>2. m # 0 /\ m <= n
  BY DEF verify_consistency_proof
<1>3. from_raw_logs(raw) = Span(raw, m, 0) /\ from_raw_logs(sec) = Span(sec, n, 0)
  <2>1. n # 0
    BY <1>1, <1>2
  <2> QED
    BY <1>2, <2>1, RootIs
<1>4. Agree(raw, sec, 0, 0, m)
  <2>0. m > 0 /\ n > 0 /\ 0 \in 0..(m - m) /\ 0 \in 0..(n - n)
    BY <1>1, <1>2
  <2>1. CASE m = n
    <3>1. from_raw_logs(raw) = from_raw_logs(sec)
      BY <2>1 DEF verify_consistency_proof
    <3>2. Span(raw, m, 0) = Span(sec, m, 0) /\ 0 \in 0..(n - m)
      BY <1>3, <2>0, <2>1, <3>1
    <3> HIDE DEF m
    <3> QED
      BY <1>1, <2>0, <3>2, SameTree DEF m
  <2>2. CASE m # n
    <3> DEFINE r == verify_consistency_internal(proof, from_raw_logs(raw))[Len(proof)][n][m]
    <3>1. r.ok /\ r.root = from_raw_logs(sec)
      BY <2>2 DEF verify_consistency_proof, Reconstructs
    <3>2. n \in Sizes /\ m \in 1..n /\ Len(proof) \in 0..Len(proof)
      BY <1>1, <1>2 DEF Sizes
    <3>3. InternalTells(raw, sec, from_raw_logs(raw), r, n, m)
      BY <3>2, AnswersTell
    <3> HIDE DEF r
    <3> QED
      BY <1>3, <2>0, <3>1, <3>3 DEF InternalTells
  <2> QED
    BY <2>1, <2>2
<1>5. \A i \in 1..m : raw[i] = sec[i]
  BY <1>4 DEF Agree
<1>6. SubSeq(raw, 1, m) = SubSeq(sec, 1, m)
  <2>1. SubSeq(raw, 1, m) = [i \in 1..m |-> raw[i]]
    BY <1>1
  <2>2. SubSeq(sec, 1, m) = [i \in 1..m |-> sec[i]]
    BY <1>1, <1>2
  <2> HIDE DEF m, n
  <2> QED
    BY <1>5, <2>1, <2>2
<1> QED
  BY <1>2, <1>6 DEF IsPrefix

\* What consistency_proof answers.
LEMMA ProofOf ==
  ASSUME NEW raw \in Seq(RawLogs), NEW m \in 1..Len(raw)
  PROVE  /\ consistency_proof(raw, m).ok
         /\ m = Len(raw) => consistency_proof(raw, m).proof = <<>>
         /\ m # Len(raw) =>
              /\ consistency_proof(raw, m).proof = subproof(LeafHashes(raw))[Len(raw)][0][m][TRUE]
              /\ consistency_proof(raw, m).proof \in Seq(Nodes(LeafHashes(raw)))
<1> DEFINE n == Len(raw)
           pf == subproof(LeafHashes(raw))[n][0][m][TRUE]
<1>1. n \in Nat /\ m # 0 /\ ~(m > n) /\ n > 0 /\ 0 \in 0..(n - n) /\ TRUE \in BOOLEAN
  BY LenProperties
<1>2. pf \in Seq(Nodes(LeafHashes(raw)))
  BY <1>1, ProofsTyped
<1>3. consistency_proof(raw, m) = IF m = 0 \/ m > n THEN [ok |-> FALSE, proof |-> <<>>]
                                  ELSE [ok |-> TRUE, proof |-> IF m = n THEN <<>> ELSE pf]
  BY Zenon DEF consistency_proof
<1> HIDE DEF pf, n
<1>4. /\ consistency_proof(raw, m).ok
      /\ consistency_proof(raw, m).proof = IF m = n THEN <<>> ELSE pf
  BY <1>1, <1>3
<1> QED
  BY <1>2, <1>4 DEF pf, n

\* No proof made of any hashes convinces the verifier that a history that was rewritten,
\* truncated and regrown, or reordered is an earlier state of the log.
THEOREM ConsistencySoundAlways == HistoriesSpec => []ConsistencySound
<1>1. HistoriesTyped => ConsistencySound
  <2> DEFINE len == Len(consistency_proof(log, Len(fork)).proof)
  <2> SUFFICES ASSUME HistoriesTyped, fork # <<>>, Len(fork) <= Len(log), ~IsPrefix(fork, log),
                      NEW p \in [1..len -> ProofHashes]
               PROVE  ~verify_consistency_proof(Len(fork), Len(log), from_raw_logs(fork),
                                                from_raw_logs(log), p)
    BY DEF ConsistencySound
  <2>1. log \in Seq(RawLogs) /\ fork \in Seq(RawLogs) /\ Len(log) \in Nat /\ Len(fork) \in Nat
    BY LenProperties DEF HistoriesTyped
  <2>2. Len(fork) \in 1..Len(log)
    <3>1. Len(fork) # 0
      BY <2>1, EmptySeq
    <3> QED
      BY <2>1, <3>1
  <2>3. len \in Nat
    <3> DEFINE proof == consistency_proof(log, Len(fork)).proof
    <3>1. /\ Len(fork) = Len(log) => proof = <<>>
          /\ Len(fork) # Len(log) => proof \in Seq(Nodes(LeafHashes(log)))
      BY <2>1, <2>2, ProofOf
    <3> HIDE DEF proof
    <3>2. Len(proof) \in Nat
      BY <3>1, LenProperties
    <3> QED
      BY <3>2 DEF proof
  <2> HIDE DEF len
  <2>4. Len(p) \in Nat
    BY <2>3
  <2> QED
    BY <2>1, <2>4, AcceptedIsPrefix
<1> QED
  BY <1>1, TypedHistories, PTL

-----------------------------------------------------------------------------
(* Every consistency proof that is made is accepted.                       *)

\* What is left of a stack is verified alike, whatever lay on top of it.
LEMMA StackPrefix ==
  ASSUME NEW p, NEW q, NEW root, Len(p) \in Nat, Len(q) \in Nat, Len(p) <= Len(q),
         \A i \in 1..Len(p) : p[i] = q[i]
  PROVE  \A i \in 0..Len(p) :
           /\ verify_subproof_full(p)[i] = verify_subproof_full(q)[i]
           /\ verify_consistency_internal(p, root)[i] = verify_consistency_internal(q, root)[i]
<1> DEFINE f == verify_subproof_full(p)
           g == verify_subproof_full(q)
           x == verify_consistency_internal(p, root)
           y == verify_consistency_internal(q, root)
           S == {i \in Nat : i <= Len(p) => f[i] = g[i] /\ x[i] = y[i]}
<1>1. /\ f[0] = AllNone /\ \A i \in 1..Len(p) : f[i] = FullStep(p[i], i - 1, f[i - 1])
      /\ g[0] = AllNone /\ \A i \in 1..Len(q) : g[i] = FullStep(q[i], i - 1, g[i - 1])
  BY FullSteps
<1>2. /\ x[0] = Emptied(root)
      /\ \A i \in 1..Len(p) : x[i] = InternalStep(p[i], i, f[i - 1], x[i - 1], root)
      /\ y[0] = Emptied(root)
      /\ \A i \in 1..Len(q) : y[i] = InternalStep(q[i], i, g[i - 1], y[i - 1], root)
  BY InternalSteps
<1> HIDE DEF f, g, x, y
<1>3. ASSUME NEW i \in Nat, \A l \in 0..(i - 1) : l \in S PROVE i \in S
  <2>1. CASE i = 0
    BY <1>1, <1>2, <2>1
  <2>2. CASE i # 0 /\ i <= Len(p)
    <3>1. i - 1 \in 0..(i - 1) /\ i - 1 <= Len(p) /\ i \in 1..Len(p) /\ i \in 1..Len(q)
      BY <2>2
    <3>2. f[i - 1] = g[i - 1] /\ x[i - 1] = y[i - 1]
      BY <1>3, <3>1
    <3>3. p[i] = q[i]
      BY <3>1
    <3>4. f[i] = g[i]
      BY <1>1, <3>1, <3>2, <3>3
    <3>5. x[i] = y[i]
      BY <1>2, <3>1, <3>2, <3>3
    <3> QED
      BY <3>4, <3>5
  <2> QED
    BY <2>1, <2>2
<1>4. Nat \subseteq S
  <2> HIDE DEF S
  <2> QED
    BY <1>3, FromBelow
<1> QED
  BY <1>4 DEF f, g, x, y

\* A proof with one more hash on top: the step that pops it.
LEMMA Popped ==
  ASSUME NEW S, NEW p \in Seq(S), NEW h \in S, NEW root
  PROVE  LET q == Append(p, h)
         IN /\ Len(p) \in Nat /\ Len(q) = Len(p) + 1
            /\ verify_subproof_full(q)[Len(q)]
                 = FullStep(h, Len(p), verify_subproof_full(p)[Len(p)])
            /\ verify_consistency_internal(q, root)[Len(q)]
                 = InternalStep(h, Len(p) + 1, verify_subproof_full(p)[Len(p)],
                                verify_consistency_internal(p, root)[Len(p)], root)
<1> DEFINE q == Append(p, h)
           l == Len(p)
           f == verify_subproof_full(p)
           g == verify_subproof_full(q)
           x == verify_consistency_internal(p, root)
           y == verify_consistency_internal(q, root)
<1>1. /\ l \in Nat /\ Len(q) = l + 1 /\ q[l + 1] = h /\ \A i \in 1..l : q[i] = p[i]
  BY AppendProperties, LenProperties
<1>2. Len(q) \in Nat /\ l <= Len(q) /\ l \in 0..l /\ l + 1 \in 1..Len(q) /\ (l + 1) - 1 = l
  BY <1>1
<1> HIDE DEF q
<1>3. f[l] = g[l] /\ x[l] = y[l]
  BY <1>1, <1>2, StackPrefix
<1>4. g[l + 1] = FullStep(q[l + 1], l, g[l])
  BY <1>2, FullSteps
<1>5. y[l + 1] = InternalStep(q[l + 1], l + 1, g[l], y[l], root)
  BY <1>2, InternalSteps
<1> HIDE DEF f, g, x, y, l
<1>6. g[Len(q)] = FullStep(h, l, f[l]) /\ y[Len(q)] = InternalStep(h, l + 1, f[l], x[l], root)
  BY <1>1, <1>3, <1>4, <1>5
<1> QED
  BY <1>1, <1>6 DEF f, g, x, y, l, q

\* What the verifier makes of the proof for the first m of n logs.
HonestFull(raw, n, lo, m) ==
  LET pf == subproof(LeafHashes(raw))[n][lo][m][FALSE]
  IN verify_subproof_full(pf)[Len(pf)][n][m] = Found(Span(raw, m, lo), Span(raw, n, lo), 0)

HonestInternal(raw, n, lo, m) ==
  LET pf == subproof(LeafHashes(raw))[n][lo][m][TRUE]
  IN verify_consistency_internal(pf, Span(raw, m, lo))[Len(pf)][n][m] = Rebuilt(Span(raw, n, lo), 0)

LEMMA FullIsHonest ==
  ASSUME NEW raw \in Seq(RawLogs), NEW n \in Nat, n > 0,
         NEW lo \in 0..(Len(raw) - n), NEW m \in 1..n
  PROVE  HonestFull(raw, n, lo, m)
<1> DEFINE leaves == LeafHashes(raw)
           hash == build_subtree(leaves)
           proof(l, x, y) == subproof(leaves)[l][x][y][FALSE]
           S == {l \in Nat : l > 0 => \A x \in 0..(Len(raw) - l), y \in 1..l : HonestFull(raw, l, x, y)}
<1>0. /\ Len(raw) \in Nat /\ Len(leaves) = Len(raw)
      /\ \A l : Slices(leaves, l) = 0..(Len(raw) - l)
  BY LeafHashesOf
<1>1. ASSUME NEW l \in Nat, \A j \in 0..(l - 1) : j \in S PROVE l \in S
  <2> SUFFICES ASSUME l > 0, NEW x \in 0..(Len(raw) - l), NEW y \in 1..l
               PROVE  HonestFull(raw, l, x, y)
    OBVIOUS
  <2> DEFINE k == Split(l)
             q == proof(l, x, y)
             r == verify_subproof_full(q)[Len(q)][l][y]
  <2>1. l \in 1..Len(leaves) /\ x \in Slices(leaves, l) /\ Len(leaves) \in Nat /\ l \in Sizes
    BY <1>0 DEF Sizes
  <2>2. /\ y = l => q = Whole(FALSE, hash[l][x])
        /\ y # l /\ y <= k => q = Append(proof(k, x, y), hash[l - k][x + k])
        /\ y # l /\ ~(y <= k) => q = Append(proof(l - k, x + k, y - k), hash[k][x])
    <3>1. FALSE \in BOOLEAN
      OBVIOUS
    <3> HIDE DEF leaves
    <3>2. ProofParts(leaves, l, x, y, FALSE)
      BY <2>1, <3>1, SubproofSteps
    <3> QED
      BY <3>2 DEF ProofParts
  <2>3. CASE y = l
    <3>1. hash[l][x] = Span(raw, l, x)
      BY DEF Span
    <3> DEFINE v == Span(raw, l, x)
    <3>2. q = <<v>>
      BY <2>2, <2>3, <3>1 DEF Whole
    <3> HIDE DEF v, q
    <3>3. Len(q) = 1 /\ q[1] = v /\ 1 \in 1..Len(q) /\ 1 - 1 = 0
      BY <3>2
    <3>4. verify_subproof_full(q)[1] = FullStep(v, 0, verify_subproof_full(q)[0])
      <4>1. Len(q) \in Nat
        BY <3>3
      <4>2. verify_subproof_full(q)[1] = FullStep(q[1], 1 - 1, verify_subproof_full(q)[1 - 1])
        BY <3>3, <4>1, FullSteps
      <4> QED
        BY <3>3, <4>2
    <3>5. r = Found(v, v, 0)
      BY <2>1, <2>3, <3>3, <3>4, FullStepIs
    <3> QED
      BY <2>3, <3>5 DEF HonestFull, v, q
  <2>4. CASE y # l
    <3>1. /\ l \in Nat /\ l > 1 /\ k \in 1..(l - 1) /\ l - k \in 1..(l - 1)
          /\ k \in Sizes /\ l - k \in Sizes
          /\ y <= k => y \in 1..k
          /\ ~(y <= k) => y - k \in 1..(l - k) /\ y > 1 /\ Split(y) = k
      <4>1. l > 1
        BY <2>4
      <4> QED
        BY <2>1, <2>4, <4>1, SplitIs, SizeParts
    <3>2. /\ x \in Nat /\ x \in 0..(Len(raw) - k) /\ x + k \in 0..(Len(raw) - (l - k))
          /\ Span(raw, l, x) = hash_children(Span(raw, k, x), Span(raw, l - k, x + k))
      BY <3>1, SpanParts
    <3>3. k \in S /\ l - k \in S /\ k > 0 /\ l - k > 0
      <4>1. k \in 0..(l - 1) /\ l - k \in 0..(l - 1)
        BY <3>1
      <4> HIDE DEF S, k
      <4> QED
        BY <1>1, <3>1, <4>1
    <3>4. hash[l - k][x + k] = Span(raw, l - k, x + k) /\ hash[k][x] = Span(raw, k, x)
      BY DEF Span
    <3>5. Span(raw, l - k, x + k) \in Nodes(leaves) /\ Span(raw, k, x) \in Nodes(leaves)
      <4>1. /\ k \in 1..Len(leaves) /\ l - k \in 1..Len(leaves)
            /\ x \in 0..Len(leaves) /\ x + k \in 0..Len(leaves)
        BY <1>0, <3>1, <3>2
      <4> HIDE DEF k, leaves
      <4> QED
        BY <4>1 DEF Nodes, Span, leaves
    <3>6. CASE y <= k
      <4> DEFINE p == proof(k, x, y)
                 h == Span(raw, l - k, x + k)
                 s == verify_subproof_full(p)[Len(p)][k][y]
      <4>1. q = Append(p, h)
        BY <2>2, <2>4, <3>4, <3>6
      <4>2. p \in Seq(Nodes(leaves)) /\ h \in Nodes(leaves)
        <5>1. FALSE \in BOOLEAN
          OBVIOUS
        <5> QED
          BY <3>1, <3>2, <3>3, <3>5, <3>6, <5>1, ProofsTyped
      <4>3. s = Found(Span(raw, y, x), Span(raw, k, x), 0)
        <5>1. HonestFull(raw, k, x, y)
          BY <3>1, <3>2, <3>3, <3>6
        <5> QED
          BY <5>1 DEF HonestFull
      <4> HIDE DEF p, h, q
      <4>4. verify_subproof_full(q)[Len(q)] = FullStep(h, Len(p), verify_subproof_full(p)[Len(p)])
        BY <4>1, <4>2, Popped
      <4>5. r = Found(Span(raw, y, x), hash_children(Span(raw, k, x), h), 0)
        BY <2>1, <2>4, <3>6, <4>3, <4>4, FullStepIs
      <4> QED
        BY <3>2, <4>5 DEF HonestFull, q, h
    <3>7. CASE ~(y <= k)
      <4> DEFINE p == proof(l - k, x + k, y - k)
                 h == Span(raw, k, x)
                 s == verify_subproof_full(p)[Len(p)][l - k][y - k]
      <4>1. q = Append(p, h)
        BY <2>2, <2>4, <3>4, <3>7
      <4>2. p \in Seq(Nodes(leaves)) /\ h \in Nodes(leaves)
        <5>1. FALSE \in BOOLEAN
          OBVIOUS
        <5> QED
          BY <3>1, <3>2, <3>3, <3>5, <3>7, <5>1, ProofsTyped
      <4>3. s = Found(Span(raw, y - k, x + k), Span(raw, l - k, x + k), 0)
        <5>1. HonestFull(raw, l - k, x + k, y - k)
          BY <3>1, <3>2, <3>3, <3>7
        <5> QED
          BY <5>1 DEF HonestFull
      <4>4. Span(raw, y, x) = hash_children(h, Span(raw, y - k, x + k))
        <5>1. y \in Nat /\ y > 1 /\ x \in 0..(Len(raw) - y)
          BY <1>0, <3>1, <3>7
        <5> QED
          BY <3>1, <3>7, <5>1, SpanParts
      <4> HIDE DEF p, h, q
      <4>5. verify_subproof_full(q)[Len(q)] = FullStep(h, Len(p), verify_subproof_full(p)[Len(p)])
        BY <4>1, <4>2, Popped
      <4>6. r = Found(hash_children(h, Span(raw, y - k, x + k)),
                      hash_children(h, Span(raw, l - k, x + k)), 0)
        BY <2>1, <2>4, <3>7, <4>3, <4>5, FullStepIs
      <4> QED
        BY <3>2, <4>4, <4>6 DEF HonestFull, q, h
    <3> QED
      BY <3>6, <3>7
  <2> QED
    BY <2>3, <2>4
<1>2. Nat \subseteq S
  <2> HIDE DEF S
  <2> QED
    BY <1>1, FromBelow
<1> QED
  BY <1>2

LEMMA InternalIsHonest ==
  ASSUME NEW raw \in Seq(RawLogs), NEW n \in Nat, n > 0,
         NEW lo \in 0..(Len(raw) - n), NEW m \in 1..n
  PROVE  HonestInternal(raw, n, lo, m)
<1> DEFINE leaves == LeafHashes(raw)
           hash == build_subtree(leaves)
           proof(l, x, y) == subproof(leaves)[l][x][y][TRUE]
           S == {l \in Nat : l > 0 => \A x \in 0..(Len(raw) - l), y \in 1..l : HonestInternal(raw, l, x, y)}
<1>0. /\ Len(raw) \in Nat /\ Len(leaves) = Len(raw)
      /\ \A l : Slices(leaves, l) = 0..(Len(raw) - l)
  BY LeafHashesOf
<1>1. ASSUME NEW l \in Nat, \A j \in 0..(l - 1) : j \in S PROVE l \in S
  <2> SUFFICES ASSUME l > 0, NEW x \in 0..(Len(raw) - l), NEW y \in 1..l
               PROVE  HonestInternal(raw, l, x, y)
    OBVIOUS
  <2> DEFINE k == Split(l)
             q == proof(l, x, y)
             root == Span(raw, y, x)
             r == verify_consistency_internal(q, root)[Len(q)][l][y]
  <2>1. l \in 1..Len(leaves) /\ x \in Slices(leaves, l) /\ Len(leaves) \in Nat /\ l \in Sizes
    BY <1>0 DEF Sizes
  <2>2. /\ y = l => q = Whole(TRUE, hash[l][x])
        /\ y # l /\ y <= k => q = Append(proof(k, x, y), hash[l - k][x + k])
        /\ y # l /\ ~(y <= k) =>
             q = Append(subproof(leaves)[l - k][x + k][y - k][FALSE], hash[k][x])
    <3>1. TRUE \in BOOLEAN
      OBVIOUS
    <3> HIDE DEF leaves
    <3>2. ProofParts(leaves, l, x, y, TRUE)
      BY <2>1, <3>1, SubproofSteps
    <3> QED
      BY <3>2 DEF ProofParts
  <2>3. CASE y = l
    <3>1. q = <<>>
      BY <2>2, <2>3 DEF Whole
    <3> HIDE DEF q
    <3>2. Len(q) = 0 /\ Len(q) \in Nat
      BY <3>1
    <3>3. verify_consistency_internal(q, root)[0] = Emptied(root)
      BY <3>2, InternalSteps
    <3>4. r = Rebuilt(root, 0)
      BY <2>1, <2>3, <3>2, <3>3 DEF Emptied, Rebuilt
    <3> QED
      BY <2>3, <3>4 DEF HonestInternal, q
  <2>4. CASE y # l
    <3>1. /\ l \in Nat /\ l > 1 /\ k \in 1..(l - 1) /\ l - k \in 1..(l - 1)
          /\ k \in Sizes /\ l - k \in Sizes
          /\ y <= k => y \in 1..k
          /\ ~(y <= k) => y - k \in 1..(l - k) /\ y > 1 /\ Split(y) = k
      <4>1. l > 1
        BY <2>4
      <4> QED
        BY <2>1, <2>4, <4>1, SplitIs, SizeParts
    <3>2. /\ x \in Nat /\ x \in 0..(Len(raw) - k) /\ x + k \in 0..(Len(raw) - (l - k))
          /\ Span(raw, l, x) = hash_children(Span(raw, k, x), Span(raw, l - k, x + k))
      BY <3>1, SpanParts
    <3>3. k \in S /\ l - k \in S /\ k > 0 /\ l - k > 0
      <4>1. k \in 0..(l - 1) /\ l - k \in 0..(l - 1)
        BY <3>1
      <4> HIDE DEF S, k
      <4> QED
        BY <1>1, <3>1, <4>1
    <3>4. hash[l - k][x + k] = Span(raw, l - k, x + k) /\ hash[k][x] = Span(raw, k, x)
      BY DEF Span
    <3>5. Span(raw, l - k, x + k) \in Nodes(leaves) /\ Span(raw, k, x) \in Nodes(leaves)
      <4>1. /\ k \in 1..Len(leaves) /\ l - k \in 1..Len(leaves)
            /\ x \in 0..Len(leaves) /\ x + k \in 0..Len(leaves)
        BY <1>0, <3>1, <3>2
      <4> HIDE DEF k, leaves
      <4> QED
        BY <4>1 DEF Nodes, Span, leaves
    <3>6. CASE y <= k
      <4> DEFINE p == proof(k, x, y)
                 h == Span(raw, l - k, x + k)
                 s == verify_consistency_internal(p, root)[Len(p)][k][y]
      <4>1. q = Append(p, h)
        BY <2>2, <2>4, <3>4, <3>6
      <4>2. p \in Seq(Nodes(leaves)) /\ h \in Nodes(leaves)
        <5>1. TRUE \in BOOLEAN
          OBVIOUS
        <5> QED
          BY <3>1, <3>2, <3>3, <3>5, <3>6, <5>1, ProofsTyped
      <4>3. s = Rebuilt(Span(raw, k, x), 0)
        <5>1. HonestInternal(raw, k, x, y)
          BY <3>1, <3>2, <3>3, <3>6
        <5> QED
          BY <5>1 DEF HonestInternal
      <4> HIDE DEF p, h, q, root
      <4>4. verify_consistency_internal(q, root)[Len(q)]
              = InternalStep(h, Len(p) + 1, verify_subproof_full(p)[Len(p)],
                             verify_consistency_internal(p, root)[Len(p)], root)
        BY <4>1, <4>2, Popped
      <4>5. r = Rebuilt(hash_children(Span(raw, k, x), h), 0)
        BY <2>1, <2>4, <3>6, <4>3, <4>4, InternalStepIs
      <4> QED
        BY <3>2, <4>5 DEF HonestInternal, q, h, root
    <3>7. CASE ~(y <= k)
      <4> DEFINE p == subproof(leaves)[l - k][x + k][y - k][FALSE]
                 h == Span(raw, k, x)
                 s == verify_subproof_full(p)[Len(p)][l - k][y - k]
      <4>1. q = Append(p, h)
        BY <2>2, <2>4, <3>4, <3>7
      <4>2. p \in Seq(Nodes(leaves)) /\ h \in Nodes(leaves)
        <5>1. FALSE \in BOOLEAN
          OBVIOUS
        <5> QED
          BY <3>1, <3>2, <3>3, <3>5, <3>7, <5>1, ProofsTyped
      <4>3. s = Found(Span(raw, y - k, x + k), Span(raw, l - k, x + k), 0)
        <5>1. HonestFull(raw, l - k, x + k, y - k)
          <6>1. l - k \in Nat /\ y - k \in 1..(l - k)
            BY <3>1, <3>7
          <6> HIDE DEF k
          <6> QED
            BY <3>2, <3>3, <6>1, FullIsHonest
        <5> QED
          BY <5>1 DEF HonestFull
      <4>4. root = hash_children(h, Span(raw, y - k, x + k))
        <5>1. y \in Nat /\ y > 1 /\ x \in 0..(Len(raw) - y)
          BY <1>0, <3>1, <3>7
        <5> QED
          BY <3>1, <3>7, <5>1, SpanParts
      <4> HIDE DEF p, h, q, root
      <4>5. verify_consistency_internal(q, root)[Len(q)]
              = InternalStep(h, Len(p) + 1, verify_subproof_full(p)[Len(p)],
                             verify_consistency_internal(p, root)[Len(p)], root)
        BY <4>1, <4>2, Popped
      <4>6. r = Rebuilt(hash_children(h, Span(raw, l - k, x + k)), 0)
        BY <2>1, <2>4, <3>7, <4>3, <4>4, <4>5, InternalStepIs
      <4> QED
        BY <3>2, <4>6 DEF HonestInternal, q, h, root
    <3> QED
      BY <3>6, <3>7
  <2> QED
    BY <2>3, <2>4
<1>2. Nat \subseteq S
  <2> HIDE DEF S
  <2> QED
    BY <1>1, FromBelow
<1> QED
  BY <1>2

\* The log is consistent with each of its earlier states, whatever their sizes.
THEOREM ConsistencyCompleteAlways == HistoriesSpec => []ConsistencyComplete
<1>1. HistoriesTyped => ConsistencyComplete
  <2> SUFFICES ASSUME HistoriesTyped, NEW m \in 1..Len(log)
               PROVE  /\ consistency_proof(log, m).ok
                      /\ verify_consistency_proof(m, Len(log), from_raw_logs(SubSeq(log, 1, m)),
                                                  from_raw_logs(log), consistency_proof(log, m).proof)
    BY DEF ConsistencyComplete
  <2> DEFINE n == Len(log)
             pf == consistency_proof(log, m).proof
             early == SubSeq(log, 1, m)
             prev_root == from_raw_logs(early)
             root == from_raw_logs(log)
  <2>1. log \in Seq(RawLogs) /\ n \in Nat /\ m \in Nat /\ m # 0 /\ m <= n /\ n > 0
    BY LenProperties DEF HistoriesTyped
  <2>2. /\ consistency_proof(log, m).ok
        /\ m = n => pf = <<>>
        /\ m # n => pf = subproof(LeafHashes(log))[n][0][m][TRUE]
    BY <2>1, ProofOf
  <2>3. early \in Seq(RawLogs) /\ Len(early) = m /\ \A i \in 1..m : early[i] = log[i]
    <3>1. \A i \in 1..m : log[i] \in RawLogs
      BY <2>1, ElementOfSeq
    <3>2. early = [i \in 1..m |-> log[i]]
      BY <2>1
    <3> HIDE DEF early
    <3> QED
      BY <2>1, <3>1, <3>2
  <2> HIDE DEF early
  <2>4. prev_root = Span(log, m, 0) /\ root = Span(log, n, 0)
    <3>1. prev_root = Span(early, m, 0) /\ root = Span(log, n, 0)
      BY <2>1, <2>3, RootIs
    <3>2. 0 \in 0..(Len(early) - m) /\ 0 \in 0..(n - m) /\ m > 0
      BY <2>1, <2>3
    <3>3. Agree(early, log, 0, 0, m)
      BY <2>3 DEF Agree
    <3>4. Span(early, m, 0) = Span(log, m, 0)
      BY <2>1, <2>3, <3>2, <3>3, SameTree
    <3> QED
      BY <3>1, <3>4
  <2>5. CASE m = n
    <3>1. pf = <<>> /\ prev_root = root
      BY <2>2, <2>4, <2>5
    <3> QED
      BY <2>1, <2>2, <2>5, <3>1 DEF verify_consistency_proof, early
  <2>6. CASE m # n
    <3>1. 0 \in 0..(n - n)
      BY <2>1
    <3>2. HonestInternal(log, n, 0, m)
      BY <2>1, <3>1, InternalIsHonest
    <3> DEFINE res == verify_consistency_internal(pf, prev_root)[Len(pf)][n][m]
    <3>3. res = Rebuilt(Span(log, n, 0), 0)
      BY <2>2, <2>4, <2>6, <3>2 DEF HonestInternal
    <3>4. res.ok /\ res.root = root /\ res.rest = 0
      <4> HIDE DEF res
      <4> QED
        BY <2>4, <3>3, RebuiltFields
    <3>5. Reconstructs(m, n, prev_root, root, pf)
      BY <3>4 DEF Reconstructs
    <3> QED
      BY <2>1, <2>2, <2>6, <3>5 DEF verify_consistency_proof, early
  <2> QED
    BY <2>5, <2>6
<1> QED
  BY <1>1, TypedHistories, PTL

-----------------------------------------------------------------------------
(* The auditor.  Concatenating a sequence of sequences, by the least       *)
(* length at which a claim fails.                                          *)

\* One step of FlattenSeq.
Upto(seqs, f, i) == IF i = 1 THEN seqs[i] ELSE f[i - 1] \o seqs[i]

\* FlattenSeq is defined: a function that concatenates the first k sequences exists.
LEMMA FlattenExists ==
  ASSUME NEW seqs, NEW n \in Nat \ {0}
  PROVE  \E f : f = [i \in 1..n |-> Upto(seqs, f, i)]
<1> DEFINE Works(k) == \E f : f = [i \in 1..k |-> Upto(seqs, f, i)]
           bad == {k \in Nat \ {0} : ~Works(k)}
<1>1. Works(1)
  <2> DEFINE f == [i \in 1..1 |-> seqs[1]]
  <2>1. f = [i \in 1..1 |-> Upto(seqs, f, i)]
    BY DEF Upto
  <2> QED
    BY <2>1
<1>2. ASSUME NEW k \in Nat \ {0, 1}, Works(k - 1) PROVE Works(k)
  <2>1. PICK g : g = [i \in 1..(k - 1) |-> Upto(seqs, g, i)]
    BY <1>2
  <2> DEFINE f == [i \in 1..k |-> IF i = k THEN g[k - 1] \o seqs[k] ELSE g[i]]
  <2>3. f = [i \in 1..k |-> IF i = k THEN g[k - 1] \o seqs[k] ELSE g[i]]
    OBVIOUS
  <2> HIDE DEF f
  <2>2. f[k] = g[k - 1] \o seqs[k] /\ \A i \in 1..(k - 1) : f[i] = g[i]
    <3>1. k \in 1..k /\ \A i \in 1..(k - 1) : i \in 1..k /\ i # k
      OBVIOUS
    <3> DEFINE value(i) == IF i = k THEN g[k - 1] \o seqs[k] ELSE g[i]
    <3>2. \A i \in 1..k : f[i] = value(i)
      BY <2>3
    <3>3. f[k] = value(k) /\ \A i \in 1..(k - 1) : f[i] = value(i)
      BY <3>1, <3>2
    <3> QED
      BY <3>1, <3>3
  <2>4. ASSUME NEW i \in 1..k PROVE f[i] = Upto(seqs, f, i)
    <3>1. CASE i = k
      <4>1. k - 1 \in 1..(k - 1) /\ i # 1
        BY <3>1
      <4> QED
        BY <2>2, <3>1, <4>1 DEF Upto
    <3>2. CASE i \in 1..(k - 1)
      <4>1. g[i] = Upto(seqs, g, i)
        BY <2>1, <3>2
      <4>2. i # 1 => i - 1 \in 1..(k - 1)
        BY <3>2
      <4> QED
        BY <2>2, <3>2, <4>1, <4>2 DEF Upto
    <3> QED
      BY <3>1, <3>2
  <2>5. f = [i \in 1..k |-> Upto(seqs, f, i)]
    BY <2>3, <2>4
  <2> QED
    BY <2>5
<1> HIDE DEF Works
<1>3. SUFFICES ASSUME ~Works(n) PROVE FALSE
  BY DEF Works
<1>4. PICK k \in bad : \A q \in bad : k <= q
  <2>1. bad \subseteq Nat /\ n \in bad
    BY <1>3
  <2> HIDE DEF bad
  <2> QED
    BY <2>1, LeastMember
<1>5. k \in Nat \ {0, 1} /\ ~Works(k)
  BY <1>1
<1>6. k - 1 \in bad
  BY <1>2, <1>5
<1> HIDE DEF bad
<1> QED
  BY <1>4, <1>5, <1>6

\* What such a function yields: the members of the sequences so far.
LEMMA UptoMembers ==
  ASSUME NEW S, NEW n \in Nat \ {0}, NEW seqs \in [1..n -> Seq(S)],
         NEW f, \A i \in 1..n : f[i] = Upto(seqs, f, i)
  PROVE  f[n] \in Seq(S) /\ Range(f[n]) = UNION {Range(seqs[i]) : i \in 1..n}
<1> DEFINE Members(k) == UNION {Range(seqs[i]) : i \in 1..k}
           Works(k) == f[k] \in Seq(S) /\ Range(f[k]) = Members(k)
           bad == {k \in 1..n : ~Works(k)}
<1>1. Works(1)
  <2>1. f[1] = seqs[1] /\ 1..1 = {1} /\ seqs[1] \in Seq(S)
    BY DEF Upto
  <2> QED
    BY <2>1
<1>2. ASSUME NEW k \in 2..n, Works(k - 1) PROVE Works(k)
  <2>1. 1..k = 1..(k - 1) \cup {k}
    OBVIOUS
  <2>2. Members(k) = Members(k - 1) \cup Range(seqs[k])
    BY <2>1
  <2>0. k \in 1..n /\ k # 1
    OBVIOUS
  <2>3. f[k] = f[k - 1] \o seqs[k]
    BY <2>0 DEF Upto
  <2> HIDE DEF Members
  <2>4. seqs[k] \in Seq(S) /\ f[k - 1] \in Seq(S) /\ Range(f[k - 1]) = Members(k - 1)
    BY <1>2, <2>0
  <2>5. Range(f[k - 1] \o seqs[k]) = Range(f[k - 1]) \cup Range(seqs[k])
    BY <2>4, RangeConcatenation
  <2>6. f[k - 1] \o seqs[k] \in Seq(S)
    BY <2>4, ConcatProperties
  <2> QED
    BY <2>2, <2>3, <2>4, <2>5, <2>6
<1> HIDE DEF Works
<1>3. Works(n)
  <2> SUFFICES ASSUME ~Works(n) PROVE FALSE
    OBVIOUS
  <2>1. PICK k \in bad : \A q \in bad : k <= q
    <3>1. bad \subseteq Nat /\ n \in bad
      OBVIOUS
    <3> HIDE DEF bad
    <3> QED
      BY <3>1, LeastMember
  <2>2. k \in 2..n /\ ~Works(k)
    BY <1>1
  <2>3. k - 1 \in bad
    BY <1>2, <2>2
  <2> HIDE DEF bad
  <2> QED
    BY <2>1, <2>2, <2>3
<1> QED
  BY <1>3 DEF Works

\* FlattenSeq yields the members of its sequences, and no others.
LEMMA FlattenMembers ==
  ASSUME NEW S, NEW n \in Nat, NEW seqs \in [1..n -> Seq(S)]
  PROVE  /\ FlattenSeq(seqs) \in Seq(S)
         /\ Range(FlattenSeq(seqs)) = UNION {Range(seqs[i]) : i \in 1..n}
<1>0. Len(seqs) = n
  OBVIOUS
<1>1. CASE n = 0
  <2>1. seqs = <<>> /\ 1..n = {}
    BY <1>1
  <2>2. FlattenSeq(seqs) = <<>>
    BY <1>0, <1>1, <2>1 DEF FlattenSeq
  <2>3. Range(<<>>) = {}
    BY DEF Range
  <2>4. UNION {Range(seqs[i]) : i \in 1..n} = {}
    BY <2>1
  <2>5. <<>> \in Seq(S)
    OBVIOUS
  <2> QED
    BY <2>2, <2>3, <2>4, <2>5
<1>2. CASE n # 0
  <2>1. PICK g : g = [i \in 1..n |-> Upto(seqs, g, i)]
    BY <1>2, FlattenExists
  <2> DEFINE flatten == CHOOSE f : f = [i \in 1..n |-> IF i = 1 THEN seqs[i]
                                                       ELSE f[i - 1] \o seqs[i]]
  <2>2. FlattenSeq(seqs) = flatten[n]
    BY <1>0, <1>2 DEF FlattenSeq
  <2>3. flatten = [i \in 1..n |-> Upto(seqs, flatten, i)]
    BY <2>1 DEF Upto
  <2> HIDE DEF flatten
  <2>4. flatten[n] \in Seq(S) /\ Range(flatten[n]) = UNION {Range(seqs[i]) : i \in 1..n}
    <3>1. n \in Nat \ {0}
      BY <1>2
    <3>2. \A i \in 1..n : flatten[i] = Upto(seqs, flatten, i)
      BY <2>3
    <3> QED
      BY <3>1, <3>2, UptoMembers
  <2> QED
    BY <2>2, <2>4
<1> QED
  BY <1>1, <1>2

-----------------------------------------------------------------------------
(* What the auditor finds in a file, row by row.                           *)

Row == [block_id : {0, 1}, leaf_index : Nat, raw_log : RawLogs,
        raw_hash : {Digest(raw) : raw \in RawLogs}, meta : Metas]

Reasons   == {"CountDiscrepancy", "IndexMismatch", "DigestMismatch", "MerkleRootMismatch"}
Anomalies == [leaf_index : Nat, reason : Reasons]

Misplaced(rows, i) == rows[i].leaf_index # i - 1
Altered(rows, i)   == rows[i].raw_hash # Digest(rows[i].raw_log)

PerRow(rows) == FlattenSeq([i \in DOMAIN rows |-> RowAnomalies(rows, i)])

\* One finding, or none.
LEMMA OneFinding ==
  ASSUME NEW found \in BOOLEAN, NEW a \in Anomalies, NEW s, s = IF found THEN <<a>> ELSE <<>>
  PROVE  s \in Seq(Anomalies) /\ Range(s) = IF found THEN {a} ELSE {}
<1>1. CASE found
  <2>1. s = <<a>> /\ s \in Seq(Anomalies)
    BY <1>1
  <2> QED
    BY <1>1, <2>1 DEF Range
<1>2. CASE ~found
  <2>1. s = <<>> /\ s \in Seq(Anomalies)
    BY <1>2
  <2> QED
    BY <1>2, <2>1 DEF Range
<1> QED
  BY <1>1, <1>2

\* One row: what is found names its stored index.
LEMMA RowMembers ==
  ASSUME NEW rows \in Seq(Row), NEW i \in 1..Len(rows)
  PROVE  /\ RowAnomalies(rows, i) \in Seq(Anomalies)
         /\ \A a \in Range(RowAnomalies(rows, i)) : a.leaf_index = rows[i].leaf_index
         /\ Range(RowAnomalies(rows, i)) # {} <=> Misplaced(rows, i) \/ Altered(rows, i)
<1> DEFINE at     == rows[i].leaf_index
           wrong  == Anomaly(at, "IndexMismatch")
           other  == Anomaly(at, "DigestMismatch")
           index  == IF Misplaced(rows, i) THEN <<wrong>> ELSE <<>>
           digest == IF Altered(rows, i) THEN <<other>> ELSE <<>>
<1>1. at \in Nat
  <2>1. rows[i] \in Row
    OBVIOUS
  <2> QED
    BY <2>1 DEF Row
<1>2. RowAnomalies(rows, i) = index \o digest
  BY DEF RowAnomalies, Misplaced, Altered
<1> HIDE DEF at
<1>3. wrong \in Anomalies /\ other \in Anomalies /\ wrong.leaf_index = at /\ other.leaf_index = at
  BY <1>1 DEF Anomaly, Anomalies, Reasons
<1>4. Misplaced(rows, i) \in BOOLEAN /\ Altered(rows, i) \in BOOLEAN
  BY DEF Misplaced, Altered
<1> HIDE DEF wrong, other
<1>5. index = (IF Misplaced(rows, i) THEN <<wrong>> ELSE <<>>)
      /\ digest = (IF Altered(rows, i) THEN <<other>> ELSE <<>>)
  OBVIOUS
<1> HIDE DEF index, digest
<1>6. /\ index \in Seq(Anomalies)
      /\ Range(index) = IF Misplaced(rows, i) THEN {wrong} ELSE {}
  BY <1>3, <1>4, <1>5, OneFinding
<1>7. /\ digest \in Seq(Anomalies)
      /\ Range(digest) = IF Altered(rows, i) THEN {other} ELSE {}
  BY <1>3, <1>4, <1>5, OneFinding
<1>8. index \o digest \in Seq(Anomalies) /\ Range(index \o digest) = Range(index) \cup Range(digest)
  BY <1>6, <1>7, RangeConcatenation, ConcatProperties
<1> QED
  BY <1>2, <1>3, <1>6, <1>7, <1>8 DEF at

\* All rows.
LEMMA PerRowMembers ==
  ASSUME NEW rows \in Seq(Row)
  PROVE  /\ PerRow(rows) \in Seq(Anomalies)
         /\ {a.leaf_index : a \in Range(PerRow(rows))}
              = {rows[i].leaf_index : i \in {k \in 1..Len(rows) : Misplaced(rows, k) \/ Altered(rows, k)}}
<1> DEFINE n == Len(rows)
           seqs == [i \in 1..n |-> RowAnomalies(rows, i)]
           faulty == {k \in 1..n : Misplaced(rows, k) \/ Altered(rows, k)}
<1>1. n \in Nat /\ DOMAIN rows = 1..n
  OBVIOUS
<1>2. seqs \in [1..n -> Seq(Anomalies)]
  BY RowMembers
<1>3. PerRow(rows) = FlattenSeq(seqs)
  BY <1>1 DEF PerRow
<1>4. \A i \in 1..n : seqs[i] = RowAnomalies(rows, i)
  OBVIOUS
<1>5. ASSUME NEW i \in 1..n
      PROVE  /\ \A a \in Range(seqs[i]) : a.leaf_index = rows[i].leaf_index
             /\ Range(seqs[i]) # {} <=> i \in faulty
  <2> HIDE DEF seqs
  <2>1. i \in 1..Len(rows)
    OBVIOUS
  <2> QED
    BY <1>4, <2>1, RowMembers
<1> HIDE DEF n, seqs, faulty
<1>6. /\ FlattenSeq(seqs) \in Seq(Anomalies)
      /\ Range(FlattenSeq(seqs)) = UNION {Range(seqs[i]) : i \in 1..n}
  BY <1>1, <1>2, FlattenMembers
<1>7. faulty \subseteq 1..n
  BY DEF faulty
<1>8. {a.leaf_index : a \in UNION {Range(seqs[i]) : i \in 1..n}} = {rows[i].leaf_index : i \in faulty}
  <2>1. ASSUME NEW a \in UNION {Range(seqs[i]) : i \in 1..n}
        PROVE  \E i \in faulty : a.leaf_index = rows[i].leaf_index
    <3>1. PICK i \in 1..n : a \in Range(seqs[i])
      OBVIOUS
    <3> QED
      BY <1>5, <3>1
  <2>2. ASSUME NEW i \in faulty
        PROVE  \E a \in UNION {Range(seqs[j]) : j \in 1..n} : a.leaf_index = rows[i].leaf_index
    <3>1. i \in 1..n /\ Range(seqs[i]) # {}
      BY <1>5, <1>7
    <3>2. PICK a \in Range(seqs[i]) : TRUE
      BY <3>1
    <3> QED
      BY <1>5, <3>1, <3>2
  <2> QED
    BY <2>1, <2>2
<1> QED
  BY <1>3, <1>6, <1>8 DEF n, faulty

-----------------------------------------------------------------------------
(* The verdict.                                                            *)

\* What a valid report says of a file, as verify_records compares it with an entry.
Matches(rows, e) ==
  /\ from_raw_logs(Column(rows, "raw_log")) = e.merkle_root
  /\ Len(rows) = e.leaf_count
  /\ \A i \in 1..Len(rows) : ~Misplaced(rows, i) /\ ~Altered(rows, i)

LEMMA Verdict ==
  ASSUME NEW rows \in Seq(Row), NEW e
  PROVE  verify_records(rows, e).is_valid <=> Matches(rows, e)
<1> DEFINE count   == CountAnomalies(rows, e)
           perRow  == PerRow(rows)
           found   == count \o perRow
           matches == from_raw_logs(Column(rows, "raw_log")) = e.merkle_root
           all     == IF ~matches /\ found = <<>> THEN <<Anomaly(0, "MerkleRootMismatch")>> ELSE found
<1>1. verify_records(rows, e) = [is_valid |-> matches /\ all = <<>>, tampered_records |-> all]
  BY DEF verify_records, PerRow
<1>2. verify_records(rows, e).is_valid <=> matches /\ found = <<>>
  <2>1. verify_records(rows, e).is_valid = (matches /\ all = <<>>)
    BY <1>1
  <2>2. all = <<>> <=> ~(~matches /\ found = <<>>) /\ found = <<>>
    <3> HIDE DEF found, matches
    <3> QED
      OBVIOUS
  <2> HIDE DEF all, matches, found
  <2> QED
    BY <2>1, <2>2
<1>3. perRow \in Seq(Anomalies)
  BY PerRowMembers
<1>4. perRow = <<>> <=> \A i \in 1..Len(rows) : ~Misplaced(rows, i) /\ ~Altered(rows, i)
  <2>1. perRow = <<>> <=> Range(perRow) = {}
    <3> HIDE DEF perRow
    <3> QED
      BY <1>3 DEF Range
  <2>2. Range(perRow) = {} <=> {a.leaf_index : a \in Range(perRow)} = {}
    OBVIOUS
  <2>3. {a.leaf_index : a \in Range(perRow)}
          = {rows[i].leaf_index : i \in {k \in 1..Len(rows) : Misplaced(rows, k) \/ Altered(rows, k)}}
    BY PerRowMembers
  <2> HIDE DEF perRow
  <2> QED
    BY <2>1, <2>2, <2>3
<1>5. count = <<>> <=> Len(rows) = e.leaf_count
  BY DEF CountAnomalies
<1>6. count \in Seq(Anomalies)
  <2>1. Anomaly(Len(rows), "CountDiscrepancy") \in Anomalies
    BY DEF Anomaly, Anomalies, Reasons
  <2> QED
    BY <2>1 DEF CountAnomalies
<1>7. found = <<>> <=> count = <<>> /\ perRow = <<>>
  <2> HIDE DEF count, perRow
  <2>1. count \in Seq(Anomalies)
    BY <1>6
  <2>2. Len(count \o perRow) = Len(count) + Len(perRow) /\ Len(count) \in Nat /\ Len(perRow) \in Nat
    BY <1>3, <2>1
  <2> QED
    BY <1>3, <2>1, <2>2, EmptySeq
<1> QED
  BY <1>2, <1>4, <1>5, <1>7 DEF Matches

\* The rows of a block as a flush wrote them (storage.rs).
Block(b, rows) ==
  /\ rows \in Seq(Row) /\ rows # <<>>
  /\ \A i \in 1..Len(rows) : rows[i].block_id = b /\ ~Misplaced(rows, i) /\ ~Altered(rows, i)

SameEvidence(rows, i, j) ==
  /\ rows[i].leaf_index = written[j][i].leaf_index
  /\ rows[i].raw_log = written[j][i].raw_log
  /\ rows[i].raw_hash = written[j][i].raw_hash

LEMMA EvidenceByRow ==
  ASSUME NEW rows \in Seq(Row), NEW b \in {0, 1}, Block(b, written[b])
  PROVE  Evidence(rows) = Evidence(written[b])
           <=> /\ Len(rows) = Len(written[b])
               /\ \A i \in 1..Len(rows) : SameEvidence(rows, i, b)
<1> DEFINE w == written[b]
           entry(r) == <<r.leaf_index, r.raw_log, r.raw_hash>>
<1>1. w \in Seq(Row)
  BY DEF Block
<1>2. /\ DOMAIN rows = 1..Len(rows) /\ Len(rows) \in Nat
      /\ DOMAIN w = 1..Len(w) /\ Len(w) \in Nat
  BY <1>1
<1>3. /\ Evidence(rows) = [i \in 1..Len(rows) |-> entry(rows[i])]
      /\ Evidence(w) = [i \in 1..Len(w) |-> entry(w[i])]
  BY <1>2 DEF Evidence
<1>4. \A i : SameEvidence(rows, i, b) <=> entry(rows[i]) = entry(w[i])
  BY DEF SameEvidence
<1> HIDE DEF w, entry
<1>5. Evidence(rows) = Evidence(w)
        <=> Len(rows) = Len(w) /\ \A i \in 1..Len(rows) : entry(rows[i]) = entry(w[i])
  <2>1. ASSUME Evidence(rows) = Evidence(w)
        PROVE  Len(rows) = Len(w) /\ \A i \in 1..Len(rows) : entry(rows[i]) = entry(w[i])
    <3>1. 1..Len(rows) = 1..Len(w)
      BY <1>3, <2>1
    <3>2. Len(rows) = Len(w)
      <4>1. \A m, n \in Nat : m < n => n \in 1..n /\ n \notin 1..m
        OBVIOUS
      <4>0. Len(rows) \in Nat /\ Len(w) \in Nat
        BY <1>2
      <4>2. ~(Len(rows) < Len(w))
        BY <3>1, <4>0, <4>1
      <4>3. ~(Len(w) < Len(rows))
        BY <3>1, <4>0, <4>1
      <4> QED
        BY <4>0, <4>2, <4>3
    <3> QED
      BY <1>3, <2>1, <3>2
  <2>2. ASSUME Len(rows) = Len(w), \A i \in 1..Len(rows) : entry(rows[i]) = entry(w[i])
        PROVE  Evidence(rows) = Evidence(w)
    BY <1>3, <2>2
  <2> QED
    BY <2>1, <2>2
<1> QED
  BY <1>4, <1>5 DEF w

LEMMA ColumnOfLogs ==
  ASSUME NEW rows \in Seq(Row)
  PROVE  Column(rows, "raw_log") \in Seq(RawLogs) /\ Len(Column(rows, "raw_log")) = Len(rows)
<1>1. DOMAIN rows = 1..Len(rows) /\ Len(rows) \in Nat /\ \A i \in 1..Len(rows) : rows[i] \in Row
  BY LenProperties, ElementOfSeq
<1>2. \A i \in 1..Len(rows) : rows[i].raw_log \in RawLogs
  BY <1>1 DEF Row
<1>3. Column(rows, "raw_log") = [i \in 1..Len(rows) |-> rows[i].raw_log]
  BY <1>1 DEF Column
<1> QED
  BY <1>1, <1>2, <1>3

\* An audit against the entry of a block passes exactly on the evidence of the block.
LEMMA AuditOfBlock ==
  ASSUME NEW rows \in Seq(Row), NEW b \in {0, 1}, Block(b, written[b])
  PROVE  verify_records(rows, LedgerEntry(b)).is_valid <=> Evidence(rows) = Evidence(written[b])
<1> DEFINE w == written[b]
<1>1. w \in Seq(Row) /\ \A i \in 1..Len(w) : ~Misplaced(w, i) /\ ~Altered(w, i)
  BY DEF Block
<1>2. LedgerEntry(b).leaf_count = Len(w) /\ LedgerEntry(b).merkle_root = from_raw_logs(Column(w, "raw_log"))
  BY DEF LedgerEntry
<1>3. ASSUME Len(rows) = Len(w)
      PROVE  from_raw_logs(Column(rows, "raw_log")) = from_raw_logs(Column(w, "raw_log"))
               <=> Column(rows, "raw_log") = Column(w, "raw_log")
  <2> DEFINE c == Column(rows, "raw_log")
             d == Column(w, "raw_log")
  <2>1. c \in Seq(RawLogs) /\ d \in Seq(RawLogs) /\ Len(c) = Len(d)
    BY <1>1, <1>3, ColumnOfLogs
  <2> HIDE DEF c, d
  <2>2. from_raw_logs(c) = from_raw_logs(d) => c = d
    BY <2>1, RootsInjective
  <2> QED
    BY <2>2 DEF c, d
<1>4. Matches(rows, LedgerEntry(b))
        <=> /\ Column(rows, "raw_log") = Column(w, "raw_log")
            /\ Len(rows) = Len(w)
            /\ \A i \in 1..Len(rows) : ~Misplaced(rows, i) /\ ~Altered(rows, i)
  BY <1>2, <1>3 DEF Matches
<1>5. /\ DOMAIN rows = 1..Len(rows) /\ Len(rows) \in Nat
      /\ DOMAIN w = 1..Len(w) /\ Len(w) \in Nat
  BY <1>1
<1>6. /\ Column(rows, "raw_log") = [i \in 1..Len(rows) |-> rows[i].raw_log]
      /\ Column(w, "raw_log") = [i \in 1..Len(w) |-> w[i].raw_log]
  BY <1>5 DEF Column
<1>7. ASSUME Len(rows) = Len(w)
      PROVE  Column(rows, "raw_log") = Column(w, "raw_log")
               <=> \A i \in 1..Len(rows) : rows[i].raw_log = w[i].raw_log
  BY <1>6, <1>7
<1>8. ASSUME Len(rows) = Len(w), NEW i \in 1..Len(rows)
      PROVE  SameEvidence(rows, i, b)
               <=> rows[i].raw_log = w[i].raw_log /\ ~Misplaced(rows, i) /\ ~Altered(rows, i)
  <2>1. w[i].leaf_index = i - 1 /\ w[i].raw_hash = Digest(w[i].raw_log)
    BY <1>1, <1>8 DEF Misplaced, Altered
  <2>2. \A x, y : Digest(x) = Digest(y) => x = y
    <3>1. \A x : Digest(x).sha256 = x
      BY DEF Digest, Sha256
    <3> QED
      BY <3>1
  <2> QED
    BY <2>1, <2>2 DEF SameEvidence, Misplaced, Altered
<1> HIDE DEF w
<1> QED
  BY <1>4, <1>7, <1>8, Verdict, EvidenceByRow DEF w

-----------------------------------------------------------------------------
(* The inductive invariant.                                                *)

Positions == 1..(MaxRows + MaxEdits)

\* The file holds rows the schema can store, the blocks are as they were flushed.
Stored ==
  /\ file \in Seq(Row)
  /\ written \in [{0, 1} -> Seq(Row)]
  /\ Block(0, written[0]) /\ Block(1, written[1])

\* The `tamper` command leaves every stored index and digest where it was.
OnlyLogsDiffer ==
  cliOnly =>
    /\ Len(file) = Len(written[0])
    /\ \A i \in 1..Len(file) :
         file[i].leaf_index = i - 1 /\ file[i].raw_hash = Digest(written[0][i].raw_log)

FileInv == Stored /\ OnlyLogsDiffer

\* What `flush` writes is a block.
LEMMA FlushedBlock ==
  ASSUME NEW b \in {0, 1}, NEW n \in Nat \ {0}, NEW logs \in [1..n -> RawLogs], NEW m \in Metas
  PROVE  FlushedRows(b, logs, m) \in Seq(Row) /\ Block(b, FlushedRows(b, logs, m))
<1> DEFINE rows == FlushedRows(b, logs, m)
<1>1. rows = [i \in 1..n |-> StoredRow(b, i, logs[i], m)]
  BY DEF FlushedRows
<1>2. ASSUME NEW i \in 1..n
      PROVE  /\ StoredRow(b, i, logs[i], m) \in Row
             /\ rows[i].block_id = b /\ ~Misplaced(rows, i) /\ ~Altered(rows, i)
  <2>1. logs[i] \in RawLogs /\ i - 1 \in Nat
    OBVIOUS
  <2>2. StoredRow(b, i, logs[i], m) \in Row
    BY <2>1 DEF StoredRow, Row
  <2>3. rows[i] = StoredRow(b, i, logs[i], m)
    BY <1>1
  <2> HIDE DEF rows
  <2> QED
    BY <2>2, <2>3 DEF StoredRow, Misplaced, Altered
<1> HIDE DEF rows
<1>3. rows \in Seq(Row) /\ Len(rows) = n
  BY <1>1, <1>2
<1>4. rows # <<>>
  BY <1>3
<1> QED
  BY <1>2, <1>3, <1>4 DEF Block, rows

LEMMA InitFileInv == Init => FileInv
<1> SUFFICES ASSUME Init PROVE FileInv
  OBVIOUS
<1>1. PICK logs0 \in Logs(MaxRows), logs1 \in Logs(1), m \in Metas :
        written = [b \in {0, 1} |-> FlushedRows(b, IF b = 0 THEN logs0 ELSE logs1, m)]
  BY DEF Init
<1>2. \A k \in Nat : \A logs \in Logs(k) : \E n \in Nat \ {0} : logs \in [1..n -> RawLogs]
  BY DEF Logs
<1>3. written[0] = FlushedRows(0, logs0, m) /\ written[1] = FlushedRows(1, logs1, m)
      /\ written = [b \in {0, 1} |-> written[b]]
  BY <1>1
<1>4. written[0] \in Seq(Row) /\ Block(0, written[0])
  BY <1>2, <1>3, FlushedBlock, TamperAssumption
<1>5. written[1] \in Seq(Row) /\ Block(1, written[1])
  BY <1>2, <1>3, FlushedBlock
<1>6. file = written[0]
  BY DEF Init
<1>7. Stored
  BY <1>3, <1>4, <1>5, <1>6 DEF Stored
<1>8. OnlyLogsDiffer
  BY <1>4, <1>6 DEF OnlyLogsDiffer, Block, Misplaced, Altered
<1> QED
  BY <1>7, <1>8 DEF FileInv

\* An edit keeps the invariant if what it makes of the file keeps it.
LEMMA EditKeeps ==
  ASSUME FileInv, NEW rows \in Seq(Row), Edit(rows, FALSE)
  PROVE  FileInv'
<1>1. file' = rows /\ written' = written /\ ~cliOnly'
  BY DEF Edit
<1>2. Stored'
  BY <1>1 DEF FileInv, Stored, Block, Misplaced, Altered
<1> QED
  BY <1>1, <1>2 DEF FileInv, OnlyLogsDiffer

\* The `tamper` command.
LEMMA TamperKeeps ==
  ASSUME FileInv, NEW i, NEW raw \in RawLogs, run_tamper(i, raw)
  PROVE  FileInv'
<1> DEFINE n == Len(file)
<1>0. file \in Seq(Row)
  BY DEF FileInv, Stored
<1>a. n \in Nat /\ DOMAIN file = 1..n
  BY <1>0
<1>b. /\ i \in 1..n
      /\ file' = [file EXCEPT ![i].raw_log = raw]
      /\ written' = written /\ (cliOnly' => cliOnly)
  <2>1. i \in DOMAIN file /\ Edit([file EXCEPT ![i].raw_log = raw], TRUE)
    BY DEF run_tamper
  <2>2. cliOnly' = (cliOnly /\ TRUE)
    BY <2>1 DEF Edit
  <2> QED
    BY <1>a, <2>1, <2>2 DEF Edit
<1>1. /\ file \in Seq(Row) /\ n \in Nat /\ DOMAIN file = 1..n /\ i \in 1..n
      /\ file' = [file EXCEPT ![i].raw_log = raw]
      /\ written' = written /\ (cliOnly' => cliOnly)
  BY <1>0, <1>a, <1>b
<1> HIDE DEF n
<1>2. file[i] \in Row
  BY <1>1
<1>3. /\ [file[i] EXCEPT !.raw_log = raw] \in Row
      /\ [file[i] EXCEPT !.raw_log = raw].leaf_index = file[i].leaf_index
      /\ [file[i] EXCEPT !.raw_log = raw].raw_hash = file[i].raw_hash
  BY <1>2 DEF Row
<1>4. \A k \in 1..n : file'[k] = IF k = i THEN [file[i] EXCEPT !.raw_log = raw] ELSE file[k]
  BY <1>1
<1>5. file' \in Seq(Row) /\ Len(file') = n
  <2>1. \A k \in 1..n : file'[k] \in Row
    BY <1>1, <1>3, <1>4
  <2>2. DOMAIN file' = 1..n /\ file' = [k \in 1..n |-> file'[k]]
    BY <1>1
  <2>3. file' \in [1..n -> Row]
    BY <2>1, <2>2
  <2> QED
    BY <1>1, <2>3
<1>6. \A k \in 1..n : file'[k].leaf_index = file[k].leaf_index /\ file'[k].raw_hash = file[k].raw_hash
  BY <1>3, <1>4
<1>7. Stored'
  BY <1>1, <1>5 DEF FileInv, Stored, Block, Misplaced, Altered
<1>8. OnlyLogsDiffer'
  BY <1>1, <1>5, <1>6 DEF FileInv, OnlyLogsDiffer, n
<1> QED
  BY <1>7, <1>8 DEF FileInv

LEMMA NextFileInv == FileInv /\ [Next]_vars => FileInv'
<1> SUFFICES ASSUME FileInv, [Next]_vars PROVE FileInv'
  OBVIOUS
<1> DEFINE n == Len(file)
<1>0. file \in Seq(Row) /\ n \in Nat /\ DOMAIN file = 1..n /\ \A k \in 1..n : file[k] \in Row
  BY DEF FileInv, Stored
<1>1. ASSUME NEW i \in Positions, NEW raw \in RawLogs, run_tamper(i, raw)
      PROVE  FileInv'
  BY <1>1, TamperKeeps
<1>2. ASSUME NEW i \in Positions, NEW raw \in RawLogs, AlterLogAndDigest(i, raw)
      PROVE  FileInv'
  <2>1. i \in 1..n
    BY <1>0, <1>2 DEF AlterLogAndDigest
  <2>2. [file[i] EXCEPT !.raw_log = raw, !.raw_hash = Digest(raw)] \in Row
    BY <1>0, <2>1 DEF Row
  <2> DEFINE rows == [file EXCEPT ![i].raw_log = raw, ![i].raw_hash = Digest(raw)]
  <2>3. rows = [file EXCEPT ![i] = [file[i] EXCEPT !.raw_log = raw, !.raw_hash = Digest(raw)]]
    BY <1>0, <2>1
  <2>4. rows \in Seq(Row)
    BY <1>0, <2>1, <2>2, <2>3
  <2>5. Edit(rows, FALSE)
    BY <1>2 DEF AlterLogAndDigest
  <2> QED
    BY <2>4, <2>5, EditKeeps
<1>3. ASSUME NEW i \in Positions, NEW raw \in RawLogs, NEW m \in Metas, InjectRow(i, raw, m)
      PROVE  FileInv'
  <2>1. i \in 1..(n + 1) /\ i - 1 \in Nat
    BY <1>0, <1>3 DEF InjectRow
  <2>2. StoredRow(0, i, raw, m) \in Row
    BY <2>1 DEF StoredRow, Row
  <2> DEFINE new == StoredRow(0, i, raw, m)
             rows == InsertAt(file, i, new)
  <2>3. rows = SubSeq(file, 1, i - 1) \o <<new>> \o SubSeq(file, i, n)
    BY DEF InsertAt
  <2>4. SubSeq(file, 1, i - 1) \in Seq(Row) /\ SubSeq(file, i, n) \in Seq(Row)
    BY <1>0, <2>1
  <2> HIDE DEF new
  <2>5. <<new>> \in Seq(Row)
    BY <2>2 DEF new
  <2>6. rows \in Seq(Row)
    BY <2>3, <2>4, <2>5, ConcatProperties
  <2>7. Edit(rows, FALSE)
    BY <1>3 DEF InjectRow, new
  <2> HIDE DEF rows
  <2> QED
    BY <2>6, <2>7, EditKeeps
<1>4. ASSUME NEW i \in Positions, DeleteRow(i)
      PROVE  FileInv'
  <2>1. i \in 1..n
    BY <1>0, <1>4 DEF DeleteRow
  <2> DEFINE rows == RemoveAt(file, i)
  <2>2. rows = SubSeq(file, 1, i - 1) \o SubSeq(file, i + 1, n)
    BY DEF RemoveAt
  <2>3. SubSeq(file, 1, i - 1) \in Seq(Row) /\ SubSeq(file, i + 1, n) \in Seq(Row)
    BY <1>0, <2>1
  <2>4. rows \in Seq(Row)
    BY <2>2, <2>3, ConcatProperties
  <2>5. Edit(rows, FALSE)
    BY <1>4 DEF DeleteRow
  <2> HIDE DEF rows
  <2> QED
    BY <2>4, <2>5, EditKeeps
<1>5. ASSUME NEW i \in Positions, NEW m \in Metas, AlterMeta(i, m)
      PROVE  FileInv'
  <2>1. i \in 1..n
    BY <1>0, <1>5 DEF AlterMeta
  <2>2. [file[i] EXCEPT !.meta = m] \in Row
    BY <1>0, <2>1 DEF Row
  <2> DEFINE rows == [file EXCEPT ![i].meta = m]
  <2>3. rows \in Seq(Row)
    BY <1>0, <2>1, <2>2
  <2>4. Edit(rows, FALSE)
    BY <1>5 DEF AlterMeta
  <2> QED
    BY <2>3, <2>4, EditKeeps
<1>6. ASSUME NEW i \in Positions, NEW j \in Positions, SwapRows(i, j)
      PROVE  FileInv'
  <2>1. i \in 1..n /\ j \in 1..n
    BY <1>0, <1>6 DEF SwapRows
  <2> DEFINE rows == [file EXCEPT ![i] = file[j], ![j] = file[i]]
  <2>2. rows \in Seq(Row)
    BY <1>0, <2>1
  <2>3. Edit(rows, FALSE)
    BY <1>6 DEF SwapRows
  <2> QED
    BY <2>2, <2>3, EditKeeps
<1>7. CASE Renumber
  <2> DEFINE rows == [i \in DOMAIN file |-> [file[i] EXCEPT !.leaf_index = i - 1]]
  <2>1. \A i \in 1..n : [file[i] EXCEPT !.leaf_index = i - 1] \in Row
    BY <1>0 DEF Row
  <2>2. rows \in Seq(Row)
    BY <1>0, <2>1
  <2>3. Edit(rows, FALSE)
    BY <1>7 DEF Renumber
  <2> QED
    BY <2>2, <2>3, EditKeeps
<1>8. CASE Replace
  <2>1. written[1] \in Seq(Row) /\ Edit(written[1], FALSE)
    BY <1>8 DEF Replace, FileInv, Stored
  <2> QED
    BY <2>1, EditKeeps
<1>9. CASE UNCHANGED vars
  BY <1>9 DEF vars, FileInv, Stored, OnlyLogsDiffer, Block, Misplaced, Altered
<1> QED
  BY <1>1, <1>2, <1>3, <1>4, <1>5, <1>6, <1>7, <1>8, <1>9 DEF Next, Positions

THEOREM FileInvAlways == Spec => []FileInv
<1> QED
  BY InitFileInv, NextFileInv, PTL DEF Spec

-----------------------------------------------------------------------------
(* Theorems.                                                               *)

\* What the audit of the file finds, when it looks up the entry itself.
LEMMA OwnEntry ==
  ASSUME Stored, Passes
  PROVE  \E b \in {0, 1} : Evidence(file) = Evidence(written[b]) /\ file[1].block_id = b
<1> DEFINE id    == IF file = <<>> THEN 0 ELSE file[1].block_id
           found == {e \in Range(ledger) : e.block_id = id}
           entry == CHOOSE e \in found : TRUE
<1>1. found # {} /\ verify_records(file, entry).is_valid
  <2>1. verify_block_with_ledger(file, 0)
          = IF found = {} THEN [is_valid |-> FALSE, tampered_records |-> <<>>]
            ELSE verify_records(file, entry)
    BY DEF verify_block_with_ledger
  <2>2. verify_block_with_ledger(file, 0).is_valid
    BY DEF Passes
  <2> HIDE DEF found, entry
  <2>3. found # {}
    BY <2>1, <2>2
  <2> QED
    BY <2>1, <2>2, <2>3
<1>2. entry \in found
  BY <1>1
<1>3. Range(ledger) = {LedgerEntry(0), LedgerEntry(1)}
  BY DEF Range, ledger
<1>4. PICK b \in {0, 1} : entry = LedgerEntry(b) /\ id = b
  <2>1. \A b \in {0, 1} : LedgerEntry(b).block_id = b
    BY DEF LedgerEntry
  <2> HIDE DEF id, entry
  <2> QED
    BY <1>2, <1>3, <2>1
<1> HIDE DEF entry, id
<1>5. Evidence(file) = Evidence(written[b])
  BY <1>1, <1>4, AuditOfBlock DEF Stored
<1>6. file # <<>>
  <2>1. Len(file) = Len(written[b])
    BY <1>5, EvidenceByRow DEF Stored
  <2>2. written[b] \in Seq(Row) /\ written[b] # <<>>
    BY DEF Stored, Block
  <2> QED
    BY <2>1, <2>2, EmptySeq
<1> QED
  BY <1>4, <1>5, <1>6 DEF id

\* For blocks of any size and any sequence of edits, an audit passes exactly when the
\* raw logs, their order and their digests are those that were flushed.
THEOREM AuditIsExactAlways == Spec => []AuditIsExact
<1>1. ASSUME FileInv PROVE AuditIsExact
  <2>1. Stored
    BY <1>1 DEF FileInv
  <2>2. verify_records(file, LedgerEntry(0)).is_valid <=> Evidence(file) = Evidence(written[0])
    BY <2>1, AuditOfBlock DEF Stored
  <2>3. Passes => \E b \in {0, 1} : Evidence(file) = Evidence(written[b]) /\ file[1].block_id = b
    BY <2>1, OwnEntry
  <2> QED
    BY <2>2, <2>3 DEF AuditIsExact
<1> QED
  BY <1>1, FileInvAlways, PTL

\* For blocks of any size and any number of `tamper` commands, exactly the rows whose
\* raw log differs from what was flushed are reported.
THEOREM CliTamperIsolatedAlways == Spec => []CliTamperIsolated
<1>1. ASSUME FileInv, cliOnly
      PROVE  {a.leaf_index : a \in Range(verify_records(file, LedgerEntry(0)).tampered_records)}
               = {i - 1 : i \in {k \in DOMAIN file : file[k].raw_log # written[0][k].raw_log}}
  <2> DEFINE w       == written[0]
             count   == CountAnomalies(file, LedgerEntry(0))
             perRow  == PerRow(file)
             matches == from_raw_logs(Column(file, "raw_log")) = LedgerEntry(0).merkle_root
             all     == IF ~matches /\ count \o perRow = <<>>
                          THEN <<Anomaly(0, "MerkleRootMismatch")>> ELSE count \o perRow
             changed == {k \in 1..Len(file) : file[k].raw_log # w[k].raw_log}
  <2>1. /\ file \in Seq(Row) /\ w \in Seq(Row) /\ Len(file) = Len(w)
        /\ \A i \in 1..Len(w) : ~Misplaced(w, i) /\ ~Altered(w, i)
        /\ \A i \in 1..Len(file) :
             file[i].leaf_index = i - 1 /\ file[i].raw_hash = Digest(w[i].raw_log)
    BY <1>1 DEF FileInv, Stored, OnlyLogsDiffer, Block
  <2>2. verify_records(file, LedgerEntry(0)).tampered_records = all
    BY DEF verify_records, PerRow
  <2>3. count = <<>>
    BY <2>1 DEF CountAnomalies, LedgerEntry
  <2>4. perRow \in Seq(Anomalies)
    BY <2>1, PerRowMembers
  <2>5. \A i \in 1..Len(file) : ~Misplaced(file, i) /\ (Altered(file, i) <=> i \in changed)
    <3>1. \A x, y : Digest(x) = Digest(y) <=> x = y
      <4>1. \A x : Digest(x).sha256 = x
        BY DEF Digest, Sha256
      <4> QED
        BY <4>1
    <3> HIDE DEF w
    <3> QED
      BY <2>1, <3>1 DEF Misplaced, Altered
  <2>6. {a.leaf_index : a \in Range(perRow)} = {i - 1 : i \in changed}
    <3>1. {a.leaf_index : a \in Range(perRow)}
            = {file[i].leaf_index : i \in {k \in 1..Len(file) : Misplaced(file, k) \/ Altered(file, k)}}
      BY <2>1, PerRowMembers
    <3>2. {k \in 1..Len(file) : Misplaced(file, k) \/ Altered(file, k)} = changed
      BY <2>5
    <3>3. \A i \in changed : file[i].leaf_index = i - 1
      BY <2>1
    <3> HIDE DEF perRow, changed
    <3> QED
      BY <3>1, <3>2, <3>3
  <2>7. all = perRow
    <3>1. count \o perRow = perRow
      <4> HIDE DEF perRow, count
      <4> QED
        BY <2>3, <2>4
    <3>2. perRow = <<>> => matches
      <4>1. perRow = <<>> => changed = {}
        <5>1. Range(<<>>) = {}
          BY DEF Range
        <5>2. perRow = <<>> => {i - 1 : i \in changed} = {}
          <6> HIDE DEF perRow, changed
          <6> QED
            BY <2>6, <5>1
        <5> QED
          BY <5>2
      <4>2. changed = {} => Column(file, "raw_log") = Column(w, "raw_log")
        BY <2>1 DEF Column
      <4>3. LedgerEntry(0).merkle_root = from_raw_logs(Column(w, "raw_log"))
        BY DEF LedgerEntry
      <4> HIDE DEF perRow, changed
      <4> QED
        BY <4>1, <4>2, <4>3
    <3> HIDE DEF perRow, count, matches
    <3> QED
      BY <3>1, <3>2
  <2>8. DOMAIN file = 1..Len(file)
    BY <2>1
  <2> HIDE DEF all, perRow
  <2> QED
    BY <2>2, <2>6, <2>7, <2>8
<1> QED
  BY <1>1, FileInvAlways, PTL DEF CliTamperIsolated
=============================================================================
