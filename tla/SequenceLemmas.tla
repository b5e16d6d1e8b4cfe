--------------------------- MODULE SequenceLemmas ---------------------------
(***************************************************************************)
(* Lemmas on the data the modules are about, for sequences of any length:  *)
(* induction and recursion, entries of a cache (Entries), and lines of a   *)
(* text (TextLines).  The inductions start from the number that is the     *)
(* least with a property.                                                  *)
(***************************************************************************)
EXTENDS Entries, TextLines, SequenceTheorems, FiniteSetTheorems, WellFoundedInduction, TLAPS

-----------------------------------------------------------------------------
(* Recursion and induction over the naturals.                              *)

LEMMA LeastNumber ==
  ASSUME NEW T, T \subseteq Nat, T # {}
  PROVE  \E m \in T : \A k \in T : m <= k
<1> DEFINE R == {ss \in Nat \X Nat : ss[1] < ss[2]}
<1>1. IsWellFoundedOn(R, Nat)
  BY NatLessThanWellFounded DEF OpToRel
<1>2. \E m \in T : \A k \in T : <<k, m>> \notin R
  <2> HIDE DEF R
  <2> QED
    BY <1>1, WFMin
<1>3. PICK m \in T : \A k \in T : <<k, m>> \notin R
  BY <1>2
<1>4. ASSUME NEW k \in T
      PROVE  m <= k
  <2>1. <<k, m>> \notin R /\ k \in Nat /\ m \in Nat
    BY <1>3, <1>4
  <2> QED
    BY <2>1
<1> QED
  BY <1>4

(* A set of numbers that holds 0 and with a number below N the next one    *)
(* holds all the numbers up to N.                                          *)
LEMMA Climb ==
  ASSUME NEW N \in Nat, NEW T, 0 \in T,
         \A n \in 1 .. N : n - 1 \in T => n \in T
  PROVE  0 .. N \subseteq T
<1> DEFINE Out == (0 .. N) \ T
<1> SUFFICES ASSUME Out # {}
             PROVE  FALSE
  OBVIOUS
<1>1. PICK m \in Out : \A k \in Out : m <= k
  <2> HIDE DEF Out
  <2>1. Out \subseteq Nat
    BY DEF Out
  <2> QED
    BY <2>1, LeastNumber
<1>2. m \in 1 .. N /\ m - 1 \in 0 .. N /\ m - 1 \notin Out
  BY <1>1
<1> QED
  BY <1>1, <1>2

(* g takes, from a on, the steps of F. *)
Iterates(g, N, A, a, F) ==
  /\ g \in [0 .. N -> A]
  /\ g[0] = a
  /\ \A n \in 1 .. N : g[n] = F[n][g[n - 1]]

(* A recursion over 0 .. N with values in A defines a function.            *)
LEMMA Recursion ==
  ASSUME NEW N \in Nat, NEW A, NEW a \in A, NEW F \in [1 .. N -> [A -> A]]
  PROVE  \E g : Iterates(g, N, A, a, F)
<1> DEFINE T == {m \in 0 .. N : \E g : Iterates(g, m, A, a, F)}
<1>1. 0 \in T
  <2> DEFINE g == [i \in 0 .. 0 |-> a]
  <2>1. Iterates(g, 0, A, a, F)
    BY DEF Iterates
  <2> HIDE DEF g
  <2> QED
    BY <2>1
<1>2. ASSUME NEW m \in 1 .. N, m - 1 \in T
      PROVE  m \in T
  <2>1. PICK g : Iterates(g, m - 1, A, a, F)
    BY <1>2
  <2> DEFINE h == [i \in 0 .. m |-> IF i = m THEN F[m][g[m - 1]] ELSE g[i]]
  <2>2. m - 1 \in 0 .. m - 1 /\ g[m - 1] \in A /\ F[m][g[m - 1]] \in A
    BY <2>1 DEF Iterates
  <2>3. h \in [0 .. m -> A]
    BY <2>1, <2>2 DEF Iterates
  <2>4. ASSUME NEW n \in 1 .. m
        PROVE  h[n] = F[n][h[n - 1]]
    <3>1. h[n - 1] = g[n - 1]
      BY <2>4
    <3>2. CASE n = m
      BY <3>1, <3>2
    <3>3. CASE n # m
      BY <2>1, <3>1, <3>3 DEF Iterates
    <3> QED
      BY <3>2, <3>3
  <2>5. h[0] = a
    BY <2>1 DEF Iterates
  <2> HIDE DEF h
  <2> QED
    BY <2>3, <2>4, <2>5 DEF Iterates
<1>3. 0 .. N \subseteq T
  <2> HIDE DEF T
  <2> QED
    BY <1>1, <1>2, Climb
<1> QED
  BY <1>3

-----------------------------------------------------------------------------
(* A part of a sequence.                                                   *)

(* g numbers the positions J of s, which q consists of, in their order.    *)
Numbers(g, q, s, J) ==
  /\ g \in [1 .. Len(q) -> J]
  /\ \A m, n \in 1 .. Len(q) : m < n => g[m] < g[n]
  /\ \A i \in J : \E n \in 1 .. Len(q) : g[n] = i
  /\ \A n \in 1 .. Len(q) : q[n] = s[g[n]]

LEMMA NumbersAppend ==
  ASSUME NEW S, NEW s \in Seq(S), NEW q \in Seq(S), NEW i \in 1 .. Len(s),
         NEW J \in SUBSET (1 .. i - 1), NEW g, Numbers(g, q, s, J)
  PROVE  \E h : Numbers(h, Append(q, s[i]), s, J \cup {i})
<1> DEFINE r == Append(q, s[i])
           h == [n \in 1 .. Len(r) |-> IF n = Len(r) THEN i ELSE g[n]]
<1>1. /\ Len(q) \in Nat /\ Len(r) = Len(q) + 1 /\ r[Len(r)] = s[i]
      /\ \A n \in 1 .. Len(q) : r[n] = q[n]
  BY ElementOfSeq, LenProperties, AppendProperties
<1> HIDE DEF r
<1>2. h \in [1 .. Len(r) -> J \cup {i}]
  BY <1>1 DEF Numbers
<1>3. ASSUME NEW m \in 1 .. Len(r), NEW n \in 1 .. Len(r), m < n
      PROVE  h[m] < h[n]
  <2>1. m \in 1 .. Len(q) /\ h[m] = g[m]
    BY <1>1, <1>3
  <2>2. i \in Nat /\ g[m] \in 1 .. i - 1
    <3>1. g[m] \in J
      BY <2>1 DEF Numbers
    <3>2. i \in Nat
      BY LenProperties
    <3> QED
      BY <3>1, <3>2
  <2>3. CASE n = Len(r)
    BY <2>1, <2>2, <2>3
  <2>4. CASE n # Len(r)
    <3>1. n \in 1 .. Len(q) /\ h[n] = g[n]
      BY <1>1, <2>4
    <3> QED
      BY <1>3, <2>1, <3>1 DEF Numbers
  <2> QED
    BY <2>3, <2>4
<1>4. \A x \in J \cup {i} : \E n \in 1 .. Len(r) : h[n] = x
  <2>1. h[Len(r)] = i /\ Len(r) \in 1 .. Len(r)
    BY <1>1
  <2>2. ASSUME NEW n \in 1 .. Len(q)
        PROVE  n \in 1 .. Len(r) /\ h[n] = g[n]
    BY <1>1
  <2> HIDE DEF h
  <2> QED
    BY <2>1, <2>2 DEF Numbers
<1>5. \A n \in 1 .. Len(r) : r[n] = s[h[n]]
  BY <1>1 DEF Numbers
<1> HIDE DEF h
<1>6. Numbers(h, r, s, J \cup {i})
  BY <1>2, <1>3, <1>4, <1>5 DEF Numbers
<1> QED
  BY <1>6 DEF r

(* k collects, step by step, the entries of s at the positions in I. *)
Collects(k, s, I, S) ==
  /\ k \in [0 .. Len(s) -> Seq(S)]
  /\ k[0] = <<>>
  /\ \A n \in 1 .. Len(s) : k[n] = IF n \in I THEN Append(k[n - 1], s[n]) ELSE k[n - 1]

LEMMA KeepRecursion ==
  ASSUME NEW S, NEW s \in Seq(S), NEW I, ~(1 .. Len(s) \subseteq I)
  PROVE  \E k : Collects(k, s, I, S) /\ Keep(s, I) = k[Len(s)]
<1> DEFINE Next(k, n) == IF n \in I THEN Append(k, s[n]) ELSE k
           Def(k) == [n \in 0 .. Len(s) |-> IF n = 0 THEN <<>> ELSE
                        IF n \in I THEN Append(k[n - 1], s[n]) ELSE k[n - 1]]
           kept == CHOOSE k : k = Def(k)
           F == [n \in 1 .. Len(s) |-> [k \in Seq(S) |-> Next(k, n)]]
<1>1. Len(s) \in Nat /\ DOMAIN s = 1 .. Len(s) /\ \A i \in 1 .. Len(s) : s[i] \in S
  BY ElementOfSeq, LenProperties
<1>2. F \in [1 .. Len(s) -> [Seq(S) -> Seq(S)]]
  <2> SUFFICES ASSUME NEW n \in 1 .. Len(s), NEW k \in Seq(S)
               PROVE  Next(k, n) \in Seq(S)
    OBVIOUS
  <2> QED
    BY <1>1, AppendProperties
<1>3. PICK k : Iterates(k, Len(s), Seq(S), <<>>, F)
  <2> HIDE DEF F
  <2>1. <<>> \in Seq(S)
    OBVIOUS
  <2> QED
    BY <1>1, <1>2, <2>1, Recursion
<1>4. /\ k \in [0 .. Len(s) -> Seq(S)] /\ k[0] = <<>>
      /\ \A n \in 1 .. Len(s) : k[n] = Next(k[n - 1], n)
  <2> HIDE DEF Next
  <2>1. k \in [0 .. Len(s) -> Seq(S)] /\ k[0] = <<>>
    BY <1>3 DEF Iterates
  <2>2. ASSUME NEW n \in 1 .. Len(s)
        PROVE  k[n] = Next(k[n - 1], n)
    <3>1. k[n - 1] \in Seq(S)
      BY <1>1, <2>1
    <3> QED
      BY <1>3, <3>1 DEF Iterates
  <2> QED
    BY <2>1, <2>2
<1>5. k = Def(k)
  <2>1. k = [n \in 0 .. Len(s) |-> k[n]]
    BY <1>4
  <2>2. \A n \in 0 .. Len(s) : k[n] = IF n = 0 THEN <<>> ELSE Next(k[n - 1], n)
    <3> HIDE DEF Next
    <3> QED
      BY <1>1, <1>4
  <2> QED
    BY <2>1, <2>2
<1>6. kept = Def(kept)
  <2> HIDE DEF Def
  <2> QED
    BY <1>5
<1>7. kept[0] = <<>> /\ \A n \in 1 .. Len(s) : kept[n] = Next(kept[n - 1], n)
  <2> HIDE DEF kept
  <2>1. \A n \in 0 .. Len(s) : kept[n] = Def(kept)[n]
    <3> HIDE DEF Def
    <3> QED
      BY <1>6
  <2> QED
    BY <1>1, <2>1
<1>8. kept = k
  <2> DEFINE T == {n \in 0 .. Len(s) : kept[n] = k[n]}
  <2> HIDE DEF kept, Next
  <2>1. 0 \in T /\ \A n \in 1 .. Len(s) : n - 1 \in T => n \in T
    BY <1>1, <1>4, <1>7
  <2>2. 0 .. Len(s) \subseteq T
    <3> HIDE DEF T
    <3> QED
      BY <1>1, <2>1, Climb
  <2>3. kept = [n \in 0 .. Len(s) |-> kept[n]]
    BY <1>6 DEF Def
  <2> QED
    BY <1>4, <2>2, <2>3
<1>9. Keep(s, I) = kept[Len(s)]
  BY <1>1 DEF Keep, kept, Def
<1> HIDE DEF kept
<1> QED
  BY <1>4, <1>8, <1>9 DEF Collects

LEMMA KeepProperties ==
  ASSUME NEW S, NEW s \in Seq(S), NEW I
  PROVE  /\ Keep(s, I) \in Seq(S)
         /\ \E g : Numbers(g, Keep(s, I), s, I \cap (1 .. Len(s)))
<1>1. Len(s) \in Nat /\ DOMAIN s = 1 .. Len(s) /\ \A i \in 1 .. Len(s) : s[i] \in S
  BY ElementOfSeq, LenProperties
<1>2. CASE 1 .. Len(s) \subseteq I
  <2> DEFINE g == [n \in 1 .. Len(s) |-> n]
  <2>1. Keep(s, I) = s
    BY <1>1, <1>2 DEF Keep
  <2>2. Numbers(g, s, s, I \cap (1 .. Len(s)))
    BY <1>1, <1>2 DEF Numbers
  <2> HIDE DEF g
  <2> QED
    BY <2>1, <2>2
<1>3. CASE ~(1 .. Len(s) \subseteq I)
  <2>1. PICK kept : Collects(kept, s, I, S) /\ Keep(s, I) = kept[Len(s)]
    BY <1>3, KeepRecursion
  <2> DEFINE J(n) == I \cap (1 .. n)
             Good == {n \in 0 .. Len(s) :
                        kept[n] \in Seq(S) /\ \E g : Numbers(g, kept[n], s, J(n))}
  <2>2. 0 \in Good
    <3> DEFINE g == [x \in {} |-> 0]
    <3>1. Numbers(g, <<>>, s, J(0))
      BY DEF Numbers
    <3> HIDE DEF g
    <3>2. \E f : Numbers(f, kept[0], s, J(0))
      BY <2>1, <3>1 DEF Collects
    <3>3. kept[0] \in Seq(S)
      BY <2>1 DEF Collects
    <3> HIDE DEF J
    <3> QED
      BY <1>1, <3>2, <3>3
  <2>3. ASSUME NEW n \in 1 .. Len(s), n - 1 \in Good
        PROVE  n \in Good
    <3>1. PICK g : kept[n - 1] \in Seq(S) /\ Numbers(g, kept[n - 1], s, J(n - 1))
      BY <2>3
    <3>2. CASE n \in I
      <4>1. kept[n] = Append(kept[n - 1], s[n])
        BY <2>1, <3>2 DEF Collects
      <4>2. J(n) = J(n - 1) \cup {n} /\ J(n - 1) \in SUBSET (1 .. n - 1)
        BY <1>1, <3>2
      <4> DEFINE q == kept[n - 1]
                 K == J(n - 1)
      <4> HIDE DEF J, q, K
      <4>3. \E h : Numbers(h, kept[n], s, J(n))
        <5>1. q \in Seq(S) /\ K \in SUBSET (1 .. n - 1) /\ Numbers(g, q, s, K)
          BY <3>1, <4>2 DEF q, K
        <5>2. \E h : Numbers(h, Append(q, s[n]), s, K \cup {n})
          BY <5>1, NumbersAppend
        <5> QED
          BY <4>1, <4>2, <5>2 DEF q, K
      <4>4. kept[n] \in Seq(S)
        BY <1>1, <3>1, <4>1, AppendProperties
      <4> QED
        BY <4>3, <4>4
    <3>3. CASE n \notin I
      <4>1. kept[n] = kept[n - 1]
        BY <2>1, <3>3 DEF Collects
      <4>2. J(n) = J(n - 1)
        BY <1>1, <3>3
      <4> HIDE DEF J
      <4> QED
        BY <3>1, <4>1, <4>2
    <3> QED
      BY <3>2, <3>3
  <2>4. Len(s) \in Good
    <3> HIDE DEF Good
    <3>1. \A n \in 1 .. Len(s) : n - 1 \in Good => n \in Good
      BY <2>3
    <3>2. 0 .. Len(s) \subseteq Good
      BY <1>1, <2>2, <3>1, Climb
    <3> QED
      BY <1>1, <3>2
  <2> QED
    BY <2>1, <2>4
<1> QED
  BY <1>2, <1>3

-----------------------------------------------------------------------------
(* The operations on entries.                                              *)

UniqueKeys(s) == \A i, j \in 1 .. Len(s) : s[i].key = s[j].key => i = j

(* The keys of the entries that stand before position p.                   *)
Ahead(s, p) == {s[i].key : i \in 1 .. p - 1}

(* What a part of a sequence inherits from it.                             *)
LEMMA KeptEntries ==
  ASSUME NEW S, NEW s \in Seq(S), NEW I, NEW q, q = Keep(s, I)
  PROVE  /\ q \in Seq(S)
         /\ \A n \in 1 .. Len(q) : \E i \in I \cap (1 .. Len(s)) : q[n] = s[i]
         /\ \A i \in I \cap (1 .. Len(s)) : \E n \in 1 .. Len(q) :
               q[n] = s[i] /\ Ahead(q, n) \subseteq Ahead(s, i)
         /\ UniqueKeys(s) => UniqueKeys(q)
<1>1. q \in Seq(S) /\ Len(q) \in Nat /\ Len(s) \in Nat
  BY KeepProperties, LenProperties
<1>2. PICK g : Numbers(g, q, s, I \cap (1 .. Len(s)))
  BY KeepProperties
<1>3. ASSUME NEW i \in I \cap (1 .. Len(s))
      PROVE  \E n \in 1 .. Len(q) : q[n] = s[i] /\ Ahead(q, n) \subseteq Ahead(s, i)
  <2>1. PICK n \in 1 .. Len(q) : g[n] = i
    BY <1>2 DEF Numbers
  <2>2. ASSUME NEW m \in 1 .. n - 1
        PROVE  q[m].key \in Ahead(s, i)
    <3>1. m \in 1 .. Len(q) /\ m < n
      BY <1>1
    <3>2. g[m] \in 1 .. Len(s) /\ g[m] < i /\ q[m] = s[g[m]]
      BY <1>2, <2>1, <3>1 DEF Numbers
    <3>3. g[m] \in 1 .. i - 1
      BY <1>1, <3>2
    <3> QED
      BY <3>2, <3>3 DEF Ahead
  <2>3. Ahead(q, n) \subseteq Ahead(s, i)
    BY <2>2 DEF Ahead
  <2> QED
    BY <1>2, <2>1, <2>3 DEF Numbers
<1>4. ASSUME UniqueKeys(s)
      PROVE  UniqueKeys(q)
  <2> SUFFICES ASSUME NEW m \in 1 .. Len(q), NEW n \in 1 .. Len(q), q[m].key = q[n].key
               PROVE  m = n
    BY DEF UniqueKeys
  <2>1. g[m] = g[n]
    BY <1>2, <1>4 DEF Numbers, UniqueKeys
  <2>2. g[m] \in Nat /\ ~(m < n) /\ ~(n < m)
    BY <1>1, <1>2, <2>1 DEF Numbers
  <2> QED
    BY <1>1, <2>2
<1>5. ASSUME NEW n \in 1 .. Len(q)
      PROVE  \E i \in I \cap (1 .. Len(s)) : q[n] = s[i]
  <2>1. g[n] \in I \cap (1 .. Len(s)) /\ q[n] = s[g[n]]
    BY <1>2 DEF Numbers
  <2> QED
    BY <2>1
<1> QED
  <2>1. \A n \in 1 .. Len(q) : \E i \in I \cap (1 .. Len(s)) : q[n] = s[i]
    BY <1>5
  <2>2. \A i \in I \cap (1 .. Len(s)) : \E n \in 1 .. Len(q) :
           q[n] = s[i] /\ Ahead(q, n) \subseteq Ahead(s, i)
    BY <1>3
  <2> QED
    BY <1>1, <1>4, <2>1, <2>2

(* An entry stands behind as many keys as come before it.                  *)
LEMMA PlaceBound ==
  ASSUME NEW S, NEW w \in Seq(S), UniqueKeys(w), NEW n \in 1 .. Len(w),
         NEW T, IsFiniteSet(T), Ahead(w, n) \subseteq T
  PROVE  n - 1 <= Cardinality(T)
<1> DEFINE f == [i \in 1 .. n - 1 |-> w[i].key]
<1>1. n \in Nat /\ Len(w) \in Nat
  BY LenProperties
<1>2. f \in Injection(1 .. n - 1, T)
  <2>1. f \in [1 .. n - 1 -> T]
    BY DEF Ahead
  <2>2. ASSUME NEW i \in 1 .. n - 1, NEW j \in 1 .. n - 1, f[i] = f[j]
        PROVE  i = j
    BY <1>1, <2>2 DEF UniqueKeys
  <2> HIDE DEF f
  <2> QED
    BY <2>1, <2>2 DEF Injection, IsInjective
<1> HIDE DEF f
<1>3. Cardinality(1 .. n - 1) <= Cardinality(T)
  BY <1>2, FS_Injection
<1>4. Cardinality(1 .. n - 1) = n - 1
  BY <1>1, FS_Interval
<1> QED
  BY <1>3, <1>4

(* What is left after erasing a key.                                       *)
LEMMA WithoutEntries ==
  ASSUME NEW S, NEW s \in Seq(S), NEW k, NEW q, q = Without(s, k)
  PROVE  /\ q \in Seq(S)
         /\ \A n \in 1 .. Len(q) : \E i \in 1 .. Len(s) : q[n] = s[i] /\ s[i].key # k
         /\ \A i \in 1 .. Len(s) : s[i].key # k =>
               \E n \in 1 .. Len(q) : q[n] = s[i] /\ Ahead(q, n) \subseteq Ahead(s, i)
         /\ UniqueKeys(s) => UniqueKeys(q)
<1> DEFINE I == {i \in DOMAIN s : s[i].key # k}
<1>1. DOMAIN s = 1 .. Len(s) /\ q = Keep(s, I)
  BY LenProperties DEF Without
<1>2. \A i : i \in I \cap (1 .. Len(s)) <=> i \in 1 .. Len(s) /\ s[i].key # k
  BY <1>1
<1> HIDE DEF I
<1>3. /\ q \in Seq(S)
      /\ \A n \in 1 .. Len(q) : \E i \in I \cap (1 .. Len(s)) : q[n] = s[i]
      /\ \A i \in I \cap (1 .. Len(s)) : \E n \in 1 .. Len(q) :
            q[n] = s[i] /\ Ahead(q, n) \subseteq Ahead(s, i)
      /\ UniqueKeys(s) => UniqueKeys(q)
  BY <1>1, KeptEntries
<1> QED
  BY <1>2, <1>3

(* The entry at i of s is in q, with no key before it that it had not.     *)
Stays(s, i, q) ==
  \E n \in 1 .. Len(q) : q[n] = s[i] /\ Ahead(q, n) \subseteq Ahead(s, i)

LEMMA OtherKeysStay ==
  ASSUME NEW S, NEW s \in Seq(S), NEW k, NEW i \in 1 .. Len(s), s[i].key # k
  PROVE  Stays(s, i, Without(s, k))
BY WithoutEntries DEF Stays

(* What is left after a cleanup.                                           *)
LEMMA UnexpiredEntries ==
  ASSUME NEW S, NEW s \in Seq(S), NEW t, NEW q, q = Unexpired(s, t)
  PROVE  /\ q \in Seq(S)
         /\ \A n \in 1 .. Len(q) : \E i \in 1 .. Len(s) : q[n] = s[i] /\ ~Expired(s[i], t)
         /\ \A i \in 1 .. Len(s) : ~Expired(s[i], t) =>
               \E n \in 1 .. Len(q) : q[n] = s[i] /\ Ahead(q, n) \subseteq Ahead(s, i)
         /\ UniqueKeys(s) => UniqueKeys(q)
<1> DEFINE I == {i \in DOMAIN s : ~Expired(s[i], t)}
<1>1. DOMAIN s = 1 .. Len(s) /\ q = Keep(s, I)
  BY LenProperties DEF Unexpired
<1>2. \A i : i \in I \cap (1 .. Len(s)) <=> i \in 1 .. Len(s) /\ ~Expired(s[i], t)
  BY <1>1
<1> HIDE DEF I
<1>3. /\ q \in Seq(S)
      /\ \A n \in 1 .. Len(q) : \E i \in I \cap (1 .. Len(s)) : q[n] = s[i]
      /\ \A i \in I \cap (1 .. Len(s)) : \E n \in 1 .. Len(q) :
            q[n] = s[i] /\ Ahead(q, n) \subseteq Ahead(s, i)
      /\ UniqueKeys(s) => UniqueKeys(q)
  BY <1>1, KeptEntries
<1> QED
  BY <1>2, <1>3

-----------------------------------------------------------------------------
(* What the operations do to keys and values does not depend on the expiry *)
(* instants.                                                               *)

Same(s, r) ==
  /\ Len(s) = Len(r)
  /\ \A i \in 1 .. Len(s) : s[i].key = r[i].key /\ s[i].val = r[i].val

LEMMA SameAppend ==
  ASSUME NEW S, NEW s \in Seq(S), NEW r \in Seq(S), Same(s, r),
         NEW x \in S, NEW y \in S, x.key = y.key, x.val = y.val
  PROVE  Same(Append(s, x), Append(r, y))
<1> DEFINE sx == Append(s, x)
           ry == Append(r, y)
<1>1. /\ Len(s) \in Nat /\ Len(r) = Len(s)
      /\ Len(sx) = Len(s) + 1 /\ Len(ry) = Len(r) + 1
      /\ \A i \in 1 .. Len(s) : sx[i] = s[i]
      /\ \A i \in 1 .. Len(r) : ry[i] = r[i]
      /\ sx[Len(s) + 1] = x /\ ry[Len(r) + 1] = y
  BY AppendProperties, LenProperties DEF Same
<1> HIDE DEF sx, ry
<1>2. ASSUME NEW i \in 1 .. Len(sx)
      PROVE  sx[i].key = ry[i].key /\ sx[i].val = ry[i].val
  <2>1. CASE i = Len(s) + 1
    BY <1>1, <2>1
  <2>2. CASE i \in 1 .. Len(s)
    BY <1>1, <2>2 DEF Same
  <2> QED
    BY <1>1, <2>1, <2>2
<1>3. Same(sx, ry)
  BY <1>1, <1>2 DEF Same
<1> QED
  BY <1>3 DEF sx, ry

LEMMA SameKept ==
  ASSUME NEW S, NEW s \in Seq(S), NEW r \in Seq(S), Same(s, r), NEW I
  PROVE  Same(Keep(s, I), Keep(r, I))
<1>1. /\ Len(s) \in Nat /\ Len(r) = Len(s)
      /\ DOMAIN s = 1 .. Len(s) /\ DOMAIN r = 1 .. Len(s)
      /\ \A i \in 1 .. Len(s) : s[i] \in S /\ r[i] \in S
  BY ElementOfSeq, LenProperties DEF Same
<1>2. CASE 1 .. Len(s) \subseteq I
  BY <1>1, <1>2 DEF Keep
<1>3. CASE ~(1 .. Len(s) \subseteq I)
  <2>1. PICK k : Collects(k, s, I, S) /\ Keep(s, I) = k[Len(s)]
    BY <1>3, KeepRecursion
  <2>2. PICK m : Collects(m, r, I, S) /\ Keep(r, I) = m[Len(s)]
    BY <1>1, <1>3, KeepRecursion
  <2> DEFINE T == {n \in 0 .. Len(s) : Same(k[n], m[n])}
  <2>3. 0 \in T
    BY <1>1, <2>1, <2>2 DEF Collects, Same
  <2>4. ASSUME NEW n \in 1 .. Len(s), n - 1 \in T
        PROVE  n \in T
    <3>1. /\ k[n - 1] \in Seq(S) /\ m[n - 1] \in Seq(S) /\ Same(k[n - 1], m[n - 1])
          /\ s[n] \in S /\ r[n] \in S /\ s[n].key = r[n].key /\ s[n].val = r[n].val
      BY <1>1, <2>1, <2>2, <2>4 DEF Collects, Same
    <3>2. CASE n \in I
      <4>1. k[n] = Append(k[n - 1], s[n]) /\ m[n] = Append(m[n - 1], r[n])
        BY <1>1, <2>1, <2>2, <3>2 DEF Collects
      <4>2. Same(k[n], m[n])
        BY <3>1, <4>1, SameAppend
      <4> QED
        BY <4>2
    <3>3. CASE n \notin I
      <4>1. k[n] = k[n - 1] /\ m[n] = m[n - 1]
        BY <1>1, <2>1, <2>2, <3>3 DEF Collects
      <4> QED
        BY <3>1, <4>1
    <3> QED
      BY <3>2, <3>3
  <2>5. Len(s) \in T
    <3>1. Len(s) \in Nat
      BY <1>1
    <3> HIDE DEF T
    <3>2. 0 .. Len(s) \subseteq T
      BY <2>3, <2>4, <3>1, Climb
    <3> QED
      BY <3>1, <3>2
  <2> QED
    BY <2>1, <2>2, <2>5
<1> QED
  BY <1>2, <1>3

LEMMA SameWithout ==
  ASSUME NEW S, NEW s \in Seq(S), NEW r \in Seq(S), Same(s, r), NEW k
  PROVE  Same(Without(s, k), Without(r, k))
<1>1. DOMAIN s = 1 .. Len(s) /\ DOMAIN r = 1 .. Len(r)
  BY LenProperties
<1>2. {i \in DOMAIN s : s[i].key # k} = {i \in DOMAIN r : r[i].key # k}
  BY <1>1 DEF Same
<1> QED
  BY <1>2, SameKept DEF Without

(* A cleanup that finds nothing expired leaves the entries as they are.    *)
LEMMA NothingExpired ==
  ASSUME NEW S, NEW s \in Seq(S), NEW t, \A i \in 1 .. Len(s) : ~Expired(s[i], t)
  PROVE  Unexpired(s, t) = s
<1>1. DOMAIN s = 1 .. Len(s)
  BY LenProperties
<1> QED
  BY <1>1 DEF Unexpired, Keep

-----------------------------------------------------------------------------
(* Entries that are not kept may as well not be there.                     *)

LEMMA KeepCollects ==
  ASSUME NEW S, NEW s \in Seq(S), NEW I
  PROVE  \E k : Collects(k, s, I, S) /\ Keep(s, I) = k[Len(s)]
<1>1. CASE ~(1 .. Len(s) \subseteq I)
  BY <1>1, KeepRecursion
<1>2. CASE 1 .. Len(s) \subseteq I
  <2> DEFINE k == [n \in 0 .. Len(s) |-> SubSeq(s, 1, n)]
  <2>1. Len(s) \in Nat /\ DOMAIN s = 1 .. Len(s) /\ \A i \in 1 .. Len(s) : s[i] \in S
    BY ElementOfSeq, LenProperties
  <2>2. ASSUME NEW n \in 0 .. Len(s)
        PROVE  SubSeq(s, 1, n) \in Seq(S)
    <3>1. \A i \in 1 .. n : s[i] \in S
      BY <2>1
    <3> QED
      BY <2>1, <3>1, SubSeqProperties
  <2>3. SubSeq(s, 1, 0) = <<>> /\ SubSeq(s, 1, Len(s)) = s
    BY SubSeqEmpty, SubSeqFull
  <2>4. ASSUME NEW n \in 1 .. Len(s)
        PROVE  SubSeq(s, 1, n) = Append(SubSeq(s, 1, n - 1), s[n])
    <3>1. 1 \in 1 .. Len(s) /\ n - 1 \in 0 .. Len(s) /\ s[n] \in S
      BY <2>1
    <3>2. SubSeq(s, 1, n) = SubSeq(s, 1, n - 1) \o <<s[n]>>
      BY <3>1, SubSeqRecursiveSecond
    <3>3. SubSeq(s, 1, n - 1) \in Seq(S)
      BY <2>2, <3>1
    <3> QED
      BY <3>1, <3>2, <3>3, AppendIsConcat
  <2>5. Collects(k, s, I, S)
    <3>1. k \in [0 .. Len(s) -> Seq(S)]
      BY <2>2
    <3>2. k[0] = <<>>
      BY <2>1, <2>3
    <3>3. ASSUME NEW n \in 1 .. Len(s)
          PROVE  k[n] = IF n \in I THEN Append(k[n - 1], s[n]) ELSE k[n - 1]
      <4>1. n \in 0 .. Len(s) /\ n - 1 \in 0 .. Len(s) /\ n \in I
        BY <1>2, <2>1
      <4> QED
        BY <2>4, <4>1
    <3> HIDE DEF k
    <3> QED
      BY <3>1, <3>2, <3>3 DEF Collects
  <2>6. Keep(s, I) = k[Len(s)]
    BY <1>2, <2>1, <2>3 DEF Keep
  <2> HIDE DEF k
  <2> QED
    BY <2>5, <2>6
<1> QED
  BY <1>1, <1>2

LEMMA KeepSkips ==
  ASSUME NEW S, NEW s \in Seq(S), NEW r \in Seq(S), NEW I, NEW J,
         NEW p \in 1 .. Len(s), p \notin I,
         Len(r) = Len(s) - 1,
         \A i \in 1 .. Len(r) : r[i] = IF i < p THEN s[i] ELSE s[i + 1],
         \A i \in 1 .. Len(r) : i \in J <=> (IF i < p THEN i ELSE i + 1) \in I
  PROVE  Keep(r, J) = Keep(s, I)
<1>1. Len(s) \in Nat /\ Len(r) \in Nat
  BY LenProperties
<1>2. PICK k : Collects(k, s, I, S) /\ Keep(s, I) = k[Len(s)]
  BY KeepCollects
<1>3. PICK m : Collects(m, r, J, S) /\ Keep(r, J) = m[Len(r)]
  BY KeepCollects
<1> DEFINE T == {n \in 0 .. Len(r) : m[n] = k[IF n < p THEN n ELSE n + 1]}
<1>4. 0 \in T
  BY <1>1, <1>2, <1>3 DEF Collects
<1>5. k[p] = k[p - 1]
  BY <1>2 DEF Collects
<1>6. ASSUME NEW n \in 1 .. Len(r), n - 1 \in T
      PROVE  n \in T
  <2>1. m[n] = IF n \in J THEN Append(m[n - 1], r[n]) ELSE m[n - 1]
    BY <1>3 DEF Collects
  <2>2. CASE n < p
    <3>1. n \in 1 .. Len(s) /\ n - 1 < p
      BY <1>1, <2>2
    <3>2. k[n] = IF n \in I THEN Append(k[n - 1], s[n]) ELSE k[n - 1]
      BY <1>2, <3>1 DEF Collects
    <3>3. m[n - 1] = k[n - 1]
      BY <1>6, <3>1
    <3> QED
      BY <1>1, <2>1, <2>2, <3>2, <3>3
  <2>3. CASE ~(n < p)
    <3>1. n + 1 \in 1 .. Len(s) /\ (n + 1) - 1 = n
      BY <1>1
    <3>2. k[n + 1] = IF n + 1 \in I THEN Append(k[n], s[n + 1]) ELSE k[n]
      BY <1>2, <3>1 DEF Collects
    <3>3. m[n - 1] = k[n]
      <4>1. CASE n - 1 < p
        <5>1. n = p
          BY <1>1, <2>3, <4>1
        <5> QED
          BY <1>5, <1>6, <4>1, <5>1
      <4>2. CASE ~(n - 1 < p)
        <5>1. (n - 1) + 1 = n
          BY <1>1
        <5> QED
          BY <1>6, <4>2, <5>1
      <4> QED
        BY <4>1, <4>2
    <3> QED
      BY <1>1, <2>1, <2>3, <3>2, <3>3
  <2> QED
    BY <2>2, <2>3
<1>7. Len(r) \in T
  <2> HIDE DEF T
  <2>1. 0 .. Len(r) \subseteq T
    BY <1>1, <1>4, <1>6, Climb
  <2> QED
    BY <1>1, <2>1
<1>8. CASE Len(r) < p
  <2>1. p = Len(s) /\ Len(r) = p - 1
    BY <1>1, <1>8
  <2> QED
    BY <1>2, <1>3, <1>5, <1>7, <1>8, <2>1
<1>9. CASE ~(Len(r) < p)
  <2>1. Len(r) + 1 = Len(s)
    BY <1>1
  <2> QED
    BY <1>2, <1>3, <1>7, <1>9, <2>1
<1> QED
  BY <1>8, <1>9

LEMMA NewestAll ==
  ASSUME NEW S, NEW s \in Seq(S), NEW n \in Nat, Len(s) <= n
  PROVE  Newest(s, n) = s
<1>1. Len(s) \in Nat /\ (IF Len(s) < n THEN Len(s) ELSE n) = Len(s)
  BY LenProperties
<1> QED
  BY <1>1, SubSeqFull DEF Newest

(* What is beyond the newest n does not count. *)
LEMMA NewestOfFront ==
  ASSUME NEW S, NEW s \in Seq(S), NEW r \in Seq(S), NEW n \in Nat, n <= Len(r),
         Len(r) = Len(s) - 1, \A i \in 1 .. Len(r) : r[i] = s[i]
  PROVE  Newest(r, n) = Newest(s, n)
<1>1. /\ Len(s) \in Nat /\ Len(r) \in Nat
      /\ \A i \in 1 .. Len(s) : s[i] \in S
      /\ \A i \in 1 .. Len(r) : r[i] \in S
  BY ElementOfSeq, LenProperties
<1>2. Newest(r, n) = SubSeq(r, 1, n) /\ Newest(s, n) = SubSeq(s, 1, n)
  BY <1>1 DEF Newest
<1>3. \A i \in 1 .. n : s[i] \in S /\ r[i] \in S
  BY <1>1
<1> DEFINE a == SubSeq(r, 1, n)
           b == SubSeq(s, 1, n)
<1>4. /\ a \in Seq(S) /\ Len(a) = IF 1 <= n THEN n - 1 + 1 ELSE 0
      /\ \A i \in 1 .. n - 1 + 1 : a[i] = r[1 + i - 1]
  BY <1>3, SubSeqProperties
<1>5. /\ b \in Seq(S) /\ Len(b) = IF 1 <= n THEN n - 1 + 1 ELSE 0
      /\ \A i \in 1 .. n - 1 + 1 : b[i] = s[1 + i - 1]
  BY <1>3, SubSeqProperties
<1> HIDE DEF a, b
<1>6. Len(a) = n /\ Len(b) = n /\ \A i \in 1 .. n : a[i] = r[i] /\ b[i] = s[i]
  BY <1>4, <1>5
<1>7. \A i \in 1 .. n : a[i] = b[i]
  BY <1>1, <1>6
<1>8. a = b
  BY <1>4, <1>5, <1>6, <1>7, SeqEqual
<1> QED
  BY <1>2, <1>8 DEF a, b

(* What is kept is no longer than the whole. *)
LEMMA KeepShorter ==
  ASSUME NEW S, NEW s \in Seq(S), NEW I
  PROVE  Len(Keep(s, I)) <= Len(s)
<1>1. PICK k : Collects(k, s, I, S) /\ Keep(s, I) = k[Len(s)]
  BY KeepCollects
<1>2. Len(s) \in Nat /\ \A i \in 1 .. Len(s) : s[i] \in S
  BY ElementOfSeq, LenProperties
<1>3. /\ \A n \in 0 .. Len(s) : k[n] \in Seq(S)
      /\ k[0] = <<>>
      /\ \A n \in 1 .. Len(s) : k[n] = IF n \in I THEN Append(k[n - 1], s[n]) ELSE k[n - 1]
  BY <1>1 DEF Collects
<1> DEFINE T == {n \in 0 .. Len(s) : Len(k[n]) <= n}
<1>4. 0 \in T
  BY <1>2, <1>3, EmptySeq
<1>5. ASSUME NEW n \in 1 .. Len(s), n - 1 \in T
      PROVE  n \in T
  <2>1. n \in 0 .. Len(s) /\ n - 1 \in 0 .. Len(s) /\ Len(k[n - 1]) <= n - 1
    BY <1>2, <1>5
  <2>2. k[n - 1] \in Seq(S) /\ s[n] \in S /\ Len(k[n - 1]) \in Nat
    BY <1>2, <1>3, <2>1, LenProperties
  <2>3. Len(Append(k[n - 1], s[n])) = Len(k[n - 1]) + 1
    BY <2>2, AppendProperties
  <2>4. Len(k[n]) <= n
    <3>1. CASE n \in I
      <4>1. k[n] = Append(k[n - 1], s[n])
        BY <1>3, <3>1
      <4> QED
        BY <1>2, <2>1, <2>2, <2>3, <4>1
    <3>2. CASE n \notin I
      <4>1. k[n] = k[n - 1]
        BY <1>3, <3>2
      <4> QED
        BY <1>2, <2>1, <2>2, <4>1
    <3> QED
      BY <3>1, <3>2
  <2> QED
    BY <2>1, <2>4
<1> HIDE DEF T
<1>6. 0 .. Len(s) \subseteq T
  BY <1>2, <1>4, <1>5, Climb
<1>7. Len(s) \in T
  BY <1>2, <1>6
<1> QED
  BY <1>1, <1>7 DEF T

-----------------------------------------------------------------------------
(* Texts and their lines.                                                  *)

(* What a concatenation has at each place.                                 *)
LEMMA Joined ==
  ASSUME NEW S, NEW s \in Seq(S), NEW u \in Seq(S)
  PROVE  /\ s \o u \in Seq(S) /\ Len(s) \in Nat /\ Len(u) \in Nat
         /\ Len(s \o u) = Len(s) + Len(u)
         /\ \A i \in 1 .. Len(s) : (s \o u)[i] = s[i]
         /\ \A i \in 1 .. Len(u) : (s \o u)[Len(s) + i] = u[i]
BY ConcatProperties, LenProperties

(* The ends of lines are finitely many.                                    *)
LEMMA EndsFinite ==
  ASSUME NEW S, NEW t \in Seq(S)
  PROVE  /\ LineEnds(t) \subseteq 1 .. Len(t) /\ IsFiniteSet(LineEnds(t))
         /\ Cardinality(LineEnds(t)) \in Nat
<1>1. LineEnds(t) \in SUBSET (1 .. Len(t))
  BY DEF LineEnds
<1>2. IsFiniteSet(1 .. Len(t))
  <2>1. Len(t) \in Int /\ 1 \in Int
    BY LenProperties
  <2> QED
    BY <2>1, FS_Interval
<1>3. IsFiniteSet(LineEnds(t))
  BY <1>1, <1>2, FS_Subset
<1> QED
  BY <1>1, <1>3, FS_CardinalityType

(* Among numbers each has a place of its own, in their order. *)
LEMMA Places ==
  ASSUME NEW N \in Nat, NEW I \in SUBSET (1 .. N), NEW i \in I
  PROVE  /\ Place(I, i) \in 1 .. Cardinality(I)
         /\ \A j \in I : i < j => Place(I, i) < Place(I, j)
<1> DEFINE UpTo(n) == {k \in I : k <= n}
<1>1. IsFiniteSet(I) /\ Cardinality(I) \in Nat
  <2>1. N \in Int /\ 1 \in Int
    OBVIOUS
  <2>2. IsFiniteSet(1 .. N)
    BY <2>1, FS_Interval
  <2> QED
    BY <2>2, FS_Subset, FS_CardinalityType
<1>2. \A n : /\ UpTo(n) \subseteq I /\ IsFiniteSet(UpTo(n))
             /\ Cardinality(UpTo(n)) \in Nat /\ Cardinality(UpTo(n)) <= Cardinality(I)
  <2> SUFFICES ASSUME NEW n
               PROVE  /\ UpTo(n) \subseteq I /\ IsFiniteSet(UpTo(n))
                      /\ Cardinality(UpTo(n)) \in Nat /\ Cardinality(UpTo(n)) <= Cardinality(I)
    OBVIOUS
  <2>1. UpTo(n) \in SUBSET I
    OBVIOUS
  <2> HIDE DEF UpTo
  <2> QED
    BY <1>1, <2>1, FS_Subset, FS_CardinalityType
<1>3. Cardinality(UpTo(i)) # 0
  <2>1. i \in UpTo(i)
    OBVIOUS
  <2> HIDE DEF UpTo
  <2> QED
    BY <1>2, <2>1, FS_EmptySet
<1>4. ASSUME NEW j \in I, i < j
      PROVE  Cardinality(UpTo(i)) < Cardinality(UpTo(j))
  <2>1. UpTo(i) \in SUBSET UpTo(j) /\ UpTo(i) # UpTo(j)
    <3>1. \A k \in I : k \in Nat
      OBVIOUS
    <3>2. i \in Nat /\ j \in Nat /\ j \in UpTo(j) /\ j \notin UpTo(i)
      BY <1>4, <3>1
    <3>3. UpTo(i) \in SUBSET UpTo(j)
      <4> SUFFICES ASSUME NEW k \in UpTo(i)
                   PROVE  k \in UpTo(j)
        OBVIOUS
      <4>1. k \in I /\ k <= i /\ k \in Nat
        BY <3>1
      <4> QED
        BY <1>4, <3>2, <4>1
    <3> QED
      BY <3>2, <3>3
  <2> HIDE DEF UpTo
  <2>2. /\ Cardinality(UpTo(i)) <= Cardinality(UpTo(j))
        /\ Cardinality(UpTo(j)) # Cardinality(UpTo(i))
    BY <1>2, <2>1, FS_Subset
  <2> QED
    BY <1>2, <2>2
<1>5. \A n : Place(I, n) = Cardinality(UpTo(n))
  BY DEF Place
<1> HIDE DEF UpTo
<1>6. Place(I, i) \in 1 .. Cardinality(I)
  BY <1>1, <1>2, <1>3, <1>5
<1> QED
  BY <1>4, <1>5, <1>6

(* What stands between two newlines is a line.                             *)
LEMMA LineAt ==
  ASSUME NEW S, NEW t \in Seq(S), NEW e \in LineEnds(t), NEW b \in 1 .. e,
         b = 1 \/ t[b - 1] = Newline, \A j \in b .. e : t[j] # Newline
  PROVE  /\ Place(LineEnds(t), e) \in DOMAIN Lines(t)
         /\ Lines(t)[Place(LineEnds(t), e)] = SubSeq(t, b, e)
<1> DEFINE I == LineEnds(t)
           n == Place(I, e)
<1>1. I \in SUBSET (1 .. Len(t)) /\ Len(t) \in Nat /\ Cardinality(I) \in Nat
  BY EndsFinite, LenProperties
<1>2. n \in 1 .. Cardinality(I)
  BY <1>1, Places
<1>3. e \in Nat /\ e <= Len(t)
  BY <1>1
<1> HIDE DEF I, n
<1>4. (CHOOSE i \in I : Place(I, i) = n) = e
  <2>1. ASSUME NEW i \in I, Place(I, i) = n
        PROVE  i = e
    <3>1. i \in Nat /\ n \in Nat
      BY <1>1, <1>2
    <3>2. i < e => n < n
      <4>1. i < e => Place(I, i) < Place(I, e)
        BY <1>1, Places DEF I
      <4> QED
        BY <2>1, <4>1 DEF n
    <3>3. e < i => n < n
      <4>1. e < i => Place(I, e) < Place(I, i)
        BY <1>1, Places DEF I
      <4> QED
        BY <2>1, <4>1 DEF n
    <3> QED
      BY <1>3, <3>1, <3>2, <3>3
  <2>2. e \in I /\ Place(I, e) = n
    BY DEF I, n
  <2> QED
    BY <2>1, <2>2
<1>5. LineBegin(t, e) = b
  <2>1. ASSUME NEW i \in 1 .. e, i = 1 \/ t[i - 1] = Newline,
               \A j \in i .. e : t[j] # Newline
        PROVE  i = b
    <3>1. ~(i < b)
      <4>1. i < b => b - 1 \in i .. e /\ b # 1
        BY <1>3
      <4> QED
        BY <2>1, <4>1
    <3>2. ~(b < i)
      <4>1. b < i => i - 1 \in b .. e /\ i # 1
        BY <1>3
      <4> QED
        BY <2>1, <4>1
    <3> QED
      BY <1>3, <3>1, <3>2
  <2> QED
    BY <2>1 DEF LineBegin
<1>6. Lines(t) = [m \in 1 .. Cardinality(I) |->
                    SubSeq(t, LineBegin(t, CHOOSE i \in I : Place(I, i) = m),
                              CHOOSE i \in I : Place(I, i) = m)]
  BY DEF Lines, I
<1>7. n \in DOMAIN Lines(t) /\ Lines(t)[n] = SubSeq(t, b, e)
  BY <1>2, <1>4, <1>5, <1>6
<1> QED
  BY <1>7 DEF I, n

(* The first of a set of positions is the least.                          *)
LEMMA FirstIs ==
  ASSUME NEW s, NEW I \in SUBSET Nat, NEW i \in I, \A j \in I : i <= j
  PROVE  First(s, I) = i
<1>1. \A k \in I : (\A j \in I : k <= j) => k = i
  <2> SUFFICES ASSUME NEW k \in I, \A j \in I : k <= j
               PROVE  k = i
    OBVIOUS
  <2>1. k <= i /\ i <= k /\ k \in Nat /\ i \in Nat
    OBVIOUS
  <2> QED
    BY <2>1
<1>2. I # {} /\ \A j \in I : i <= j
  OBVIOUS
<1> QED
  BY <1>1, <1>2 DEF First

(* A part of a text, element by element. *)
LEMMA PartOf ==
  ASSUME NEW S, NEW s \in Seq(S), NEW b \in 1 .. Len(s)
  PROVE  /\ SubSeq(s, b, Len(s)) \in Seq(S) /\ Len(SubSeq(s, b, Len(s))) = Len(s) - b + 1
         /\ \A i \in 1 .. Len(s) - b + 1 : SubSeq(s, b, Len(s))[i] = s[b + i - 1]
         /\ SubSeq(s, b, b) = <<s[b]>>
<1>1. Len(s) \in Nat /\ Len(s) \in Int /\ b \in Int /\ \A i \in 1 .. Len(s) : s[i] \in S
  BY LenProperties, ElementOfSeq
<1>2. \A i \in b .. Len(s) : s[i] \in S
  BY <1>1
<1>3. /\ SubSeq(s, b, Len(s)) \in Seq(S) /\ Len(SubSeq(s, b, Len(s))) = Len(s) - b + 1
      /\ \A i \in 1 .. Len(s) - b + 1 : SubSeq(s, b, Len(s))[i] = s[b + i - 1]
  BY <1>1, <1>2, SubSeqProperties
<1>4. SubSeq(s, b, b) = <<s[b]>>
  <2>1. \A i \in b .. b : s[i] \in S
    BY <1>1
  <2>2. /\ SubSeq(s, b, b) \in Seq(S) /\ Len(SubSeq(s, b, b)) = 1
        /\ \A i \in 1 .. b - b + 1 : SubSeq(s, b, b)[i] = s[b + i - 1]
    BY <1>1, <2>1, SubSeqProperties
  <2>3. SubSeq(s, b, b)[1] = s[b]
    BY <1>1, <2>2
  <2>4. <<s[b]>> \in Seq(S) /\ Len(<<s[b]>>) = 1 /\ <<s[b]>>[1] = s[b]
    BY <1>1
  <2>5. \A i \in 1 .. Len(SubSeq(s, b, b)) : SubSeq(s, b, b)[i] = <<s[b]>>[i]
    BY <2>2, <2>3, <2>4
  <2> QED
    BY <2>2, <2>4, <2>5, SeqEqual
<1> QED
  BY <1>3, <1>4

(* A set with one element more at most.                                    *)
LEMMA OneMoreElement ==
  ASSUME NEW A, NEW B, NEW x, IsFiniteSet(B), A \subseteq B \cup {x}
  PROVE  /\ Cardinality(A) <= Cardinality(B) + 1
         /\ x \in B => Cardinality(A) <= Cardinality(B)
<1>1. IsFiniteSet(B \cup {x}) /\ Cardinality(B) \in Nat
      /\ Cardinality(B \cup {x}) = IF x \in B THEN Cardinality(B) ELSE Cardinality(B) + 1
  BY FS_AddElement, FS_CardinalityType
<1>2. IsFiniteSet(A) /\ Cardinality(A) <= Cardinality(B \cup {x})
  BY <1>1, FS_Subset
<1>3. Cardinality(A) \in Nat
  BY <1>2, FS_CardinalityType
<1> QED
  BY <1>1, <1>2, <1>3
=============================================================================
