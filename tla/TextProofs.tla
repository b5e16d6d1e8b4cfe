----------------------------- MODULE TextProofs -----------------------------
(***************************************************************************)
(* Texts that are written and read back, for strings of any length.        *)
(* What Persistence promises of a snapshot, for any maps, number of        *)
(* writers and bounds; in order:                                           *)
(*   - FlattenSegments: where each of the sequences that are put together  *)
(*     stands in the result, for the characters of a string and for the    *)
(*     lines of a text alike;                                              *)
(*   - UnescapedEscaped: unescape_string inverts escape_string, and what   *)
(*     is escaped has neither space nor newline (EscapedString);           *)
(*   - LineOfPair, CutLine: a line in the beginning of a map's text is     *)
(*     that of one pair, whole unless the text is cut short in it, so that *)
(*     load reads a key of the map from it (LoadPart), and from the whole  *)
(*     text every pair (LoadWhole);                                        *)
(*   - WrittenSoFar: a writer that has the file for itself has written the *)
(*     beginning of its text, and nothing else is in the file.  This is    *)
(*     the inductive invariant, with the types.                            *)
(* What RESPParser promises of its replies; in order:                      *)
(*   - DecimalRead: the number that Decimal writes is the one that Number  *)
(*     reads;                                                              *)
(*   - FirstLine: of a line with something behind it exactly the line is   *)
(*     read, if there is no line end in it (LineReply); a bulk string is   *)
(*     read whatever is in it, for its length comes first (BulkReply);     *)
(*   - AllRead: so are replies one behind the other.                       *)
(***************************************************************************)
EXTENDS Persistence, RESPParser, SequenceLemmas

(* g[n] is the first n of the sequences seqs, one behind the other. *)
Flattens(g, seqs, S) ==
  /\ g \in [0 .. Len(seqs) -> Seq(S)]
  /\ g[0] = <<>>
  /\ \A n \in 1 .. Len(seqs) : g[n] = g[n - 1] \o seqs[n]

(* FlattenSeq puts one sequence after the other behind the first ones.     *)
LEMMA FlattenRecursion ==
  ASSUME NEW S, NEW seqs \in Seq(Seq(S))
  PROVE  \E g : Flattens(g, seqs, S) /\ FlattenSeq(seqs) = g[Len(seqs)]
<1> DEFINE N == Len(seqs)
           Def(k) == [i \in 1 .. Len(seqs) |-> IF i = 1 THEN seqs[i] ELSE k[i - 1] \o seqs[i]]
           flatten == CHOOSE k : k = Def(k)
           Longer(k, n) == k \o seqs[n]
           F == [n \in 1 .. N |-> [k \in Seq(S) |-> Longer(k, n)]]
<1>1. N \in Nat /\ DOMAIN seqs = 1 .. N /\ \A i \in 1 .. N : seqs[i] \in Seq(S)
  BY ElementOfSeq, LenProperties
<1>2. F \in [1 .. N -> [Seq(S) -> Seq(S)]]
  BY <1>1
<1>3. PICK g : Iterates(g, N, Seq(S), <<>>, F)
  <2> HIDE DEF F, N
  <2>1. <<>> \in Seq(S)
    OBVIOUS
  <2> QED
    BY <1>1, <1>2, <2>1, Recursion
<1>4. g \in [0 .. N -> Seq(S)] /\ g[0] = <<>> /\ \A n \in 1 .. N : g[n] = g[n - 1] \o seqs[n]
  <2>1. g \in [0 .. N -> Seq(S)] /\ g[0] = <<>>
    BY <1>3 DEF Iterates
  <2>2. ASSUME NEW n \in 1 .. N
        PROVE  g[n] = g[n - 1] \o seqs[n]
    <3> HIDE DEF Longer, F, N
    <3>1. n - 1 \in 0 .. N
      BY <1>1
    <3>2. g[n - 1] \in Seq(S)
      BY <2>1, <3>1
    <3>3. g[n] = Longer(g[n - 1], n)
      BY <1>3, <3>2 DEF Iterates, F
    <3> QED
      BY <3>3 DEF Longer
  <2> QED
    BY <2>1, <2>2
<1>5. CASE N = 0
  <2>1. seqs = <<>>
    BY <1>5
  <2> QED
    BY <1>4, <1>5, <2>1 DEF Flattens, FlattenSeq
<1>6. CASE N # 0
  <2> DEFINE h == [i \in 1 .. N |-> g[i]]
  <2>1. h = Def(h)
    <3>1. ASSUME NEW i \in 1 .. N
          PROVE  h[i] = IF i = 1 THEN seqs[i] ELSE h[i - 1] \o seqs[i]
      <4>1. CASE i = 1
        <5>1. <<>> \o seqs[1] = seqs[1]
          BY <1>1, <4>1, ConcatEmptySeq
        <5> QED
          BY <1>4, <4>1, <5>1
      <4>2. CASE i # 1
        <5>1. i - 1 \in 1 .. N
          BY <1>1, <4>2
        <5>2. h[i] = g[i] /\ h[i - 1] = g[i - 1]
          BY <5>1
        <5>3. g[i] = g[i - 1] \o seqs[i]
          BY <1>4
        <5> HIDE DEF h, N
        <5> QED
          BY <4>2, <5>2, <5>3
      <4> QED
        BY <4>1, <4>2
    <3>2. \A i \in 1 .. N : h[i] = Def(h)[i]
      <4> HIDE DEF h
      <4> QED
        BY <3>1
    <3>3. DOMAIN h = 1 .. N /\ DOMAIN Def(h) = 1 .. N
      OBVIOUS
    <3> HIDE DEF h
    <3>4. h = [i \in 1 .. N |-> h[i]] /\ Def(h) = [i \in 1 .. N |-> Def(h)[i]]
      BY DEF h
    <3> QED
      BY <3>2, <3>4
  <2>2. flatten = Def(flatten)
    <3> HIDE DEF Def, h
    <3> QED
      BY <2>1
  <2>3. /\ flatten = [i \in 1 .. N |-> flatten[i]]
        /\ \A i \in 1 .. N : flatten[i] = IF i = 1 THEN seqs[i] ELSE flatten[i - 1] \o seqs[i]
    <3> HIDE DEF flatten
    <3>1. Def(flatten) = [i \in 1 .. N |-> Def(flatten)[i]]
      OBVIOUS
    <3>2. \A i \in 1 .. N : Def(flatten)[i] = IF i = 1 THEN seqs[i] ELSE flatten[i - 1] \o seqs[i]
      OBVIOUS
    <3> HIDE DEF Def
    <3> QED
      BY <2>2, <3>1, <3>2
  <2> HIDE DEF flatten
  <2> DEFINE T == {n \in 0 .. N : n # 0 => flatten[n] = g[n]}
  <2>4. ASSUME NEW n \in 1 .. N, n - 1 \in T
        PROVE  n \in T
    <3> SUFFICES flatten[n] = g[n]
      BY <1>1
    <3>1. CASE n = 1
      <4>1. <<>> \o seqs[1] = seqs[1]
        BY <1>1, <3>1, ConcatEmptySeq
      <4>2. flatten[1] = seqs[1]
        BY <2>3, <3>1
      <4>3. g[n] = <<>> \o seqs[n]
        <5>1. n - 1 = 0
          BY <3>1
        <5>2. g[n] = g[n - 1] \o seqs[n]
          BY <1>4
        <5> QED
          BY <1>4, <5>1, <5>2
      <4> QED
        BY <1>4, <3>1, <4>1, <4>2, <4>3
    <3>2. CASE n # 1
      <4>1. n - 1 # 0 /\ flatten[n - 1] = g[n - 1]
        BY <1>1, <2>4, <3>2
      <4> QED
        BY <1>4, <2>3, <3>2, <4>1
    <3> QED
      BY <3>1, <3>2
  <2>5. 0 .. N \subseteq T
    <3>1. 0 \in T
      BY <1>1
    <3> HIDE DEF T
    <3> QED
      BY <1>1, <2>4, <3>1, Climb
  <2>6. flatten[N] = g[N]
    BY <1>1, <1>6, <2>5
  <2>7. FlattenSeq(seqs) = flatten[N]
    BY <1>6 DEF FlattenSeq, flatten
  <2> QED
    BY <1>4, <2>6, <2>7 DEF Flattens
<1> QED
  BY <1>5, <1>6

(* Where each of the sequences stands in the long one: it ends at c[n].    *)
Segments(c, seqs, flat) ==
  /\ c \in [0 .. Len(seqs) -> Nat]
  /\ c[0] = 0 /\ c[Len(seqs)] = Len(flat)
  /\ \A n \in 1 .. Len(seqs) : c[n] = c[n - 1] + Len(seqs[n]) /\ c[n] <= Len(flat)
  /\ \A n \in 1 .. Len(seqs) : \A i \in 1 .. Len(seqs[n]) : flat[c[n - 1] + i] = seqs[n][i]

(* Every sequence is found in the flattened one, at its place.             *)
LEMMA FlattenSegments ==
  ASSUME NEW S, NEW seqs \in Seq(Seq(S))
  PROVE  /\ FlattenSeq(seqs) \in Seq(S)
         /\ \E c : Segments(c, seqs, FlattenSeq(seqs))
<1> DEFINE N == Len(seqs)
<1>1. N \in Nat /\ \A n \in 1 .. N : seqs[n] \in Seq(S) /\ Len(seqs[n]) \in Nat
  BY ElementOfSeq, LenProperties
<1>2. PICK g : Flattens(g, seqs, S) /\ FlattenSeq(seqs) = g[N]
  BY FlattenRecursion
<1>3. /\ \A n \in 0 .. N : g[n] \in Seq(S) /\ Len(g[n]) \in Nat
      /\ g[0] = <<>> /\ \A n \in 1 .. N : g[n] = g[n - 1] \o seqs[n]
  BY <1>2, LenProperties DEF Flattens
<1> DEFINE c == [n \in 0 .. N |-> Len(g[n])]
           flat == g[N]
<1>4. c \in [0 .. N -> Nat] /\ c[0] = 0 /\ c[N] = Len(flat)
  BY <1>1, <1>3
<1>5. ASSUME NEW n \in 1 .. N
      PROVE  /\ c[n] = c[n - 1] + Len(seqs[n])
             /\ \A i \in 1 .. c[n - 1] : g[n][i] = g[n - 1][i]
             /\ \A i \in 1 .. Len(seqs[n]) : g[n][c[n - 1] + i] = seqs[n][i]
  <2>1. /\ g[n - 1] \in Seq(S) /\ seqs[n] \in Seq(S) /\ g[n] = g[n - 1] \o seqs[n]
        /\ c[n] = Len(g[n]) /\ c[n - 1] = Len(g[n - 1])
    <3>1. n - 1 \in 0 .. N /\ n \in 0 .. N
      BY <1>1
    <3> QED
      BY <1>1, <1>3, <3>1
  <2> DEFINE s == g[n - 1]
             u == seqs[n]
  <2>2. /\ Len(s \o u) = Len(s) + Len(u)
        /\ \A i \in 1 .. Len(s) : (s \o u)[i] = s[i]
        /\ \A i \in 1 .. Len(u) : (s \o u)[Len(s) + i] = u[i]
    <3> HIDE DEF s, u, c
    <3>1. s \in Seq(S) /\ u \in Seq(S)
      BY <2>1 DEF s, u
    <3> QED
      BY <3>1, Joined
  <2> HIDE DEF c
  <2> QED
    BY <2>1, <2>2
(* Longer beginnings only add behind. *)
<1> DEFINE T(m) == {k \in 0 .. N : m <= k => c[m] <= c[k] /\ \A i \in 1 .. c[m] : g[k][i] = g[m][i]}
<1>6. ASSUME NEW m \in 0 .. N
      PROVE  0 .. N \subseteq T(m)
  <2>1. 0 \in T(m)
    BY <1>1, <1>4
  <2>2. ASSUME NEW k \in 1 .. N, k - 1 \in T(m)
        PROVE  k \in T(m)
    <3>1. CASE m = k
      BY <1>1, <1>4, <3>1
    <3>2. CASE m < k
      <4>1. m <= k - 1 /\ c[k - 1] \in Nat /\ c[k] \in Nat /\ c[m] \in Nat /\ k \in 0 .. N
        BY <1>1, <1>4, <3>2
      <4>2. c[m] <= c[k - 1] /\ \A i \in 1 .. c[m] : g[k - 1][i] = g[m][i]
        BY <2>2, <4>1
      <4>3. c[k] >= c[k - 1] /\ \A i \in 1 .. c[k - 1] : g[k][i] = g[k - 1][i]
        <5>1. Len(seqs[k]) \in Nat
          BY <1>1
        <5> HIDE DEF c, N
        <5>2. c[k] = c[k - 1] + Len(seqs[k]) /\ \A i \in 1 .. c[k - 1] : g[k][i] = g[k - 1][i]
          BY <1>5
        <5> QED
          BY <4>1, <5>1, <5>2
      <4> HIDE DEF c
      <4>4. c[m] <= c[k] /\ \A i \in 1 .. c[m] : g[k][i] = g[m][i]
        BY <4>1, <4>2, <4>3
      <4> QED
        BY <4>1, <4>4
    <3>3. CASE k < m
      BY <1>1, <3>3
    <3> QED
      BY <1>1, <3>1, <3>2, <3>3
  <2> HIDE DEF T
  <2> QED
    BY <1>1, <2>1, <2>2, Climb
<1>7. ASSUME NEW n \in 1 .. N
      PROVE  /\ c[n] = c[n - 1] + Len(seqs[n]) /\ c[n] <= Len(flat)
             /\ \A i \in 1 .. Len(seqs[n]) : flat[c[n - 1] + i] = seqs[n][i]
  <2>1. n \in 0 .. N /\ N \in T(n) /\ n <= N /\ c[n - 1] \in Nat /\ Len(seqs[n]) \in Nat
    <3>1. n \in 0 .. N /\ n - 1 \in 0 .. N /\ N \in 0 .. N /\ n <= N
      BY <1>1
    <3>2. Len(seqs[n]) \in Nat
      BY <1>1
    <3> HIDE DEF T, c, N
    <3>3. c[n - 1] \in Nat
      BY <1>4, <3>1
    <3>4. N \in T(n)
      BY <1>6, <3>1
    <3> QED
      BY <3>1, <3>2, <3>3, <3>4
  <2>2. c[n] <= c[N] /\ \A i \in 1 .. c[n] : flat[i] = g[n][i]
    BY <2>1
  <2>3. c[n] = c[n - 1] + Len(seqs[n])
    BY <1>5
  <2> HIDE DEF c, flat
  <2>4. \A i \in 1 .. Len(seqs[n]) : c[n - 1] + i \in 1 .. c[n]
    BY <2>1, <2>3
  <2> QED
    BY <1>4, <1>5, <2>2, <2>3, <2>4
<1>8. flat \in Seq(S) /\ Segments(c, seqs, flat)
  <2>1. flat \in Seq(S)
    BY <1>1, <1>3
  <2> HIDE DEF c, flat
  <2> QED
    BY <1>4, <1>7, <2>1 DEF Segments
<1> HIDE DEF c
<1> QED
  BY <1>2, <1>8

(* Every position is in one of the sequences.                              *)
LEMMA InSegment ==
  ASSUME NEW N \in Nat, NEW c \in [0 .. N -> Nat], c[0] = 0, NEW e \in 1 .. c[N]
  PROVE  \E n \in 1 .. N : c[n - 1] < e /\ e <= c[n]
<1> DEFINE T == {k \in 0 .. N : e <= c[k] => \E n \in 1 .. N : c[n - 1] < e /\ e <= c[n]}
<1>1. 0 \in T
  OBVIOUS
<1>2. ASSUME NEW k \in 1 .. N, k - 1 \in T
      PROVE  k \in T
  <2>1. c[k - 1] \in Nat /\ c[k] \in Nat
    OBVIOUS
  <2> QED
    BY <1>2, <2>1
<1>3. 0 .. N \subseteq T
  <2> HIDE DEF T
  <2> QED
    BY <1>1, <1>2, Climb
<1> QED
  BY <1>3

-----------------------------------------------------------------------------
(* escape_string and unescape_string.                                      *)

(* No two characters share a code. *)
LEMMA CodesAreUnique ==
  /\ \A c, d \in Codes : c[1] = d[1] \/ c[2] = d[2] => c = d
  /\ \A c \in Codes : Plain(c[2]) = c[1] /\ c[2] \notin {Space, Newline}
<1>1. \A c, d \in Codes : c[1] = d[1] \/ c[2] = d[2] => c = d
  <2> DEFINE Pairs(c, x, y) == c = <<x, y>> /\ c[1] = x /\ c[2] = y
  <2>1. \A c \in Codes : \/ Pairs(c, Space, "s") \/ Pairs(c, Newline, "n") \/ Pairs(c, Return, "r")
                         \/ Pairs(c, Tab, "t") \/ Pairs(c, Escape, Escape)
    BY DEF Codes
  <2>2. ASSUME NEW c \in Codes, NEW d \in Codes, c[1] = d[1] \/ c[2] = d[2]
        PROVE  c = d
    <3>1. \/ Pairs(c, Space, "s") \/ Pairs(c, Newline, "n") \/ Pairs(c, Return, "r")
          \/ Pairs(c, Tab, "t") \/ Pairs(c, Escape, Escape)
      BY <2>1
    <3>2. \/ Pairs(d, Space, "s") \/ Pairs(d, Newline, "n") \/ Pairs(d, Return, "r")
          \/ Pairs(d, Tab, "t") \/ Pairs(d, Escape, Escape)
      BY <2>1
    <3>3. /\ Space # Newline /\ Space # Return /\ Space # Tab /\ Space # Escape
          /\ Newline # Return /\ Newline # Tab /\ Newline # Escape
          /\ Return # Tab /\ Return # Escape /\ Tab # Escape
      BY Zenon DEF Space, Newline, Return, Tab, Escape
    <3>4. Escape \notin {"s", "n", "r", "t"}
      BY DEF Escape
    <3> QED
      BY <2>2, <3>1, <3>2, <3>3, <3>4
  <2> QED
    BY <2>2
<1>2. ASSUME NEW c \in Codes
      PROVE  Plain(c[2]) = c[1]
  BY <1>1 DEF Plain
<1>3. \A c \in Codes : c[2] \notin {Space, Newline}
  <2>1. \A c \in Codes : c[2] = "s" \/ c[2] = "n" \/ c[2] = "r" \/ c[2] = "t" \/ c[2] = "\\"
    BY DEF Codes, Escape
  <2> QED
    BY <2>1 DEF Space, Newline
<1> QED
  BY <1>1, <1>2, <1>3

(* A character stands for itself, or for an escape and its code.           *)
LEMMA CharEscaped ==
  ASSUME NEW x \in Character, NEW e, e = EscapedChar(x)
  PROVE  /\ e \in Seq(Cell)
         /\ \/ Len(e) = 1 /\ e[1] = x /\ x \notin {Space, Newline, Escape}
            \/ Len(e) = 2 /\ e[1] = Escape /\ \E c \in Codes : c[1] = x /\ c[2] = e[2]
         /\ \A i \in 1 .. Len(e) : e[i] \notin {Space, Newline}
<1>1. CASE \E c \in Codes : c[1] = x
  <2> DEFINE c == CHOOSE c \in Codes : c[1] = x
  <2>1. c \in Codes /\ c[1] = x
    BY <1>1
  <2>2. e = <<Escape, c[2]>>
    BY <1>1 DEF EscapedChar
  <2> HIDE DEF c
  <2>3. Escape \in Cell /\ c[2] \in Cell
    BY <2>1 DEF Cell
  <2>4. Escape \notin {Space, Newline} /\ c[2] \notin {Space, Newline}
    BY <2>1, CodesAreUnique DEF Escape, Space, Newline
  <2>5. e \in Seq(Cell) /\ Len(e) = 2 /\ e[1] = Escape /\ e[2] = c[2]
    BY <2>2, <2>3
  <2>6. \A i \in 1 .. 2 : i = 1 \/ i = 2
    OBVIOUS
  <2> QED
    BY <2>1, <2>4, <2>5, <2>6
<1>2. CASE ~\E c \in Codes : c[1] = x
  <2>1. x \notin {Space, Newline, Escape}
    <3>1. <<Space, "s">> \in Codes /\ <<Newline, "n">> \in Codes /\ <<Escape, Escape>> \in Codes
      BY DEF Codes
    <3>2. <<Space, "s">>[1] = Space /\ <<Newline, "n">>[1] = Newline /\ <<Escape, Escape>>[1] = Escape
      OBVIOUS
    <3> QED
      BY <1>2, <3>1, <3>2
  <2>2. e = <<x>>
    BY <1>2 DEF EscapedChar
  <2>3. e \in Seq(Cell) /\ Len(e) = 1 /\ e[1] = x
    BY <2>2 DEF Cell
  <2> QED
    BY <2>1, <2>3
<1> QED
  BY <1>1, <1>2

(* c[n] is where the escape of the first n characters of s ends. *)
EscapedTo(c, s) ==
  /\ c \in [0 .. Len(s) -> Nat] /\ c[0] = 0 /\ c[Len(s)] = Len(Escaped(s))
  /\ \A n \in 1 .. Len(s) :
       /\ c[n] = c[n - 1] + Len(EscapedChar(s[n])) /\ c[n] <= Len(Escaped(s))
       /\ \A i \in 1 .. Len(EscapedChar(s[n])) : Escaped(s)[c[n - 1] + i] = EscapedChar(s[n])[i]

(* The escaped string has neither spaces nor newlines.                     *)
LEMMA EscapedString ==
  ASSUME NEW s \in Seq(Character)
  PROVE  /\ Escaped(s) \in Seq(Cell)
         /\ \A e \in 1 .. Len(Escaped(s)) : Escaped(s)[e] \notin {Space, Newline}
         /\ \E c : EscapedTo(c, s)
<1> DEFINE seqs == [i \in DOMAIN s |-> EscapedChar(s[i])]
<1>1. Len(s) \in Nat /\ DOMAIN s = 1 .. Len(s) /\ \A i \in 1 .. Len(s) : s[i] \in Character
  BY ElementOfSeq, LenProperties
<1>2. \A i \in 1 .. Len(s) : EscapedChar(s[i]) \in Seq(Cell)
  BY <1>1, CharEscaped
<1>3. /\ seqs \in Seq(Seq(Cell)) /\ Len(seqs) = Len(s)
      /\ \A i \in 1 .. Len(s) : seqs[i] = EscapedChar(s[i])
  <2>1. seqs \in [1 .. Len(s) -> Seq(Cell)]
    BY <1>1, <1>2
  <2> QED
    BY <1>1, <2>1
<1>4. Escaped(s) = FlattenSeq(seqs)
  BY DEF Escaped
<1> HIDE DEF seqs
<1>5. Escaped(s) \in Seq(Cell)
  BY <1>3, <1>4, FlattenSegments
<1>6. PICK c : Segments(c, seqs, Escaped(s))
  BY <1>3, <1>4, FlattenSegments
<1>7. EscapedTo(c, s)
  BY <1>3, <1>6 DEF Segments, EscapedTo
<1>8. ASSUME NEW e \in 1 .. Len(Escaped(s))
      PROVE  Escaped(s)[e] \notin {Space, Newline}
  <2>1. PICK n \in 1 .. Len(s) : c[n - 1] < e /\ e <= c[n]
    BY <1>1, <1>7, <1>8, InSegment DEF EscapedTo
  <2> DEFINE i == e - c[n - 1]
  <2>2. c[n - 1] \in Nat /\ c[n] \in Nat /\ e \in Nat
    BY <1>1, <1>7, <1>5, LenProperties DEF EscapedTo
  <2>3. c[n] = c[n - 1] + Len(EscapedChar(s[n])) /\ Len(EscapedChar(s[n])) \in Nat
    BY <1>2, <1>7, LenProperties DEF EscapedTo
  <2>4. i \in 1 .. Len(EscapedChar(s[n])) /\ c[n - 1] + i = e
    BY <2>1, <2>2, <2>3
  <2> HIDE DEF i
  <2>5. Escaped(s)[e] = EscapedChar(s[n])[i]
    BY <1>7, <2>4 DEF EscapedTo
  <2>6. EscapedChar(s[n])[i] \notin {Space, Newline}
    BY <1>1, <2>4, CharEscaped
  <2> QED
    BY <2>5, <2>6
<1> QED
  BY <1>5, <1>7, <1>8

(* What stands for the last n characters of s. *)
Reads(last, s) ==
  /\ last[0] = <<>>
  /\ \A n \in 1 .. Len(s) :
       last[n] = LET i == Len(s) - n + 1
                 IN IF s[i] = Escape /\ n > 1 /\ \E c \in Codes : c[2] = s[i + 1]
                    THEN <<Plain(s[i + 1])>> \o last[n - 2]
                    ELSE <<s[i]>> \o last[n - 1]

(* unescape_string goes through the string as its definition says.         *)
LEMMA UnescapedRecursion ==
  ASSUME NEW S, NEW s \in Seq(S)
  PROVE  \E last : Reads(last, s) /\ Unescaped(s) = last[Len(s)]
<1> DEFINE N == Len(s)
           Coded(n) == s[N - n + 1] = Escape /\ n > 1 /\ \E c \in Codes : c[2] = s[N - n + 1 + 1]
           Longer(a, b, n) == IF Coded(n) THEN <<Plain(s[N - n + 1 + 1])>> \o b ELSE <<s[N - n + 1]>> \o a
           Def(k) == [n \in 0 .. Len(s) |->
                        LET i == Len(s) - n + 1
                        IN IF n = 0 THEN <<>>
                           ELSE IF s[i] = Escape /\ n > 1 /\ \E c \in Codes : c[2] = s[i + 1]
                                THEN <<Plain(s[i + 1])>> \o k[n - 2]
                                ELSE <<s[i]>> \o k[n - 1]]
           last == CHOOSE k : k = Def(k)
           B == S \cup {c[1] : c \in Codes}
           A == Seq(B)
           F == [n \in 1 .. N |-> [q \in A \X A |-> <<Longer(q[1], q[2], n), q[1]>>]]
<1>1. N \in Nat /\ \A i \in 1 .. N : s[i] \in S
  BY ElementOfSeq, LenProperties
<1>2. ASSUME NEW n \in 1 .. N, NEW a \in A, NEW b \in A
      PROVE  Longer(a, b, n) \in A
  <2>1. CASE Coded(n)
    <3>1. Plain(s[N - n + 1 + 1]) \in B
      BY <2>1, CodesAreUnique
    <3> HIDE DEF B, Coded
    <3> QED
      BY <2>1, <3>1
  <2>2. CASE ~Coded(n)
    <3>1. N - n + 1 \in 1 .. N
      BY <1>1
    <3>2. s[N - n + 1] \in B
      BY <1>1, <3>1
    <3> HIDE DEF Coded, B
    <3> QED
      BY <2>2, <3>2
  <2> QED
    BY <2>1, <2>2
<1> HIDE DEF Longer, A
<1>3. F \in [1 .. N -> [A \X A -> A \X A]]
  BY <1>2
<1>4. PICK g : Iterates(g, N, A \X A, <<<<>>, <<>>>>, F)
  <2>1. <<<<>>, <<>>>> \in A \X A
    <3>1. <<>> \in A
      BY EmptySeq DEF A
    <3> QED
      BY <3>1
  <2> HIDE DEF F, N
  <2> QED
    BY <1>1, <1>3, <2>1, Recursion
<1>5. /\ \A n \in 0 .. N : g[n] \in A \X A
      /\ g[0][1] = <<>>
      /\ \A n \in 1 .. N : g[n] = <<Longer(g[n - 1][1], g[n - 1][2], n), g[n - 1][1]>>
  <2>1. \A n \in 0 .. N : g[n] \in A \X A
    BY <1>4 DEF Iterates
  <2>2. ASSUME NEW n \in 1 .. N
        PROVE  g[n] = <<Longer(g[n - 1][1], g[n - 1][2], n), g[n - 1][1]>>
    <3>1. n - 1 \in 0 .. N
      BY <1>1
    <3>2. g[n - 1] \in A \X A
      BY <2>1, <3>1
    <3>3. g[n] = F[n][g[n - 1]]
      <4> HIDE DEF F
      <4> QED
        BY <1>4 DEF Iterates
    <3> QED
      BY <3>2, <3>3
  <2> QED
    BY <1>4, <2>1, <2>2 DEF Iterates
<1> DEFINE h == [n \in 0 .. N |-> g[n][1]]
<1>6. h[0] = <<>> /\ \A n \in 1 .. N : h[n] = Longer(h[n - 1], h[n - 2], n)
  <2>1. h[0] = <<>>
    BY <1>1, <1>5
  <2>2. ASSUME NEW n \in 1 .. N
        PROVE  h[n] = Longer(h[n - 1], h[n - 2], n)
    <3>1. h[n] = Longer(h[n - 1], g[n - 1][2], n)
      <4>1. n - 1 \in 0 .. N /\ n \in 0 .. N
        BY <1>1
      <4>2. h[n] = g[n][1] /\ h[n - 1] = g[n - 1][1]
        BY <4>1
      <4> HIDE DEF h
      <4> QED
        BY <1>5, <4>2
    <3>2. CASE n = 1
      BY <3>1, <3>2 DEF Longer
    <3>3. CASE n # 1
      <4>1. n - 1 \in 1 .. N /\ n - 2 \in 0 .. N /\ n - 1 - 1 = n - 2
        BY <1>1, <3>3
      <4>2. g[n - 1][2] = g[n - 2][1]
        BY <1>5, <4>1
      <4> QED
        BY <3>1, <4>1, <4>2
    <3> QED
      BY <3>2, <3>3
  <2> QED
    BY <2>1, <2>2
<1>7. h = Def(h)
  <2>1. \A n \in 0 .. N : h[n] = Def(h)[n]
    <3> HIDE DEF h
    <3> QED
      BY <1>1, <1>6 DEF Longer
  <2>2. h = [n \in 0 .. N |-> h[n]] /\ Def(h) = [n \in 0 .. N |-> Def(h)[n]]
    <3>1. h = [n \in 0 .. N |-> h[n]]
      OBVIOUS
    <3> HIDE DEF h
    <3> QED
      BY <3>1
  <2> HIDE DEF h, Def
  <2> QED
    BY <2>1, <2>2
<1>8. last = Def(last)
  <2> HIDE DEF Def, h
  <2> QED
    BY <1>7
<1>9. Unescaped(s) = last[Len(s)]
  BY DEF Unescaped
<1> HIDE DEF last
<1>10. Reads(last, s)
  <2>1. \A n \in 0 .. N : last[n] = Def(last)[n]
    <3> HIDE DEF Def
    <3> QED
      BY <1>8
  <2>2. last[0] = <<>>
    <3>1. 0 \in 0 .. N
      BY <1>1
    <3>2. last[0] = Def(last)[0]
      BY <2>1, <3>1
    <3> QED
      BY <3>1, <3>2
  <2>3. ASSUME NEW n \in 1 .. N
        PROVE  last[n] = LET i == Len(s) - n + 1
                         IN IF s[i] = Escape /\ n > 1 /\ \E c \in Codes : c[2] = s[i + 1]
                            THEN <<Plain(s[i + 1])>> \o last[n - 2]
                            ELSE <<s[i]>> \o last[n - 1]
    <3>1. n \in 0 .. N /\ n # 0
      BY <1>1
    <3>2. last[n] = Def(last)[n]
      BY <2>1, <3>1
    <3> QED
      BY <3>1, <3>2
  <2> QED
    BY <2>2, <2>3 DEF Reads
<1> QED
  BY <1>9, <1>10

(* A part of a sequence, element by element. *)
LEMMA Cut ==
  ASSUME NEW S, NEW s \in Seq(S), NEW a \in 1 .. Len(s) + 1, NEW b \in a - 1 .. Len(s)
  PROVE  /\ SubSeq(s, a, b) \in Seq(S) /\ Len(SubSeq(s, a, b)) = b - a + 1
         /\ \A i \in 1 .. b - a + 1 : SubSeq(s, a, b)[i] = s[a + i - 1]
<1>1. Len(s) \in Nat /\ a \in Int /\ b \in Int /\ \A i \in 1 .. Len(s) : s[i] \in S
  BY LenProperties, ElementOfSeq
<1>2. \A i \in a .. b : s[i] \in S
  BY <1>1
<1>3. /\ SubSeq(s, a, b) \in Seq(S) /\ Len(SubSeq(s, a, b)) = IF a <= b THEN b - a + 1 ELSE 0
      /\ \A i \in 1 .. b - a + 1 : SubSeq(s, a, b)[i] = s[a + i - 1]
  BY <1>1, <1>2, SubSeqProperties
<1>4. b - a + 1 = IF a <= b THEN b - a + 1 ELSE 0
  BY <1>1
<1> QED
  BY <1>3, <1>4

(* What stands first in the last characters of a sequence.                 *)
LEMMA FirstOfRest ==
  ASSUME NEW S, NEW s \in Seq(S), NEW j \in 1 .. Len(s)
  PROVE  <<s[j]>> \o SubSeq(s, j + 1, Len(s)) = SubSeq(s, j, Len(s))
<1> DEFINE a == <<s[j]>>
           b == SubSeq(s, j + 1, Len(s))
           d == SubSeq(s, j, Len(s))
<1>1. Len(s) \in Nat /\ s[j] \in S /\ j \in Nat
  BY LenProperties, ElementOfSeq
<1>2. a \in Seq(S) /\ Len(a) = 1 /\ a[1] = s[j]
  BY <1>1
<1>3. b \in Seq(S) /\ Len(b) = Len(s) - j /\ \A i \in 1 .. Len(s) - j : b[i] = s[j + i]
  <2>1. j + 1 \in 1 .. Len(s) + 1 /\ Len(s) \in (j + 1) - 1 .. Len(s)
    BY <1>1
  <2>2. Len(s) - (j + 1) + 1 = Len(s) - j /\ \A i \in 1 .. Len(s) - j : j + 1 + i - 1 = j + i
    BY <1>1
  <2>3. /\ b \in Seq(S) /\ Len(b) = Len(s) - (j + 1) + 1
        /\ \A i \in 1 .. Len(s) - (j + 1) + 1 : b[i] = s[j + 1 + i - 1]
    BY <2>1, Cut
  <2> HIDE DEF b
  <2> QED
    BY <2>2, <2>3
<1>4. d \in Seq(S) /\ Len(d) = Len(s) - j + 1 /\ \A i \in 1 .. Len(s) - j + 1 : d[i] = s[j + i - 1]
  <2>1. j \in 1 .. Len(s) + 1 /\ Len(s) \in j - 1 .. Len(s)
    BY <1>1
  <2> QED
    BY <2>1, Cut
<1> HIDE DEF a, b, d
<1>5. /\ a \o b \in Seq(S) /\ Len(a \o b) = Len(s) - j + 1
      /\ (a \o b)[1] = a[1] /\ \A i \in 1 .. Len(b) : (a \o b)[1 + i] = b[i]
  <2>1. /\ a \o b \in Seq(S) /\ Len(a \o b) = Len(a) + Len(b)
        /\ \A i \in 1 .. Len(a) : (a \o b)[i] = a[i]
        /\ \A i \in 1 .. Len(b) : (a \o b)[Len(a) + i] = b[i]
    <3>1. a \in Seq(S) /\ b \in Seq(S)
      BY <1>2, <1>3
    <3> QED
      BY <3>1, Joined
  <2> QED
    BY <1>1, <1>2, <1>3, <2>1
<1>6. ASSUME NEW i \in 1 .. Len(d)
      PROVE  (a \o b)[i] = d[i]
  <2>1. CASE i = 1
    BY <1>1, <1>2, <1>4, <1>5, <2>1
  <2>2. CASE i # 1
    <3>1. i - 1 \in 1 .. Len(b) /\ 1 + (i - 1) = i /\ j + (i - 1) = j + i - 1
      BY <1>1, <1>3, <1>4, <2>2
    <3>2. (a \o b)[i] = b[i - 1]
      BY <1>5, <3>1
    <3>3. b[i - 1] = s[j + i - 1]
      BY <1>3, <3>1
    <3> QED
      BY <1>4, <3>2, <3>3
  <2> QED
    BY <2>1, <2>2
<1>7. a \o b = d
  BY <1>4, <1>5, <1>6, SeqEqual
<1> QED
  BY <1>7 DEF a, b, d

(* What is written escaped is read as it was.                              *)
LEMMA UnescapedEscaped ==
  ASSUME NEW s \in Seq(Character)
  PROVE  Unescaped(Escaped(s)) = s
<1> DEFINE E == Escaped(s)
           L == Len(E)
           N == Len(s)
<1>1. N \in Nat /\ \A j \in 1 .. N : s[j] \in Character
  BY ElementOfSeq, LenProperties
<1>2. E \in Seq(Cell) /\ L \in Nat
  <2>1. E \in Seq(Cell)
    BY EscapedString
  <2> QED
    BY <2>1, LenProperties
<1>3. PICK c : EscapedTo(c, s)
  BY EscapedString
<1>4. PICK last : Reads(last, E) /\ Unescaped(E) = last[L]
  BY <1>2, UnescapedRecursion
<1> DEFINE T == {k \in 0 .. N : last[L - c[N - k]] = SubSeq(s, N - k + 1, N)}
<1>5. 0 \in T
  <2>1. c[N - 0] = L
    BY <1>1, <1>3 DEF EscapedTo
  <2>2. L - L = 0 /\ N - 0 + 1 = N + 1
    BY <1>1, <1>2
  <2>3. last[0] = <<>>
    BY <1>4 DEF Reads
  <2>4. SubSeq(s, N + 1, N) = <<>>
    <3>1. N + 1 \in 1 .. N + 1 /\ N \in (N + 1) - 1 .. N /\ N - (N + 1) + 1 = 0
      BY <1>1
    <3>2. SubSeq(s, N + 1, N) \in Seq(Character) /\ Len(SubSeq(s, N + 1, N)) = 0
      BY <3>1, Cut
    <3> QED
      BY <3>2, EmptySeq
  <2> HIDE DEF N, L
  <2>5. last[L - c[N - 0]] = SubSeq(s, N - 0 + 1, N) /\ 0 \in 0 .. N
    <3>1. L - c[N - 0] = 0
      BY <2>1, <2>2
    <3>2. last[L - c[N - 0]] = <<>>
      BY <2>3, <3>1
    <3>3. SubSeq(s, N - 0 + 1, N) = <<>>
      BY <2>2, <2>4
    <3> QED
      BY <1>1, <3>2, <3>3
  <2> QED
    BY <2>5
<1>6. ASSUME NEW k \in 1 .. N, k - 1 \in T
      PROVE  k \in T
  <2> DEFINE j == N - k + 1
             x == EscapedChar(s[j])
             n == L - c[j - 1]
  <2>1. j \in 1 .. N /\ N - (k - 1) = j /\ N - k = j - 1 /\ j - 1 \in 0 .. N /\ j \in 0 .. N
        /\ N - (k - 1) + 1 = j + 1
    BY <1>1
  <2>2. last[L - c[j]] = SubSeq(s, j + 1, N)
    BY <1>6, <2>1
  <2> HIDE DEF j
  <2>3. /\ x \in Seq(Cell) /\ Len(x) \in Nat
        /\ \/ Len(x) = 1 /\ x[1] = s[j] /\ s[j] \notin {Space, Newline, Escape}
           \/ Len(x) = 2 /\ x[1] = Escape /\ \E d \in Codes : d[1] = s[j] /\ d[2] = x[2]
    <3>1. s[j] \in Character
      BY <1>1, <2>1
    <3> HIDE DEF x
    <3>2. x = EscapedChar(s[j])
      BY DEF x
    <3> QED
      BY <3>1, <3>2, CharEscaped, LenProperties
  <2>4. /\ c[j - 1] \in Nat /\ c[j] \in Nat /\ c[j] <= L /\ c[j] = c[j - 1] + Len(x)
        /\ \A i \in 1 .. Len(x) : E[c[j - 1] + i] = x[i]
    BY <1>3, <2>1 DEF EscapedTo
  <2> HIDE DEF x, E, L, N
  <2>5. n \in 1 .. L /\ L - n + 1 = c[j - 1] + 1
    BY <1>2, <2>3, <2>4
  <2>6. last[n] = LET i == L - n + 1
                  IN IF E[i] = Escape /\ n > 1 /\ \E d \in Codes : d[2] = E[i + 1]
                     THEN <<Plain(E[i + 1])>> \o last[n - 2]
                     ELSE <<E[i]>> \o last[n - 1]
    BY <1>4, <2>5 DEF Reads, L
  <2>7. last[n] = <<s[j]>> \o SubSeq(s, j + 1, N)
    <3>1. CASE Len(x) = 1 /\ x[1] = s[j] /\ s[j] \notin {Space, Newline, Escape}
      <4>1. E[c[j - 1] + 1] = s[j] /\ s[j] # Escape
        BY <2>4, <3>1
      <4>2. n - 1 = L - c[j]
        BY <1>2, <2>4, <3>1
      <4> HIDE DEF n
      <4> QED
        BY <2>2, <2>5, <2>6, <4>1, <4>2
    <3>2. CASE Len(x) = 2 /\ x[1] = Escape /\ \E d \in Codes : d[1] = s[j] /\ d[2] = x[2]
      <4>1. E[c[j - 1] + 1] = Escape /\ E[c[j - 1] + 1 + 1] = x[2]
        <5>1. c[j - 1] + 2 = c[j - 1] + 1 + 1 /\ 1 \in 1 .. Len(x) /\ 2 \in 1 .. Len(x)
          BY <2>4, <3>2
        <5> QED
          BY <2>4, <3>2, <5>1
      <4>2. (\E d \in Codes : d[2] = x[2]) /\ Plain(x[2]) = s[j]
        BY <3>2, CodesAreUnique
      <4>3. n - 2 = L - c[j] /\ n > 1
        BY <1>2, <2>4, <3>2
      <4> HIDE DEF n
      <4> QED
        BY <2>2, <2>5, <2>6, <4>1, <4>2, <4>3
    <3> QED
      BY <2>3, <3>1, <3>2
  <2>8. <<s[j]>> \o SubSeq(s, j + 1, N) = SubSeq(s, j, N)
    BY <2>1, FirstOfRest DEF N
  <2>9. k \in 0 .. N /\ N - k + 1 = j
    BY <1>1 DEF j
  <2> QED
    BY <2>1, <2>7, <2>8, <2>9
<1>7. 0 .. N \subseteq T
  <2> HIDE DEF T, N
  <2> QED
    BY <1>1, <1>5, <1>6, Climb
<1>8. last[L] = s
  <2>1. N \in T
    <3>1. N \in 0 .. N
      BY <1>1
    <3> HIDE DEF T, N
    <3> QED
      BY <1>7, <3>1
  <2>2. c[N - N] = 0 /\ L - 0 = L /\ N - N + 1 = 1
    BY <1>1, <1>2, <1>3 DEF EscapedTo
  <2>3. last[L] = SubSeq(s, 1, N)
    <3> HIDE DEF N, L
    <3> QED
      BY <2>1, <2>2
  <2> QED
    BY <2>3, SubSeqFull
<1> QED
  BY <1>4, <1>8

-----------------------------------------------------------------------------
(* The lines of a text.                                                    *)

(* The numbers of the lines are the places of their ends.                  *)
LEMMA LineNumbers ==
  ASSUME NEW S, NEW t \in Seq(S)
  PROVE  /\ DOMAIN Lines(t) = 1 .. Cardinality(LineEnds(t))
         /\ \A n \in DOMAIN Lines(t) : \E e \in LineEnds(t) : Place(LineEnds(t), e) = n
<1> DEFINE I == LineEnds(t)
           K == Cardinality(I)
           f == [i \in I |-> Place(I, i)]
<1>1. I \in SUBSET (1 .. Len(t)) /\ Len(t) \in Nat /\ K \in Nat /\ IsFiniteSet(I)
  BY EndsFinite, LenProperties
<1>2. DOMAIN Lines(t) = 1 .. K
  BY DEF Lines
<1> HIDE DEF I, K
<1>3. \A i \in I : Place(I, i) \in 1 .. K /\ \A j \in I : i < j => Place(I, i) < Place(I, j)
  BY <1>1, Places DEF K
<1>4. f \in Injection(I, 1 .. K)
  <2>1. ASSUME NEW i \in I, NEW j \in I, f[i] = f[j]
        PROVE  i = j
    <3>1. i \in Nat /\ j \in Nat /\ Place(I, i) \in Nat /\ Place(I, i) = Place(I, j)
      BY <1>1, <1>3, <2>1
    <3>2. ~(i < j) /\ ~(j < i)
      BY <1>3, <3>1
    <3> QED
      BY <3>1, <3>2
  <2>2. f \in [I -> 1 .. K]
    BY <1>3
  <2> HIDE DEF f
  <2> QED
    BY <2>1, <2>2 DEF Injection, IsInjective
<1>5. IsFiniteSet(1 .. K) /\ Cardinality(1 .. K) = K
  <2>1. K \in Int /\ 1 \in Int /\ (IF 1 > K THEN 0 ELSE K - 1 + 1) = K
    BY <1>1
  <2> QED
    BY <2>1, FS_Interval
<1>6. f \in Surjection(I, 1 .. K)
  BY <1>4, <1>5, FS_Injection DEF K
<1>7. \A n \in 1 .. K : \E i \in I : Place(I, i) = n
  BY <1>6 DEF Surjection
<1> QED
  BY <1>2, <1>7 DEF I, K

Pairs == Seq(Character) \X Seq(Character)

(* A pair's line is its key, one space and its value.                      *)
LEMMA LineParts ==
  ASSUME NEW p \in Pairs, NEW l, l = Line(p), NEW k, k = Escaped(p[1]), NEW v, v = Escaped(p[2])
  PROVE  /\ l \in Seq(Cell) /\ k \in Seq(Cell) /\ v \in Seq(Cell)
         /\ Len(l) \in Nat /\ Len(k) \in Nat /\ Len(v) \in Nat
         /\ Len(l) = Len(k) + 1 + Len(v)
         /\ \A i \in 1 .. Len(k) : l[i] = k[i] /\ k[i] # Space
         /\ l[Len(k) + 1] = Space
         /\ \A i \in 1 .. Len(v) : l[Len(k) + 1 + i] = v[i]
         /\ \A i \in 1 .. Len(l) : l[i] # Newline
<1>1. /\ k \in Seq(Cell) /\ v \in Seq(Cell)
      /\ \A i \in 1 .. Len(k) : k[i] \notin {Space, Newline}
      /\ \A i \in 1 .. Len(v) : v[i] \notin {Space, Newline}
  <2>1. p[1] \in Seq(Character) /\ p[2] \in Seq(Character)
    BY DEF Pairs
  <2> QED
    BY <2>1, EscapedString
<1> DEFINE sp == <<Space>>
           ks == k \o sp
<1>2. sp \in Seq(Cell) /\ Len(sp) = 1 /\ sp[1] = Space
  <2>1. Space \in Cell
    BY DEF Cell
  <2> QED
    BY <2>1
<1>3. l = ks \o v
  BY DEF Line
<1> HIDE DEF sp
<1>4. /\ ks \in Seq(Cell) /\ Len(k) \in Nat /\ Len(ks) = Len(k) + 1
      /\ \A i \in 1 .. Len(k) : ks[i] = k[i]
      /\ ks[Len(k) + 1] = Space
  <2>1. k \in Seq(Cell) /\ sp \in Seq(Cell)
    BY <1>1, <1>2
  <2>2. /\ ks \in Seq(Cell) /\ Len(k) \in Nat /\ Len(ks) = Len(k) + Len(sp)
        /\ \A i \in 1 .. Len(k) : ks[i] = k[i]
        /\ \A i \in 1 .. Len(sp) : ks[Len(k) + i] = sp[i]
    BY <2>1, Joined
  <2> HIDE DEF ks
  <2> QED
    BY <1>2, <2>2
<1> HIDE DEF ks
<1>5. /\ l \in Seq(Cell) /\ Len(v) \in Nat /\ Len(l) = Len(ks) + Len(v)
      /\ \A i \in 1 .. Len(ks) : l[i] = ks[i]
      /\ \A i \in 1 .. Len(v) : l[Len(ks) + i] = v[i]
  <2>1. ks \in Seq(Cell) /\ v \in Seq(Cell)
    BY <1>1, <1>4
  <2> QED
    BY <1>3, <2>1, Joined
<1>6. /\ \A i \in 1 .. Len(k) : l[i] = k[i] /\ i \in 1 .. Len(ks)
      /\ l[Len(k) + 1] = Space
      /\ \A i \in 1 .. Len(v) : l[Len(k) + 1 + i] = v[i]
  BY <1>4, <1>5
<1>7. ASSUME NEW i \in 1 .. Len(l)
      PROVE  l[i] # Newline
  <2>1. CASE i \in 1 .. Len(k)
    BY <1>1, <1>6, <2>1
  <2>2. CASE i = Len(k) + 1
    <3>1. Space # Newline
      BY DEF Space, Newline
    <3> QED
      BY <1>6, <2>2, <3>1
  <2>3. CASE i > Len(k) + 1
    <3> DEFINE j == i - Len(k) - 1
    <3>1. j \in 1 .. Len(v) /\ Len(k) + 1 + j = i
      BY <1>4, <1>5, <2>3
    <3> HIDE DEF j
    <3> QED
      BY <1>1, <1>6, <3>1
  <2> QED
    BY <1>4, <1>5, <2>1, <2>2, <2>3
<1> QED
  BY <1>1, <1>4, <1>5, <1>6, <1>7

(* A pair's line is not empty and has no newline in it.                    *)
LEMMA LineIsSeq ==
  ASSUME NEW p \in Pairs
  PROVE  /\ Line(p) \in Seq(Cell) /\ Len(Line(p)) \in Nat \ {0}
         /\ \A i \in 1 .. Len(Line(p)) : Line(p)[i] # Newline
<1> DEFINE l == Line(p)
           k == Escaped(p[1])
           v == Escaped(p[2])
<1>1. /\ l \in Seq(Cell) /\ Len(l) \in Nat /\ Len(k) \in Nat /\ Len(v) \in Nat
      /\ Len(l) = Len(k) + 1 + Len(v)
      /\ \A i \in 1 .. Len(l) : l[i] # Newline
  BY LineParts
<1> HIDE DEF l, k, v
<1>2. Len(l) # 0
  BY <1>1
<1> QED
  BY <1>1, <1>2 DEF l

(* A line cut short after its space still has its key, and the whole one   *)
(* its value.                                                              *)
LEMMA CutLine ==
  ASSUME NEW p \in Pairs, NEW m \in 0 .. Len(Line(p)), NEW l, l = SubSeq(Line(p), 1, m)
  PROVE  /\ Spaces(l) # {} => KeyOf(l) = p[1]
         /\ m = Len(Line(p)) => Spaces(l) # {} /\ ValueOf(l) = p[2]
<1> DEFINE full == Line(p)
           k == Escaped(p[1])
           v == Escaped(p[2])
<1>1. /\ full \in Seq(Cell) /\ k \in Seq(Cell) /\ v \in Seq(Cell)
      /\ Len(full) \in Nat /\ Len(k) \in Nat /\ Len(v) \in Nat
      /\ Len(full) = Len(k) + 1 + Len(v)
      /\ \A i \in 1 .. Len(k) : full[i] = k[i] /\ k[i] # Space
      /\ full[Len(k) + 1] = Space
      /\ \A i \in 1 .. Len(v) : full[Len(k) + 1 + i] = v[i]
  BY LineParts
<1>2. Unescaped(k) = p[1] /\ Unescaped(v) = p[2]
  BY UnescapedEscaped DEF Pairs
<1> HIDE DEF full, k, v
<1>3. m \in 0 .. Len(full) /\ l = SubSeq(full, 1, m)
  BY DEF full
<1>4. /\ l \in Seq(Cell) /\ Len(l) = m /\ DOMAIN l = 1 .. m
      /\ \A i \in 1 .. m : l[i] = full[i]
  <2>1. 1 \in 1 .. Len(full) + 1 /\ m \in 1 - 1 .. Len(full) /\ m - 1 + 1 = m
        /\ \A i \in 1 .. m : 1 + i - 1 = i
    BY <1>1, <1>3
  <2>2. /\ l \in Seq(Cell) /\ Len(l) = m - 1 + 1
        /\ \A i \in 1 .. m - 1 + 1 : l[i] = full[1 + i - 1]
    BY <1>1, <1>3, <2>1, Cut
  <2>3. DOMAIN l = 1 .. Len(l)
    BY <2>2, LenProperties
  <2> QED
    BY <2>1, <2>2, <2>3
<1>5. CASE m <= Len(k)
  <2>1. \A i \in 1 .. m : l[i] # Space
    BY <1>1, <1>4, <1>5
  <2>2. Spaces(l) = {}
    BY <1>4, <2>1 DEF Spaces
  <2>3. m # Len(full)
    BY <1>1, <1>3, <1>5
  <2> QED
    BY <2>2, <2>3 DEF full
<1>6. CASE m > Len(k)
  <2> DEFINE b == Len(k) + 1
  <2>1. b \in Spaces(l) /\ Spaces(l) \in SUBSET Nat /\ \A j \in Spaces(l) : b <= j
    <3>1. b \in 1 .. m /\ l[b] = Space
      BY <1>1, <1>3, <1>4, <1>6
    <3>2. \A i \in 1 .. Len(k) : i \in 1 .. m /\ l[i] # Space
      BY <1>1, <1>3, <1>4, <1>6
    <3>3. Spaces(l) = {j \in 1 .. m : l[j] = Space}
      BY <1>4 DEF Spaces
    <3>4. ASSUME NEW j \in Spaces(l)
          PROVE  b <= j
      <4>1. j \in 1 .. m /\ j \notin 1 .. Len(k)
        BY <3>2, <3>3
      <4> QED
        BY <1>1, <4>1
    <3> HIDE DEF b
    <3> QED
      BY <3>1, <3>3, <3>4
  <2>2. First(l, Spaces(l)) = b
    <3> HIDE DEF b
    <3> QED
      BY <2>1, FirstIs
  <2>3. SubSeq(l, 1, b - 1) = k
    <3> DEFINE a == SubSeq(l, 1, Len(k))
    <3>1. 1 \in 1 .. Len(l) + 1 /\ Len(k) \in 1 - 1 .. Len(l) /\ Len(k) - 1 + 1 = Len(k)
          /\ \A i \in 1 .. Len(k) : 1 + i - 1 = i /\ i \in 1 .. m
      BY <1>1, <1>3, <1>4, <1>6
    <3>2. /\ a \in Seq(Cell) /\ Len(a) = Len(k) - 1 + 1
          /\ \A i \in 1 .. Len(k) - 1 + 1 : a[i] = l[1 + i - 1]
      BY <1>4, <3>1, Cut
    <3> HIDE DEF a
    <3>3. Len(a) = Len(k) /\ \A i \in 1 .. Len(k) : a[i] = k[i]
      BY <1>1, <1>4, <3>1, <3>2
    <3>4. a = k
      BY <1>1, <3>2, <3>3, SeqEqual
    <3>5. b - 1 = Len(k)
      BY <1>1
    <3> QED
      BY <3>4, <3>5 DEF a
  <2>4. m = Len(full) => SubSeq(l, b + 1, Len(l)) = v
    <3> SUFFICES ASSUME m = Len(full)
                 PROVE  SubSeq(l, b + 1, Len(l)) = v
      OBVIOUS
    <3> DEFINE a == SubSeq(l, b + 1, Len(l))
    <3>1. b + 1 \in 1 .. Len(l) + 1 /\ Len(l) \in (b + 1) - 1 .. Len(l)
          /\ Len(l) - (b + 1) + 1 = Len(v)
          /\ \A i \in 1 .. Len(v) : (b + 1) + i - 1 = Len(k) + 1 + i /\ Len(k) + 1 + i \in 1 .. m
      BY <1>1, <1>4
    <3>2. /\ a \in Seq(Cell) /\ Len(a) = Len(l) - (b + 1) + 1
          /\ \A i \in 1 .. Len(l) - (b + 1) + 1 : a[i] = l[(b + 1) + i - 1]
      <4> HIDE DEF b
      <4> QED
        BY <1>4, <3>1, Cut
    <3> HIDE DEF a, b
    <3>3. Len(a) = Len(v)
      BY <3>1, <3>2
    <3>4. ASSUME NEW i \in 1 .. Len(v)
          PROVE  a[i] = v[i]
      <4>1. a[i] = l[(b + 1) + i - 1]
        BY <3>1, <3>2
      <4>2. (b + 1) + i - 1 = Len(k) + 1 + i /\ Len(k) + 1 + i \in 1 .. m
        BY <3>1
      <4>3. full[Len(k) + 1 + i] = v[i]
        BY <1>1
      <4> QED
        BY <1>4, <4>1, <4>2, <4>3
    <3>5. a = v
      BY <1>1, <3>2, <3>3, <3>4, SeqEqual
    <3> QED
      BY <3>5 DEF a
  <2> HIDE DEF b
  <2>5. KeyOf(l) = p[1] /\ Spaces(l) # {}
    BY <1>2, <2>1, <2>2, <2>3 DEF KeyOf
  <2>6. m = Len(full) => ValueOf(l) = p[2]
    BY <1>2, <2>2, <2>4 DEF ValueOf
  <2> QED
    BY <2>5, <2>6 DEF full
<1> QED
  BY <1>1, <1>3, <1>5, <1>6

-----------------------------------------------------------------------------
(* The text of a map, cut short anywhere or not.                           *)

(* c[n] is where the line of the n-th pair ends, newline and all. *)
TextTo(c, ps) ==
  /\ c \in [0 .. Len(ps) -> Nat] /\ c[0] = 0 /\ c[Len(ps)] = Len(TextOf(ps))
  /\ \A n \in 1 .. Len(ps) :
       /\ Len(Line(ps[n])) \in Nat \ {0}
       /\ c[n] = c[n - 1] + Len(Line(ps[n])) + 1 /\ c[n] <= Len(TextOf(ps))
       /\ \A i \in 1 .. Len(Line(ps[n])) : TextOf(ps)[c[n - 1] + i] = Line(ps[n])[i]
       /\ TextOf(ps)[c[n]] = Newline

(* The text of a map has the lines of its pairs, each at its place.        *)
LEMMA TextSegments ==
  ASSUME NEW ps \in Seq(Pairs)
  PROVE  TextOf(ps) \in Seq(Cell) /\ \E c : TextTo(c, ps)
<1> DEFINE seqs == [i \in DOMAIN ps |-> Line(ps[i]) \o <<Newline>>]
           N == Len(ps)
<1>1. N \in Nat /\ DOMAIN ps = 1 .. N /\ \A n \in 1 .. N : ps[n] \in Pairs
  BY ElementOfSeq, LenProperties
<1>2. ASSUME NEW n \in 1 .. N
      PROVE  /\ seqs[n] \in Seq(Cell) /\ Len(Line(ps[n])) \in Nat \ {0}
             /\ Len(seqs[n]) = Len(Line(ps[n])) + 1
             /\ \A i \in 1 .. Len(Line(ps[n])) : seqs[n][i] = Line(ps[n])[i]
             /\ seqs[n][Len(Line(ps[n])) + 1] = Newline
  <2> DEFINE l == Line(ps[n])
             nl == <<Newline>>
  <2>1. ps[n] \in Pairs
    BY <1>1
  <2>2. l \in Seq(Cell) /\ Len(l) \in Nat \ {0}
    BY <2>1, LineIsSeq
  <2>3. nl \in Seq(Cell) /\ Len(nl) = 1 /\ nl[1] = Newline
    <3>1. Newline \in Cell
      BY DEF Cell
    <3> QED
      BY <3>1
  <2>4. seqs[n] = l \o nl
    BY <1>1
  <2> HIDE DEF l, nl, seqs
  <2>5. l \in Seq(Cell) /\ nl \in Seq(Cell)
    BY <2>2, <2>3
  <2>6. /\ l \o nl \in Seq(Cell) /\ Len(l \o nl) = Len(l) + Len(nl)
        /\ \A i \in 1 .. Len(l) : (l \o nl)[i] = l[i]
        /\ \A i \in 1 .. Len(nl) : (l \o nl)[Len(l) + i] = nl[i]
    BY <2>5, Joined
  <2>7. /\ seqs[n] \in Seq(Cell) /\ Len(l) \in Nat \ {0} /\ Len(seqs[n]) = Len(l) + 1
        /\ \A i \in 1 .. Len(l) : seqs[n][i] = l[i]
        /\ seqs[n][Len(l) + 1] = Newline
    BY <2>2, <2>3, <2>4, <2>6
  <2> QED
    BY <2>7 DEF l
<1>3. seqs \in Seq(Seq(Cell)) /\ Len(seqs) = N
  <2>1. seqs \in [1 .. N -> Seq(Cell)]
    <3>1. \A n \in 1 .. N : seqs[n] \in Seq(Cell)
      BY <1>2
    <3> QED
      BY <1>1, <3>1
  <2> HIDE DEF seqs
  <2> QED
    BY <1>1, <2>1
<1>4. TextOf(ps) = FlattenSeq(seqs)
  BY DEF TextOf
<1> HIDE DEF seqs, N
<1>5. TextOf(ps) \in Seq(Cell)
  BY <1>3, <1>4, FlattenSegments
<1>6. PICK c : Segments(c, seqs, TextOf(ps))
  BY <1>3, <1>4, FlattenSegments
<1>7. /\ c \in [0 .. N -> Nat] /\ c[0] = 0 /\ c[N] = Len(TextOf(ps))
      /\ \A n \in 1 .. N : /\ c[n] = c[n - 1] + Len(seqs[n]) /\ c[n] <= Len(TextOf(ps))
                           /\ \A i \in 1 .. Len(seqs[n]) : TextOf(ps)[c[n - 1] + i] = seqs[n][i]
  BY <1>3, <1>6 DEF Segments
<1>8. ASSUME NEW n \in 1 .. N
      PROVE  /\ Len(Line(ps[n])) \in Nat \ {0}
             /\ c[n] = c[n - 1] + Len(Line(ps[n])) + 1 /\ c[n] <= Len(TextOf(ps))
             /\ \A i \in 1 .. Len(Line(ps[n])) : TextOf(ps)[c[n - 1] + i] = Line(ps[n])[i]
             /\ TextOf(ps)[c[n]] = Newline
  <2> DEFINE K == Len(Line(ps[n]))
  <2>1. /\ K \in Nat \ {0} /\ Len(seqs[n]) = K + 1
        /\ \A i \in 1 .. K : seqs[n][i] = Line(ps[n])[i]
        /\ seqs[n][K + 1] = Newline
    BY <1>2
  <2>2. c[n - 1] \in Nat /\ c[n] \in Nat
    <3>1. n - 1 \in 0 .. N /\ n \in 0 .. N
      BY <1>1
    <3> QED
      BY <1>7, <3>1
  <2>3. /\ c[n] = c[n - 1] + Len(seqs[n]) /\ c[n] <= Len(TextOf(ps))
        /\ \A i \in 1 .. Len(seqs[n]) : TextOf(ps)[c[n - 1] + i] = seqs[n][i]
    BY <1>7
  <2> HIDE DEF K
  <2>4. c[n] = c[n - 1] + K + 1 /\ c[n] = c[n - 1] + (K + 1)
    <3>1. c[n] = c[n - 1] + Len(seqs[n])
      BY <2>3
    <3>2. Len(seqs[n]) = K + 1 /\ K \in Nat
      BY <2>1
    <3> QED
      BY <2>2, <3>1, <3>2
  <2>5. ASSUME NEW i \in 1 .. K
        PROVE  TextOf(ps)[c[n - 1] + i] = Line(ps[n])[i]
    <3>1. i \in 1 .. Len(seqs[n])
      BY <2>1
    <3> QED
      BY <2>1, <2>3, <3>1
  <2>6. TextOf(ps)[c[n - 1] + (K + 1)] = seqs[n][K + 1]
    <3>1. K + 1 \in 1 .. Len(seqs[n])
      BY <2>1
    <3> QED
      BY <2>3, <3>1
  <2> QED
    BY <2>1, <2>3, <2>4, <2>5, <2>6 DEF K
<1> QED
  BY <1>5, <1>7, <1>8 DEF TextTo, N

(* f is the text of ps or its beginning. *)
Begins(f, ps) ==
  /\ f \in Seq(Cell) /\ Len(f) <= Len(TextOf(ps))
  /\ \A i \in 1 .. Len(f) : f[i] = TextOf(ps)[i]

(* A line of the beginning of a text is that of a pair, whole unless the   *)
(* text ends in it.                                                        *)
LEMMA LineOfPair ==
  ASSUME NEW ps \in Seq(Pairs), NEW f, Begins(f, ps), NEW c, TextTo(c, ps),
         NEW n \in 1 .. Len(ps), NEW e \in LineEnds(f), c[n - 1] < e, e <= c[n]
  PROVE  /\ e - c[n - 1] \in 1 .. Len(Line(ps[n]))
         /\ e = Len(f) \/ e = c[n] - 1
         /\ Place(LineEnds(f), e) \in DOMAIN Lines(f)
         /\ Lines(f)[Place(LineEnds(f), e)] = SubSeq(Line(ps[n]), 1, e - c[n - 1])
<1> DEFINE l == Line(ps[n])
           t == TextOf(ps)
           a == c[n - 1]
           N == Len(ps)
<1>1. /\ N \in Nat /\ n \in Nat /\ n - 1 \in 0 .. N
      /\ t \in Seq(Cell) /\ Len(t) \in Nat /\ f \in Seq(Cell) /\ Len(f) \in Nat
  <2>1. t \in Seq(Cell) /\ f \in Seq(Cell) /\ N \in Nat
    BY TextSegments, LenProperties DEF Begins
  <2>2. Len(t) \in Nat /\ Len(f) \in Nat
    BY <2>1, LenProperties
  <2> QED
    BY <2>1, <2>2
<1>2. /\ a \in Nat /\ c[n] \in Nat /\ Len(l) \in Nat \ {0}
      /\ c[n] = a + Len(l) + 1 /\ c[n] <= Len(t)
      /\ \A i \in 1 .. Len(l) : t[a + i] = l[i]
      /\ t[c[n]] = Newline
  <2>1. a \in Nat /\ c[n] \in Nat
    <3>1. c \in [0 .. N -> Nat]
      BY DEF TextTo
    <3>2. n \in 0 .. N /\ n - 1 \in 0 .. N
      BY <1>1
    <3> HIDE DEF N
    <3> QED
      BY <3>1, <3>2
  <2>2. /\ Len(Line(ps[n])) \in Nat \ {0}
        /\ c[n] = c[n - 1] + Len(Line(ps[n])) + 1 /\ c[n] <= Len(TextOf(ps))
        /\ \A i \in 1 .. Len(Line(ps[n])) : TextOf(ps)[c[n - 1] + i] = Line(ps[n])[i]
        /\ TextOf(ps)[c[n]] = Newline
    BY DEF TextTo
  <2> QED
    BY <2>1, <2>2
<1>3. l \in Seq(Cell) /\ \A i \in 1 .. Len(l) : l[i] # Newline
  <2>1. ps[n] \in Pairs
    BY ElementOfSeq
  <2> QED
    BY <2>1, LineIsSeq
<1>4. Len(f) <= Len(t) /\ \A i \in 1 .. Len(f) : f[i] = t[i]
  BY DEF Begins
<1>5. /\ e \in 1 .. Len(f) /\ f[e] # Newline /\ a < e /\ e <= c[n]
      /\ e = Len(f) \/ f[e + 1] = Newline
  BY DEF LineEnds
<1>6. \/ n = 1 /\ a = 0
      \/ t[a] = Newline
  <2>1. CASE n = 1
    BY <2>1 DEF TextTo
  <2>2. CASE n # 1
    <3>1. n - 1 \in 1 .. N
      BY <1>1, <2>2
    <3> QED
      BY <3>1 DEF TextTo
  <2> QED
    BY <2>1, <2>2
<1> HIDE DEF l, t, a, N
<1>7. e - a \in 1 .. Len(l)
  <2>1. f[e] = t[e]
    BY <1>4, <1>5
  <2>2. e # c[n]
    BY <1>2, <1>5, <2>1
  <2> QED
    BY <1>1, <1>2, <1>5, <2>2
<1>8. e = Len(f) \/ e = c[n] - 1
  <2> SUFFICES ASSUME e # Len(f), e # c[n] - 1
               PROVE  FALSE
    OBVIOUS
  <2>1. e + 1 - a \in 1 .. Len(l) /\ a + (e + 1 - a) = e + 1 /\ e + 1 \in 1 .. Len(f)
    <3>1. e \in Nat /\ e < Len(f) /\ e >= 1
      BY <1>1, <1>5
    <3>2. a \in Nat /\ Len(l) \in Nat /\ c[n] = a + Len(l) + 1
      BY <1>2
    <3>3. a < e
      BY <1>5
    <3>4. e - a # Len(l) /\ e - a <= Len(l)
      <4>1. c[n] - 1 = a + Len(l)
        BY <3>2
      <4>2. e # a + Len(l)
        BY <4>1
      <4>3. e - a <= Len(l)
        BY <1>7, <3>1, <3>2
      <4> QED
        BY <3>1, <3>2, <4>2, <4>3
    <3>5. e + 1 - a \in 1 .. Len(l) /\ a + (e + 1 - a) = e + 1
      BY <3>1, <3>2, <3>3, <3>4
    <3>6. e + 1 \in 1 .. Len(f)
      <4>1. Len(f) \in Nat
        BY <1>1
      <4> QED
        BY <3>1, <4>1
    <3> QED
      BY <3>5, <3>6
  <2>2. t[e + 1] = l[e + 1 - a]
    BY <1>2, <2>1
  <2>3. f[e + 1] = t[e + 1]
    BY <1>4, <2>1
  <2> QED
    BY <1>3, <1>5, <2>1, <2>2, <2>3
<1> DEFINE b == a + 1
<1>9. b \in 1 .. e /\ \A j \in b .. e : j \in 1 .. Len(f) /\ j - a \in 1 .. Len(l) /\ a + (j - a) = j
  BY <1>1, <1>2, <1>5, <1>7
<1>10. b = 1 \/ f[b - 1] = Newline
  <2>1. CASE a = 0
    BY <2>1
  <2>2. CASE a # 0
    <3>1. a \in 1 .. Len(f) /\ b - 1 = a
      BY <1>1, <1>2, <1>5, <2>2
    <3> QED
      BY <1>4, <1>6, <2>2, <3>1
  <2> QED
    BY <2>1, <2>2
<1> HIDE DEF b
<1>11. ASSUME NEW j \in b .. e
       PROVE  f[j] = l[j - a] /\ f[j] # Newline
  <2>1. j \in 1 .. Len(f) /\ j - a \in 1 .. Len(l) /\ a + (j - a) = j
    BY <1>9
  <2>2. f[j] = t[j]
    BY <1>4, <2>1
  <2>3. t[a + (j - a)] = l[j - a]
    BY <1>2, <2>1
  <2>4. l[j - a] # Newline
    BY <1>3, <2>1
  <2> QED
    BY <2>1, <2>2, <2>3, <2>4
<1>12. /\ Place(LineEnds(f), e) \in DOMAIN Lines(f)
       /\ Lines(f)[Place(LineEnds(f), e)] = SubSeq(f, b, e)
  BY <1>1, <1>9, <1>10, <1>11, LineAt
<1>13. SubSeq(f, b, e) = SubSeq(l, 1, e - a)
  <2> DEFINE u == SubSeq(f, b, e)
             w == SubSeq(l, 1, e - a)
  <2>1. b \in 1 .. Len(f) + 1 /\ e \in b - 1 .. Len(f) /\ e - b + 1 = e - a
        /\ \A i \in 1 .. e - a : b + i - 1 \in b .. e /\ (b + i - 1) - a = i
    BY <1>1, <1>2, <1>5, <1>7, <1>9 DEF b
  <2>2. /\ u \in Seq(Cell) /\ Len(u) = e - b + 1
        /\ \A i \in 1 .. e - b + 1 : u[i] = f[b + i - 1]
    BY <1>1, <2>1, Cut
  <2>3. 1 \in 1 .. Len(l) + 1 /\ e - a \in 1 - 1 .. Len(l) /\ e - a - 1 + 1 = e - a
        /\ \A i \in 1 .. e - a : 1 + i - 1 = i
    BY <1>2, <1>5, <1>7
  <2>4. /\ w \in Seq(Cell) /\ Len(w) = e - a - 1 + 1
        /\ \A i \in 1 .. e - a - 1 + 1 : w[i] = l[1 + i - 1]
    BY <1>3, <2>3, Cut
  <2> HIDE DEF u, w
  <2>5. Len(u) = e - a /\ Len(w) = e - a
    BY <2>1, <2>2, <2>3, <2>4
  <2>6. ASSUME NEW i \in 1 .. Len(u)
        PROVE  u[i] = w[i]
    <3>1. i \in 1 .. e - a
      BY <2>5
    <3>2. u[i] = f[b + i - 1] /\ b + i - 1 \in b .. e /\ (b + i - 1) - a = i
      BY <2>1, <2>2, <3>1
    <3>3. w[i] = l[i]
      BY <2>3, <2>4, <3>1
    <3> DEFINE j == b + i - 1
    <3>4. f[j] = l[j - a]
      <4>1. j \in b .. e
        BY <3>2
      <4> HIDE DEF j
      <4> QED
        BY <1>11, <4>1
    <3>5. j - a = i /\ u[i] = f[j]
      BY <3>2
    <3> HIDE DEF j
    <3> QED
      BY <3>3, <3>4, <3>5
  <2>7. u = w
    BY <2>2, <2>4, <2>5, <2>6, SeqEqual
  <2> QED
    BY <2>7 DEF u, w
<1> QED
  BY <1>7, <1>8, <1>12, <1>13 DEF l, a

(* A line that load reads has the key of a pair, and its value too if it   *)
(* is whole.                                                               *)
ReadsPair(f, c, ps, k, n, e) ==
  /\ n \in 1 .. Len(ps) /\ e \in LineEnds(f) /\ Place(LineEnds(f), e) = k
  /\ e < c[n]
  /\ e = Len(f) \/ e = c[n] - 1
  /\ KeyOf(Lines(f)[k]) = ps[n][1]
  /\ e = c[n] - 1 => ValueOf(Lines(f)[k]) = ps[n][2]

LEMMA ValidLine ==
  ASSUME NEW ps \in Seq(Pairs), NEW f, Begins(f, ps), NEW c, TextTo(c, ps),
         NEW k \in DOMAIN Lines(f), Spaces(Lines(f)[k]) # {}
  PROVE  \E n, e : ReadsPair(f, c, ps, k, n, e)
<1>1. f \in Seq(Cell) /\ Len(f) <= Len(TextOf(ps)) /\ Len(ps) \in Nat /\ Len(TextOf(ps)) \in Nat
  BY TextSegments, LenProperties DEF Begins
<1>2. PICK e \in LineEnds(f) : Place(LineEnds(f), e) = k
  BY <1>1, LineNumbers
<1>3. e \in 1 .. Len(f) /\ Len(f) \in Nat
  BY <1>1, LenProperties DEF LineEnds
<1>4. c \in [0 .. Len(ps) -> Nat] /\ c[0] = 0 /\ c[Len(ps)] = Len(TextOf(ps))
  BY DEF TextTo
<1>5. PICK n \in 1 .. Len(ps) : c[n - 1] < e /\ e <= c[n]
  <2>1. e \in 1 .. c[Len(ps)]
    BY <1>1, <1>3, <1>4
  <2> QED
    BY <1>1, <1>4, <2>1, InSegment
<1> DEFINE m == e - c[n - 1]
           l == Line(ps[n])
<1>6. /\ m \in 1 .. Len(l)
      /\ e = Len(f) \/ e = c[n] - 1
      /\ Lines(f)[k] = SubSeq(l, 1, m)
  BY <1>2, <1>5, LineOfPair
<1>7. ps[n] \in Pairs /\ Len(l) \in Nat /\ m \in 0 .. Len(l)
  <2>1. ps[n] \in Pairs
    BY ElementOfSeq
  <2>2. Len(l) \in Nat
    BY <2>1, LineIsSeq
  <2>3. m \in 1 .. Len(l)
    BY <1>6
  <2> HIDE DEF m, l
  <2> QED
    BY <2>1, <2>2, <2>3
<1>8. KeyOf(Lines(f)[k]) = ps[n][1] /\ (m = Len(l) => ValueOf(Lines(f)[k]) = ps[n][2])
  BY <1>6, <1>7, CutLine
<1>9. c[n - 1] \in Nat /\ c[n] = c[n - 1] + Len(l) + 1
  <2>1. n - 1 \in 0 .. Len(ps)
    BY <1>1
  <2> QED
    BY <1>4, <2>1 DEF TextTo
<1>10. e < c[n] /\ (e = c[n] - 1 => m = Len(l))
  <2> HIDE DEF l
  <2> QED
    BY <1>3, <1>6, <1>7, <1>9
<1> QED
  BY <1>2, <1>6, <1>8, <1>10 DEF ReadsPair

(* What load reads of the beginning of a text: no keys but those of its    *)
(* pairs, and one value at most that is not theirs.                        *)
LEMMA LoadPart ==
  ASSUME NEW ps \in Seq(Pairs), NEW f, Begins(f, ps)
  PROVE  /\ \A q \in Load(f) : \E n \in 1 .. Len(ps) : q[1] = ps[n][1]
         /\ \E x : \A q \in Load(f) : q = x \/ \E n \in 1 .. Len(ps) : q = ps[n]
         /\ Len(f) = Len(TextOf(ps)) => \A q \in Load(f) : \E n \in 1 .. Len(ps) : q = ps[n]
<1>1. PICK c : TextTo(c, ps)
  BY TextSegments
<1> DEFINE lines == Lines(f)
           pair(k) == <<KeyOf(lines[k]), ValueOf(lines[k])>>
           x == pair(Place(LineEnds(f), Len(f)))
<1>2. ASSUME NEW q \in Load(f)
      PROVE  /\ \E n \in 1 .. Len(ps) : q[1] = ps[n][1]
             /\ q = x \/ \E n \in 1 .. Len(ps) : q = ps[n]
             /\ Len(f) = Len(TextOf(ps)) => \E n \in 1 .. Len(ps) : q = ps[n]
  <2>1. PICK k \in DOMAIN lines : Spaces(lines[k]) # {} /\ q = pair(k)
    BY DEF Load
  <2>2. PICK n, e : ReadsPair(f, c, ps, k, n, e)
    BY <1>1, <2>1, ValidLine
  <2>3. n \in 1 .. Len(ps) /\ q[1] = ps[n][1]
    BY <2>1, <2>2 DEF ReadsPair
  <2>4. e = c[n] - 1 => q = ps[n]
    <3>1. ps[n] \in Pairs
      BY <2>3, ElementOfSeq
    <3>2. ps[n] = <<ps[n][1], ps[n][2]>>
      BY <3>1 DEF Pairs
    <3> QED
      BY <2>1, <2>2, <3>2 DEF ReadsPair
  <2>5. e # c[n] - 1 => q = x /\ e = Len(f) /\ e < c[n]
    BY <2>1, <2>2 DEF ReadsPair
  <2>6. Len(f) = Len(TextOf(ps)) => e = c[n] - 1
    <3>1. c[n] \in Nat /\ c[n] <= Len(TextOf(ps))
      <4>1. n \in 0 .. Len(ps)
        BY <2>3, LenProperties
      <4> QED
        BY <1>1, <2>3, <4>1 DEF TextTo
    <3>2. Len(TextOf(ps)) \in Nat
      BY TextSegments, LenProperties
    <3> QED
      BY <2>5, <3>1, <3>2
  <2> HIDE DEF x, pair, lines
  <2> QED
    BY <2>3, <2>4, <2>5, <2>6
<1> HIDE DEF x
<1>3. \E y : \A q \in Load(f) : q = y \/ \E n \in 1 .. Len(ps) : q = ps[n]
  <2>1. \A q \in Load(f) : q = x \/ \E n \in 1 .. Len(ps) : q = ps[n]
    BY <1>2
  <2> QED
    BY <2>1
<1> QED
  BY <1>2, <1>3

(* From the whole text of pairs with different keys load reads them all.   *)
LEMMA LoadWhole ==
  ASSUME NEW ps \in Seq(Pairs), NEW f, Begins(f, ps), Len(f) = Len(TextOf(ps)),
         \A i, j \in 1 .. Len(ps) : ps[i][1] = ps[j][1] => i = j,
         NEW n \in 1 .. Len(ps)
  PROVE  ps[n] \in Load(f)
<1>1. PICK c : TextTo(c, ps)
  BY TextSegments
<1> DEFINE l == Line(ps[n])
           t == TextOf(ps)
           a == c[n - 1]
           e == a + Len(l)
           lines == Lines(f)
           k == Place(LineEnds(f), e)
<1>2. ps[n] \in Pairs /\ l \in Seq(Cell) /\ Len(l) \in Nat \ {0}
  <2>1. ps[n] \in Pairs
    BY ElementOfSeq
  <2> QED
    BY <2>1, LineIsSeq
<1>3. /\ a \in Nat /\ c[n] \in Nat /\ c[n] = e + 1 /\ c[n] <= Len(t)
      /\ t[e] = l[Len(l)] /\ t[e + 1] = Newline
  <2>1. n - 1 \in 0 .. Len(ps) /\ n \in 0 .. Len(ps)
    BY LenProperties
  <2>2. a \in Nat /\ c[n] \in Nat
    BY <1>1, <2>1 DEF TextTo
  <2>3. /\ c[n] = a + Len(l) + 1 /\ c[n] <= Len(t)
        /\ \A i \in 1 .. Len(l) : t[a + i] = l[i]
        /\ t[c[n]] = Newline
    BY <1>1 DEF TextTo
  <2> HIDE DEF a, l, t
  <2>4. c[n] = e + 1 /\ Len(l) \in 1 .. Len(l)
    BY <1>2, <2>2, <2>3
  <2> QED
    BY <2>2, <2>3, <2>4
<1>4. e \in LineEnds(f)
  <2>1. e \in 1 .. Len(f) /\ e + 1 \in 1 .. Len(f)
    <3>1. Len(f) \in Nat
      BY LenProperties DEF Begins
    <3> HIDE DEF a, l
    <3> QED
      BY <1>2, <1>3, <3>1
  <2>2. f[e] = t[e] /\ f[e + 1] = t[e + 1]
    BY <2>1 DEF Begins
  <2>3. l[Len(l)] # Newline
    <3>1. Len(l) \in 1 .. Len(l)
      BY <1>2
    <3>2. \A i \in 1 .. Len(l) : l[i] # Newline
      BY <1>2, LineIsSeq
    <3> QED
      BY <3>1, <3>2
  <2> HIDE DEF e, l, t
  <2> QED
    BY <1>3, <2>1, <2>2, <2>3 DEF LineEnds
<1>5. k \in DOMAIN lines /\ lines[k] = SubSeq(l, 1, Len(l))
  <2>1. c[n - 1] < e /\ e <= c[n] /\ e - c[n - 1] = Len(l)
    <3>1. a \in Nat /\ c[n] = a + Len(l) + 1 /\ Len(l) \in Nat \ {0}
      BY <1>2, <1>3
    <3> HIDE DEF l
    <3> QED
      BY <3>1
  <2>2. k \in DOMAIN lines /\ lines[k] = SubSeq(l, 1, e - c[n - 1])
    <3>1. /\ Place(LineEnds(f), e) \in DOMAIN Lines(f)
          /\ Lines(f)[Place(LineEnds(f), e)] = SubSeq(Line(ps[n]), 1, e - c[n - 1])
      <4> HIDE DEF e, k, lines
      <4> QED
        BY <1>1, <1>4, <2>1, LineOfPair
    <3> QED
      BY <3>1
  <2> QED
    BY <2>1, <2>2
<1>6. Spaces(lines[k]) # {} /\ KeyOf(lines[k]) = ps[n][1] /\ ValueOf(lines[k]) = ps[n][2]
  <2>1. Len(l) \in 0 .. Len(l)
    BY <1>2
  <2> HIDE DEF k, lines
  <2> QED
    BY <1>2, <1>5, <2>1, CutLine
<1> HIDE DEF k, e, l, t, a
<1>7. ASSUME NEW j \in DOMAIN lines, Spaces(lines[j]) # {}, KeyOf(lines[j]) = KeyOf(lines[k])
      PROVE  j = k
  <2>1. PICK i, d : ReadsPair(f, c, ps, j, i, d)
    BY <1>1, <1>7, ValidLine
  <2>2. i \in 1 .. Len(ps) /\ ps[i][1] = ps[n][1]
    BY <1>6, <1>7, <2>1 DEF ReadsPair
  <2>3. i = n
    BY <2>2
  <2>4. d = c[n] - 1
    <3>1. /\ d < c[n]
          /\ d = Len(f) \/ d = c[n] - 1
      BY <2>1, <2>3 DEF ReadsPair
    <3>2. Len(t) \in Nat
      BY TextSegments, LenProperties DEF t
    <3> QED
      BY <1>3, <3>1, <3>2 DEF t
  <2>5. d = e
    <3>1. e \in Nat
      BY <1>2, <1>3 DEF e
    <3> QED
      BY <1>3, <2>4, <3>1
  <2> QED
    BY <2>1, <2>5 DEF ReadsPair, k
<1>8. <<KeyOf(lines[k]), ValueOf(lines[k])>> \in Load(f)
  <2>1. k \in DOMAIN lines /\ Spaces(lines[k]) # {}
    BY <1>5, <1>6
  <2>2. \A j \in {i \in DOMAIN lines : Spaces(lines[i]) # {}} : k < j => KeyOf(lines[j]) # KeyOf(lines[k])
    <3>1. k \in Nat
      <4>1. f \in Seq(Cell)
        BY DEF Begins
      <4>2. Cardinality(LineEnds(f)) \in Nat /\ k \in 1 .. Cardinality(LineEnds(f))
        BY <1>5, <4>1, EndsFinite, LineNumbers
      <4> QED
        BY <4>2
    <3> QED
      BY <1>7, <3>1
  <2> QED
    BY <2>1, <2>2 DEF Load
<1>9. ps[n] = <<ps[n][1], ps[n][2]>>
  BY <1>2 DEF Pairs
<1> QED
  BY <1>6, <1>8, <1>9

(* The pairs of a map, in some order. *)
LEMMA MapInOrder ==
  ASSUME NEW m, IsFiniteSet(m), m \subseteq Pairs, NEW ps \in SetToSeqs(m)
  PROVE  /\ ps \in Seq(Pairs) /\ Len(ps) = Cardinality(m)
         /\ \A i, j \in 1 .. Len(ps) : ps[i] = ps[j] => i = j
         /\ m = {ps[n] : n \in 1 .. Len(ps)}
<1> DEFINE K == Cardinality(m)
<1>1. K \in Nat
  BY FS_CardinalityType
<1>2. ps \in [1 .. K -> m] /\ \A i, j \in 1 .. K : i # j => ps[i] # ps[j]
  BY DEF SetToSeqs
<1> HIDE DEF K
<1>3. ps \in Seq(Pairs) /\ Len(ps) = K
  <2>1. ps \in [1 .. K -> Pairs]
    BY <1>2
  <2> QED
    BY <1>1, <2>1
<1>4. ps \in Injection(1 .. K, m)
  <2>1. \A i, j \in 1 .. K : ps[i] = ps[j] => i = j
    BY <1>2
  <2> QED
    BY <1>2, <2>1 DEF Injection, IsInjective
<1>5. Cardinality(1 .. K) = K
  <2>1. K \in Int /\ 1 \in Int /\ (IF 1 > K THEN 0 ELSE K - 1 + 1) = K
    BY <1>1
  <2> QED
    BY <2>1, FS_Interval
<1>6. ps \in Surjection(1 .. K, m)
  BY <1>4, <1>5, FS_Injection DEF K
<1>7. m = {ps[n] : n \in 1 .. K}
  BY <1>2, <1>6 DEF Surjection
<1> QED
  BY <1>2, <1>3, <1>7 DEF K

-----------------------------------------------------------------------------
(* The writers.                                                            *)

(* While a writer has the file for itself it holds what it has written so  *)
(* far, in the order its map came in, and nobody else writes.              *)
WrittenSoFar ==
  alone =>
    \E ps \in SetToSeqs(author) :
      /\ Begins(file, ps)
      /\ complete => Len(file) = Len(TextOf(ps))
      /\ \A w \in Writer : text[w] # Idle => text[w] = TextOf(ps) /\ at[w] = Len(file) /\ ~complete
      /\ \A u, w \in Writer : text[u] # Idle /\ text[w] # Idle => u = w

IInv == TypeOK /\ WrittenSoFar

(* The author's map is finite, of strings, and has one value for a key.    *)
LEMMA AuthorIsMap ==
  ASSUME NEW m \in Maps \cup {{}}
  PROVE  /\ IsFiniteSet(m) /\ m \subseteq Pairs
         /\ \A p, q \in m : p[1] = q[1] => p = q
<1>1. CASE m \in Maps
  BY <1>1, MapsAssumption DEF Pairs
<1>2. CASE m = {}
  BY <1>2, FS_EmptySet
<1> QED
  BY <1>1, <1>2

(* What a write at a position leaves.                                      *)
LEMMA WrittenOver ==
  ASSUME file \in Seq(Cell), NEW n \in Nat, NEW s \in Seq(Cell)
  PROVE  /\ Over(n, s) \in Seq(Cell)
         /\ n = Len(file) => /\ Len(Over(n, s)) = n + Len(s)
                             /\ \A i \in 1 .. n : Over(n, s)[i] = file[i]
                             /\ \A i \in 1 .. Len(s) : Over(n, s)[n + i] = s[i]
<1> DEFINE K == IF Len(file) < n + Len(s) THEN n + Len(s) ELSE Len(file)
           x(i) == CASE i \in n + 1 .. n + Len(s) -> s[i - n]
                     [] i \in DOMAIN file /\ i \notin n + 1 .. n + Len(s) -> file[i]
                     [] OTHER -> Hole
           o == [i \in 1 .. K |-> x(i)]
<1>1. /\ Len(file) \in Nat /\ Len(s) \in Nat /\ DOMAIN file = 1 .. Len(file) /\ Hole \in Cell
      /\ \A i \in 1 .. Len(file) : file[i] \in Cell
      /\ \A i \in 1 .. Len(s) : s[i] \in Cell
  <2>1. Hole \in Cell
    BY DEF Cell
  <2> QED
    BY <2>1, ElementOfSeq, LenProperties
<1>2. Over(n, s) = o
  BY DEF Over
<1>3. K \in Nat
  BY <1>1
<1>4. ASSUME NEW i \in 1 .. K
      PROVE  /\ i \in n + 1 .. n + Len(s) => i - n \in 1 .. Len(s) /\ x(i) = s[i - n]
             /\ i \notin n + 1 .. n + Len(s) /\ i \in 1 .. Len(file) => x(i) = file[i]
             /\ x(i) \in Cell
  <2>1. CASE i \in n + 1 .. n + Len(s)
    <3>1. x(i) = s[i - n]
      BY <2>1
    <3>2. i - n \in 1 .. Len(s)
      BY <1>1, <2>1
    <3> QED
      BY <1>1, <2>1, <3>1, <3>2
  <2>2. CASE i \notin n + 1 .. n + Len(s) /\ i \in 1 .. Len(file)
    <3>1. x(i) = file[i]
      BY <1>1, <2>2
    <3> QED
      BY <1>1, <2>2, <3>1
  <2>3. CASE i \notin n + 1 .. n + Len(s) /\ i \notin 1 .. Len(file)
    <3>1. x(i) = Hole
      BY <1>1, <2>3
    <3> QED
      BY <1>1, <2>3, <3>1
  <2> QED
    BY <2>1, <2>2, <2>3
<1> HIDE DEF x, K
<1>5. o \in Seq(Cell) /\ Len(o) = K
  <2>1. o \in [1 .. K -> Cell]
    BY <1>4
  <2> QED
    BY <1>3, <2>1
<1>6. ASSUME n = Len(file)
      PROVE  /\ Len(o) = n + Len(s)
             /\ \A i \in 1 .. n : o[i] = file[i]
             /\ \A i \in 1 .. Len(s) : o[n + i] = s[i]
  <2>1. K = n + Len(s)
    BY <1>1, <1>6 DEF K
  <2>2. ASSUME NEW i \in 1 .. n
        PROVE  o[i] = file[i]
    <3>1. i \in 1 .. K /\ i \notin n + 1 .. n + Len(s) /\ i \in 1 .. Len(file)
      BY <1>1, <1>6, <2>1
    <3> QED
      BY <1>4, <3>1
  <2>3. ASSUME NEW i \in 1 .. Len(s)
        PROVE  o[n + i] = s[i]
    <3> DEFINE j == n + i
    <3>1. j \in 1 .. K /\ j \in n + 1 .. n + Len(s) /\ j - n = i
      BY <1>1, <2>1
    <3> HIDE DEF j
    <3>2. o[j] = s[i]
      BY <1>4, <3>1
    <3> QED
      BY <3>2 DEF j
  <2> QED
    BY <1>5, <2>1, <2>2, <2>3
<1> HIDE DEF o
<1> QED
  BY <1>2, <1>5, <1>6

(* The empty file is the text of no pairs.                                  *)
LEMMA InitInvariant == Init => IInv
<1> SUFFICES ASSUME Init
             PROVE  IInv
  OBVIOUS
<1>1. file = <<>> /\ author = {} /\ \A w \in Writer : text[w] = Idle
  BY DEF Init
<1>2. TypeOK
  <2>1. <<>> \in Seq(Cell)
    BY EmptySeq
  <2> QED
    BY <2>1, BoundsAssumption DEF Init, TypeOK
<1>3. <<>> \in SetToSeqs({})
  <2>1. Cardinality({}) = 0
    BY FS_EmptySet
  <2> QED
    BY <2>1 DEF SetToSeqs
<1>4. Begins(file, <<>>) /\ Len(file) = Len(TextOf(<<>>))
  <2> DEFINE none == <<>>
  <2>1. none \in Seq(Pairs) /\ Len(none) = 0
    BY EmptySeq
  <2> HIDE DEF none
  <2>2. PICK c : TextTo(c, none)
    BY <2>1, TextSegments
  <2>3. Len(TextOf(none)) = 0
    BY <2>1, <2>2 DEF TextTo
  <2>4. file \in Seq(Cell) /\ Len(file) = 0
    BY <1>1, EmptySeq
  <2> QED
    BY <2>3, <2>4 DEF Begins, none
<1>5. WrittenSoFar
  <2>1. /\ Begins(file, <<>>)
        /\ complete => Len(file) = Len(TextOf(<<>>))
        /\ \A w \in Writer : text[w] # Idle => text[w] = TextOf(<<>>) /\ at[w] = Len(file) /\ ~complete
        /\ \A u, w \in Writer : text[u] # Idle /\ text[w] # Idle => u = w
    BY <1>1, <1>4
  <2> QED
    BY <1>1, <1>3, <2>1 DEF WrittenSoFar
<1> QED
  BY <1>2, <1>5 DEF IInv

LEMMA BeginStep ==
  ASSUME IInv, NEW w \in Writer, NEW m \in Maps, Begin(w, m)
  PROVE  IInv'
<1>1. PICK ps \in SetToSeqs(m) : text' = [text EXCEPT ![w] = TextOf(ps)]
  BY DEF Begin
<1>2. ps \in Seq(Pairs)
  BY MapInOrder, AuthorIsMap
<1>3. TextOf(ps) \in Seq(Cell) /\ Len(TextOf(ps)) \in Nat
  <2>1. TextOf(ps) \in Seq(Cell)
    BY <1>2, TextSegments
  <2> QED
    BY <2>1, LenProperties
<1>4. file' = <<>> /\ <<>> \in Seq(Cell) /\ Len(<<>>) = 0 /\ at' = [at EXCEPT ![w] = 0] /\ author' = m
      /\ complete' = FALSE
  BY EmptySeq DEF Begin
<1>5. TypeOK'
  <2>1. text' \in [Writer -> Seq(Cell) \cup {Idle}] /\ at' \in [Writer -> Nat]
    BY <1>1, <1>3, <1>4 DEF IInv, TypeOK
  <2>2. ASSUME NEW u \in Writer, text'[u] # Idle
        PROVE  at'[u] <= Len(text'[u])
    <3>1. CASE u = w
      BY <1>1, <1>3, <1>4, <3>1 DEF IInv, TypeOK
    <3>2. CASE u # w
      <4>1. text'[u] = text[u] /\ at'[u] = at[u]
        BY <1>1, <1>4, <3>2 DEF IInv, TypeOK
      <4> QED
        BY <2>2, <4>1 DEF IInv, TypeOK
    <3> QED
      BY <3>1, <3>2
  <2>3. snapshots' \in 0 .. MaxSnapshots
    BY BoundsAssumption DEF IInv, TypeOK, Begin
  <2>4. faults' \in 0 .. MaxFaults /\ kills' \in 0 .. MaxKills
    BY DEF IInv, TypeOK, Begin
  <2>5. author' \in Maps \cup {{}} /\ alone' \in BOOLEAN /\ complete' \in BOOLEAN
    BY DEF Begin
  <2> QED
    BY <1>4, <2>1, <2>2, <2>3, <2>4, <2>5 DEF TypeOK
<1>6. WrittenSoFar'
  <2> SUFFICES ASSUME alone'
               PROVE  \E qs \in SetToSeqs(author') :
                        /\ Begins(file', qs)
                        /\ complete' => Len(file') = Len(TextOf(qs))
                        /\ \A u \in Writer : text'[u] # Idle => text'[u] = TextOf(qs) /\ at'[u] = Len(file') /\ ~complete'
                        /\ \A u, v \in Writer : text'[u] # Idle /\ text'[v] # Idle => u = v
    BY DEF WrittenSoFar, Begins
  <2>1. \A u \in Writer : text[u] = Idle
    BY DEF Begin
  <2>2. \A u \in Writer : text'[u] # Idle => u = w /\ text'[u] = TextOf(ps) /\ at'[u] = 0
    BY <1>1, <1>4, <2>1 DEF IInv, TypeOK
  <2>3. Begins(file', ps)
    BY <1>3, <1>4 DEF Begins
  <2> QED
    BY <1>1, <1>4, <2>2, <2>3
<1> QED
  BY <1>5, <1>6 DEF IInv

(* What is left to write.                                                  *)
LEMMA RestOfText ==
  ASSUME TypeOK, NEW w \in Writer, text[w] # Idle
  PROVE  /\ text[w] \in Seq(Cell) /\ Len(text[w]) \in Nat /\ at[w] \in Nat /\ at[w] <= Len(text[w])
         /\ Rest(w) \in Seq(Cell) /\ Len(Rest(w)) = Len(text[w]) - at[w]
         /\ \A i \in 1 .. Len(Rest(w)) : Rest(w)[i] = text[w][at[w] + i]
<1> DEFINE t == text[w]
           a == at[w]
           r == Rest(w)
<1>1. t \in Seq(Cell) /\ Len(t) \in Nat /\ a \in Nat /\ a <= Len(t)
  <2>1. t \in Seq(Cell) /\ a \in Nat /\ a <= Len(t)
    BY DEF TypeOK
  <2> QED
    BY <2>1, LenProperties
<1>2. r = SubSeq(t, a + 1, Len(t))
  BY DEF Rest
<1> HIDE DEF t, a, r
<1>3. a + 1 \in 1 .. Len(t) + 1 /\ Len(t) \in (a + 1) - 1 .. Len(t)
      /\ Len(t) - (a + 1) + 1 = Len(t) - a
      /\ \A i \in 1 .. Len(t) - a : a + 1 + i - 1 = a + i
  BY <1>1
<1>4. /\ r \in Seq(Cell) /\ Len(r) = Len(t) - (a + 1) + 1
      /\ \A i \in 1 .. Len(t) - (a + 1) + 1 : r[i] = t[a + 1 + i - 1]
  BY <1>1, <1>2, <1>3, Cut
<1>5. Len(r) = Len(t) - a /\ \A i \in 1 .. Len(r) : r[i] = t[a + i]
  BY <1>3, <1>4
<1> QED
  BY <1>1, <1>4, <1>5 DEF t, a, r

LEMMA WriteStep ==
  ASSUME IInv, NEW w \in Writer, Write(w)
  PROVE  IInv'
<1> DEFINE t == text[w]
           a == at[w]
           r == Rest(w)
<1>1. t \in Seq(Cell) /\ Len(t) \in Nat /\ a \in Nat /\ a <= Len(t)
      /\ r \in Seq(Cell) /\ Len(r) = Len(t) - a
      /\ \A i \in 1 .. Len(r) : r[i] = t[a + i]
  BY RestOfText DEF IInv, Write
<1>2. PICK k \in 1 .. Len(r) : /\ file' = Over(a, SubSeq(r, 1, k))
                               /\ at' = [at EXCEPT ![w] = @ + k]
  BY DEF Write
<1> DEFINE s == SubSeq(r, 1, k)
<1>3. /\ s \in Seq(Cell) /\ Len(s) = k
      /\ \A i \in 1 .. k : s[i] = t[a + i]
  <2> HIDE DEF r, t, a
  <2>1. 1 \in 1 .. Len(r) + 1 /\ k \in 1 - 1 .. Len(r) /\ k - 1 + 1 = k
        /\ \A i \in 1 .. k : 1 + i - 1 = i /\ i \in 1 .. Len(r)
    BY <1>1
  <2>2. /\ s \in Seq(Cell) /\ Len(s) = k - 1 + 1
        /\ \A i \in 1 .. k - 1 + 1 : s[i] = r[1 + i - 1]
    BY <1>1, <2>1, Cut
  <2> HIDE DEF s
  <2> QED
    BY <1>1, <2>1, <2>2
<1>4. file \in Seq(Cell) /\ Len(file) \in Nat /\ file' = Over(a, s)
  <2>1. file \in Seq(Cell)
    BY DEF IInv, TypeOK
  <2> QED
    BY <1>2, <2>1, LenProperties
<1>5. k \in Nat /\ a + k \in Nat /\ a + k <= Len(t)
  <2> HIDE DEF t, a, r
  <2> QED
    BY <1>1
<1> HIDE DEF s, r
<1>6. file' \in Seq(Cell)
  BY <1>1, <1>3, <1>4, WrittenOver
<1>7. UNCHANGED <<text, snapshots, faults, kills, author, alone, complete>> /\ text[w] # Idle
  BY DEF Write, ghosts
<1>8. at'[w] = a + k /\ at' \in [Writer -> Nat] /\ \A u \in Writer \ {w} : at'[u] = at[u]
  <2>1. at \in [Writer -> Nat]
    BY DEF IInv, TypeOK
  <2> QED
    BY <1>2, <1>5, <2>1
<1>9. TypeOK'
  <2>1. ASSUME NEW u \in Writer, text'[u] # Idle
        PROVE  at'[u] <= Len(text'[u])
    <3>1. CASE u = w
      BY <1>5, <1>7, <1>8, <3>1
    <3>2. CASE u # w
      BY <1>7, <1>8, <2>1, <3>2 DEF IInv, TypeOK
    <3> QED
      BY <3>1, <3>2
  <2> QED
    BY <1>6, <1>7, <1>8, <2>1 DEF IInv, TypeOK
<1>10. WrittenSoFar'
  <2> SUFFICES ASSUME alone
               PROVE  \E ps \in SetToSeqs(author) :
                        /\ Begins(file', ps)
                        /\ complete => Len(file') = Len(TextOf(ps))
                        /\ \A u \in Writer : text[u] # Idle => text[u] = TextOf(ps) /\ at'[u] = Len(file') /\ ~complete
                        /\ \A u, v \in Writer : text[u] # Idle /\ text[v] # Idle => u = v
    BY <1>7 DEF WrittenSoFar, Begins
  <2>1. PICK ps \in SetToSeqs(author) :
           /\ Begins(file, ps)
           /\ \A u \in Writer : text[u] # Idle => text[u] = TextOf(ps) /\ at[u] = Len(file) /\ ~complete
           /\ \A u, v \in Writer : text[u] # Idle /\ text[v] # Idle => u = v
    BY DEF IInv, WrittenSoFar
  <2>2. t = TextOf(ps) /\ a = Len(file) /\ ~complete /\ \A u \in Writer : text[u] # Idle => u = w
    BY <1>7, <2>1
  <2> HIDE DEF t, a
  <2>3. /\ Len(file') = a + k
        /\ \A i \in 1 .. a : file'[i] = file[i]
        /\ \A i \in 1 .. k : file'[a + i] = s[i]
    BY <1>1, <1>3, <1>4, <2>2, WrittenOver
  <2>4. ASSUME NEW i \in 1 .. Len(file')
        PROVE  file'[i] = TextOf(ps)[i]
    <3>1. CASE i <= a
      <4>1. i \in 1 .. a
        BY <1>1, <1>5, <2>3, <3>1
      <4> QED
        BY <2>1, <2>2, <2>3, <4>1 DEF Begins
    <3>2. CASE ~(i <= a)
      <4> DEFINE j == i - a
      <4>1. j \in 1 .. k /\ a + j = i
        BY <1>1, <1>5, <2>3, <3>2
      <4> HIDE DEF j
      <4> QED
        BY <1>3, <2>2, <2>3, <4>1
    <3> QED
      BY <3>1, <3>2
  <2>5. Begins(file', ps)
    BY <1>5, <1>6, <2>2, <2>3, <2>4 DEF Begins
  <2>6. \A u \in Writer : text[u] # Idle => text[u] = TextOf(ps) /\ at'[u] = Len(file') /\ ~complete
    BY <1>8, <2>1, <2>2, <2>3
  <2> QED
    BY <2>1, <2>2, <2>5, <2>6
<1> QED
  BY <1>9, <1>10 DEF IInv

LEMMA EndStep ==
  ASSUME IInv, NEW w \in Writer, End(w)
  PROVE  IInv'
<1>1. /\ text[w] # Idle /\ at[w] = Len(text[w])
      /\ text' = [text EXCEPT ![w] = Idle] /\ at' = [at EXCEPT ![w] = 0] /\ complete' = TRUE
      /\ UNCHANGED <<file, snapshots, faults, kills, author, alone>>
  BY DEF End
<1>2. text' \in [Writer -> Seq(Cell) \cup {Idle}] /\ at' \in [Writer -> Nat]
  BY <1>1 DEF IInv, TypeOK
<1>3. text'[w] = Idle /\ \A u \in Writer \ {w} : text'[u] = text[u] /\ at'[u] = at[u]
  BY <1>1 DEF IInv, TypeOK
<1>4. TypeOK'
  <2>1. \A u \in Writer : text'[u] # Idle => at'[u] <= Len(text'[u])
    BY <1>3 DEF IInv, TypeOK
  <2> QED
    BY <1>1, <1>2, <2>1 DEF IInv, TypeOK
<1>5. WrittenSoFar'
  <2> SUFFICES ASSUME alone
               PROVE  \E ps \in SetToSeqs(author) :
                        /\ Begins(file, ps)
                        /\ Len(file) = Len(TextOf(ps))
                        /\ \A u \in Writer : text'[u] = Idle
    BY <1>1 DEF WrittenSoFar, Begins
  <2>1. PICK ps \in SetToSeqs(author) :
           /\ Begins(file, ps)
           /\ \A u \in Writer : text[u] # Idle => text[u] = TextOf(ps) /\ at[u] = Len(file) /\ ~complete
           /\ \A u, v \in Writer : text[u] # Idle /\ text[v] # Idle => u = v
    BY DEF IInv, WrittenSoFar
  <2>2. Len(file) = Len(TextOf(ps))
    BY <1>1, <2>1
  <2>3. \A u \in Writer : text'[u] = Idle
    BY <1>1, <1>3, <2>1
  <2> QED
    BY <2>1, <2>2, <2>3
<1> QED
  BY <1>4, <1>5 DEF IInv

LEMMA FailStep ==
  ASSUME IInv, NEW w \in Writer, Fail(w)
  PROVE  IInv'
<1> DEFINE a == at[w]
           r == Rest(w)
<1>1. a \in Nat /\ r \in Seq(Cell)
  BY RestOfText DEF IInv, Fail
<1>2. PICK n \in 0 .. Len(r), retry \in {<<>>, r} : file' = Over(a, SubSeq(r, 1, n) \o retry)
  BY DEF Fail
<1> HIDE DEF a, r
<1>3. SubSeq(r, 1, n) \o retry \in Seq(Cell)
  <2>1. SubSeq(r, 1, n) \in Seq(Cell)
    BY <1>1
  <2>2. retry \in Seq(Cell)
    BY <1>1, EmptySeq
  <2> QED
    BY <2>1, <2>2, Joined
<1>4. file' \in Seq(Cell)
  <2>1. file \in Seq(Cell)
    BY DEF IInv, TypeOK
  <2> QED
    BY <1>1, <1>2, <1>3, <2>1, WrittenOver
<1>5. /\ text' = [text EXCEPT ![w] = Idle] /\ at' = [at EXCEPT ![w] = 0]
      /\ faults < MaxFaults /\ faults' = faults + 1 /\ alone' = FALSE
      /\ UNCHANGED <<snapshots, kills, author, complete>>
  BY DEF Fail
<1>6. text' \in [Writer -> Seq(Cell) \cup {Idle}] /\ at' \in [Writer -> Nat]
  BY <1>5 DEF IInv, TypeOK
<1>7. \A u \in Writer : text'[u] # Idle => at'[u] <= Len(text'[u])
  <2>1. text'[w] = Idle /\ \A u \in Writer \ {w} : text'[u] = text[u] /\ at'[u] = at[u]
    BY <1>5 DEF IInv, TypeOK
  <2> QED
    BY <2>1 DEF IInv, TypeOK
<1>8. faults' \in 0 .. MaxFaults
  BY <1>5, BoundsAssumption DEF IInv, TypeOK
<1>9. TypeOK'
  BY <1>4, <1>5, <1>6, <1>7, <1>8 DEF IInv, TypeOK
<1>10. WrittenSoFar'
  BY <1>5 DEF WrittenSoFar
<1> QED
  BY <1>9, <1>10 DEF IInv

LEMMA KillStep ==
  ASSUME IInv, Kill
  PROVE  IInv'
<1>1. /\ kills < MaxKills /\ kills' = kills + 1
      /\ text' = [w \in Writer |-> Idle] /\ at' = [w \in Writer |-> 0]
      /\ UNCHANGED <<file, snapshots, faults, author, alone, complete>>
  BY DEF Kill, ghosts
<1>2. TypeOK'
  <2>1. kills' \in 0 .. MaxKills
    BY <1>1, BoundsAssumption DEF IInv, TypeOK
  <2>2. text' \in [Writer -> Seq(Cell) \cup {Idle}] /\ at' \in [Writer -> Nat]
        /\ \A u \in Writer : text'[u] = Idle
    BY <1>1
  <2> QED
    BY <1>1, <2>1, <2>2 DEF IInv, TypeOK
<1>3. WrittenSoFar'
  <2> SUFFICES ASSUME alone
               PROVE  \E ps \in SetToSeqs(author) :
                        /\ Begins(file, ps)
                        /\ complete => Len(file) = Len(TextOf(ps))
                        /\ \A u \in Writer : text'[u] = Idle
    BY <1>1 DEF WrittenSoFar, Begins
  <2>1. \A u \in Writer : text'[u] = Idle
    BY <1>1
  <2> QED
    BY <2>1 DEF IInv, WrittenSoFar
<1> QED
  BY <1>2, <1>3 DEF IInv

LEMMA NextInvariant == IInv /\ [Next]_vars => IInv'
<1> SUFFICES ASSUME IInv, [Next]_vars
             PROVE  IInv'
  OBVIOUS
<1>1. ASSUME NEW w \in Writer, NEW m \in Maps, Begin(w, m)
      PROVE  IInv'
  BY <1>1, BeginStep
<1>2. ASSUME NEW w \in Writer, Write(w)
      PROVE  IInv'
  BY <1>2, WriteStep
<1>3. ASSUME NEW w \in Writer, End(w)
      PROVE  IInv'
  BY <1>3, EndStep
<1>4. ASSUME NEW w \in Writer, Fail(w)
      PROVE  IInv'
  BY <1>4, FailStep
<1>5. CASE Kill
  BY <1>5, KillStep
<1>6. CASE UNCHANGED vars
  BY <1>6 DEF vars, ghosts, IInv, TypeOK, WrittenSoFar, Begins
<1> QED
  BY <1>1, <1>2, <1>3, <1>4, <1>5, <1>6 DEF Next

(* Both parts of the invariant hold in every reachable state.              *)
THEOREM WritersKeepToTheirTexts == Spec => []IInv
BY InitInvariant, NextInvariant, PTL DEF Spec

(* The variables of Persistence keep their types, and no writer goes       *)
(* beyond the text of its map.                                             *)
THEOREM TypeCorrect == Spec => []TypeOK
<1>1. IInv => TypeOK
  BY DEF IInv
<1> QED
  BY <1>1, WritersKeepToTheirTexts, PTL

(* A snapshot written without another one beside it, and without an error, *)
(* loads as the map it was taken of, whatever its strings hold.            *)
THEOREM SnapshotsLoad == Spec => []SnapshotLoads
<1>1. IInv => SnapshotLoads
  <2> SUFFICES ASSUME IInv, alone, complete
               PROVE  Load(file) = author
    BY DEF SnapshotLoads
  <2>1. PICK ps \in SetToSeqs(author) : Begins(file, ps) /\ Len(file) = Len(TextOf(ps))
    BY DEF IInv, WrittenSoFar
  <2>2. author \in Maps \cup {{}}
    BY DEF IInv, TypeOK
  <2>3. IsFiniteSet(author) /\ author \subseteq Pairs /\ \A p, q \in author : p[1] = q[1] => p = q
    BY <2>2, AuthorIsMap
  <2>4. /\ ps \in Seq(Pairs)
        /\ \A i, j \in 1 .. Len(ps) : ps[i] = ps[j] => i = j
        /\ author = {ps[n] : n \in 1 .. Len(ps)}
    BY <2>3, MapInOrder
  <2>5. \A i, j \in 1 .. Len(ps) : ps[i][1] = ps[j][1] => i = j
    BY <2>3, <2>4
  <2>6. \A n \in 1 .. Len(ps) : ps[n] \in Load(file)
    BY <2>1, <2>4, <2>5, LoadWhole
  <2>7. \A q \in Load(file) : \E n \in 1 .. Len(ps) : q = ps[n]
    BY <2>1, <2>4, LoadPart
  <2> QED
    BY <2>4, <2>6, <2>7
<1> QED
  BY <1>1, WritersKeepToTheirTexts, PTL

(* Cut short at any character, it loads with no key that its map has not,  *)
(* and at most one pair that is not of the map.                            *)
THEOREM CutShortParts == Spec => []CutShortIsAPart
<1>1. IInv => CutShortIsAPart
  <2> SUFFICES ASSUME IInv, alone
               PROVE  /\ {p[1] : p \in Load(file)} \subseteq {p[1] : p \in author}
                      /\ Cardinality(Load(file) \ author) <= 1
    BY DEF CutShortIsAPart
  <2>1. PICK ps \in SetToSeqs(author) : Begins(file, ps)
    BY DEF IInv, WrittenSoFar
  <2>2. author \in Maps \cup {{}}
    BY DEF IInv, TypeOK
  <2>3. IsFiniteSet(author) /\ author \subseteq Pairs
    BY <2>2, AuthorIsMap
  <2>4. ps \in Seq(Pairs) /\ author = {ps[n] : n \in 1 .. Len(ps)}
    BY <2>3, MapInOrder
  <2>5. \A q \in Load(file) : \E n \in 1 .. Len(ps) : q[1] = ps[n][1]
    BY <2>1, <2>4, LoadPart
  <2>6. PICK x : \A q \in Load(file) : q = x \/ \E n \in 1 .. Len(ps) : q = ps[n]
    BY <2>1, <2>4, LoadPart
  <2>7. Load(file) \ author \in SUBSET {x}
    BY <2>4, <2>6
  <2>8. Cardinality(Load(file) \ author) <= 1
    <3>1. IsFiniteSet({x}) /\ Cardinality({x}) = 1
      BY FS_Singleton
    <3> QED
      BY <2>7, <3>1, FS_Subset
  <2> QED
    BY <2>4, <2>5, <2>8
<1> QED
  BY <1>1, WritersKeepToTheirTexts, PTL

-----------------------------------------------------------------------------
(* Replies: the numbers they announce.                                     *)

Figures == {Digit[d] : d \in DOMAIN Digit}

Figure(ch) == (CHOOSE d \in DOMAIN Digit : Digit[d] = ch) - 1

(* A figure is that of one number below ten.                               *)
LEMMA FigureOfDigit ==
  /\ DOMAIN Digit = 1 .. 10
  /\ \A d \in 1 .. 10 : Digit[d] \in Figures /\ Figure(Digit[d]) = d - 1
  /\ \A ch \in Figures : ch \notin {"CR", "LF", "-"} /\ Figure(ch) \in 0 .. 9
<1>1. DOMAIN Digit = 1 .. 10
  BY DEF Digit
<1>2. ASSUME NEW d \in 1 .. 10, NEW e \in 1 .. 10, Digit[d] = Digit[e]
      PROVE  d = e
  BY <1>2 DEF Digit
<1>3. \A d \in 1 .. 10 : Digit[d] \notin {"CR", "LF", "-"}
  BY DEF Digit
<1>4. ASSUME NEW d \in 1 .. 10
      PROVE  Digit[d] \in Figures /\ Figure(Digit[d]) = d - 1
  BY <1>1, <1>2 DEF Figures, Figure
<1> QED
  BY <1>1, <1>3, <1>4 DEF Figures

(* What std::to_string writes for the numbers up to N.                     *)
Decimals(f, N) ==
  \A k \in 0 .. N :
    f[k] = IF k < 10 THEN <<Digit[k + 1]>> ELSE Append(f[k \div 10], Digit[(k % 10) + 1])

LEMMA TenthIsLess ==
  ASSUME NEW k \in Nat, k >= 10
  PROVE  /\ k \div 10 \in 0 .. k - 1 /\ (k % 10) + 1 \in 1 .. 10
         /\ 10 * (k \div 10) + (k % 10) = k
  OBVIOUS

(* What has been read of a number line after its first figures.            *)
Reading(g, line) ==
  /\ g[0] = 0
  /\ \A n \in 1 .. Len(line) : g[n] = 10 * g[n - 1] + (CHOOSE d \in DOMAIN Digit : Digit[d] = line[n]) - 1

LEMMA DecimalsExist ==
  ASSUME NEW N \in Nat
  PROVE  \E f : f \in [0 .. N -> Seq(Figures)] /\ Decimals(f, N)
<1> DEFINE S == Seq(Figures)
           T == {n \in 0 .. N : \E f : f \in [0 .. n -> S] /\ Decimals(f, n)}
           x(f, k) == IF k < 10 THEN <<Digit[k + 1]>>
                      ELSE Append(f[k \div 10], Digit[(k % 10) + 1])
<1>1. \A k \in 0 .. 9 : <<Digit[k + 1]>> \in S
  <2> SUFFICES ASSUME NEW k \in 0 .. 9
               PROVE  <<Digit[k + 1]>> \in S
    OBVIOUS
  <2>1. Digit[k + 1] \in Figures
    BY FigureOfDigit
  <2> QED
    BY <2>1
<1>2. 0 \in T
  <2> DEFINE f == [k \in 0 .. 0 |-> <<Digit[k + 1]>>]
  <2>1. f \in [0 .. 0 -> S]
    BY <1>1
  <2>2. Decimals(f, 0)
    BY DEF Decimals
  <2> HIDE DEF f, S
  <2> QED
    BY <2>1, <2>2
<1>3. ASSUME NEW n \in 1 .. N, n - 1 \in T
      PROVE  n \in T
  <2>1. PICK g : g \in [0 .. n - 1 -> S] /\ Decimals(g, n - 1)
    BY <1>3
  <2> DEFINE h == [k \in 0 .. n |-> IF k = n THEN x(g, n) ELSE g[k]]
  <2>2. x(g, n) \in S
    <3>1. CASE n < 10
      BY <1>1, <3>1
    <3>2. CASE n >= 10
      <4>1. n \div 10 \in 0 .. n - 1 /\ Digit[(n % 10) + 1] \in Figures
        BY <3>2, TenthIsLess, FigureOfDigit
      <4>2. g[n \div 10] \in Seq(Figures)
        BY <2>1, <4>1
      <4> QED
        BY <3>2, <4>1, <4>2, AppendProperties
    <3> QED
      BY <3>1, <3>2
  <2> HIDE DEF S
  <2>3. h \in [0 .. n -> S]
    <3> HIDE DEF x
    <3> QED
      BY <2>1, <2>2
  <2>4. ASSUME NEW k \in 0 .. n
        PROVE  h[k] = x(h, k)
    <3>1. x(h, k) = x(g, k)
      <4>1. CASE k < 10
        BY <4>1
      <4>2. CASE k >= 10
        <5>1. k \div 10 \in 0 .. k - 1
          BY <4>2, TenthIsLess
        <5>2. k \div 10 \in 0 .. n /\ k \div 10 # n
          BY <5>1
        <5>3. h[k \div 10] = g[k \div 10]
          BY <5>2
        <5> HIDE DEF h
        <5> QED
          BY <4>2, <5>3
      <4> QED
        BY <4>1, <4>2
    <3>2. CASE k = n
      BY <3>1, <3>2
    <3>3. CASE k # n
      <4>1. k \in 0 .. n - 1
        BY <3>3
      <4>2. g[k] = x(g, k)
        BY <2>1, <4>1 DEF Decimals
      <4>3. h[k] = g[k]
        BY <3>3
      <4> HIDE DEF h, x
      <4> QED
        BY <3>1, <4>2, <4>3
    <3> QED
      BY <3>2, <3>3
  <2> HIDE DEF h
  <2>5. Decimals(h, n)
    BY <2>4 DEF Decimals
  <2> QED
    BY <2>3, <2>5
<1>4. N \in T
  <2> HIDE DEF T
  <2>1. 0 .. N \subseteq T
    BY <1>2, <1>3, Climb
  <2> QED
    BY <2>1
<1> QED
  BY <1>4

(* Decimal writes the figures as its definition says.                      *)
LEMMA DecimalRecursion ==
  ASSUME NEW N \in Nat
  PROVE  \E f : Decimals(f, N) /\ Decimal(N) = f[N] /\ (N # 0 => Decimal(-N) = <<"-">> \o f[N])
<1> DEFINE Def(f) == [k \in 0 .. N |-> IF k < 10 THEN <<Digit[k + 1]>>
                                       ELSE Append(f[k \div 10], Digit[(k % 10) + 1])]
           decimal == CHOOSE f : f = Def(f)
<1>1. PICK f : f \in [0 .. N -> Seq(Figures)] /\ Decimals(f, N)
  BY DecimalsExist
<1>2. f = Def(f)
  <2>1. \A k \in 0 .. N : f[k] = Def(f)[k]
    BY <1>1 DEF Decimals
  <2>2. f = [k \in 0 .. N |-> f[k]] /\ Def(f) = [k \in 0 .. N |-> Def(f)[k]]
    BY <1>1
  <2> HIDE DEF Def
  <2> QED
    BY <2>1, <2>2
<1>3. decimal = Def(decimal)
  <2> HIDE DEF Def
  <2> QED
    BY <1>2
<1>4. Decimal(N) = decimal[N]
  <2>1. ~(N < 0)
    OBVIOUS
  <2> QED
    BY <2>1 DEF Decimal
<1>5. N # 0 => Decimal(-N) = <<"-">> \o decimal[N]
  <2> SUFFICES ASSUME N # 0
               PROVE  Decimal(-N) = <<"-">> \o decimal[N]
    OBVIOUS
  <2>1. -N < 0 /\ -(-N) = N
    OBVIOUS
  <2> QED
    BY <2>1 DEF Decimal
<1> HIDE DEF decimal
<1>6. Decimals(decimal, N)
  <2>1. \A k \in 0 .. N : decimal[k] = Def(decimal)[k]
    <3> HIDE DEF Def
    <3> QED
      BY <1>3
  <2> QED
    BY <2>1 DEF Decimals
<1> QED
  BY <1>4, <1>5, <1>6

(* A client reads a number line as its definition says.                    *)
LEMMA NumberRecursion ==
  ASSUME NEW line \in Seq(Figures)
  PROVE  \E g : Reading(g, line) /\ g \in [0 .. Len(line) -> Int] /\ Number(line) = g[Len(line)]
<1> DEFINE N == Len(line)
           Def(k) == [n \in 0 .. Len(line) |->
                        IF n = 0 THEN 0
                        ELSE 10 * k[n - 1] + (CHOOSE d \in DOMAIN Digit : Digit[d] = line[n]) - 1]
           number == CHOOSE k : k = Def(k)
           v(n) == CHOOSE d \in DOMAIN Digit : Digit[d] = line[n]
           F == [n \in 1 .. N |-> [m \in Int |-> 10 * m + v(n) - 1]]
<1>1. N \in Nat /\ \A n \in 1 .. N : line[n] \in Figures
  BY LenProperties, ElementOfSeq
<1>2. \A n \in 1 .. N : v(n) \in Int
  <2> SUFFICES ASSUME NEW n \in 1 .. N
               PROVE  v(n) \in Int
    OBVIOUS
  <2>1. line[n] \in Figures
    BY <1>1
  <2> QED
    BY <2>1, FigureOfDigit DEF Figures
<1>3. F \in [1 .. N -> [Int -> Int]]
  <2> HIDE DEF v
  <2>1. \A n \in 1 .. N : [m \in Int |-> 10 * m + v(n) - 1] \in [Int -> Int]
    BY <1>2
  <2> QED
    BY <2>1
<1>4. PICK g : Iterates(g, N, Int, 0, F)
  <2> HIDE DEF F, N
  <2>1. 0 \in Int
    OBVIOUS
  <2> QED
    BY <1>1, <1>3, <2>1, Recursion
<1>5. g \in [0 .. N -> Int] /\ Reading(g, line)
  <2>1. g \in [0 .. N -> Int] /\ g[0] = 0
    BY <1>4 DEF Iterates
  <2>2. ASSUME NEW n \in 1 .. N
        PROVE  g[n] = 10 * g[n - 1] + (CHOOSE d \in DOMAIN Digit : Digit[d] = line[n]) - 1
    <3>1. n - 1 \in 0 .. N
      BY <1>1
    <3>2. g[n - 1] \in Int
      BY <2>1, <3>1
    <3>3. g[n] = F[n][g[n - 1]]
      <4> HIDE DEF F
      <4> QED
        BY <1>4 DEF Iterates
    <3> QED
      BY <3>2, <3>3
  <2> QED
    BY <2>1, <2>2 DEF Reading
<1>6. g = Def(g)
  <2>1. \A n \in 0 .. N : g[n] = Def(g)[n]
    <3> SUFFICES ASSUME NEW n \in 0 .. N
                 PROVE  g[n] = Def(g)[n]
      OBVIOUS
    <3>1. n = 0 \/ n \in 1 .. N
      BY <1>1
    <3> QED
      BY <1>5, <3>1 DEF Reading
  <2>2. g = [n \in 0 .. N |-> g[n]] /\ Def(g) = [n \in 0 .. N |-> Def(g)[n]]
    BY <1>5
  <2> HIDE DEF Def
  <2> QED
    BY <2>1, <2>2
<1>7. number = Def(number)
  <2> HIDE DEF Def
  <2> QED
    BY <1>6
<1>8. Number(line) = number[Len(line)]
  BY DEF Number
<1> HIDE DEF number
<1>9. \A n \in 0 .. N : number[n] = Def(number)[n]
  <2> HIDE DEF Def
  <2> QED
    BY <1>7
<1>10. Reading(number, line)
  <2>1. 0 \in 0 .. N /\ \A n \in 1 .. N : n \in 0 .. N /\ n # 0
    BY <1>1
  <2> QED
    BY <1>9, <2>1 DEF Reading
<1> DEFINE T == {n \in 0 .. N : number[n] = g[n]}
<1>11. 0 .. N \subseteq T
  <2>1. 0 \in T
    BY <1>1, <1>5, <1>10 DEF Reading
  <2>2. ASSUME NEW n \in 1 .. N, n - 1 \in T
        PROVE  n \in T
    <3>1. number[n - 1] = g[n - 1] /\ n \in 0 .. N
      BY <1>1, <2>2
    <3>2. /\ number[n] = 10 * number[n - 1] + v(n) - 1
          /\ g[n] = 10 * g[n - 1] + v(n) - 1
      BY <1>5, <1>10 DEF Reading
    <3> HIDE DEF v
    <3> QED
      BY <3>1, <3>2
  <2> HIDE DEF T, N
  <2> QED
    BY <1>1, <2>1, <2>2, Climb
<1>12. number[N] = g[N]
  <2>1. N \in 0 .. N
    BY <1>1
  <2> HIDE DEF N
  <2> QED
    BY <1>11, <2>1
<1> QED
  BY <1>5, <1>8, <1>12

(* One figure more.                                                        *)
LEMMA NumberAppend ==
  ASSUME NEW line \in Seq(Figures), NEW d \in 1 .. 10, NEW m \in Nat, Number(line) = m
  PROVE  /\ Append(line, Digit[d]) \in Seq(Figures)
         /\ Number(Append(line, Digit[d])) = 10 * m + (d - 1)
<1> DEFINE a == Append(line, Digit[d])
           N == Len(line)
<1>1. /\ N \in Nat /\ a \in Seq(Figures) /\ Len(a) = N + 1
      /\ a[N + 1] = Digit[d] /\ \A i \in 1 .. N : a[i] = line[i]
  <2>1. Digit[d] \in Figures
    BY FigureOfDigit
  <2> QED
    BY <2>1, LenProperties, AppendProperties
<1>2. PICK h : Reading(h, line) /\ h \in [0 .. N -> Int] /\ Number(line) = h[N]
  BY NumberRecursion
<1> HIDE DEF a
<1>3. PICK g : Reading(g, a) /\ g \in [0 .. N + 1 -> Int] /\ Number(a) = g[N + 1]
  BY <1>1, NumberRecursion
<1> HIDE DEF N
<1> DEFINE T == {n \in 0 .. N : g[n] = h[n]}
<1>4. 0 .. N \subseteq T
  <2>1. 0 \in T
    BY <1>1, <1>2, <1>3 DEF Reading
  <2>2. ASSUME NEW n \in 1 .. N, n - 1 \in T
        PROVE  n \in T
    <3> DEFINE v == (CHOOSE e \in DOMAIN Digit : Digit[e] = line[n])
    <3>1. g[n - 1] = h[n - 1] /\ n \in 0 .. N /\ n \in 1 .. N + 1 /\ a[n] = line[n]
      BY <1>1, <2>2
    <3>2. n \in 1 .. Len(a) /\ n \in 1 .. Len(line)
      BY <1>1, <3>1 DEF N
    <3>3. h[n] = 10 * h[n - 1] + v - 1
      BY <1>2, <3>2 DEF Reading
    <3>4. g[n] = 10 * g[n - 1] + (CHOOSE e \in DOMAIN Digit : Digit[e] = a[n]) - 1
      BY <1>3, <3>2 DEF Reading
    <3>5. g[n] = 10 * g[n - 1] + v - 1
      BY <3>1, <3>4
    <3> HIDE DEF v
    <3> QED
      BY <3>1, <3>3, <3>5
  <2> HIDE DEF T
  <2> QED
    BY <1>1, <2>1, <2>2, Climb
<1>5. g[N] = m
  <2>1. N \in 0 .. N
    BY <1>1
  <2> QED
    BY <1>2, <1>4, <2>1
<1>6. g[N + 1] = 10 * g[N] + Figure(Digit[d])
  <2>1. N + 1 \in 1 .. Len(a) /\ (N + 1) - 1 = N
    BY <1>1
  <2> DEFINE v == (CHOOSE e \in DOMAIN Digit : Digit[e] = Digit[d])
  <2>2. g[N + 1] = 10 * g[(N + 1) - 1] + v - 1
    <3>1. g[N + 1] = 10 * g[(N + 1) - 1] + (CHOOSE e \in DOMAIN Digit : Digit[e] = a[N + 1]) - 1
      BY <1>3, <2>1 DEF Reading
    <3>2. a[N + 1] = Digit[d]
      BY <1>1
    <3> QED
      BY <3>1, <3>2
  <2>3. Figure(Digit[d]) = v - 1 /\ Figure(Digit[d]) = d - 1
    BY FigureOfDigit DEF Figure
  <2> HIDE DEF v
  <2> QED
    BY <2>1, <2>2, <2>3
<1>7. Figure(Digit[d]) = d - 1
  BY FigureOfDigit
<1> QED
  BY <1>1, <1>3, <1>5, <1>6, <1>7 DEF a

(* The number that Decimal writes is the one that is read.                 *)
LEMMA DecimalRead ==
  ASSUME NEW N \in Nat
  PROVE  /\ Decimal(N) \in Seq(Figures) /\ Decimal(N) # <<>> /\ Number(Decimal(N)) = N
         /\ N # 0 => Decimal(-N) = <<"-">> \o Decimal(N)
<1>1. PICK f : Decimals(f, N) /\ Decimal(N) = f[N] /\ (N # 0 => Decimal(-N) = <<"-">> \o f[N])
  BY DecimalRecursion
<1> DEFINE Good(q, n) == q \in Seq(Figures) /\ q # <<>> /\ Number(q) = n
           Bad == {n \in 0 .. N : ~Good(f[n], n)}
<1>2. Bad = {}
  <2> SUFFICES ASSUME Bad # {}
               PROVE  FALSE
    OBVIOUS
  <2>1. Bad \subseteq Nat
    OBVIOUS
  <2> HIDE DEF Bad
  <2>2. PICK n \in Bad : \A k \in Bad : n <= k
    BY <2>1, LeastNumber
  <2> USE DEF Bad
  <2>3. CASE n < 10
    <3>1. f[n] = <<Digit[n + 1]>> /\ Digit[n + 1] \in Figures
      <4>1. n \in 0 .. N
        BY <2>2
      <4>2. f[n] = IF n < 10 THEN <<Digit[n + 1]>> ELSE Append(f[n \div 10], Digit[(n % 10) + 1])
        BY <1>1, <4>1 DEF Decimals
      <4>3. n + 1 \in 1 .. 10
        BY <2>3, <4>1
      <4> QED
        BY <2>3, <4>2, <4>3, FigureOfDigit
    <3> DEFINE none == <<>>
    <3>2. none \in Seq(Figures) /\ Len(none) = 0 /\ Append(none, Digit[n + 1]) = <<Digit[n + 1]>>
      OBVIOUS
    <3> HIDE DEF none
    <3>3. Number(none) = 0
      <4>1. PICK g : Reading(g, none) /\ Number(none) = g[Len(none)]
        BY <3>2, NumberRecursion
      <4> QED
        BY <3>2, <4>1 DEF Reading
    <3>4. Number(<<Digit[n + 1]>>) = n
      <4>1. n + 1 \in 1 .. 10 /\ 0 \in Nat /\ 10 * 0 + ((n + 1) - 1) = n
        BY <2>2, <2>3
      <4>2. Number(Append(none, Digit[n + 1])) = 10 * 0 + ((n + 1) - 1)
        BY <3>2, <3>3, <4>1, NumberAppend
      <4> QED
        BY <3>2, <4>1, <4>2
    <3>5. Good(f[n], n)
      BY <3>1, <3>4
    <3> HIDE DEF Good
    <3> QED
      BY <2>2, <3>5
  <2>4. CASE n >= 10
    <3> DEFINE k == n \div 10
               d == (n % 10) + 1
    <3>1. k \in 0 .. n - 1 /\ d \in 1 .. 10 /\ 10 * k + (d - 1) = n
      BY <2>2, <2>4, TenthIsLess
    <3>2. f[n] = Append(f[k], Digit[d])
      <4>1. n \in 0 .. N /\ ~(n < 10)
        BY <2>2, <2>4
      <4>2. f[n] = IF n < 10 THEN <<Digit[n + 1]>> ELSE Append(f[n \div 10], Digit[(n % 10) + 1])
        BY <1>1, <4>1 DEF Decimals
      <4> QED
        BY <4>1, <4>2
    <3> HIDE DEF k, d
    <3>3. Good(f[k], k)
      BY <2>2, <3>1
    <3>4. Append(f[k], Digit[d]) \in Seq(Figures) /\ Number(Append(f[k], Digit[d])) = n
      <4>1. k \in Nat
        BY <2>2, <3>1
      <4> QED
        BY <3>1, <3>3, <4>1, NumberAppend
    <3>5. Append(f[k], Digit[d]) # <<>>
      <4>1. Digit[d] \in Figures
        BY <3>1, FigureOfDigit
      <4> QED
        BY <3>3, <4>1, AppendProperties
    <3> QED
      BY <2>2, <3>2, <3>4, <3>5
  <2> QED
    BY <2>2, <2>3, <2>4
<1>3. Good(f[N], N)
  BY <1>2
<1> QED
  BY <1>1, <1>3

-----------------------------------------------------------------------------
(* Replies: what a client reads.                                           *)

(* A part of a sequence that is known element by element.                  *)
LEMMA Slice ==
  ASSUME NEW S, NEW s \in Seq(S), NEW u \in Seq(S), NEW a \in Nat, a + Len(u) <= Len(s),
         \A i \in 1 .. Len(u) : s[a + i] = u[i]
  PROVE  SubSeq(s, a + 1, a + Len(u)) = u
<1> DEFINE v == SubSeq(s, a + 1, a + Len(u))
<1>1. Len(s) \in Nat /\ Len(u) \in Nat
  BY LenProperties
<1>2. /\ a + 1 \in 1 .. Len(s) + 1 /\ a + Len(u) \in (a + 1) - 1 .. Len(s)
      /\ (a + Len(u)) - (a + 1) + 1 = Len(u)
      /\ \A i \in 1 .. Len(u) : a + 1 + i - 1 = a + i
  BY <1>1
<1>3. /\ v \in Seq(S) /\ Len(v) = (a + Len(u)) - (a + 1) + 1
      /\ \A i \in 1 .. (a + Len(u)) - (a + 1) + 1 : v[i] = s[a + 1 + i - 1]
  BY <1>2, Cut
<1> HIDE DEF v
<1>4. Len(v) = Len(u) /\ \A i \in 1 .. Len(v) : v[i] = u[i]
  BY <1>2, <1>3
<1>5. v = u
  BY <1>3, <1>4, SeqEqual
<1> QED
  BY <1>5 DEF v

ReplyEnds(s) == {i \in 1 .. Len(s) - 1 : s[i] = "CR" /\ s[i + 1] = "LF"}

(* A prefix, a line, a line end, and what comes after it.                  *)
BeginsWithLine(s, p, line, after, S) ==
  /\ {"CR", "LF"} \subseteq S /\ p \in S /\ line \in Seq(S) /\ after \in Seq(S)
  /\ p # "CR" /\ OneLine(line)
  /\ s = ((<<p>> \o line) \o CRLF) \o after

(* The line ends at the first line end.                                    *)
LEMMA FirstLine ==
  ASSUME NEW S, NEW p, NEW line, NEW after, NEW s, BeginsWithLine(s, p, line, after, S)
  PROVE  /\ s \in Seq(S) /\ s # <<>> /\ Len(s) >= 1 + Len(after)
         /\ ReplyEnds(s) # {} /\ Head(s) = p
         /\ SubSeq(s, 2, Min(ReplyEnds(s)) - 1) = line
         /\ SubSeq(s, Min(ReplyEnds(s)) + 2, Len(s)) = after
<1> DEFINE L == Len(line)
           R == Len(after)
           a == <<p>> \o line
           b == a \o CRLF
<1>. /\ "CR" \in S /\ "LF" \in S /\ p \in S /\ line \in Seq(S) /\ after \in Seq(S)
     /\ p # "CR" /\ OneLine(line)
     /\ s = ((<<p>> \o line) \o CRLF) \o after
  BY DEF BeginsWithLine
<1>0. \A x, y \in Seq(S) :
        /\ x \o y \in Seq(S) /\ Len(x \o y) = Len(x) + Len(y)
        /\ \A i \in 1 .. Len(x) : (x \o y)[i] = x[i]
        /\ \A i \in 1 .. Len(y) : (x \o y)[Len(x) + i] = y[i]
  BY Joined
<1>1. L \in Nat /\ R \in Nat
  BY LenProperties
<1>2. /\ a \in Seq(S) /\ Len(a) = 1 + L /\ a[1] = p
      /\ \A i \in 1 .. L : a[1 + i] = line[i]
  <2> DEFINE u == <<p>>
  <2>1. u \in Seq(S) /\ Len(u) = 1 /\ u[1] = p
    OBVIOUS
  <2> HIDE DEF u
  <2>2. /\ u \o line \in Seq(S) /\ Len(u \o line) = Len(u) + Len(line)
        /\ \A i \in 1 .. Len(u) : (u \o line)[i] = u[i]
        /\ \A i \in 1 .. Len(line) : (u \o line)[Len(u) + i] = line[i]
    BY <1>0, <2>1
  <2> QED
    BY <2>1, <2>2 DEF u
<1>3. CRLF \in Seq(S) /\ Len(CRLF) = 2 /\ CRLF[1] = "CR" /\ CRLF[2] = "LF"
  BY DEF CRLF
<1> HIDE DEF a, L, R
<1>4. /\ b \in Seq(S) /\ Len(b) = L + 3
      /\ \A i \in 1 .. 1 + L : b[i] = a[i]
      /\ b[L + 2] = "CR" /\ b[L + 3] = "LF"
  <2>1. /\ b \in Seq(S) /\ Len(b) = Len(a) + Len(CRLF)
        /\ \A i \in 1 .. Len(a) : b[i] = a[i]
        /\ \A i \in 1 .. Len(CRLF) : b[Len(a) + i] = CRLF[i]
    BY <1>0, <1>2, <1>3
  <2> HIDE DEF b
  <2>2. /\ 1 \in 1 .. Len(CRLF) /\ 2 \in 1 .. Len(CRLF)
        /\ Len(a) + 1 = L + 2 /\ Len(a) + 2 = L + 3 /\ Len(a) + Len(CRLF) = L + 3
    BY <1>1, <1>2, <1>3
  <2> QED
    BY <1>2, <1>3, <2>1, <2>2
<1> HIDE DEF b
<1>5. /\ s \in Seq(S) /\ Len(s) = L + 3 + R
      /\ \A i \in 1 .. L + 3 : s[i] = b[i]
      /\ \A i \in 1 .. R : s[L + 3 + i] = after[i]
  <2>1. s = b \o after
    BY DEF a, b
  <2>2. /\ b \o after \in Seq(S) /\ Len(b \o after) = Len(b) + Len(after)
        /\ \A i \in 1 .. Len(b) : (b \o after)[i] = b[i]
        /\ \A i \in 1 .. Len(after) : (b \o after)[Len(b) + i] = after[i]
    BY <1>0, <1>4
  <2> QED
    BY <1>4, <2>1, <2>2 DEF R
<1>6. /\ s[1] = p /\ \A i \in 1 .. L : s[1 + i] = line[i]
      /\ s[L + 2] = "CR" /\ s[L + 3] = "LF"
  <2>1. 1 \in 1 .. 1 + L /\ 1 \in 1 .. L + 3 /\ L + 2 \in 1 .. L + 3 /\ L + 3 \in 1 .. L + 3
        /\ \A i \in 1 .. L : 1 + i \in 1 .. 1 + L /\ 1 + i \in 1 .. L + 3
    BY <1>1
  <2> QED
    BY <1>2, <1>4, <1>5, <2>1
<1> DEFINE E == ReplyEnds(s)
<1>7. L + 2 \in E
  <2>1. L + 2 \in 1 .. Len(s) - 1 /\ (L + 2) + 1 = L + 3
    BY <1>1, <1>5
  <2> QED
    BY <1>6, <2>1 DEF ReplyEnds
<1>8. ASSUME NEW i \in E
      PROVE  L + 2 <= i
  <2> SUFFICES ASSUME i < L + 2
               PROVE  FALSE
    BY <1>1 DEF ReplyEnds
  <2>1. i \in 1 .. Len(s) - 1 /\ s[i] = "CR" /\ s[i + 1] = "LF"
    BY DEF ReplyEnds
  <2>2. i # 1
    BY <1>6, <2>1
  <2>3. i - 1 \in 1 .. L /\ 1 + (i - 1) = i
    BY <1>1, <1>5, <2>1, <2>2
  <2>4. line[i - 1] = "CR"
    BY <1>6, <2>1, <2>3
  <2>6. CASE i - 1 = L
    <3>1. i + 1 = L + 2
      BY <2>3, <2>6
    <3> QED
      BY <1>6, <2>1, <3>1
  <2>7. CASE i - 1 # L
    <3>1. i \in 1 .. L /\ 1 + i = i + 1 /\ (i - 1) + 1 = i
      BY <1>1, <2>3, <2>7
    <3>2. line[i] = "LF"
      BY <1>6, <2>1, <3>1
    <3> QED
      <4>1. i - 1 \in 1 .. Len(line) - 1
        BY <1>1, <2>3, <2>7 DEF L
      <4> QED
        BY <2>4, <3>1, <3>2, <4>1 DEF OneLine
  <2> QED
    BY <2>6, <2>7
<1>9. Min(E) = L + 2
  <2> HIDE DEF E
  <2>1. \A i \in E : i \in Int
    BY DEF E, ReplyEnds
  <2>2. \A x \in E : (\A y \in E : x <= y) => x = L + 2
    <3> SUFFICES ASSUME NEW x \in E, \A y \in E : x <= y
                 PROVE  x = L + 2
      OBVIOUS
    <3>1. x <= L + 2 /\ L + 2 <= x /\ x \in Int
      BY <1>7, <1>8, <2>1
    <3> QED
      BY <1>1, <3>1
  <2> QED
    BY <1>7, <1>8, <2>2 DEF Min
<1>10. SubSeq(s, 2, (L + 2) - 1) = line
  <2>1. 1 + L <= Len(s) /\ 1 + 1 = 2 /\ 1 + L = (L + 2) - 1
    BY <1>1, <1>5
  <2>2. SubSeq(s, 1 + 1, 1 + Len(line)) = line
    BY <1>5, <1>6, <2>1, Slice DEF L
  <2> QED
    BY <2>1, <2>2 DEF L
<1>11. SubSeq(s, (L + 2) + 2, Len(s)) = after
  <2>1. L + 3 \in Nat /\ (L + 3) + R <= Len(s) /\ (L + 3) + 1 = (L + 2) + 2 /\ (L + 3) + R = Len(s)
    BY <1>1, <1>5
  <2>2. SubSeq(s, (L + 3) + 1, (L + 3) + Len(after)) = after
    BY <1>5, <2>1, Slice DEF R
  <2> QED
    BY <2>1, <2>2 DEF R
<1>12. s # <<>> /\ Head(s) = p /\ Len(s) >= 1 + R
  BY <1>1, <1>5, <1>6
<1> QED
  BY <1>5, <1>7, <1>9, <1>10, <1>11, <1>12 DEF E, R

(* A reply that is one line, and what follows it.                          *)
LEMMA LineReply ==
  ASSUME NEW S, NEW p, NEW line, NEW after, NEW s, BeginsWithLine(s, p, line, after, S),
         ~(p = "$" /\ line # <<"-", "1">>)
  PROVE  /\ s \in Seq(S) /\ s # <<>> /\ Len(s) > Len(after)
         /\ FirstReply(s) = [reply |-> <<p, line>>, rest |-> after]
<1>1. /\ s \in Seq(S) /\ s # <<>> /\ Len(s) >= 1 + Len(after)
      /\ ReplyEnds(s) # {} /\ Head(s) = p
      /\ SubSeq(s, 2, Min(ReplyEnds(s)) - 1) = line
      /\ SubSeq(s, Min(ReplyEnds(s)) + 2, Len(s)) = after
  BY FirstLine
<1>2. Len(s) \in Nat /\ Len(after) \in Nat
  BY <1>1, LenProperties DEF BeginsWithLine
<1>3. FirstReply(s) = [reply |-> <<p, line>>, rest |-> after]
  BY <1>1 DEF FirstReply, ReplyEnds
<1> QED
  BY <1>1, <1>2, <1>3

(* Figures are no line end, nor is a sign.                                 *)
LEMMA DecimalIsLine ==
  ASSUME NEW n \in Int, NEW S, Figures \subseteq S, "-" \in S
  PROVE  Decimal(n) \in Seq(S) /\ OneLine(Decimal(n)) /\ (n >= 0 => Decimal(n) # <<"-", "1">>)
<1>1. PICK m \in Nat : n = m \/ (n = -m /\ m # 0)
  <2>1. CASE n >= 0
    BY <2>1
  <2>2. CASE n < 0
    <3>1. -n \in Nat /\ n = -(-n) /\ -n # 0
      BY <2>2
    <3> QED
      BY <3>1
  <2> QED
    BY <2>1, <2>2
<1> DEFINE q == Decimal(m)
<1>2. q \in Seq(Figures) /\ q # <<>> /\ (m # 0 => Decimal(-m) = <<"-">> \o q)
  BY DecimalRead
<1>3. q \in Seq(S) /\ Len(q) \in Nat /\ DOMAIN q = 1 .. Len(q)
  BY <1>2, SeqMonotonic, LenProperties
<1>4. \A i \in 1 .. Len(q) : q[i] \notin {"CR", "LF", "-"}
  <2> SUFFICES ASSUME NEW i \in 1 .. Len(q)
               PROVE  q[i] \notin {"CR", "LF", "-"}
    OBVIOUS
  <2>1. q[i] \in Figures
    BY <1>2, ElementOfSeq
  <2> QED
    BY <2>1, FigureOfDigit
<1>5. CASE n = m
  <2>1. q # <<"-", "1">>
    <3>1. Len(q) = 2 => 1 \in 1 .. Len(q)
      OBVIOUS
    <3> HIDE DEF q
    <3> QED
      BY <1>4, <3>1
  <2> QED
    BY <1>3, <1>4, <1>5, <2>1 DEF OneLine
<1>6. CASE n = -m /\ m # 0
  <2> DEFINE minus == <<"-">>
             t == minus \o q
  <2>1. minus \in Seq(S) /\ Len(minus) = 1 /\ minus[1] = "-"
    OBVIOUS
  <2> HIDE DEF minus, q
  <2>2. /\ t \in Seq(S) /\ Len(t) = Len(minus) + Len(q)
        /\ \A i \in 1 .. Len(minus) : t[i] = minus[i]
        /\ \A i \in 1 .. Len(q) : t[Len(minus) + i] = q[i]
    <3>1. \A x, y \in Seq(S) :
            /\ x \o y \in Seq(S) /\ Len(x \o y) = Len(x) + Len(y)
            /\ \A i \in 1 .. Len(x) : (x \o y)[i] = x[i]
            /\ \A i \in 1 .. Len(y) : (x \o y)[Len(x) + i] = y[i]
      BY Joined
    <3> QED
      BY <1>3, <2>1, <3>1
  <2>3. t \in Seq(S) /\ Len(t) = 1 + Len(q) /\ DOMAIN t = 1 .. 1 + Len(q)
    BY <2>1, <2>2, LenProperties
  <2>4. \A i \in 1 .. 1 + Len(q) : t[i] # "CR"
    <3> SUFFICES ASSUME NEW i \in 1 .. 1 + Len(q)
                 PROVE  t[i] # "CR"
      OBVIOUS
    <3>1. CASE i = 1
      BY <2>1, <2>2, <3>1
    <3>2. CASE i # 1
      <4>1. i - 1 \in 1 .. Len(q) /\ 1 + (i - 1) = i
        BY <1>3, <3>2
      <4>2. t[1 + (i - 1)] = q[i - 1]
        BY <2>1, <2>2, <4>1
      <4> QED
        BY <1>4, <4>1, <4>2
    <3> QED
      BY <3>1, <3>2
  <2>5. OneLine(t)
    BY <2>3, <2>4 DEF OneLine
  <2>6. Decimal(n) = t /\ ~(n >= 0)
    BY <1>2, <1>6 DEF minus
  <2> QED
    BY <2>3, <2>5, <2>6
<1> QED
  BY <1>1, <1>5, <1>6

BeginsWithBulk(s, data, after, S) ==
  /\ {"CR", "LF", "$", "-"} \subseteq S /\ Figures \subseteq S
  /\ data \in Seq(S) /\ after \in Seq(S)
  /\ s = serialize_bulk(data) \o after

(* A bulk string, whatever it contains, and what follows it.               *)
LEMMA BulkReply ==
  ASSUME NEW S, NEW data, NEW after, NEW s, BeginsWithBulk(s, data, after, S)
  PROVE  /\ s \in Seq(S) /\ s # <<>> /\ Len(s) > Len(after)
         /\ FirstReply(s) = [reply |-> <<"$", data>>, rest |-> after]
<1> DEFINE n == Len(data)
           size == Decimal(n)
           head == (<<"$">> \o size) \o CRLF
           u == data \o CRLF
           t == u \o after
<1>. /\ "CR" \in S /\ "LF" \in S /\ "$" \in S /\ "-" \in S /\ Figures \subseteq S
     /\ data \in Seq(S) /\ after \in Seq(S)
  BY DEF BeginsWithBulk
<1>1. n \in Nat /\ Len(after) \in Nat
  BY LenProperties
<1>2. size \in Seq(S) /\ OneLine(size) /\ size # <<"-", "1">> /\ Number(size) = n
  <2>1. n \in Int /\ n >= 0 /\ "-" \in S
    BY <1>1
  <2> QED
    BY <1>1, <2>1, DecimalIsLine, DecimalRead
<1>3. CRLF \in Seq(S) /\ Len(CRLF) = 2 /\ <<"$">> \in Seq(S)
  BY DEF CRLF
<1> HIDE DEF size
<1>4. \A x, y \in Seq(S) :
        /\ x \o y \in Seq(S) /\ Len(x \o y) = Len(x) + Len(y)
        /\ \A i \in 1 .. Len(x) : (x \o y)[i] = x[i]
        /\ \A i \in 1 .. Len(y) : (x \o y)[Len(x) + i] = y[i]
  BY Joined
<1>5. head \in Seq(S)
  BY <1>2, <1>3, <1>4
<1>6. /\ u \in Seq(S) /\ Len(u) = n + 2
      /\ \A i \in 1 .. n : u[i] = data[i]
      /\ \A i \in 1 .. 2 : u[n + i] = CRLF[i]
  <2>1. /\ u \in Seq(S) /\ Len(u) = Len(data) + Len(CRLF)
        /\ \A i \in 1 .. Len(data) : u[i] = data[i]
        /\ \A i \in 1 .. Len(CRLF) : u[Len(data) + i] = CRLF[i]
    BY <1>3, <1>4
  <2> HIDE DEF u
  <2> QED
    BY <1>3, <2>1
<1> HIDE DEF n, head, u
<1>7. /\ t \in Seq(S) /\ Len(t) = n + 2 + Len(after)
      /\ \A i \in 1 .. n + 2 : t[i] = u[i]
      /\ \A i \in 1 .. Len(after) : t[n + 2 + i] = after[i]
  <2>1. /\ t \in Seq(S) /\ Len(t) = Len(u) + Len(after)
        /\ \A i \in 1 .. Len(u) : t[i] = u[i]
        /\ \A i \in 1 .. Len(after) : t[Len(u) + i] = after[i]
    BY <1>4, <1>6
  <2> HIDE DEF t
  <2> QED
    BY <1>6, <2>1
<1>8. s = head \o t
  <2>1. \A x, y, z \in Seq(S) : (x \o y) \o z = x \o (y \o z)
    BY ConcatAssociative
  <2>2. s = ((head \o data) \o CRLF) \o after
    BY DEF BeginsWithBulk, serialize_bulk, Length, head, size, n
  <2>3. (head \o data) \o CRLF = head \o u
    BY <1>3, <1>5, <2>1 DEF u
  <2>4. (head \o u) \o after = head \o (u \o after)
    BY <1>5, <1>6, <2>1
  <2> QED
    BY <2>2, <2>3, <2>4
<1> HIDE DEF t
<1>9. /\ s \in Seq(S) /\ s # <<>> /\ Len(s) >= 1 + Len(t)
      /\ ReplyEnds(s) # {} /\ Head(s) = "$"
      /\ SubSeq(s, 2, Min(ReplyEnds(s)) - 1) = size
      /\ SubSeq(s, Min(ReplyEnds(s)) + 2, Len(s)) = t
  <2>1. PICK p : p = "$"
    OBVIOUS
  <2>2. BeginsWithLine(s, p, size, t, S)
    BY <1>2, <1>7, <1>8, <2>1 DEF BeginsWithLine, head
  <2>3. PICK line, rest : line = size /\ rest = t
    OBVIOUS
  <2>4. BeginsWithLine(s, p, line, rest, S)
    BY <2>2, <2>3
  <2>5. /\ s \in Seq(S) /\ s # <<>> /\ Len(s) >= 1 + Len(rest)
        /\ ReplyEnds(s) # {} /\ Head(s) = p
        /\ SubSeq(s, 2, Min(ReplyEnds(s)) - 1) = line
        /\ SubSeq(s, Min(ReplyEnds(s)) + 2, Len(s)) = rest
    BY <2>4, FirstLine
  <2> QED
    BY <2>1, <2>3, <2>5
<1>10. SubSeq(t, n + 1, n + 2) = CRLF
  <2>1. \A i \in 1 .. 2 : t[n + i] = CRLF[i]
    BY <1>1, <1>6, <1>7
  <2>2. n + 2 <= Len(t)
    BY <1>1, <1>7
  <2> QED
    BY <1>1, <1>3, <1>7, <2>1, <2>2, Slice
<1>11. SubSeq(t, 1, n) = data
  <2>1. \A i \in 1 .. Len(data) : t[0 + i] = data[i]
    BY <1>1, <1>6, <1>7 DEF n
  <2>2. 0 \in Nat /\ 0 + Len(data) <= Len(t) /\ 0 + 1 = 1 /\ 0 + Len(data) = n
    BY <1>1, <1>7 DEF n
  <2>3. SubSeq(t, 0 + 1, 0 + Len(data)) = data
    BY <1>7, <2>1, <2>2, Slice
  <2> QED
    BY <2>2, <2>3
<1>12. SubSeq(t, n + 3, Len(t)) = after
  <2>1. n + 2 \in Nat /\ (n + 2) + 1 = n + 3 /\ (n + 2) + Len(after) = Len(t)
        /\ (n + 2) + Len(after) <= Len(t)
    BY <1>1, <1>7
  <2>2. SubSeq(t, (n + 2) + 1, (n + 2) + Len(after)) = after
    <3>1. PICK a \in Nat : a = n + 2
      BY <2>1
    <3>2. a + Len(after) <= Len(t) /\ \A i \in 1 .. Len(after) : t[a + i] = after[i]
      BY <1>7, <2>1, <3>1
    <3>3. SubSeq(t, a + 1, a + Len(after)) = after
      BY <1>7, <3>2, Slice
    <3> QED
      BY <3>1, <3>3
  <2> QED
    BY <2>1, <2>2
<1>13. FirstReply(s) = [reply |-> <<"$", data>>, rest |-> after]
  BY <1>2, <1>9, <1>10, <1>11, <1>12 DEF FirstReply, ReplyEnds
<1>14. Len(s) > Len(after)
  <2>1. Len(s) \in Nat
    BY <1>9, LenProperties
  <2> QED
    BY <1>1, <1>7, <1>9, <2>1
<1> QED
  BY <1>9, <1>13, <1>14

(* If a text is one reply after the other, a client reads them all.        *)
LEMMA AllRead ==
  ASSUME NEW R, NEW replies \in Seq(R), NEW s, NEW rest, rest[1] = s,
         rest[Len(replies) + 1] = <<>>,
         \A n \in 1 .. Len(replies) + 1 : Len(rest[n]) \in Nat,
         \A n \in 1 .. Len(replies) :
           /\ rest[n] # <<>> /\ Len(rest[n]) > Len(rest[n + 1])
           /\ FirstReply(rest[n]) = [reply |-> replies[n], rest |-> rest[n + 1]]
  PROVE  ReadReplies(s) = replies
<1> DEFINE K == Len(replies)
           L == Len(s)
<1>1. K \in Nat /\ L \in Nat
  <2>1. K \in Nat
    BY LenProperties
  <2>2. 1 \in 1 .. K + 1
    BY <2>1
  <2> QED
    BY <2>1, <2>2
<1> HIDE DEF K, L
<1>2. K <= L
  <2> DEFINE T == {n \in 0 .. K : n <= Len(rest[K + 1 - n])}
  <2>1. 0 \in T
    <3>1. K + 1 - 0 \in 1 .. K + 1
      BY <1>1
    <3> QED
      BY <1>1, <3>1 DEF K
  <2>2. ASSUME NEW n \in 1 .. K, n - 1 \in T
        PROVE  n \in T
    <3>1. K + 1 - n \in 1 .. K /\ (K + 1 - n) + 1 = K + 1 - (n - 1)
      BY <1>1
    <3>2. Len(rest[K + 1 - n]) > Len(rest[K + 1 - (n - 1)]) /\ n - 1 <= Len(rest[K + 1 - (n - 1)])
      BY <2>2, <3>1 DEF K
    <3>3. K + 1 - n \in 1 .. K + 1 /\ K + 1 - (n - 1) \in 1 .. K + 1
      BY <1>1
    <3>4. Len(rest[K + 1 - n]) \in Nat /\ Len(rest[K + 1 - (n - 1)]) \in Nat
      BY <3>3 DEF K
    <3>5. n <= Len(rest[K + 1 - n])
      BY <3>2, <3>4
    <3>6. n \in 0 .. K
      BY <1>1
    <3> QED
      BY <3>5, <3>6
  <2>3. K \in T
    <3> HIDE DEF T
    <3>1. 0 .. K \subseteq T
      BY <1>1, <2>1, <2>2, Climb
    <3> QED
      BY <1>1, <3>1
  <2>4. K + 1 - K = 1
    BY <1>1
  <2> QED
    BY <2>3, <2>4 DEF L
<1> DEFINE Def(k) == [n \in 0 .. Len(s) |->
                        IF n = 0 THEN [replies |-> <<>>, rest |-> s]
                        ELSE LET before == k[n - 1]
                                 next == FirstReply(before.rest)
                             IN IF before.rest = <<>> THEN before
                                ELSE [replies |-> Append(before.replies, next.reply), rest |-> next.rest]]
           read == CHOOSE k : k = Def(k)
           upTo(n) == IF n <= K THEN n ELSE K
           state(n) == [replies |-> SubSeq(replies, 1, upTo(n)), rest |-> rest[upTo(n) + 1]]
           h == [n \in 0 .. L |-> state(n)]
<1>3. state(0) = [replies |-> <<>>, rest |-> s]
  <2>1. upTo(0) = 0 /\ 0 + 1 = 1
    BY <1>1
  <2>2. SubSeq(replies, 1, 0) = <<>>
    BY SubSeqEmpty
  <2> QED
    BY <2>1, <2>2
<1>4. ASSUME NEW n \in 1 .. L
      PROVE  state(n) = LET before == state(n - 1)
                            next == FirstReply(before.rest)
                        IN IF before.rest = <<>> THEN before
                           ELSE [replies |-> Append(before.replies, next.reply), rest |-> next.rest]
  <2>1. CASE n <= K
    <3>1. upTo(n) = n /\ upTo(n - 1) = n - 1 /\ (n - 1) + 1 = n /\ n \in 1 .. K
      BY <1>1, <2>1
    <3>2. /\ rest[n] # <<>>
          /\ FirstReply(rest[n]) = [reply |-> replies[n], rest |-> rest[n + 1]]
      BY <3>1 DEF K
    <3>3. SubSeq(replies, 1, n) = Append(SubSeq(replies, 1, n - 1), replies[n])
      <4>1. n \in 1 .. Len(replies) /\ 1 \in 1 .. Len(replies) /\ n \in 1 .. Len(replies)
        BY <1>1, <3>1 DEF K
      <4>2. SubSeq(replies, 1, n) = SubSeq(replies, 1, n - 1) \o <<replies[n]>>
        BY <4>1, SubSeqRecursiveSecond
      <4>3. SubSeq(replies, 1, n - 1) \in Seq(R) /\ replies[n] \in R
        <5>1. replies[n] \in R
          BY <4>1, ElementOfSeq
        <5>2. 1 \in 1 .. Len(replies) + 1 /\ n - 1 \in 1 - 1 .. Len(replies)
          BY <1>1, <4>1 DEF K
        <5> QED
          BY <5>1, <5>2, Cut
      <4> QED
        BY <4>2, <4>3, AppendIsConcat
    <3>4. /\ state(n) = [replies |-> SubSeq(replies, 1, n), rest |-> rest[n + 1]]
          /\ state(n - 1) = [replies |-> SubSeq(replies, 1, n - 1), rest |-> rest[n]]
      BY <3>1
    <3> HIDE DEF state
    <3>5. /\ state(n - 1).rest = rest[n] /\ state(n - 1).replies = SubSeq(replies, 1, n - 1)
          /\ FirstReply(state(n - 1).rest).reply = replies[n]
          /\ FirstReply(state(n - 1).rest).rest = rest[n + 1]
      BY <3>2, <3>4
    <3> QED
      BY <3>2, <3>3, <3>4, <3>5
  <2>2. CASE n > K
    <3>1. upTo(n) = K /\ upTo(n - 1) = K
      BY <1>1, <2>2
    <3>2. rest[K + 1] = <<>>
      BY DEF K
    <3> HIDE DEF upTo
    <3> QED
      BY <3>1, <3>2
  <2> QED
    BY <1>1, <2>1, <2>2
<1> HIDE DEF state
<1>5. h = Def(h)
  <2>1. ASSUME NEW n \in 0 .. L
        PROVE  h[n] = Def(h)[n]
    <3>1. CASE n = 0
      BY <1>3, <3>1 DEF L
    <3>2. CASE n # 0
      <4>1. n \in 1 .. L /\ n - 1 \in 0 .. L
        BY <1>1, <3>2
      <4>2. h[n] = state(n) /\ h[n - 1] = state(n - 1)
        BY <4>1
      <4>3. Def(h)[n] = LET before == h[n - 1]
                            next == FirstReply(before.rest)
                        IN IF before.rest = <<>> THEN before
                           ELSE [replies |-> Append(before.replies, next.reply), rest |-> next.rest]
        <5> HIDE DEF h
        <5> QED
          BY <3>2 DEF L
      <4> HIDE DEF h, Def
      <4> QED
        BY <1>4, <4>1, <4>2, <4>3
    <3> QED
      BY <3>1, <3>2
  <2>2. h = [n \in 0 .. L |-> h[n]]
    OBVIOUS
  <2> HIDE DEF h
  <2>3. Def(h) = [n \in 0 .. L |-> Def(h)[n]]
    BY DEF L
  <2> HIDE DEF Def
  <2> QED
    BY <2>1, <2>2, <2>3
<1>6. read = Def(read)
  <2> HIDE DEF Def, h
  <2> QED
    BY <1>5
<1>7. ReadReplies(s) = read[Len(s)].replies
  BY DEF ReadReplies
<1> HIDE DEF read
<1>8. \A n \in 0 .. L : read[n] = Def(read)[n] /\ h[n] = Def(h)[n]
  <2> HIDE DEF Def, h
  <2> QED
    BY <1>5, <1>6
<1> DEFINE T == {n \in 0 .. L : read[n] = h[n]}
<1> HIDE DEF h
<1>9. 0 .. L \subseteq T
  <2>1. 0 \in T
    <3>1. 0 \in 0 .. L
      BY <1>1
    <3>2. \A k : Def(k)[0] = [replies |-> <<>>, rest |-> s]
      BY <3>1 DEF L
    <3> HIDE DEF Def
    <3> QED
      BY <1>8, <3>1, <3>2
  <2>2. ASSUME NEW n \in 1 .. L, n - 1 \in T
        PROVE  n \in T
    <3>1. n \in 0 .. L /\ n # 0 /\ read[n - 1] = h[n - 1]
      BY <1>1, <2>2
    <3>2. Def(read)[n] = Def(h)[n]
      <4> DEFINE after(b) == LET next == FirstReply(b.rest)
                             IN IF b.rest = <<>> THEN b
                                ELSE [replies |-> Append(b.replies, next.reply), rest |-> next.rest]
      <4>1. \A k : Def(k)[n] = after(k[n - 1])
        BY <3>1 DEF L
      <4> HIDE DEF Def, after
      <4> QED
        BY <3>1, <4>1
    <3> HIDE DEF Def
    <3> QED
      BY <1>8, <3>1, <3>2
  <2> HIDE DEF T
  <2> QED
    BY <1>1, <2>1, <2>2, Climb
<1>10. read[L] = state(L)
  <2>1. L \in 0 .. L
    BY <1>1
  <2>2. L \in T
    <3> HIDE DEF T
    <3> QED
      BY <1>9, <2>1
  <2> QED
    BY <2>1, <2>2 DEF h
<1>11. state(L).replies = replies
  <2>1. upTo(L) = K
    BY <1>1, <1>2
  <2>2. SubSeq(replies, 1, K) = replies
    BY SubSeqFull DEF K
  <2> QED
    BY <2>1, <2>2 DEF state
<1> QED
  BY <1>7, <1>10, <1>11 DEF L

-----------------------------------------------------------------------------
(* The replies that RESPParser writes.                                     *)

(* The characters of the texts.                                            *)
Chars == Char \cup Figures \cup {"-", "+", ":"}

(* A client that is at s reads reply next, and is then at after.           *)
Answers(s, reply, after) ==
  /\ s \in Seq(Chars) /\ s # <<>> /\ Len(s) > Len(after)
  /\ FirstReply(s) = [reply |-> reply, rest |-> after]

(* Lines and bulk strings are such texts; a nil is a line like any other.  *)
LEMMA SerializedIsSeq ==
  ASSUME NEW x \in Seq(Chars), NEW n \in Int
  PROVE  /\ serialize(x) \in Seq(Chars) /\ serialize_error(x) \in Seq(Chars)
         /\ serialize_integer(n) \in Seq(Chars) /\ serialize_nil \in Seq(Chars)
         /\ serialize_bulk(x) \in Seq(Chars) /\ Decimal(n) \in Seq(Chars)
         /\ <<"*">> \o Decimal(n) \o CRLF \in Seq(Chars)
<1>1. Figures \subseteq Chars /\ \A ch \in {"+", "-", ":", "*", "$", "CR", "LF"} : ch \in Chars
  BY DEF Chars, Char
<1>2. "1" \in Chars
  BY <1>1, FigureOfDigit DEF Digit
<1>3. \A ch \in Chars : <<ch>> \in Seq(Chars)
  OBVIOUS
<1>4. CRLF \in Seq(Chars) /\ <<"$", "-", "1">> \in Seq(Chars)
  BY <1>1, <1>2 DEF CRLF
<1>5. Decimal(n) \in Seq(Chars) /\ Decimal(Len(x)) \in Seq(Chars)
  <2>1. Len(x) \in Int
    BY LenProperties
  <2> QED
    BY <1>1, <2>1, DecimalIsLine
<1>6. \A s, u \in Seq(Chars) : s \o u \in Seq(Chars)
  BY Joined
<1>7. <<"+">> \in Seq(Chars) /\ <<"-">> \in Seq(Chars) /\ <<":">> \in Seq(Chars)
      /\ <<"*">> \in Seq(Chars) /\ <<"$">> \in Seq(Chars)
  BY <1>1, <1>3
<1> HIDE DEF Chars
<1>8. serialize(x) \in Seq(Chars)
  BY <1>4, <1>6, <1>7 DEF serialize
<1>9. serialize_error(x) \in Seq(Chars)
  BY <1>4, <1>6, <1>7 DEF serialize_error
<1>10. serialize_integer(n) \in Seq(Chars)
  BY <1>4, <1>5, <1>6, <1>7 DEF serialize_integer
<1>11. serialize_nil \in Seq(Chars)
  BY <1>4, <1>6 DEF serialize_nil
<1>12. serialize_bulk(x) \in Seq(Chars)
  BY <1>4, <1>5, <1>6, <1>7 DEF serialize_bulk, Length
<1>13. <<"*">> \o Decimal(n) \o CRLF \in Seq(Chars)
  BY <1>4, <1>5, <1>6, <1>7
<1> QED
  BY <1>5, <1>8, <1>9, <1>10, <1>11, <1>12, <1>13

LEMMA LineAnswers ==
  ASSUME NEW p \in Chars, NEW line \in Seq(Chars), NEW after \in Seq(Chars),
         OneLine(line), p # "CR", ~(p = "$" /\ line # <<"-", "1">>)
  PROVE  Answers(<<p>> \o line \o CRLF \o after, <<p, line>>, after)
<1>1. PICK s : s = ((<<p>> \o line) \o CRLF) \o after
  OBVIOUS
<1>2. BeginsWithLine(s, p, line, after, Chars)
  BY <1>1 DEF BeginsWithLine, Chars, Char
<1>3. /\ s \in Seq(Chars) /\ s # <<>> /\ Len(s) > Len(after)
      /\ FirstReply(s) = [reply |-> <<p, line>>, rest |-> after]
  BY <1>2, LineReply
<1> QED
  BY <1>1, <1>3 DEF Answers

LEMMA BulkAnswers ==
  ASSUME NEW data \in Seq(Chars), NEW after \in Seq(Chars)
  PROVE  Answers(serialize_bulk(data) \o after, <<"$", data>>, after)
<1>1. PICK s : s = serialize_bulk(data) \o after
  OBVIOUS
<1>2. BeginsWithBulk(s, data, after, Chars)
  BY <1>1 DEF BeginsWithBulk, Chars, Char
<1>3. /\ s \in Seq(Chars) /\ s # <<>> /\ Len(s) > Len(after)
      /\ FirstReply(s) = [reply |-> <<"$", data>>, rest |-> after]
  BY <1>2, BulkReply
<1> QED
  BY <1>1, <1>3 DEF Answers

(* One answer after the other, to the end of the text.                     *)
LEMMA AnswersRead ==
  ASSUME NEW R, NEW replies \in Seq(R), NEW rest, rest[Len(replies) + 1] = <<>>,
         \A n \in 1 .. Len(replies) : Answers(rest[n], replies[n], rest[n + 1])
  PROVE  ReadReplies(rest[1]) = replies
<1>1. Len(replies) \in Nat
  BY LenProperties
<1>2. \A n \in 1 .. Len(replies) + 1 : Len(rest[n]) \in Nat
  <2> SUFFICES ASSUME NEW n \in 1 .. Len(replies) + 1
               PROVE  Len(rest[n]) \in Nat
    OBVIOUS
  <2>1. CASE n = Len(replies) + 1
    BY <2>1
  <2>2. CASE n # Len(replies) + 1
    <3>1. n \in 1 .. Len(replies)
      BY <1>1, <2>2
    <3>2. rest[n] \in Seq(Chars)
      BY <3>1 DEF Answers
    <3> QED
      BY <3>2, LenProperties
  <2> QED
    BY <2>1, <2>2
<1>3. \A n \in 1 .. Len(replies) :
        /\ rest[n] # <<>> /\ Len(rest[n]) > Len(rest[n + 1])
        /\ FirstReply(rest[n]) = [reply |-> replies[n], rest |-> rest[n + 1]]
  BY DEF Answers
<1>4. PICK s : s = rest[1]
  OBVIOUS
<1>5. ReadReplies(s) = replies
  BY <1>2, <1>3, <1>4, AllRead
<1> QED
  BY <1>4, <1>5

(* A nil, a number of items and an integer are lines, whatever follows.    *)
LEMMA NilAnswers ==
  ASSUME NEW after \in Seq(Chars)
  PROVE  Answers(serialize_nil \o after, <<"$", <<"-", "1">>>>, after)
<1> DEFINE line == <<"-", "1">>
<1>1. "$" \in Chars /\ "-" \in Chars /\ "1" \in Chars
  <2>1. "1" \in Figures
    BY FigureOfDigit DEF Digit
  <2> QED
    BY <2>1 DEF Chars, Char
<1>2. line \in Seq(Chars) /\ OneLine(line)
  BY <1>1 DEF OneLine
<1>3. <<"$", "-", "1">> = <<"$">> \o line
  OBVIOUS
<1>4. serialize_nil = <<"$">> \o line \o CRLF
  BY <1>3 DEF serialize_nil
<1> HIDE DEF line
<1>5. PICK p, l : p = "$" /\ l = line
  OBVIOUS
<1>6. p \in Chars /\ l \in Seq(Chars) /\ OneLine(l) /\ p # "CR" /\ ~(p = "$" /\ l # <<"-", "1">>)
  BY <1>1, <1>2, <1>5 DEF line
<1>7. Answers(<<p>> \o l \o CRLF \o after, <<p, l>>, after)
  BY <1>6, LineAnswers
<1> QED
  BY <1>4, <1>5, <1>7 DEF line

LEMMA NumberAnswers ==
  ASSUME NEW p \in {"*", ":"}, NEW n \in Int, NEW after \in Seq(Chars)
  PROVE  Answers(<<p>> \o Decimal(n) \o CRLF \o after, <<p, Decimal(n)>>, after)
<1>1. p \in Chars /\ p # "CR" /\ p # "$"
  BY DEF Chars, Char
<1>2. Decimal(n) \in Seq(Chars) /\ OneLine(Decimal(n))
  BY DecimalIsLine DEF Chars
<1> QED
  BY <1>1, <1>2, LineAnswers

(* The elements of an array are one behind the other.                      *)
LEMMA FlattenThree ==
  ASSUME NEW S, NEW seqs \in Seq(Seq(S)), Len(seqs) = 3
  PROVE  FlattenSeq(seqs) = (seqs[1] \o seqs[2]) \o seqs[3]
<1>1. PICK g : Flattens(g, seqs, S) /\ FlattenSeq(seqs) = g[3]
  BY FlattenRecursion
<1>2. g[0] = <<>> /\ g[1] = g[0] \o seqs[1] /\ g[2] = g[1] \o seqs[2] /\ g[3] = g[2] \o seqs[3]
  <2>1. /\ 1 \in 1 .. 3 /\ 1 - 1 = 0
        /\ 2 \in 1 .. 3 /\ 2 - 1 = 1
        /\ 3 \in 1 .. 3 /\ 3 - 1 = 2
    OBVIOUS
  <2>2. g[0] = <<>> /\ \A n \in 1 .. 3 : g[n] = g[n - 1] \o seqs[n]
    BY <1>1 DEF Flattens
  <2> QED
    BY <2>1, <2>2
<1>3. <<>> \o seqs[1] = seqs[1]
  <2>1. 1 \in 1 .. Len(seqs)
    OBVIOUS
  <2>2. seqs[1] \in Seq(S)
    BY <2>1, ElementOfSeq
  <2> QED
    BY <2>2, ConcatEmptySeq
<1> QED
  BY <1>1, <1>2, <1>3

(* Every string that is tried is one of the characters of the texts.       *)
RawInv == raw \in Seq(Char)

LEMMA RawInvariant == RespSpec => []RawInv
<1>1. RespInit => RawInv
  BY DEF RespInit, RawInv
<1>2. RawInv /\ [RespNext]_raw => RawInv'
  BY AppendProperties DEF RespNext, RawInv
<1> QED
  BY <1>1, <1>2, PTL DEF RespSpec

(* Three lines.                                                            *)
LEMMA LinesRead ==
  ASSUME NEW x \in Seq(Chars), NEW n \in Int, OneLine(x)
  PROVE  ReadReplies(serialize(x) \o serialize_error(x) \o serialize_integer(n))
           = <<<<"+", x>>, <<"-", x>>, <<":", Decimal(n)>>>>
<1> DEFINE r4 == <<>>
           r3 == serialize_integer(n) \o r4
           r2 == serialize_error(x) \o r3
           r1 == serialize(x) \o r2
           a1 == <<"+", x>>
           a2 == <<"-", x>>
           a3 == <<":", Decimal(n)>>
<1>1. /\ serialize(x) \in Seq(Chars) /\ serialize_error(x) \in Seq(Chars)
      /\ serialize_integer(n) \in Seq(Chars) /\ r4 \in Seq(Chars)
  BY SerializedIsSeq
<1>2. \A s, u \in Seq(Chars) : s \o u \in Seq(Chars)
  BY Joined
<1> HIDE DEF r4
<1>3. r3 \in Seq(Chars)
  BY <1>1, <1>2
<1> HIDE DEF r3
<1>4. r2 \in Seq(Chars)
  BY <1>1, <1>2, <1>3
<1> HIDE DEF r2
<1>5. Answers(r3, a3, r4)
  BY <1>1, NumberAnswers DEF serialize_integer, r3
<1>6. Answers(r2, a2, r3)
  <2>1. PICK p : p = "-"
    OBVIOUS
  <2>2. p \in Chars /\ p # "CR" /\ p # "$"
    BY <2>1 DEF Chars
  <2>3. Answers(<<p>> \o x \o CRLF \o r3, <<p, x>>, r3)
    BY <1>3, <2>2, LineAnswers
  <2> QED
    BY <2>1, <2>3 DEF serialize_error, r2
<1>7. Answers(r1, a1, r2)
  <2>1. PICK p : p = "+"
    OBVIOUS
  <2>2. p \in Chars /\ p # "CR" /\ p # "$"
    BY <2>1 DEF Chars
  <2>3. Answers(<<p>> \o x \o CRLF \o r2, <<p, x>>, r2)
    BY <1>4, <2>2, LineAnswers
  <2> QED
    BY <2>1, <2>3 DEF serialize
<1>8. r1 = serialize(x) \o serialize_error(x) \o serialize_integer(n)
  <2>1. r3 = serialize_integer(n)
    BY <1>1, ConcatEmptySeq DEF r3, r4
  <2>2. \A s, t, u \in Seq(Chars) : (s \o t) \o u = s \o (t \o u)
    BY ConcatAssociative
  <2> QED
    BY <1>1, <2>1, <2>2 DEF r2
<1> HIDE DEF r1, a1, a2, a3
<1> DEFINE rest == <<r1, r2, r3, r4>>
           replies == <<a1, a2, a3>>
<1>9. replies \in Seq({a1, a2, a3}) /\ Len(replies) = 3 /\ rest[1] = r1 /\ rest[3 + 1] = <<>>
  BY DEF r4
<1>10. \A i \in 1 .. 3 : Answers(rest[i], replies[i], rest[i + 1])
  <2>1. Answers(rest[1], replies[1], rest[1 + 1])
    BY <1>7
  <2>2. Answers(rest[2], replies[2], rest[2 + 1])
    BY <1>6
  <2>3. Answers(rest[3], replies[3], rest[3 + 1])
    BY <1>5
  <2>4. \A i \in 1 .. 3 : i = 1 \/ i = 2 \/ i = 3
    OBVIOUS
  <2> HIDE DEF rest, replies
  <2> QED
    BY <2>1, <2>2, <2>3, <2>4
<1> HIDE DEF rest, replies
<1>11. ReadReplies(rest[1]) = replies
  BY <1>9, <1>10, AnswersRead
<1> QED
  BY <1>8, <1>9, <1>11 DEF replies, a1, a2, a3

(* LinesReadBack, of any text: a status, an error and an integer that      *)
(* serialize, serialize_error and serialize_integer write are read back as *)
(* they were, one after the other, if the text has no line end in it.      *)
THEOREM LinesAreReadBack == RespSpec => []LinesReadBack
<1>1. RawInv => LinesReadBack
  <2> SUFFICES ASSUME RawInv, OneLine(raw)
               PROVE  ReadReplies(serialize(raw) \o serialize_error(raw)
                                    \o serialize_integer(10 - 4 * Len(raw)))
                        = <<<<"+", raw>>, <<"-", raw>>, <<":", Decimal(10 - 4 * Len(raw))>>>>
    BY DEF LinesReadBack
  <2>1. raw \in Seq(Chars)
    BY SeqMonotonic DEF RawInv, Chars
  <2>2. 10 - 4 * Len(raw) \in Int
    BY <2>1, LenProperties
  <2> QED
    BY <2>1, <2>2, LinesRead
<1> QED
  BY <1>1, RawInvariant, PTL

(* Texts one behind the other, however they are grouped.                   *)
Associates(x, y, z) == (x \o y) \o z = x \o (y \o z)

LEMMA Associative ==
  ASSUME NEW x \in Seq(Chars), NEW y \in Seq(Chars), NEW z \in Seq(Chars)
  PROVE  Associates(x, y, z)
BY ConcatAssociative DEF Associates

Grouped(b1, b2, b3, r) == b1 \o (b2 \o (b3 \o r)) = ((b1 \o b2) \o b3) \o r

LEMMA Regrouped ==
  ASSUME NEW b1 \in Seq(Chars), NEW b2 \in Seq(Chars), NEW b3 \in Seq(Chars),
         NEW r \in Seq(Chars)
  PROVE  Grouped(b1, b2, b3, r)
<1>1. b1 \o b2 \in Seq(Chars) /\ b3 \o r \in Seq(Chars)
  BY Joined
<1>2. Associates(b1 \o b2, b3, r) /\ Associates(b1, b2, b3 \o r)
  BY <1>1, Associative
<1> QED
  BY <1>2 DEF Grouped, Associates

(* An array of three strings is its header and the strings.                *)
LEMMA ArrayOfThree ==
  ASSUME NEW x1, NEW x2, NEW x3, {x1, x2, x3} \subseteq Seq(Chars)
  PROVE  serialize_array(<<x1, x2, x3>>)
           = (<<"*">> \o Decimal(3) \o CRLF)
               \o ((serialize_bulk(x1) \o serialize_bulk(x2)) \o serialize_bulk(x3))
<1> DEFINE items == <<x1, x2, x3>>
           b == [i \in DOMAIN items |-> serialize_bulk(items[i])]
<1>1. DOMAIN items = 1 .. 3 /\ Len(items) = 3 /\ items[1] = x1 /\ items[2] = x2 /\ items[3] = x3
  OBVIOUS
<1>2. \A x \in Seq(Chars) : serialize_bulk(x) \in Seq(Chars)
  BY SerializedIsSeq
<1> HIDE DEF items
<1>3. b[1] = serialize_bulk(x1) /\ b[2] = serialize_bulk(x2) /\ b[3] = serialize_bulk(x3)
  BY <1>1
<1>4. b \in Seq(Seq(Chars)) /\ Len(b) = 3
  <2>1. b \in [1 .. 3 -> Seq(Chars)]
    <3>1. \A i \in 1 .. 3 : items[i] \in Seq(Chars)
      <4>1. \A i \in 1 .. 3 : i = 1 \/ i = 2 \/ i = 3
        OBVIOUS
      <4> QED
        BY <1>1, <4>1
    <3> QED
      BY <1>1, <1>2, <3>1
  <2> HIDE DEF b
  <2> QED
    <3> DEFINE w == <<b[1], b[2], b[3]>>
    <3>1. b[1] \in Seq(Chars) /\ b[2] \in Seq(Chars) /\ b[3] \in Seq(Chars)
      BY <2>1
    <3>2. w \in Seq(Seq(Chars)) /\ Len(w) = 3
      BY <3>1
    <3>3. w = b
      BY <2>1
    <3> HIDE DEF w
    <3> QED
      BY <3>2, <3>3
<1> HIDE DEF b
<1>5. FlattenSeq(b) = (b[1] \o b[2]) \o b[3]
  BY <1>4, FlattenThree
<1> QED
  BY <1>1, <1>3, <1>5 DEF serialize_array, b, items

(* An array of three strings, a nil and one more string.                   *)
LEMMA StringsRead ==
  ASSUME NEW x1, NEW x2, NEW x3, NEW x, {x1, x2, x3, x} \subseteq Seq(Chars)
  PROVE  ReadReplies(serialize_array(<<x1, x2, x3>>) \o serialize_nil \o serialize_bulk(x))
           = <<<<"*", Decimal(3)>>, <<"$", x1>>, <<"$", x2>>, <<"$", x3>>,
               <<"$", <<"-", "1">>>>, <<"$", x>>>>
<1> DEFINE b1 == serialize_bulk(x1)
           b2 == serialize_bulk(x2)
           b3 == serialize_bulk(x3)
           nil == serialize_nil
           b == serialize_bulk(x)
           head == <<"*">> \o Decimal(3) \o CRLF
           r7 == <<>>
           r6 == b \o r7
           r5 == nil \o r6
           r4 == b3 \o r5
           r3 == b2 \o r4
           r2 == b1 \o r3
           r1 == head \o r2
           a1 == <<"*", Decimal(3)>>
           a2 == <<"$", x1>>
           a3 == <<"$", x2>>
           a4 == <<"$", x3>>
           a5 == <<"$", <<"-", "1">>>>
           a6 == <<"$", x>>
<1>1. /\ b1 \in Seq(Chars) /\ b2 \in Seq(Chars) /\ b3 \in Seq(Chars) /\ b \in Seq(Chars)
      /\ nil \in Seq(Chars) /\ head \in Seq(Chars) /\ r7 \in Seq(Chars)
  <2>1. 3 \in Int
    OBVIOUS
  <2>2. r7 \in Seq(Chars)
    OBVIOUS
  <2> HIDE DEF head, r7
  <2>3. head \in Seq(Chars)
    BY <2>1, SerializedIsSeq DEF head
  <2> QED
    BY <2>1, <2>2, <2>3, SerializedIsSeq
<1>2. \A s, u \in Seq(Chars) : s \o u \in Seq(Chars)
  BY Joined
<1> HIDE DEF b1, b2, b3, nil, b, head, r7, r6, r5, r4, r3, r2, r1, a1, a2, a3, a4, a5, a6
<1>3. r6 \in Seq(Chars)
  BY <1>1, <1>2 DEF r6
<1>4. r5 \in Seq(Chars)
  BY <1>1, <1>2, <1>3 DEF r5
<1>5. r4 \in Seq(Chars)
  BY <1>1, <1>2, <1>4 DEF r4
<1>6. r3 \in Seq(Chars)
  BY <1>1, <1>2, <1>5 DEF r3
<1>7. r2 \in Seq(Chars)
  BY <1>1, <1>2, <1>6 DEF r2
<1>8. /\ Answers(r6, a6, r7) /\ Answers(r4, a4, r5) /\ Answers(r3, a3, r4) /\ Answers(r2, a2, r3)
  BY <1>1, <1>4, <1>5, <1>6, BulkAnswers DEF r6, r4, r3, r2, b, b1, b2, b3, a6, a4, a3, a2
<1>9. Answers(r5, a5, r6)
  BY <1>3, NilAnswers DEF r5, nil, a5
<1>10. Answers(r1, a1, r2)
  <2>1. 3 \in Int
    OBVIOUS
  <2> QED
    BY <1>7, <2>1, NumberAnswers DEF r1, head, a1
<1>11. r1 = ((head \o ((b1 \o b2) \o b3)) \o nil) \o b
  <2> DEFINE m == (b1 \o b2) \o b3
  <2>1. r6 = b
    BY <1>1, ConcatEmptySeq DEF r6, r7
  <2>2. b1 \o (b2 \o (b3 \o r5)) = m \o r5
    <3>1. b1 \in Seq(Chars) /\ b2 \in Seq(Chars) /\ b3 \in Seq(Chars) /\ r5 \in Seq(Chars)
      BY <1>1, <1>4
    <3>2. Grouped(b1, b2, b3, r5)
      BY <3>1, Regrouped
    <3> QED
      BY <3>2 DEF Grouped
  <2>3. m \in Seq(Chars)
    <3>1. b1 \o b2 \in Seq(Chars)
      BY <1>1, <1>2
    <3> QED
      BY <1>1, <1>2, <3>1
  <2> HIDE DEF m
  <2>4. head \o (m \o (nil \o b)) = ((head \o m) \o nil) \o b
    <3>1. head \in Seq(Chars) /\ m \in Seq(Chars) /\ nil \in Seq(Chars) /\ b \in Seq(Chars)
      BY <1>1, <2>3
    <3>2. Grouped(head, m, nil, b)
      BY <3>1, Regrouped
    <3> QED
      BY <3>2 DEF Grouped
  <2> QED
    BY <2>1, <2>2, <2>4 DEF r1, r2, r3, r4, r5, m
<1> DEFINE rest == <<r1, r2, r3, r4, r5, r6, r7>>
           replies == <<a1, a2, a3, a4, a5, a6>>
<1>12. replies \in Seq({a1, a2, a3, a4, a5, a6}) /\ Len(replies) = 6
       /\ rest[1] = r1 /\ rest[6 + 1] = <<>>
  BY DEF r7
<1>13. \A i \in 1 .. 6 : Answers(rest[i], replies[i], rest[i + 1])
  <2>1. Answers(rest[1], replies[1], rest[1 + 1]) /\ Answers(rest[2], replies[2], rest[2 + 1])
    BY <1>8, <1>10
  <2>2. Answers(rest[3], replies[3], rest[3 + 1]) /\ Answers(rest[4], replies[4], rest[4 + 1])
    BY <1>8
  <2>3. Answers(rest[5], replies[5], rest[5 + 1]) /\ Answers(rest[6], replies[6], rest[6 + 1])
    BY <1>8, <1>9
  <2>4. \A i \in 1 .. 6 : i = 1 \/ i = 2 \/ i = 3 \/ i = 4 \/ i = 5 \/ i = 6
    OBVIOUS
  <2> HIDE DEF rest, replies
  <2> QED
    BY <2>1, <2>2, <2>3, <2>4
<1> HIDE DEF rest, replies
<1>14. ReadReplies(rest[1]) = replies
  BY <1>12, <1>13, AnswersRead
<1>15. serialize_array(<<x1, x2, x3>>) = head \o ((b1 \o b2) \o b3)
  BY ArrayOfThree DEF head, b1, b2, b3
<1> QED
  BY <1>11, <1>12, <1>14, <1>15 DEF replies, nil, b, a1, a2, a3, a4, a5, a6

(* The replies that are expected, one behind the other.                    *)
LEMMA SixInARow ==
  ASSUME NEW a0, NEW a1, NEW a2, NEW a3, NEW a4, NEW a5
  PROVE  <<a0>> \o <<a1, a2, a3>> \o <<a4, a5>> = <<a0, a1, a2, a3, a4, a5>>
<1> DEFINE S == {a0, a1, a2, a3, a4, a5}
           x == <<a0>>
           y == <<a1, a2, a3>>
           z == <<a4, a5>>
           xy == x \o y
           w == <<a0, a1, a2, a3, a4, a5>>
<1>1. x \in Seq(S) /\ y \in Seq(S) /\ z \in Seq(S) /\ w \in Seq(S)
  OBVIOUS
<1>2. /\ Len(x) = 1 /\ Len(y) = 3 /\ Len(z) = 2 /\ Len(w) = 6
      /\ x[1] = a0 /\ y[1] = a1 /\ y[2] = a2 /\ y[3] = a3 /\ z[1] = a4 /\ z[2] = a5
      /\ w[1] = a0 /\ w[2] = a1 /\ w[3] = a2 /\ w[4] = a3 /\ w[5] = a4 /\ w[6] = a5
  OBVIOUS
<1> HIDE DEF S, x, y, z, w
<1>3. /\ xy \in Seq(S) /\ Len(xy) = Len(x) + Len(y)
      /\ \A i \in 1 .. Len(x) : xy[i] = x[i]
      /\ \A i \in 1 .. Len(y) : xy[Len(x) + i] = y[i]
  BY <1>1, Joined
<1> HIDE DEF xy
<1>. xy \in Seq(S) /\ z \in Seq(S)
  BY <1>1, <1>3
<1>4. /\ xy \o z \in Seq(S) /\ Len(xy \o z) = Len(xy) + Len(z)
      /\ \A i \in 1 .. Len(xy) : (xy \o z)[i] = xy[i]
      /\ \A i \in 1 .. Len(z) : (xy \o z)[Len(xy) + i] = z[i]
  <2>1. PICK p, q : p = xy /\ q = z
    OBVIOUS
  <2>2. /\ p \o q \in Seq(S) /\ Len(p \o q) = Len(p) + Len(q)
        /\ \A i \in 1 .. Len(p) : (p \o q)[i] = p[i]
        /\ \A i \in 1 .. Len(q) : (p \o q)[Len(p) + i] = q[i]
    BY <2>1, Joined
  <2> QED
    BY <2>1, <2>2
<1>5. Len(xy) = 4 /\ xy[1] = a0 /\ xy[2] = a1 /\ xy[3] = a2 /\ xy[4] = a3
  <2>1. 1 \in 1 .. 3 /\ 2 \in 1 .. 3 /\ 3 \in 1 .. 3 /\ 1 \in 1 .. 1
    OBVIOUS
  <2>2. xy[1 + 1] = y[1] /\ xy[1 + 2] = y[2] /\ xy[1 + 3] = y[3] /\ xy[1] = x[1]
    BY <1>2, <1>3, <2>1
  <2> QED
    BY <1>2, <1>3, <2>2
<1>6. xy \o z = w
  <2> DEFINE t == xy \o z
  <2>1. /\ t \in Seq(S) /\ Len(t) = 6 /\ t[1] = a0 /\ t[2] = a1 /\ t[3] = a2 /\ t[4] = a3
        /\ t[5] = a4 /\ t[6] = a5
    <3>1. \A i \in 1 .. 4 : t[i] = xy[i]
      BY <1>4, <1>5
    <3>2. \A i \in 1 .. 2 : t[4 + i] = z[i]
      BY <1>2, <1>4, <1>5
    <3>3. t \in Seq(S) /\ Len(t) = 6
      BY <1>2, <1>4, <1>5
    <3> HIDE DEF t
    <3>4. t[1] = xy[1] /\ t[2] = xy[2] /\ t[3] = xy[3] /\ t[4] = xy[4]
      BY <3>1
    <3>5. t[4 + 1] = z[1] /\ t[4 + 2] = z[2]
      BY <3>2
    <3> QED
      BY <1>2, <1>5, <3>3, <3>4, <3>5
  <2> HIDE DEF t
  <2>2. \A i \in 1 .. Len(t) : t[i] = w[i]
    <3>1. \A i \in 1 .. 6 : i = 1 \/ i = 2 \/ i = 3 \/ i = 4 \/ i = 5 \/ i = 6
      OBVIOUS
    <3> QED
      BY <1>2, <2>1, <3>1
  <2>3. t = w
    BY <1>1, <1>2, <2>1, <2>2, SeqEqual
  <2> QED
    BY <2>3 DEF t
<1> QED
  BY <1>6 DEF xy, x, y, z, w

(* StringsReadBack, of any strings: an array that serialize_array writes,  *)
(* a nil and a bulk string are read back as they were, however long the    *)
(* strings are, and whatever line ends, prefixes and figures they contain. *)
THEOREM StringsAreReadBack == RespSpec => []StringsReadBack
<1>1. RawInv => StringsReadBack
  <2> SUFFICES ASSUME RawInv, NEW i \in 0 .. Len(raw)
               PROVE  LET items == <<SubSeq(raw, 1, i), SubSeq(raw, i + 1, Len(raw)),
                                     raw \o raw \o raw>>
                      IN ReadReplies(serialize_array(items) \o serialize_nil \o serialize_bulk(raw))
                           = <<<<"*", Decimal(3)>>>> \o [j \in 1 .. 3 |-> <<"$", items[j]>>]
                               \o <<<<"$", <<"-", "1">>>>, <<"$", raw>>>>
    BY DEF StringsReadBack
  <2> DEFINE x1 == SubSeq(raw, 1, i)
             x2 == SubSeq(raw, i + 1, Len(raw))
             x3 == raw \o raw \o raw
             array == <<x1, x2, x3>>
             read == [j \in 1 .. 3 |-> <<"$", array[j]>>]
  <2>1. raw \in Seq(Chars) /\ Len(raw) \in Nat
    BY SeqMonotonic, LenProperties DEF RawInv, Chars
  <2>2. x1 \in Seq(Chars) /\ x2 \in Seq(Chars)
    <3>1. /\ 1 \in 1 .. Len(raw) + 1 /\ i \in 1 - 1 .. Len(raw)
          /\ i + 1 \in 1 .. Len(raw) + 1 /\ Len(raw) \in (i + 1) - 1 .. Len(raw)
      BY <2>1
    <3> QED
      BY <2>1, <3>1, Cut
  <2>3. x3 \in Seq(Chars)
    BY <2>1, Joined
  <2> HIDE DEF x1, x2, x3
  <2>4. ReadReplies(serialize_array(<<x1, x2, x3>>) \o serialize_nil \o serialize_bulk(raw))
          = <<<<"*", Decimal(3)>>, <<"$", x1>>, <<"$", x2>>, <<"$", x3>>,
              <<"$", <<"-", "1">>>>, <<"$", raw>>>>
    <3>1. {x1, x2, x3, raw} \subseteq Seq(Chars)
      BY <2>1, <2>2, <2>3
    <3> QED
      BY <3>1, StringsRead
  <2>5. read = <<<<"$", x1>>, <<"$", x2>>, <<"$", x3>>>>
    <3>1. array[1] = x1 /\ array[2] = x2 /\ array[3] = x3
      OBVIOUS
    <3> HIDE DEF array
    <3> QED
      BY <3>1
  <2>6. <<<<"*", Decimal(3)>>>> \o read \o <<<<"$", <<"-", "1">>>>, <<"$", raw>>>>
          = <<<<"*", Decimal(3)>>, <<"$", x1>>, <<"$", x2>>, <<"$", x3>>,
              <<"$", <<"-", "1">>>>, <<"$", raw>>>>
    <3> HIDE DEF read
    <3>1. PICK a0, a1, a2, a3, a4, a5 :
            /\ a0 = <<"*", Decimal(3)>> /\ a1 = <<"$", x1>> /\ a2 = <<"$", x2>>
            /\ a3 = <<"$", x3>> /\ a4 = <<"$", <<"-", "1">>>> /\ a5 = <<"$", raw>>
      OBVIOUS
    <3>2. <<a0>> \o <<a1, a2, a3>> \o <<a4, a5>> = <<a0, a1, a2, a3, a4, a5>>
      BY SixInARow
    <3> QED
      BY <2>5, <3>1, <3>2
  <2> QED
    BY <2>4, <2>6 DEF x1, x2, x3
<1> QED
  BY <1>1, RawInvariant, PTL
=============================================================================
