---------------------------- MODULE WALFileProofs ----------------------------
(***************************************************************************)
(* Theorems about WALFile, for any keys, values and bounds: the types,     *)
(* that replay yields every record appended whole on a line of its own,    *)
(* and that a torn line costs one record more at most.                     *)
(*                                                                         *)
(* The argument is about places in the file.  A record that is on a line   *)
(* of its own stands somewhere (Stands), and stays there whatever is       *)
(* written behind it; and each line of the file has an end, so that a line *)
(* written behind a text adds one end at most, and none to a torn text     *)
(* (LineAdds).                                                             *)
(***************************************************************************)
EXTENDS WALFile, SequenceLemmas

Cell == {"SET", "DEL", Space, Newline} \cup Key \cup UNION {ToSet(v) : v \in Value}

(* The end of a text is the beginning of a line. *)
Clean(text) == text = <<>> \/ text[Len(text)] = Newline

(* A line is written to its end if it is written at all, and what the file *)
(* had when the current append began is still there.                       *)
Buffered ==
  /\ Clean(buffer)
  /\ current # None => start <= Len(file)
  /\ current # None /\ stream = "good" => buffer # <<>>
  /\ lines \in Seq({AsRead(r) : r \in Record})

(* Where the next record would begin, but for what the current append has  *)
(* written so far.                                                         *)
Glued == IF current # None /\ stream = "good" THEN ~OnCleanLine ELSE ~Clean(file)

(* A torn end of the file is a credit for one record, the one glued to it. *)
Credit == written + (IF Glued THEN 1 ELSE 0) <= Len(lines) + tears

IInv == TypeOK /\ Buffered /\ Credit

-----------------------------------------------------------------------------
(* Texts are sequences of cells.                                           *)
LEMMA TextIsSeq == Text = Seq(Cell)
BY DEF Text, Cell

(* The text of a record ends with its newline.                             *)
LEMMA CellsOfRecord ==
  ASSUME NEW r \in Record
  PROVE  Cells(r) \in Seq(Cell) /\ Cells(r) # <<>> /\ Clean(Cells(r))
<1>1. /\ r.op \in {"SET", "DEL"} /\ r.key \in Key
      /\ r.value = <<>> \/ r.value \in Value
  BY DEF Record
<1>2. r.value \in Seq(Cell)
  <2>1. CASE r.value = <<>>
    BY <2>1
  <2>2. CASE r.value \in Value
    <3>1. r.value \in Seq(ToSet(r.value)) /\ ToSet(r.value) \subseteq Cell
      BY <2>2, ValueAssumption DEF Cell
    <3> QED
      BY <3>1
  <2> QED
    BY <1>1, <2>1, <2>2
<1> DEFINE Head3 == <<r.op, Space, r.key>>
           Rest == IF r.value = <<>> THEN <<>> ELSE <<Space>> \o r.value
<1>3. Head3 \in Seq(Cell) /\ <<Newline>> \in Seq(Cell) /\ <<Space>> \in Seq(Cell)
  BY <1>1 DEF Cell
<1>4. Rest \in Seq(Cell)
  BY <1>2, <1>3
<1>5. Cells(r) = (Head3 \o Rest) \o <<Newline>>
  BY DEF Cells
<1> HIDE DEF Head3, Rest
<1>6. Head3 \o Rest \in Seq(Cell)
  BY <1>3, <1>4
<1> QED
  BY <1>3, <1>5, <1>6 DEF Clean

(* A text written to its beginning n, and what is left of it. *)
LEMMA CutText ==
  ASSUME NEW b \in Seq(Cell), NEW n \in 0 .. Len(b)
  PROVE  /\ SubSeq(b, 1, n) \in Seq(Cell)
         /\ SubSeq(b, n + 1, Len(b)) \in Seq(Cell)
         /\ n < Len(b) => SubSeq(b, n + 1, Len(b)) # <<>>
         /\ Clean(b) => Clean(SubSeq(b, n + 1, Len(b)))
         /\ n = Len(b) => SubSeq(b, 1, n) = b /\ SubSeq(b, n + 1, Len(b)) = <<>>
<1> DEFINE rest == SubSeq(b, n + 1, Len(b))
<1>1. SubSeq(b, 1, n) \in Seq(Cell) /\ rest \in Seq(Cell)
  OBVIOUS
<1>2. Len(rest) = Len(b) - n /\ \A i \in 1 .. Len(rest) : rest[i] = b[n + i]
  OBVIOUS
<1>3. n < Len(b) => rest # <<>>
  <2>1. Len(b) \in Nat /\ n \in Nat /\ Len(rest) = Len(b) - n
    BY <1>2
  <2> HIDE DEF rest
  <2>2. n < Len(b) => Len(rest) # 0
    BY <2>1
  <2>3. Len(<<>>) = 0
    OBVIOUS
  <2> QED
    BY <2>2, <2>3
<1>4. Clean(b) => Clean(rest)
  <2>1. CASE n = Len(b)
    BY <1>1, <1>2, <2>1 DEF Clean
  <2>2. CASE n < Len(b)
    <3>1. b # <<>> /\ Len(rest) \in 1 .. Len(rest) /\ n + Len(rest) = Len(b)
      BY <1>2, <2>2
    <3>2. rest[Len(rest)] = b[Len(b)]
      BY <1>2, <3>1
    <3> HIDE DEF rest
    <3> QED
      BY <3>1, <3>2 DEF Clean
  <2> QED
    BY <2>1, <2>2
<1>5. n = Len(b) => SubSeq(b, 1, n) = b /\ rest = <<>>
  <2> SUFFICES ASSUME n = Len(b)
               PROVE  SubSeq(b, 1, n) = b /\ rest = <<>>
    OBVIOUS
  <2>1. rest = <<>>
    BY <1>1, <1>2
  <2>2. Len(SubSeq(b, 1, n)) = Len(b) /\ \A i \in 1 .. Len(b) : SubSeq(b, 1, n)[i] = b[i]
    OBVIOUS
  <2>3. SubSeq(b, 1, n) = b
    BY <1>1, <2>2, SeqEqual
  <2> QED
    BY <2>1, <2>3
<1> QED
  BY <1>1, <1>3, <1>4, <1>5

(* Lines that end with a newline leave a text clean, or as it was.         *)
LEMMA LinesAdded ==
  ASSUME NEW f \in Seq(Cell), NEW b \in Seq(Cell)
  PROVE  /\ f \o b \in Seq(Cell) /\ Len(f \o b) = Len(f) + Len(b)
         /\ \A i \in 1 .. Len(f) : (f \o b)[i] = f[i]
         /\ Clean(f) /\ Clean(b) => Clean(f \o b)
         /\ b # <<>> /\ Clean(b) => Clean(f \o b)
<1>1. /\ f \o b \in Seq(Cell) /\ Len(f \o b) = Len(f) + Len(b)
      /\ \A i \in 1 .. Len(f) : (f \o b)[i] = f[i]
      /\ \A i \in 1 .. Len(b) : (f \o b)[Len(f) + i] = b[i]
  OBVIOUS
<1>2. CASE b = <<>>
  <2>1. f \o b = f
    BY <1>2
  <2> QED
    BY <1>1, <1>2, <2>1
<1>3. CASE b # <<>>
  <2>1. Clean(b) => Clean(f \o b)
    BY <1>1, <1>3 DEF Clean
  <2> QED
    BY <1>1, <2>1
<1> QED
  BY <1>2, <1>3

-----------------------------------------------------------------------------
(* The lines of a text.                                                    *)

(* Concatenation is associative, on texts.                                 *)
LEMMA Regrouped ==
  ASSUME NEW s \in Seq(Cell), NEW t \in Seq(Cell), NEW u \in Seq(Cell)
  PROVE  (s \o t) \o u = s \o (t \o u)
BY ConcatAssociative

-----------------------------------------------------------------------------
(* The text of a record.                                                   *)

(* No newline but at the end. *)
OneLine(text) == \A i \in 1 .. Len(text) - 1 : text[i] # Newline

(* The text of r without its newline. *)
LineOf(r) == SubSeq(Cells(r), 1, Len(Cells(r)) - 1)

(* The text of a record is one line, and what stands where in it.          *)
LEMMA CellsAre ==
  ASSUME NEW r \in Record
  PROVE  /\ Cells(r) \in Seq(Cell) /\ OneLine(Cells(r)) /\ Clean(Cells(r))
         /\ r.op \notin {Space, Newline} /\ r.key \notin {Space, Newline}
         /\ r.value \in Seq(Cell)
         /\ \A i \in 1 .. Len(r.value) : r.value[i] # Newline
         /\ r.value = <<>> => /\ Len(Cells(r)) = 4
                              /\ Cells(r)[1] = r.op /\ Cells(r)[2] = Space
                              /\ Cells(r)[3] = r.key
         /\ r.value # <<>> => /\ Len(Cells(r)) = 5 + Len(r.value)
                              /\ Cells(r)[1] = r.op /\ Cells(r)[2] = Space
                              /\ Cells(r)[3] = r.key /\ Cells(r)[4] = Space
                              /\ \A i \in 1 .. Len(r.value) : Cells(r)[4 + i] = r.value[i]
<1>1. Cells(r) \in Seq(Cell) /\ Clean(Cells(r))
  BY CellsOfRecord
<1>2. /\ r.op \in {"SET", "DEL"} /\ r.key \in Key
      /\ r.value = <<>> \/ r.value \in Value
  BY DEF Record
<1>3. r.op \notin {Space, Newline} /\ r.key \notin {Space, Newline}
  BY <1>2, SeparatorAssumption DEF Space, Newline
<1>4. r.value \in Seq(Cell) /\ \A i \in 1 .. Len(r.value) : r.value[i] # Newline
  <2>1. CASE r.value = <<>>
    BY <2>1
  <2>2. CASE r.value \in Value
    <3>1. r.value \in Seq(ToSet(r.value)) /\ ToSet(r.value) \subseteq Cell
      BY <2>2, ValueAssumption DEF Cell
    <3>2. \A i \in 1 .. Len(r.value) : r.value[i] \in ToSet(r.value)
      BY <3>1
    <3> QED
      BY <2>2, <3>1, <3>2, SeparatorAssumption
  <2> QED
    BY <1>2, <2>1, <2>2
<1> DEFINE Head3 == <<r.op, Space, r.key>>
           Rest == IF r.value = <<>> THEN <<>> ELSE <<Space>> \o r.value
<1>5. /\ Head3 \in Seq(Cell) /\ <<Newline>> \in Seq(Cell) /\ <<Space>> \in Seq(Cell)
      /\ Len(Head3) = 3 /\ Head3[1] = r.op /\ Head3[2] = Space /\ Head3[3] = r.key
  BY <1>2 DEF Cell
<1>6. Cells(r) = (Head3 \o Rest) \o <<Newline>>
  BY DEF Cells
<1>7. CASE r.value = <<>>
  <2>1. Cells(r) = Head3 \o <<Newline>>
    <3>1. Rest = <<>>
      BY <1>7
    <3> HIDE DEF Head3, Rest
    <3>2. Head3 \o Rest = Head3
      BY <1>5, <3>1
    <3> QED
      BY <1>6, <3>2
  <2> HIDE DEF Head3
  <2>2. /\ Len(Cells(r)) = 4 /\ Cells(r)[1] = r.op /\ Cells(r)[2] = Space
        /\ Cells(r)[3] = r.key
    <3>1. Len(<<Newline>>) = 1
      OBVIOUS
    <3>2. Len(Cells(r)) = 3 + 1 /\ \A i \in 1 .. 3 : Cells(r)[i] = Head3[i]
      BY <1>5, <2>1, <3>1, Joined
    <3> QED
      BY <1>5, <3>2
  <2>3. Newline # Space
    BY DEF Newline, Space
  <2>4. OneLine(Cells(r))
    BY <1>3, <2>2, <2>3 DEF OneLine
  <2> QED
    BY <1>1, <1>3, <1>4, <1>7, <2>2, <2>4
<1>8. CASE r.value # <<>>
  <2>1. Rest = <<Space>> \o r.value
    BY <1>8
  <2> HIDE DEF Head3, Rest
  <2>2. /\ Rest \in Seq(Cell) /\ Len(Rest) = 1 + Len(r.value) /\ Rest[1] = Space
        /\ \A i \in 1 .. Len(r.value) : Rest[1 + i] = r.value[i]
    BY <1>4, <1>5, <2>1
  <2>3. /\ Head3 \o Rest \in Seq(Cell) /\ Len(Head3 \o Rest) = 3 + Len(Rest)
        /\ \A i \in 1 .. 3 : (Head3 \o Rest)[i] = Head3[i]
        /\ \A i \in 1 .. Len(Rest) : (Head3 \o Rest)[3 + i] = Rest[i]
    <3>1. /\ Head3 \o Rest \in Seq(Cell) /\ Len(Head3 \o Rest) = Len(Head3) + Len(Rest)
          /\ \A i \in 1 .. Len(Head3) : (Head3 \o Rest)[i] = Head3[i]
          /\ \A i \in 1 .. Len(Rest) : (Head3 \o Rest)[Len(Head3) + i] = Rest[i]
      <4>1. Head3 \in Seq(Cell) /\ Rest \in Seq(Cell)
        BY <1>5, <2>2
      <4> QED
        BY <4>1, Joined
    <3> QED
      BY <1>5, <3>1
  <2> DEFINE line == Head3 \o Rest
  <2>4. /\ line \in Seq(Cell) /\ Len(line) = 4 + Len(r.value)
        /\ line[1] = r.op /\ line[2] = Space /\ line[3] = r.key /\ line[4] = Space
        /\ \A i \in 1 .. Len(r.value) : line[4 + i] = r.value[i]
    <3>1. Len(r.value) \in Nat
      BY <1>4, LenProperties
    <3>2. /\ line[1] = Head3[1] /\ line[2] = Head3[2] /\ line[3] = Head3[3]
          /\ line[4] = Rest[1]
      BY <2>2, <2>3, <3>1
    <3>3. \A i \in 1 .. Len(r.value) : line[4 + i] = Rest[1 + i]
      BY <2>2, <2>3, <3>1
    <3> HIDE DEF line
    <3>4. line \in Seq(Cell) /\ Len(line) = 4 + Len(r.value)
      BY <2>2, <2>3, <3>1 DEF line
    <3> QED
      BY <1>5, <2>2, <3>2, <3>3, <3>4
  <2>5. Cells(r) = line \o <<Newline>>
    BY <1>6
  <2> HIDE DEF line
  <2>6. Len(Cells(r)) = Len(line) + 1 /\ \A i \in 1 .. Len(line) : Cells(r)[i] = line[i]
    BY <1>5, <2>4, <2>5
  <2>7. Len(r.value) \in Nat
    BY <1>4, LenProperties
  <2>8. /\ Len(Cells(r)) = 5 + Len(r.value)
        /\ Cells(r)[1] = r.op /\ Cells(r)[2] = Space
        /\ Cells(r)[3] = r.key /\ Cells(r)[4] = Space
        /\ \A i \in 1 .. Len(r.value) : Cells(r)[4 + i] = r.value[i]
    <3>1. /\ 1 \in 1 .. Len(line) /\ 2 \in 1 .. Len(line)
          /\ 3 \in 1 .. Len(line) /\ 4 \in 1 .. Len(line)
          /\ \A i \in 1 .. Len(r.value) : 4 + i \in 1 .. Len(line)
      BY <2>4, <2>7
    <3>2. Len(Cells(r)) = 5 + Len(r.value)
      BY <2>4, <2>6, <2>7
    <3> QED
      BY <2>4, <2>6, <3>1, <3>2
  <2>9. OneLine(Cells(r))
    <3> SUFFICES ASSUME NEW i \in 1 .. Len(Cells(r)) - 1
                 PROVE  Cells(r)[i] # Newline
      BY DEF OneLine
    <3>1. Newline # Space
      BY DEF Newline, Space
    <3>2. CASE i \in 1 .. 4
      BY <1>3, <2>8, <3>1, <3>2
    <3>3. CASE i \notin 1 .. 4
      <4>1. i - 4 \in 1 .. Len(r.value) /\ 4 + (i - 4) = i
        BY <2>7, <2>8, <3>3
      <4>2. Cells(r)[i] = r.value[i - 4]
        BY <2>8, <4>1
      <4> QED
        BY <1>4, <4>1, <4>2
    <3> QED
      BY <3>2, <3>3
  <2> QED
    BY <1>1, <1>3, <1>4, <1>8, <2>8, <2>9
<1> QED
  BY <1>7, <1>8

(* replay splits the line of a record into what the record held.           *)

(* A word is found by where it begins and where it ends.                   *)
LEMMA WordOf ==
  ASSUME NEW s \in Seq(Cell), NEW b \in 1 .. Len(s), NEW e \in b + 1 .. Len(s) + 1,
         \A i \in 1 .. b - 1 : s[i] = Space,
         \A i \in b .. e - 1 : s[i] # Space,
         e <= Len(s) => s[e] = Space
  PROVE  Word(s) = SubSeq(s, b, e - 1) /\ AfterWord(s) = SubSeq(s, e, Len(s))
<1> DEFINE u == SubSeq(s, b, Len(s))
<1>1. Len(s) \in Nat /\ DOMAIN s = 1 .. Len(s) /\ b \in Nat /\ e \in Nat
  BY LenProperties
<1>2. Skipped(s) = u
  <2> DEFINE I == {i \in DOMAIN s : s[i] # Space}
  <2>1. I \in SUBSET Nat /\ b \in I
    BY <1>1
  <2>2. \A j \in I : b <= j
    BY <1>1
  <2> HIDE DEF I
  <2>3. First(s, I) = b
    BY <2>1, <2>2, FirstIs
  <2> QED
    BY <2>3 DEF Skipped, I
<1>3. /\ u \in Seq(Cell) /\ Len(u) = Len(s) - b + 1
      /\ \A i \in 1 .. Len(s) - b + 1 : u[i] = s[b + i - 1]
  BY PartOf
<1>4. DOMAIN u = 1 .. Len(u)
  BY <1>3, LenProperties
<1> HIDE DEF u
<1>5. WordEnd(u) = e - b + 1
  <2> DEFINE I == {i \in DOMAIN u : u[i] = Space}
  <2>1. \A i \in I : i \in Nat /\ e - b + 1 <= i
    <3> SUFFICES ASSUME NEW i \in I
                 PROVE  i \in Nat /\ e - b + 1 <= i
      OBVIOUS
    <3>1. i \in 1 .. Len(s) - b + 1 /\ s[b + i - 1] = Space
      BY <1>1, <1>3, <1>4
    <3>2. b + i - 1 \notin b .. e - 1
      BY <3>1
    <3> QED
      BY <1>1, <3>1, <3>2
  <2>2. CASE e <= Len(s)
    <3>1. e - b + 1 \in I
      <4>1. e - b + 1 \in 1 .. Len(s) - b + 1 /\ b + (e - b + 1) - 1 = e
        BY <1>1, <2>2
      <4> QED
        BY <1>3, <1>4, <2>2, <4>1
    <3> HIDE DEF I
    <3>2. I \in SUBSET Nat
      BY <2>1
    <3>3. First(u, I) = e - b + 1
      BY <2>1, <3>1, <3>2, FirstIs
    <3> QED
      BY <3>3 DEF WordEnd, I
  <2>3. CASE e = Len(s) + 1
    <3>1. I = {}
      <4> SUFFICES ASSUME NEW i \in I
                   PROVE  FALSE
        OBVIOUS
      <4>1. i \in 1 .. Len(s) - b + 1 /\ e - b + 1 <= i
        BY <1>3, <1>4, <2>1
      <4> QED
        BY <1>1, <2>3, <4>1
    <3>2. First(u, I) = Len(u) + 1
      BY <3>1 DEF First
    <3> HIDE DEF I
    <3>3. WordEnd(u) = Len(u) + 1
      BY <3>2 DEF WordEnd, I
    <3> QED
      BY <1>1, <1>3, <2>3, <3>3
  <2> QED
    BY <1>1, <2>2, <2>3
<1>6. Word(s) = SubSeq(u, 1, e - b) /\ AfterWord(s) = SubSeq(u, e - b + 1, Len(u))
  <2>1. (e - b + 1) - 1 = e - b
    BY <1>1
  <2> QED
    BY <1>2, <1>5, <2>1 DEF Word, AfterWord
<1>7. Len(s) \in 1 .. Len(s) /\ e - b \in 1 .. Len(s) - b + 1 /\ 1 \in 1 .. Len(s) - b + 1
  BY <1>1
<1>8. SubSeq(u, 1, e - b) = SubSeq(s, b, e - 1)
  <2>1. SubSeq(u, 1, e - b) = SubSeq(s, b + 1 - 1, b + (e - b) - 1)
    BY <1>7, SubSeqOfSubSeq DEF u
  <2>2. b + 1 - 1 = b /\ b + (e - b) - 1 = e - 1
    BY <1>1
  <2> QED
    BY <2>1, <2>2
<1>9. SubSeq(u, e - b + 1, Len(u)) = SubSeq(s, e, Len(s))
  <2>1. CASE e <= Len(s)
    <3>1. e - b + 1 \in 1 .. Len(s) - b + 1 /\ Len(u) \in 1 .. Len(s) - b + 1
      BY <1>1, <1>3, <2>1
    <3>2. SubSeq(u, e - b + 1, Len(u)) = SubSeq(s, b + (e - b + 1) - 1, b + Len(u) - 1)
      BY <1>7, <3>1, SubSeqOfSubSeq DEF u
    <3>3. b + (e - b + 1) - 1 = e /\ b + Len(u) - 1 = Len(s)
      BY <1>1, <1>3
    <3> QED
      BY <3>2, <3>3
  <2>2. CASE e = Len(s) + 1
    <3>1. /\ Len(u) \in Int /\ e - b + 1 \in Int /\ Len(u) < e - b + 1
          /\ Len(s) \in Int /\ e \in Int /\ Len(s) < e
      BY <1>1, <1>3, <2>2
    <3>2. SubSeq(u, e - b + 1, Len(u)) = <<>>
      BY <3>1, SubSeqEmpty
    <3>3. SubSeq(s, e, Len(s)) = <<>>
      BY <3>1, SubSeqEmpty
    <3> QED
      BY <3>2, <3>3
  <2> QED
    BY <1>1, <2>1, <2>2
<1> QED
  BY <1>6, <1>8, <1>9

(* replay reads a line that stands alone as the record it was written for. *)
LEMMA ReadBack ==
  ASSUME NEW r \in Record
  PROVE  Parse(LineOf(r)) = AsRead(r)
<1> DEFINE c == Cells(r)
           line == LineOf(r)
           rest == SubSeq(line, 2, Len(line))
           v == SubSeq(rest, 3, Len(rest))
<1>1. /\ c \in Seq(Cell) /\ Len(r.value) \in Nat /\ r.value \in Seq(Cell)
      /\ Len(c) = IF r.value = <<>> THEN 4 ELSE 5 + Len(r.value)
      /\ c[1] = r.op /\ c[2] = Space /\ c[3] = r.key
      /\ r.value # <<>> => c[4] = Space /\ \A i \in 1 .. Len(r.value) : c[4 + i] = r.value[i]
  BY CellsAre, LenProperties
<1>2. r.op # Space /\ r.key # Space
  BY CellsAre
<1> HIDE DEF c
<1>3. /\ line \in Seq(Cell) /\ Len(line) = Len(c) - 1
      /\ \A i \in 1 .. Len(c) - 1 : line[i] = c[i]
  <2>1. Len(c) \in Nat /\ Len(c) - 1 \in Int /\ 1 \in Int /\ 1 <= Len(c) - 1
    BY <1>1
  <2>2. \A i \in 1 .. Len(c) : c[i] \in Cell
    BY <1>1, ElementOfSeq
  <2>3. \A i \in 1 .. Len(c) - 1 : c[i] \in Cell
    BY <2>1, <2>2
  <2>4. line = SubSeq(c, 1, Len(c) - 1)
    BY DEF LineOf, c
  <2> HIDE DEF line
  <2>5. /\ line \in Seq(Cell) /\ Len(line) = (Len(c) - 1) - 1 + 1
        /\ \A i \in 1 .. (Len(c) - 1) - 1 + 1 : line[i] = c[1 + i - 1]
    BY <2>1, <2>3, <2>4, SubSeqProperties
  <2> QED
    BY <2>1, <2>5
<1> HIDE DEF line
<1>4. /\ Len(line) = IF r.value = <<>> THEN 3 ELSE 4 + Len(r.value)
      /\ line[1] = r.op /\ line[2] = Space /\ line[3] = r.key
      /\ r.value # <<>> => line[4] = Space /\ \A i \in 1 .. Len(r.value) : line[4 + i] = r.value[i]
  <2>1. /\ Len(line) = IF r.value = <<>> THEN 3 ELSE 4 + Len(r.value)
        /\ 3 <= Len(c) - 1
    BY <1>1, <1>3
  <2>2. line[1] = r.op /\ line[2] = Space /\ line[3] = r.key
    <3>1. 1 \in 1 .. Len(c) - 1 /\ 2 \in 1 .. Len(c) - 1 /\ 3 \in 1 .. Len(c) - 1
      BY <1>1, <2>1
    <3> QED
      BY <1>1, <1>3, <3>1
  <2>3. ASSUME r.value # <<>>
        PROVE  line[4] = Space /\ \A i \in 1 .. Len(r.value) : line[4 + i] = r.value[i]
    <3>1. 4 \in 1 .. Len(c) - 1 /\ \A i \in 1 .. Len(r.value) : 4 + i \in 1 .. Len(c) - 1
      BY <1>1, <2>3
    <3> QED
      BY <1>1, <1>3, <2>3, <3>1
  <2> QED
    BY <2>1, <2>2, <2>3
<1>5. Word(line) = <<r.op>> /\ AfterWord(line) = rest
  <2>1. 1 \in 1 .. Len(line) /\ 2 \in 1 + 1 .. Len(line) + 1
    BY <1>1, <1>4
  <2>2. Word(line) = SubSeq(line, 1, 2 - 1) /\ AfterWord(line) = SubSeq(line, 2, Len(line))
    <3>1. /\ \A i \in 1 .. 1 - 1 : line[i] = Space
          /\ \A i \in 1 .. 2 - 1 : line[i] # Space
          /\ 2 <= Len(line) => line[2] = Space
      BY <1>2, <1>4
    <3> QED
      BY <1>3, <2>1, <3>1, WordOf
  <2>3. SubSeq(line, 1, 1) = <<line[1]>>
    BY <1>3, <2>1, PartOf
  <2> QED
    BY <1>4, <2>2, <2>3
<1>6. /\ rest \in Seq(Cell) /\ Len(rest) = Len(line) - 1
      /\ \A i \in 1 .. Len(line) - 1 : rest[i] = line[1 + i]
  <2>1. 2 \in 1 .. Len(line) /\ Len(line) \in Nat
    BY <1>1, <1>4
  <2>2. /\ rest \in Seq(Cell) /\ Len(rest) = Len(line) - 2 + 1
        /\ \A i \in 1 .. Len(line) - 2 + 1 : rest[i] = line[2 + i - 1]
    BY <1>3, <2>1, PartOf
  <2> HIDE DEF rest
  <2> QED
    BY <2>1, <2>2
<1> HIDE DEF rest
<1>7. /\ Len(rest) = IF r.value = <<>> THEN 2 ELSE 3 + Len(r.value)
      /\ rest[1] = Space /\ rest[2] = r.key
      /\ r.value # <<>> => rest[3] = Space /\ \A i \in 1 .. Len(r.value) : rest[3 + i] = r.value[i]
  <2>1. /\ Len(rest) = IF r.value = <<>> THEN 2 ELSE 3 + Len(r.value)
        /\ rest[1] = line[2] /\ rest[2] = line[3]
    BY <1>1, <1>4, <1>6
  <2>2. ASSUME r.value # <<>>
        PROVE  rest[3] = line[4] /\ \A i \in 1 .. Len(r.value) : rest[3 + i] = line[4 + i]
    BY <1>1, <1>4, <1>6, <2>2
  <2> QED
    BY <1>4, <2>1, <2>2
<1>8. Word(rest) = <<r.key>> /\ AfterWord(rest) = v
  <2>1. 2 \in 1 .. Len(rest) /\ 3 \in 2 + 1 .. Len(rest) + 1
    BY <1>1, <1>7
  <2>2. /\ \A i \in 1 .. 2 - 1 : rest[i] = Space
        /\ \A i \in 2 .. 3 - 1 : rest[i] # Space
        /\ 3 <= Len(rest) => rest[3] = Space
    BY <1>2, <1>7
  <2>3. Word(rest) = SubSeq(rest, 2, 3 - 1) /\ AfterWord(rest) = SubSeq(rest, 3, Len(rest))
    BY <1>6, <2>1, <2>2, WordOf
  <2>4. SubSeq(rest, 2, 2) = <<rest[2]>>
    BY <1>6, <2>1, PartOf
  <2> QED
    BY <1>7, <2>3, <2>4
<1>9. (IF v # <<>> /\ Head(v) = Space THEN Tail(v) ELSE v) = r.value
  <2>1. CASE r.value = <<>>
    <3>1. v = <<>>
      BY <1>7, <2>1, SubSeqEmpty
    <3> QED
      BY <2>1, <3>1
  <2>2. CASE r.value # <<>>
    <3>1. 3 \in 1 .. Len(rest) /\ Len(rest) = 3 + Len(r.value)
      BY <1>1, <1>7, <2>2
    <3>2. /\ v \in Seq(Cell) /\ Len(v) = Len(rest) - 3 + 1
          /\ \A i \in 1 .. Len(rest) - 3 + 1 : v[i] = rest[3 + i - 1]
      BY <1>6, <3>1, PartOf
    <3> HIDE DEF v
    <3>3. /\ v \in Seq(Cell) /\ Len(v) = 1 + Len(r.value)
          /\ v[1] = rest[3] /\ \A i \in 1 .. Len(r.value) : v[1 + i] = rest[3 + i]
      <4>1. Len(v) = 1 + Len(r.value)
        BY <1>1, <3>1, <3>2
      <4>2. /\ 1 \in 1 .. Len(rest) - 3 + 1 /\ 3 + 1 - 1 = 3
            /\ \A i \in 1 .. Len(r.value) :
                  1 + i \in 1 .. Len(rest) - 3 + 1 /\ 3 + (1 + i) - 1 = 3 + i
        BY <1>1, <3>1
      <4>3. v[1] = rest[3]
        BY <3>2, <4>2
      <4>4. ASSUME NEW i \in 1 .. Len(r.value)
            PROVE  v[1 + i] = rest[3 + i]
        <5>1. 1 + i \in 1 .. Len(rest) - 3 + 1 /\ 3 + (1 + i) - 1 = 3 + i
          BY <4>2
        <5>2. v[1 + i] = rest[3 + (1 + i) - 1]
          BY <3>2, <5>1
        <5> QED
          BY <5>1, <5>2
      <4> QED
        BY <3>2, <4>1, <4>3, <4>4
    <3>4. v # <<>>
      BY <1>1, <3>3
    <3>5. Head(v) = Space
      BY <1>7, <2>2, <3>3, <3>4
    <3>6. Tail(v) = r.value
      <4>1. /\ Tail(v) \in Seq(Cell) /\ Len(Tail(v)) = Len(v) - 1
            /\ \A i \in 1 .. Len(Tail(v)) : Tail(v)[i] = v[i + 1]
        BY <3>3, <3>4, HeadTailProperties
      <4>2. Len(Tail(v)) = Len(r.value)
        BY <1>1, <3>3, <4>1
      <4>3. \A i \in 1 .. Len(Tail(v)) : Tail(v)[i] = r.value[i]
        <5> SUFFICES ASSUME NEW i \in 1 .. Len(r.value)
                     PROVE  Tail(v)[i] = r.value[i]
          BY <4>2
        <5>1. Tail(v)[i] = v[i + 1] /\ v[1 + i] = rest[3 + i] /\ i + 1 = 1 + i
          BY <3>3, <4>1, <4>2
        <5>2. rest[3 + i] = r.value[i]
          BY <1>7, <2>2
        <5> QED
          BY <5>1, <5>2
      <4> QED
        BY <1>1, <4>1, <4>2, <4>3, SeqEqual
    <3> QED
      BY <3>4, <3>5, <3>6
  <2> QED
    BY <2>1, <2>2
<1> HIDE DEF v
<1>10. Parse(line) = [op |-> <<r.op>>, key |-> <<r.key>>, value |-> r.value]
  BY <1>5, <1>8, <1>9 DEF Parse
<1> QED
  BY <1>10 DEF line, AsRead

-----------------------------------------------------------------------------
(* Records in a text.                                                      *)

(* The line c stands in t behind the first p cells, and on a line of its   *)
(* own.                                                                    *)
Stands(t, p, c) ==
  /\ p + Len(c) <= Len(t)
  /\ \A i \in 1 .. Len(c) : t[p + i] = c[i]
  /\ p = 0 \/ t[p] = Newline

(* The records ls stand in t, one behind the other: each is some q[i], at  *)
(* p[i].                                                                   *)
StandAt(t, ls, p, q) ==
  /\ p \in [DOMAIN ls -> Nat] /\ q \in [DOMAIN ls -> Record]
  /\ \A i \in DOMAIN ls : ls[i] = AsRead(q[i]) /\ Stands(t, p[i], Cells(q[i]))
  /\ \A i, j \in DOMAIN ls : i < j => p[i] + Len(Cells(q[i])) <= p[j]

Holds(t, ls) == \E p, q : StandAt(t, ls, p, q)

(* A line that stands in a text is one of its lines. *)
LEMMA StandsRead ==
  ASSUME NEW t \in Seq(Cell), NEW p \in Nat, NEW r \in Record, Stands(t, p, Cells(r)),
         NEW n, n = Place(LineEnds(t), p + Len(Cells(r)) - 1)
  PROVE  /\ p + Len(Cells(r)) - 1 \in LineEnds(t)
         /\ n \in DOMAIN Replay(t) /\ Replay(t)[n] = AsRead(r)
<1> DEFINE c == Cells(r)
           e == p + Len(c) - 1
<1>1. /\ c \in Seq(Cell) /\ OneLine(c) /\ Clean(c) /\ Len(c) \in Nat /\ Len(c) > 1
      /\ Parse(LineOf(r)) = AsRead(r)
  BY CellsAre, LenProperties, ReadBack
<1>2. LineOf(r) = SubSeq(c, 1, Len(c) - 1)
  BY DEF LineOf
<1>3. Stands(t, p, c) /\ Len(t) \in Nat
  BY LenProperties
<1> HIDE DEF c
<1>4. e \in p + 1 .. Len(t) /\ e + 1 \in 1 .. Len(t) /\ e \in 1 .. Len(t)
  BY <1>1, <1>3 DEF Stands
<1>5. \A j \in p + 1 .. e : t[j] = c[j - p] /\ t[j] # Newline
  <2> SUFFICES ASSUME NEW j \in p + 1 .. e
               PROVE  t[j] = c[j - p] /\ t[j] # Newline
    OBVIOUS
  <2>1. j - p \in 1 .. Len(c) - 1 /\ j - p \in 1 .. Len(c) /\ p + (j - p) = j
    BY <1>1
  <2>2. t[p + (j - p)] = c[j - p]
    BY <1>3, <2>1 DEF Stands
  <2>3. c[j - p] # Newline
    BY <1>1, <2>1 DEF OneLine
  <2> QED
    BY <2>1, <2>2, <2>3
<1>6. t[e + 1] = Newline
  <2>1. Len(c) \in 1 .. Len(c) /\ p + Len(c) = e + 1 /\ c # <<>>
    BY <1>1
  <2>2. t[p + Len(c)] = c[Len(c)]
    BY <1>3, <2>1 DEF Stands
  <2>3. c[Len(c)] = Newline
    BY <1>1, <2>1 DEF Clean
  <2> QED
    BY <2>1, <2>2, <2>3
<1>7. e \in LineEnds(t)
  BY <1>4, <1>5, <1>6 DEF LineEnds
<1>8. n \in DOMAIN Lines(t) /\ Lines(t)[n] = SubSeq(t, p + 1, e)
  <2>1. p + 1 \in 1 .. e /\ (p + 1 = 1 \/ t[(p + 1) - 1] = Newline)
    <3>1. (p + 1) - 1 = p
      OBVIOUS
    <3> QED
      BY <1>3, <1>4, <3>1 DEF Stands
  <2>2. n = Place(LineEnds(t), e)
    BY DEF c
  <2> HIDE DEF e
  <2> QED
    BY <1>5, <1>7, <2>1, <2>2, LineAt
<1>9. SubSeq(t, p + 1, e) = SubSeq(c, 1, Len(c) - 1)
  <2>1. /\ p + 1 \in Int /\ e \in Int /\ e - (p + 1) + 1 = Len(c) - 1 /\ p + 1 <= e
        /\ 1 \in Int /\ Len(c) - 1 \in Int /\ 1 <= Len(c) - 1
    BY <1>1
  <2>2. /\ \A i \in p + 1 .. e : t[i] \in Cell
        /\ \A i \in 1 .. Len(c) - 1 : c[i] \in Cell
    <3>1. \A i \in 1 .. Len(t) : t[i] \in Cell
      BY ElementOfSeq
    <3>2. \A i \in 1 .. Len(c) : c[i] \in Cell
      BY <1>1, ElementOfSeq
    <3> QED
      BY <1>1, <1>3, <1>4, <3>1, <3>2
  <2>3. /\ SubSeq(t, p + 1, e) \in Seq(Cell) /\ Len(SubSeq(t, p + 1, e)) = Len(c) - 1
        /\ \A i \in 1 .. e - (p + 1) + 1 : SubSeq(t, p + 1, e)[i] = t[p + 1 + i - 1]
    BY <2>1, <2>2, SubSeqProperties
  <2>4. /\ SubSeq(c, 1, Len(c) - 1) \in Seq(Cell)
        /\ Len(SubSeq(c, 1, Len(c) - 1)) = Len(c) - 1
        /\ \A i \in 1 .. (Len(c) - 1) - 1 + 1 : SubSeq(c, 1, Len(c) - 1)[i] = c[1 + i - 1]
    <3>1. (Len(c) - 1) - 1 + 1 = Len(c) - 1
      BY <2>1
    <3> QED
      BY <2>1, <2>2, <3>1, SubSeqProperties
  <2>5. ASSUME NEW i \in 1 .. Len(c) - 1
        PROVE  SubSeq(t, p + 1, e)[i] = SubSeq(c, 1, Len(c) - 1)[i]
    <3>1. /\ i \in 1 .. e - (p + 1) + 1 /\ i \in 1 .. (Len(c) - 1) - 1 + 1
          /\ p + 1 + i - 1 = p + i /\ 1 + i - 1 = i
          /\ p + i \in p + 1 .. e /\ (p + i) - p = i
      BY <1>1
    <3>2. SubSeq(t, p + 1, e)[i] = t[p + i] /\ SubSeq(c, 1, Len(c) - 1)[i] = c[i]
      BY <2>3, <2>4, <3>1
    <3>3. t[p + i] = c[i]
      BY <1>5, <3>1
    <3> QED
      BY <3>2, <3>3
  <2> QED
    BY <2>3, <2>4, <2>5, SeqEqual
<1>10. n \in DOMAIN Replay(t) /\ Replay(t)[n] = Parse(Lines(t)[n])
  BY <1>8 DEF Replay
<1> QED
  BY <1>1, <1>2, <1>7, <1>8, <1>9, <1>10 DEF c

(* Records that stand in a text are replayed, in their order.              *)
LEMMA HeldIsReplayed ==
  ASSUME NEW t \in Seq(Cell), NEW S, NEW ls \in Seq(S), Holds(t, ls)
  PROVE  IsPartOf(ls, Replay(t))
<1>1. PICK p, q : StandAt(t, ls, p, q)
  BY DEF Holds
<1>2. /\ p \in [DOMAIN ls -> Nat] /\ q \in [DOMAIN ls -> Record]
      /\ \A i \in DOMAIN ls : ls[i] = AsRead(q[i]) /\ Stands(t, p[i], Cells(q[i]))
      /\ \A i, j \in DOMAIN ls : i < j => p[i] + Len(Cells(q[i])) <= p[j]
  BY <1>1 DEF StandAt
<1> DEFINE e(i) == p[i] + Len(Cells(q[i])) - 1
           g == [i \in DOMAIN ls |-> Place(LineEnds(t), e(i))]
<1>3. ASSUME NEW i \in DOMAIN ls
      PROVE  /\ e(i) \in LineEnds(t) /\ g[i] \in DOMAIN Replay(t)
             /\ Replay(t)[g[i]] = ls[i]
  <2>1. p[i] \in Nat /\ q[i] \in Record /\ Stands(t, p[i], Cells(q[i]))
    BY <1>2
  <2>2. g[i] = Place(LineEnds(t), p[i] + Len(Cells(q[i])) - 1)
    OBVIOUS
  <2> HIDE DEF g
  <2> QED
    BY <1>2, <2>1, <2>2, StandsRead
<1>4. ASSUME NEW i \in DOMAIN ls, NEW j \in DOMAIN ls, i < j
      PROVE  g[i] < g[j]
  <2>1. /\ p[i] \in Nat /\ p[j] \in Nat /\ p[i] + Len(Cells(q[i])) <= p[j]
        /\ q[i] \in Record /\ q[j] \in Record
    BY <1>2, <1>4
  <2>2. Len(Cells(q[i])) \in Nat /\ Len(Cells(q[j])) \in Nat /\ Len(Cells(q[j])) > 0
    <3>1. \A r \in Record : Len(Cells(r)) \in Nat /\ Len(Cells(r)) > 0
      BY CellsAre, LenProperties
    <3> QED
      BY <2>1, <3>1
  <2>3. e(i) < e(j)
    BY <2>1, <2>2
  <2>4. e(i) \in LineEnds(t) /\ e(j) \in LineEnds(t)
    BY <1>3
  <2>5. LineEnds(t) \in SUBSET (1 .. Len(t)) /\ Len(t) \in Nat
    BY EndsFinite, LenProperties
  <2>6. g[i] = Place(LineEnds(t), e(i)) /\ g[j] = Place(LineEnds(t), e(j))
    OBVIOUS
  <2> HIDE DEF e, g
  <2> QED
    BY <2>3, <2>4, <2>5, <2>6, Places
<1>5. g = [i \in DOMAIN ls |-> g[i]]
  OBVIOUS
<1> HIDE DEF g
<1>6. g \in [DOMAIN ls -> DOMAIN Replay(t)]
  BY <1>3, <1>5
<1> QED
  BY <1>3, <1>4, <1>6 DEF IsPartOf

(* What stands in a text stands in every longer one.                       *)
LEMMA StandsLonger ==
  ASSUME NEW t \in Seq(Cell), NEW u \in Seq(Cell), NEW b \in Nat, NEW r \in Record,
         Stands(t, b, Cells(r))
  PROVE  Stands(t \o u, b, Cells(r))
<1>1. /\ Len(t \o u) = Len(t) + Len(u) /\ Len(t) \in Nat /\ Len(u) \in Nat
      /\ \A i \in 1 .. Len(t) : (t \o u)[i] = t[i]
  BY Joined
<1>2. Len(Cells(r)) \in Nat
  BY CellsAre, LenProperties
<1> DEFINE c == Cells(r)
           w == t \o u
<1>3. Stands(t, b, c) /\ Len(c) \in Nat
  BY <1>2
<1> HIDE DEF c, w
<1>4. /\ Len(w) = Len(t) + Len(u) /\ \A i \in 1 .. Len(t) : w[i] = t[i]
  BY <1>1 DEF w
<1>5. b + Len(c) <= Len(w)
  BY <1>1, <1>3, <1>4 DEF Stands
<1>6. \A i \in 1 .. Len(c) : w[b + i] = c[i]
  <2> SUFFICES ASSUME NEW i \in 1 .. Len(c)
               PROVE  w[b + i] = c[i]
    OBVIOUS
  <2>1. b + i \in 1 .. Len(t)
    BY <1>1, <1>3 DEF Stands
  <2>2. t[b + i] = c[i]
    BY <1>3 DEF Stands
  <2> QED
    BY <1>4, <2>1, <2>2
<1>7. b = 0 \/ w[b] = Newline
  <2>1. b = 0 \/ b \in 1 .. Len(t)
    BY <1>1, <1>3 DEF Stands
  <2> QED
    BY <1>3, <1>4, <2>1 DEF Stands
<1>8. Stands(w, b, c)
  BY <1>5, <1>6, <1>7 DEF Stands
<1> QED
  BY <1>8 DEF w, c

(* So do all the records that stand in it.                                 *)
LEMMA StaysHeld ==
  ASSUME NEW t \in Seq(Cell), NEW u \in Seq(Cell), NEW ls, Holds(t, ls)
  PROVE  Holds(t \o u, ls)
<1>1. PICK p, q : StandAt(t, ls, p, q)
  BY DEF Holds
<1>2. StandAt(t \o u, ls, p, q)
  BY <1>1, StandsLonger DEF StandAt
<1> QED
  BY <1>2 DEF Holds

(* A line written behind a clean text stands in it, behind the others.     *)
LEMMA OneMoreHeld ==
  ASSUME NEW t \in Seq(Cell), Clean(t), NEW S, NEW ls \in Seq(S), NEW r \in Record,
         AsRead(r) \in S, Holds(t, ls)
  PROVE  Holds(t \o Cells(r), Append(ls, AsRead(r)))
<1> DEFINE c == Cells(r)
           w == t \o c
           ms == Append(ls, AsRead(r))
           n == Len(ls) + 1
<1>1. PICK p, q : StandAt(t, ls, p, q)
  BY DEF Holds
<1>2. /\ Len(ls) \in Nat /\ DOMAIN ls = 1 .. Len(ls) /\ DOMAIN ms = 1 .. n
      /\ ms[n] = AsRead(r) /\ \A i \in DOMAIN ls : ms[i] = ls[i]
  BY LenProperties, AppendProperties
<1>3. /\ c \in Seq(Cell) /\ Len(c) \in Nat /\ Len(t) \in Nat
      /\ Len(w) = Len(t) + Len(c)
      /\ \A i \in 1 .. Len(t) : w[i] = t[i]
      /\ \A i \in 1 .. Len(c) : w[Len(t) + i] = c[i]
  BY CellsAre, Joined
<1> HIDE DEF c, w, ms, n
<1>4. Stands(w, Len(t), c)
  <2>1. Len(t) = 0 \/ w[Len(t)] = Newline
    <3>1. CASE t = <<>>
      BY <3>1
    <3>2. CASE t # <<>>
      <4>1. t[Len(t)] = Newline /\ Len(t) \in 1 .. Len(t)
        BY <1>3, <3>2 DEF Clean
      <4> QED
        BY <1>3, <4>1
    <3> QED
      BY <3>1, <3>2
  <2> QED
    BY <1>3, <2>1 DEF Stands
<1> DEFINE p1 == [i \in DOMAIN ms |-> IF i = n THEN Len(t) ELSE p[i]]
           q1 == [i \in DOMAIN ms |-> IF i = n THEN r ELSE q[i]]
<1>5. /\ p \in [DOMAIN ls -> Nat] /\ q \in [DOMAIN ls -> Record]
      /\ \A i \in DOMAIN ls : ls[i] = AsRead(q[i]) /\ Stands(t, p[i], Cells(q[i]))
      /\ \A i, j \in DOMAIN ls : i < j => p[i] + Len(Cells(q[i])) <= p[j]
  BY <1>1 DEF StandAt
<1>6. /\ n \in DOMAIN ms /\ n \notin DOMAIN ls /\ DOMAIN ms = DOMAIN ls \cup {n}
      /\ \A i \in DOMAIN ls : i < n /\ i # n /\ i \in Nat
      /\ n \in Nat
  BY <1>2 DEF n
<1>7. /\ p1[n] = Len(t) /\ q1[n] = r
      /\ \A i \in DOMAIN ls : p1[i] = p[i] /\ q1[i] = q[i]
  BY <1>6
<1>8. p1 \in [DOMAIN ms -> Nat] /\ q1 \in [DOMAIN ms -> Record]
  BY <1>3, <1>5, <1>6
<1> HIDE DEF p1, q1
<1>9. ASSUME NEW i \in DOMAIN ms
       PROVE  ms[i] = AsRead(q1[i]) /\ Stands(w, p1[i], Cells(q1[i]))
  <2>1. CASE i = n
    BY <1>2, <1>4, <1>7, <2>1 DEF c, n
  <2>2. CASE i \in DOMAIN ls
    <3>1. ms[i] = AsRead(q1[i])
      BY <1>2, <1>5, <1>7, <2>2
    <3>2. Stands(t, p[i], Cells(q[i])) /\ p[i] \in Nat /\ q[i] \in Record
      BY <1>5, <2>2
    <3>3. Stands(w, p[i], Cells(q[i]))
      BY <1>3, <3>2, StandsLonger DEF w
    <3> QED
      BY <1>7, <2>2, <3>1, <3>3
  <2> QED
    BY <1>6, <2>1, <2>2
<1>10. ASSUME NEW i \in DOMAIN ms, NEW j \in DOMAIN ms, i < j
       PROVE  p1[i] + Len(Cells(q1[i])) <= p1[j]
  <2>1. i \in DOMAIN ls
    <3>1. i # n
      BY <1>6, <1>10
    <3> QED
      BY <1>6, <3>1
  <2>2. CASE j \in DOMAIN ls
    BY <1>5, <1>7, <1>10, <2>1, <2>2
  <2>3. CASE j = n
    <3>1. Stands(t, p[i], Cells(q[i]))
      BY <1>5, <2>1
    <3>2. p[i] + Len(Cells(q[i])) <= Len(t)
      BY <3>1 DEF Stands
    <3> QED
      BY <1>7, <2>1, <2>3, <3>2
  <2> QED
    BY <1>6, <2>2, <2>3
<1>11. StandAt(w, ms, p1, q1)
  BY <1>8, <1>9, <1>10 DEF StandAt
<1>12. Holds(w, ms)
  BY <1>11 DEF Holds
<1> QED
  BY <1>12 DEF w, ms, c

(* How many lines a text has.                                              *)
Count(t) == Cardinality(LineEnds(t))

(* A line behind a text is one line more at most, and none more behind a   *)
(* torn one.                                                               *)
LEMMA LineAdds ==
  ASSUME NEW t \in Seq(Cell), NEW u \in Seq(Cell), OneLine(u)
  PROVE  /\ Count(t \o u) <= Count(t) + 1
         /\ ~Clean(t) => Count(t \o u) <= Count(t)
<1> DEFINE w == t \o u
           I == LineEnds(t)
           J == LineEnds(w)
           n == Len(t)
           e == n + (IF u[Len(u)] = Newline THEN Len(u) - 1 ELSE Len(u))
<1>1. /\ n \in Nat /\ Len(u) \in Nat /\ Len(w) = n + Len(u)
      /\ \A i \in 1 .. n : w[i] = t[i]
      /\ \A i \in 1 .. Len(u) : w[n + i] = u[i]
  BY Joined
<1>2. IsFiniteSet(I) /\ Cardinality(I) \in Nat
  BY EndsFinite
<1>3. CASE u = <<>>
  <2>1. w = t
    BY <1>3
  <2> QED
    BY <1>2, <2>1 DEF Count
<1>4. CASE u # <<>>
  <2>1. n \in Nat /\ Len(u) \in Nat /\ Len(u) > 0 /\ Len(w) = n + Len(u)
    BY <1>1, <1>4
  <2> HIDE DEF w
  <2>2. ASSUME NEW i \in J
        PROVE  i \in I \/ i = e
    <3>1. i \in 1 .. Len(w) /\ w[i] # Newline /\ (i = Len(w) \/ w[i + 1] = Newline)
      BY DEF LineEnds
    <3>2. CASE i < n
      <4>1. i \in 1 .. n /\ i + 1 \in 1 .. n /\ i # Len(w)
        BY <1>1, <3>1, <3>2
      <4>2. t[i] # Newline /\ t[i + 1] = Newline
        BY <1>1, <3>1, <4>1
      <4> QED
        BY <4>1, <4>2 DEF LineEnds
    <3>3. CASE i = n
      <4>1. i \in 1 .. n /\ t[i] # Newline
        BY <1>1, <3>1, <3>3
      <4> QED
        BY <3>3, <4>1 DEF LineEnds
    <3>4. CASE i > n
      <4>1. i - n \in 1 .. Len(u) /\ n + (i - n) = i /\ u[i - n] # Newline
        <5>1. i - n \in 1 .. Len(u) /\ n + (i - n) = i
          BY <1>1, <3>1, <3>4
        <5>2. w[n + (i - n)] = u[i - n]
          BY <1>1, <5>1
        <5> QED
          BY <3>1, <5>1, <5>2
      <4>2. CASE i = Len(w)
        <5>1. i - n = Len(u)
          BY <1>1, <4>2
        <5>2. u[Len(u)] # Newline
          BY <4>1, <5>1
        <5> QED
          BY <1>1, <4>2, <5>2
      <4>3. CASE i # Len(w)
        <5>1. i - n + 1 \in 1 .. Len(u) /\ n + (i - n + 1) = i + 1
          BY <2>1, <3>1, <4>1, <4>3
        <5>2. w[n + (i - n + 1)] = u[i - n + 1]
          BY <1>1, <5>1
        <5>3. u[i - n + 1] = Newline
          BY <3>1, <4>3, <5>1, <5>2
        <5>4. i - n + 1 = Len(u)
          <6>1. i - n + 1 \notin 1 .. Len(u) - 1
            BY <5>3 DEF OneLine
          <6> QED
            BY <1>1, <5>1, <6>1
        <5>5. e = n + (Len(u) - 1)
          BY <5>3, <5>4
        <5> QED
          BY <1>1, <3>1, <5>4, <5>5
      <4> QED
        BY <4>2, <4>3
    <3> QED
      BY <1>1, <3>1, <3>2, <3>3, <3>4
  <2> HIDE DEF J, I, e
  <2>3. J \subseteq I \cup {e}
    BY <2>2
  <2>4. Cardinality(J) <= Cardinality(I) + 1
    BY <1>2, <2>3, OneMoreElement
  <2>5. ASSUME ~Clean(t)
        PROVE  Cardinality(J) <= Cardinality(I)
    <3>1. n \in I
      <4>1. n \in 1 .. n /\ t[n] # Newline
        BY <1>1, <2>5 DEF Clean
      <4> QED
        BY <4>1 DEF I, LineEnds
    <3>2. CASE u[1] = Newline
      <4>1. Len(u) = 1
        <5>1. \A k \in Nat : k > 0 /\ k # 1 => 1 \in 1 .. k - 1
          OBVIOUS
        <5>2. Len(u) # 1 => 1 \in 1 .. Len(u) - 1
          BY <2>1, <5>1
        <5> QED
          BY <3>2, <5>2 DEF OneLine
      <4>2. e = n
        BY <1>1, <3>2, <4>1 DEF e
      <4> QED
        BY <1>2, <2>3, <3>1, <4>2, OneMoreElement
    <3>3. CASE u[1] # Newline
      <4>1. n \notin J
        <5>1. w[n + 1] = u[1] /\ n # Len(w)
          BY <1>1, <2>1
        <5> QED
          BY <3>3, <5>1 DEF J, LineEnds
      <4>2. J \subseteq (I \ {n}) \cup {e}
        BY <2>3, <4>1
      <4>3. IsFiniteSet(I \ {n}) /\ Cardinality(I \ {n}) = Cardinality(I) - 1
        BY <1>2, <3>1, FS_RemoveElement
      <4>4. Cardinality(J) <= Cardinality(I \ {n}) + 1
        BY <4>2, <4>3, OneMoreElement
      <4> QED
        BY <1>2, <4>3, <4>4
    <3> QED
      BY <3>2, <3>3
  <2> QED
    BY <2>4, <2>5 DEF Count, I, J, w
<1> QED
  BY <1>3, <1>4

(* replay yields one record for every end of a line.                       *)
LEMMA ReplayLength ==
  ASSUME NEW t \in Seq(Cell)
  PROVE  Len(Replay(t)) = Count(t) /\ Count(t) \in Nat
<1>1. Count(t) \in Nat
  BY EndsFinite DEF Count
<1>2. DOMAIN Lines(t) = 1 .. Count(t)
  BY DEF Lines, Count
<1>3. DOMAIN Replay(t) = 1 .. Count(t)
  BY <1>2 DEF Replay
<1>4. Replay(t) = [i \in 1 .. Count(t) |-> Replay(t)[i]]
  BY <1>2 DEF Replay
<1> HIDE DEF Count
<1> QED
  BY <1>1, <1>3, <1>4

-----------------------------------------------------------------------------
(* The invariant of the losses holds at first, and every action keeps it.  *)
LEMMA InitInvariant == Init => IInv
<1> SUFFICES ASSUME Init
             PROVE  IInv
  OBVIOUS
<1>1. TypeOK
  BY BoundsAssumption, TextIsSeq DEF Init, TypeOK
<1>2. Buffered
  BY DEF Init, Buffered, Clean
<1>3. Credit
  BY DEF Init, Credit, Glued, Clean
<1> QED
  BY <1>1, <1>2, <1>3 DEF IInv

(* The parts of the invariant that the steps below start from.             *)
LEMMA Arithmetic ==
  ASSUME IInv
  PROVE  /\ file \in Seq(Cell) /\ buffer \in Seq(Cell) /\ Len(file) \in Nat
         /\ written \in Nat /\ tears \in Nat /\ Len(lines) \in Nat /\ start \in Nat
BY TextIsSeq DEF IInv, TypeOK, Buffered

LEMMA AppendBeginInv ==
  ASSUME IInv, NEW r \in Record, AppendBegin(r)
  PROVE  IInv'
<1>1. Cells(r) \in Seq(Cell) /\ Cells(r) # <<>> /\ Clean(Cells(r))
  BY CellsOfRecord
<1>2. r # None
  BY DEF Record, None
<1>3. TypeOK'
  BY <1>1, Arithmetic, BoundsAssumption, TextIsSeq DEF AppendBegin, IInv, TypeOK, ghosts
<1>4. Buffered'
  BY <1>1, <1>2, Arithmetic DEF AppendBegin, IInv, Buffered, Clean, ghosts, TypeOK
<1>5. Credit'
  <2>1. Glued' <=> Glued
    BY <1>2, Arithmetic DEF AppendBegin, Glued, OnCleanLine, Clean, IInv, TypeOK
  <2> QED
    BY <2>1 DEF AppendBegin, IInv, Credit, ghosts
<1> QED
  BY <1>3, <1>4, <1>5 DEF IInv

LEMMA OverflowInv ==
  ASSUME IInv, Overflow
  PROVE  IInv'
<1>1. PICK n \in 1 .. Len(buffer) - 1 : WriteOut(n)
  BY DEF Overflow
<1>2. n \in 0 .. Len(buffer) /\ n < Len(buffer)
  BY Arithmetic
<1> DEFINE part == SubSeq(buffer, 1, n)
           rest == SubSeq(buffer, n + 1, Len(buffer))
<1>3. /\ part \in Seq(Cell) /\ rest \in Seq(Cell) /\ rest # <<>> /\ Clean(rest)
      /\ file' = file \o part /\ buffer' = rest
  BY <1>1, <1>2, Arithmetic, CutText DEF WriteOut, IInv, Buffered
<1> HIDE DEF part, rest
<1>4. /\ file' \in Seq(Cell) /\ Len(file') = Len(file) + Len(part) /\ Len(part) \in Nat
      /\ \A i \in 1 .. Len(file) : file'[i] = file[i]
  BY <1>3, Arithmetic, LinesAdded
<1>5. UNCHANGED <<stream, current, start, appends, faults, kills, lines, written, tears>>
  BY DEF Overflow, ghosts
<1>6. TypeOK'
  BY <1>3, <1>4, <1>5, TextIsSeq DEF IInv, TypeOK
<1>7. start <= Len(file) /\ start <= Len(file') /\ current # None /\ stream = "good"
  BY <1>4, Arithmetic DEF Overflow, IInv, Buffered
<1>8. Buffered'
  BY <1>3, <1>5, <1>7 DEF IInv, Buffered
<1>9. Credit'
  <2>1. OnCleanLine' <=> OnCleanLine
    BY <1>4, <1>5, <1>7, Arithmetic DEF OnCleanLine
  <2>2. Glued' <=> Glued
    BY <1>5, <1>7, <2>1 DEF Glued
  <2> QED
    BY <1>5, <2>2 DEF IInv, Credit
<1> QED
  BY <1>6, <1>8, <1>9 DEF IInv

(* What is left in the buffer is written, and the file ends with a line or *)
(* as it did before.                                                       *)
LEMMA WriteAll ==
  ASSUME IInv, WriteOut(Len(buffer))
  PROVE  /\ file' = file \o buffer /\ buffer' = <<>>
         /\ file' \in Seq(Cell) /\ Len(file) <= Len(file')
         /\ Clean(file) \/ buffer # <<>> => Clean(file')
<1>1. Len(buffer) \in 0 .. Len(buffer)
  BY Arithmetic
<1>2. file' = file \o buffer /\ buffer' = <<>>
  BY <1>1, Arithmetic, CutText DEF WriteOut
<1>3. Clean(buffer)
  BY DEF IInv, Buffered
<1> QED
  BY <1>2, <1>3, Arithmetic, LinesAdded

LEMMA AppendEndInv ==
  ASSUME IInv, AppendEnd
  PROVE  IInv'
<1>1. /\ buffer # <<>> /\ current # None /\ stream = "good" /\ current \in Record
      /\ buffer' = <<>> /\ file' \in Seq(Cell) /\ Clean(file')
      /\ current' = None /\ written' = written + 1
      /\ UNCHANGED <<stream, start, appends, faults, kills, tears>>
      /\ lines' = IF OnCleanLine THEN Append(lines, AsRead(current)) ELSE lines
  BY WriteAll DEF AppendEnd, IInv, Buffered, TypeOK
<1>2. TypeOK'
  BY <1>1, TextIsSeq DEF IInv, TypeOK
<1>3. /\ lines' \in Seq({AsRead(r) : r \in Record})
      /\ Len(lines') = IF OnCleanLine THEN Len(lines) + 1 ELSE Len(lines)
  BY <1>1 DEF IInv, Buffered
<1>4. Buffered'
  BY <1>1, <1>3 DEF Buffered, Clean
<1>5. Credit'
  <2>1. ~Glued'
    BY <1>1 DEF Glued
  <2>2. Glued <=> ~OnCleanLine
    BY <1>1 DEF Glued
  <2> QED
    BY <1>1, <1>3, <2>1, <2>2, Arithmetic DEF IInv, Credit
<1> QED
  BY <1>2, <1>4, <1>5 DEF IInv

LEMMA AppendRefusedInv ==
  ASSUME IInv, AppendRefused
  PROVE  IInv'
<1>1. PICK n \in 0 .. Len(buffer) - 1 : file' = file \o SubSeq(buffer, 1, n)
  BY DEF AppendRefused
<1>2. n \in 0 .. Len(buffer)
  BY Arithmetic
<1>3. file' \in Seq(Cell)
  BY <1>1, <1>2, Arithmetic, CutText, LinesAdded
<1>4. /\ stream' = "bad" /\ faults' = faults + 1 /\ faults < MaxFaults /\ current' = None
      /\ tears' = tears + 1
      /\ UNCHANGED <<buffer, start, appends, kills, lines, written>>
  BY DEF AppendRefused
<1>5. TypeOK'
  BY <1>3, <1>4, TextIsSeq, BoundsAssumption DEF IInv, TypeOK
<1>6. Buffered'
  BY <1>4 DEF IInv, Buffered
<1>7. Credit'
  BY <1>4, Arithmetic DEF IInv, Credit
<1> QED
  BY <1>5, <1>6, <1>7 DEF IInv

(* A flush of a bad stream, by append or by sync.                          *)
LEMMA FlushBadInv ==
  ASSUME IInv, AppendIgnored \/ Sync
  PROVE  IInv'
<1>1. /\ stream = "bad" /\ current' = None /\ FlushBad
      /\ UNCHANGED <<stream, start, appends, faults, kills, lines, written, tears>>
  BY DEF AppendIgnored, Sync, ghosts
<1>2. /\ file' \in Seq(Cell) /\ buffer' \in Seq(Cell) /\ Clean(buffer')
      /\ Clean(file) => Clean(file')
  <2>1. CASE UNCHANGED <<file, buffer>>
    BY <2>1, Arithmetic DEF IInv, Buffered
  <2>2. CASE WriteOut(Len(buffer))
    BY <2>2, WriteAll DEF Clean
  <2> QED
    BY <1>1, <2>1, <2>2 DEF FlushBad
<1>3. TypeOK'
  BY <1>1, <1>2, TextIsSeq DEF IInv, TypeOK
<1>4. Buffered'
  BY <1>1, <1>2 DEF IInv, Buffered
<1>5. Credit'
  <2>1. Glued' => Glued
    BY <1>1, <1>2 DEF Glued
  <2> QED
    BY <1>1, <2>1, Arithmetic DEF IInv, Credit
<1> QED
  BY <1>3, <1>4, <1>5 DEF IInv

LEMMA TruncateInv ==
  ASSUME IInv, Truncate
  PROVE  IInv'
<1>1. TypeOK'
  BY TextIsSeq DEF Truncate, IInv, TypeOK
<1>2. Buffered'
  BY DEF Truncate, Buffered, Clean
<1>3. Credit'
  BY DEF Truncate, Credit, Glued, Clean
<1> QED
  BY <1>1, <1>2, <1>3 DEF IInv

LEMMA TruncateFailsInv ==
  ASSUME IInv, TruncateFails
  PROVE  IInv'
<1>1. /\ current = None /\ faults' = faults + 1 /\ faults < MaxFaults
      /\ buffer' = <<>> /\ stream' = "closed" /\ file' \in {file, file \o buffer}
      /\ UNCHANGED <<current, start, appends, kills, lines, written, tears>>
  BY DEF TruncateFails, ghosts
<1>2. file' \in Seq(Cell) /\ (Clean(file) => Clean(file'))
  BY <1>1, Arithmetic, LinesAdded DEF IInv, Buffered
<1>3. TypeOK'
  BY <1>1, <1>2, TextIsSeq, BoundsAssumption DEF IInv, TypeOK
<1>4. Buffered'
  BY <1>1 DEF IInv, Buffered, Clean
<1>5. Credit'
  <2>1. Glued' => Glued
    BY <1>1, <1>2 DEF Glued
  <2> QED
    BY <1>1, <2>1, Arithmetic DEF IInv, Credit
<1> QED
  BY <1>3, <1>4, <1>5 DEF IInv

LEMMA KillInv ==
  ASSUME IInv, Kill
  PROVE  IInv'
<1>1. /\ tears' = IF current # None /\ stream = "good" THEN tears + 1 ELSE tears
      /\ buffer' = <<>> /\ stream' = "good" /\ current' = None
      /\ kills' = kills + 1 /\ kills < MaxKills
      /\ UNCHANGED <<file, start, appends, faults, lines, written>>
  BY DEF Kill
<1>2. TypeOK'
  BY <1>1, TextIsSeq, BoundsAssumption DEF IInv, TypeOK
<1>3. Buffered'
  BY <1>1 DEF IInv, Buffered, Clean
<1>4. Credit'
  <2>1. CASE current # None /\ stream = "good"
    BY <1>1, <2>1, Arithmetic DEF IInv, Credit
  <2>2. CASE ~(current # None /\ stream = "good")
    BY <1>1, <2>2 DEF IInv, Credit, Glued
  <2> QED
    BY <2>1, <2>2
<1> QED
  BY <1>2, <1>3, <1>4 DEF IInv

(* Every step keeps the invariant of the losses.                           *)
LEMMA NextInvariant == IInv /\ [Next]_vars => IInv'
<1> SUFFICES ASSUME IInv, [Next]_vars
             PROVE  IInv'
  OBVIOUS
<1>1. CASE UNCHANGED vars
  BY <1>1 DEF vars, io, ghosts, IInv, TypeOK, Buffered, Credit, Glued, OnCleanLine
<1>2. CASE AppendThrows
  BY <1>2, BoundsAssumption
     DEF AppendThrows, io, ghosts, IInv, TypeOK, Buffered, Credit, Glued, OnCleanLine
<1> QED
  BY <1>1, <1>2, AppendBeginInv, OverflowInv, AppendEndInv, AppendRefusedInv, FlushBadInv,
     TruncateInv, TruncateFailsInv, KillInv DEF Next

-----------------------------------------------------------------------------
(* Which part of the file is settled: all of it, or what was there before  *)
(* the line that is being written.                                         *)

Composing == current # None /\ stream = "good"

(* A stream that has turned bad may write its line later, on a line of its *)
(* own.                                                                    *)
Owed == stream = "bad" /\ buffer # <<>> /\ Clean(file)

Settled(f, b) ==
  /\ f \in Seq(Cell) /\ b \in Seq(Cell) /\ file = f \o b
  /\ IF Composing THEN b \o buffer = Cells(current) /\ start = Len(f) ELSE b = <<>>
  /\ Holds(f, lines)
  /\ Count(f) + (IF Owed THEN 1 ELSE 0) <= Len(lines) + tears

Whole ==
  /\ OneLine(buffer)
  /\ current = None /\ stream # "bad" => buffer = <<>>
  /\ stream = "closed" => current = None
  /\ \E f, b : Settled(f, b)

(* An empty file holds no record and no line.                              *)
LEMMA EmptyText ==
  /\ <<>> \in Seq(Cell) /\ OneLine(<<>>) /\ Clean(<<>>)
  /\ Count(<<>>) = 0 /\ Holds(<<>>, <<>>)
  /\ \A t \in Seq(Cell) : t \o <<>> = t /\ <<>> \o t = t
<1>1. <<>> \in Seq(Cell) /\ OneLine(<<>>) /\ Clean(<<>>)
  BY DEF OneLine, Clean
<1>2. Count(<<>>) = 0
  <2>1. LineEnds(<<>>) = {}
    BY DEF LineEnds
  <2> QED
    BY <2>1, FS_EmptySet DEF Count
<1>3. Holds(<<>>, <<>>)
  <2> DEFINE p == [i \in {} |-> 0]
             q == [i \in {} |-> [op |-> "none"]]
  <2>1. DOMAIN <<>> = {}
    OBVIOUS
  <2>2. p \in [{} -> Nat] /\ q \in [{} -> Record]
    OBVIOUS
  <2> HIDE DEF p, q
  <2>3. StandAt(<<>>, <<>>, p, q)
    BY <2>1, <2>2 DEF StandAt
  <2> QED
    BY <2>3 DEF Holds
<1>4. \A t \in Seq(Cell) : t \o <<>> = t /\ <<>> \o t = t
  BY ConcatEmptySeq
<1> QED
  BY <1>1, <1>2, <1>3, <1>4

(* A line cut in two.                                                      *)
LEMMA CutLine ==
  ASSUME NEW c \in Seq(Cell), OneLine(c), NEW n \in 0 .. Len(c)
  PROVE  /\ OneLine(SubSeq(c, n + 1, Len(c)))
         /\ SubSeq(c, 1, n) \o SubSeq(c, n + 1, Len(c)) = c
<1> DEFINE rest == SubSeq(c, n + 1, Len(c))
<1>1. Len(c) \in Nat /\ n \in Nat
  BY LenProperties
<1>2. Len(rest) = Len(c) - n /\ \A i \in 1 .. Len(rest) : rest[i] = c[n + i]
  OBVIOUS
<1> HIDE DEF rest
<1>3. OneLine(rest)
  <2> SUFFICES ASSUME NEW i \in 1 .. Len(rest) - 1
               PROVE  rest[i] # Newline
    BY DEF OneLine
  <2>1. n + i \in 1 .. Len(c) - 1 /\ i \in 1 .. Len(rest)
    BY <1>1, <1>2
  <2> QED
    BY <1>2, <2>1 DEF OneLine
<1>4. SubSeq(c, 1, n) \o SubSeq(c, n + 1, Len(c)) = SubSeq(c, 1, Len(c))
  <2>1. 1 \in 1 .. Len(c) + 1 /\ n \in 1 - 1 .. Len(c) /\ Len(c) \in n .. Len(c)
    BY <1>1
  <2> QED
    BY <2>1, ConcatAdjacentSubSeq
<1> QED
  BY <1>3, <1>4, SubSeqFull DEF rest

(* What comes before the end of a line is torn. *)
LEMMA TornLine ==
  ASSUME NEW r \in Record, NEW d \in Seq(Cell), NEW u \in Seq(Cell), u # <<>>,
         d \o u = Cells(r), NEW f \in Seq(Cell)
  PROVE  OneLine(d) /\ (d # <<>> => ~Clean(f \o d))
<1>1. /\ Len(d) \in Nat /\ Len(u) \in Nat /\ Len(u) # 0
      /\ Len(Cells(r)) = Len(d) + Len(u)
      /\ \A i \in 1 .. Len(d) : Cells(r)[i] = d[i]
  BY Joined
<1>2. \A i \in 1 .. Len(d) : d[i] # Newline
  <2> SUFFICES ASSUME NEW i \in 1 .. Len(d)
               PROVE  d[i] # Newline
    OBVIOUS
  <2>1. i \in 1 .. Len(Cells(r)) - 1
    BY <1>1
  <2> QED
    BY <1>1, <2>1, CellsAre DEF OneLine
<1>3. OneLine(d)
  <2> SUFFICES ASSUME NEW i \in 1 .. Len(d) - 1
               PROVE  d[i] # Newline
    BY DEF OneLine
  <2>1. i \in 1 .. Len(d)
    BY <1>1
  <2> QED
    BY <1>2, <2>1
<1>4. ASSUME d # <<>>
      PROVE  ~Clean(f \o d)
  <2>1. /\ f \o d \in Seq(Cell) /\ Len(f \o d) = Len(f) + Len(d) /\ Len(f) \in Nat
        /\ \A i \in 1 .. Len(d) : (f \o d)[Len(f) + i] = d[i]
    BY Joined
  <2>2. Len(d) \in 1 .. Len(d)
    BY <1>1, <1>4
  <2>3. (f \o d)[Len(f \o d)] = d[Len(d)] /\ Len(f \o d) > 0
    BY <2>1, <2>2
  <2>4. f \o d # <<>>
    BY <2>3
  <2> QED
    BY <1>2, <2>2, <2>3, <2>4 DEF Clean
<1> QED
  BY <1>3, <1>4

(* The settled part of the file exists at first, and after every action.   *)
LEMMA InitWhole == Init => Whole
<1> SUFFICES ASSUME Init
             PROVE  Whole
  OBVIOUS
<1>1. /\ file = <<>> /\ buffer = <<>> /\ stream = "good" /\ current = None
      /\ lines = <<>> /\ tears = 0
  BY DEF Init
<1>2. Settled(<<>>, <<>>)
  BY <1>1, EmptyText DEF Settled, Composing, Owed
<1> QED
  BY <1>1, <1>2, EmptyText DEF Whole

LEMMA AppendBeginWhole ==
  ASSUME IInv, Whole, NEW r \in Record, AppendBegin(r)
  PROVE  Whole'
<1>1. /\ current = None /\ current' = r /\ r # None /\ start' = Len(file)
      /\ UNCHANGED <<file, lines, tears>>
      /\ buffer' = IF stream = "bad" THEN buffer ELSE Cells(r)
      /\ stream' = IF stream = "closed" THEN "good" ELSE stream
      /\ stream \in {"good", "bad", "closed"}
  BY DEF AppendBegin, Record, None, ghosts, IInv, TypeOK
<1>2. PICK f, b : Settled(f, b)
  BY DEF Whole
<1>3. b = <<>> /\ f \in Seq(Cell) /\ file = f
  BY <1>1, <1>2, EmptyText DEF Settled, Composing
<1>4. OneLine(buffer')
  BY <1>1, CellsAre DEF Whole
<1>5. CASE stream = "bad"
  <2>1. Settled(f, b)'
    BY <1>1, <1>2, <1>5 DEF Settled, Composing, Owed
  <2> QED
    BY <1>1, <1>4, <1>5, <2>1 DEF Whole
<1>6. CASE stream # "bad"
  <2>1. stream' = "good" /\ buffer' = Cells(r) /\ Cells(r) \in Seq(Cell)
    BY <1>1, <1>6, CellsAre
  <2>2. Composing' /\ ~Owed' /\ ~Owed
    BY <1>1, <1>6, <2>1 DEF Composing, Owed
  <2>3. <<>> \o Cells(r) = Cells(r)
    BY <2>1, EmptyText
  <2>4. Settled(f, b)'
    BY <1>1, <1>2, <1>3, <2>1, <2>2, <2>3 DEF Settled
  <2> QED
    BY <1>1, <1>4, <2>1, <2>4 DEF Whole
<1> QED
  BY <1>5, <1>6

LEMMA OverflowWhole ==
  ASSUME IInv, Whole, Overflow
  PROVE  Whole'
<1>1. PICK n \in 1 .. Len(buffer) - 1 : WriteOut(n)
  BY DEF Overflow
<1> DEFINE part == SubSeq(buffer, 1, n)
           rest == SubSeq(buffer, n + 1, Len(buffer))
<1>2. n \in 0 .. Len(buffer) /\ buffer \in Seq(Cell) /\ OneLine(buffer)
  BY Arithmetic DEF Whole
<1>3. /\ part \in Seq(Cell) /\ rest \in Seq(Cell) /\ OneLine(rest) /\ part \o rest = buffer
      /\ file' = file \o part /\ buffer' = rest
  BY <1>1, <1>2, CutText, CutLine DEF WriteOut
<1> HIDE DEF part, rest
<1>4. /\ current # None /\ stream = "good"
      /\ UNCHANGED <<stream, current, start, lines, tears>>
  BY DEF Overflow, ghosts
<1>5. PICK f, b : Settled(f, b)
  BY DEF Whole
<1>6. /\ Composing /\ Composing' /\ ~Owed /\ ~Owed'
  BY <1>4 DEF Composing, Owed
<1>7. /\ f \in Seq(Cell) /\ b \in Seq(Cell) /\ file = f \o b
      /\ b \o buffer = Cells(current) /\ start = Len(f)
  BY <1>5, <1>6 DEF Settled
<1>8. /\ file' = f \o (b \o part) /\ b \o part \in Seq(Cell)
      /\ (b \o part) \o rest = b \o buffer
  <2>1. f \in Seq(Cell) /\ b \in Seq(Cell) /\ part \in Seq(Cell) /\ rest \in Seq(Cell)
    BY <1>3, <1>7
  <2>2. (f \o b) \o part = f \o (b \o part)
    BY <2>1, Regrouped
  <2>3. (b \o part) \o rest = b \o (part \o rest)
    BY <2>1, Regrouped
  <2>4. b \o part \in Seq(Cell)
    BY <2>1, Joined
  <2> QED
    BY <1>3, <1>7, <2>2, <2>3, <2>4
<1>9. Holds(f, lines') /\ Count(f) + 0 <= Len(lines') + tears'
  BY <1>4, <1>5, <1>6 DEF Settled
<1>10. PICK d : d = b \o part
  OBVIOUS
<1>11. Settled(f, d)'
  <2>1. d \in Seq(Cell) /\ file' = f \o d /\ f \in Seq(Cell)
    BY <1>7, <1>8, <1>10
  <2>2. d \o buffer' = Cells(current') /\ start' = Len(f)
    BY <1>3, <1>4, <1>7, <1>8, <1>10
  <2> QED
    BY <1>6, <1>9, <2>1, <2>2 DEF Settled
<1> QED
  BY <1>3, <1>4, <1>11 DEF Whole

LEMMA AppendEndWhole ==
  ASSUME IInv, Whole, AppendEnd
  PROVE  Whole'
<1>1. /\ current \in Record /\ current # None /\ stream = "good"
      /\ file' = file \o buffer /\ buffer' = <<>> /\ buffer \in Seq(Cell)
      /\ current' = None /\ UNCHANGED <<stream, start, tears>>
      /\ lines' = IF OnCleanLine THEN Append(lines, AsRead(current)) ELSE lines
  BY WriteAll, Arithmetic DEF AppendEnd, IInv, TypeOK
<1>2. PICK f, b : Settled(f, b)
  BY DEF Whole
<1>3. Composing /\ ~Composing' /\ ~Owed /\ ~Owed'
  BY <1>1 DEF Composing, Owed
<1>4. /\ f \in Seq(Cell) /\ b \in Seq(Cell) /\ file = f \o b
      /\ b \o buffer = Cells(current) /\ start = Len(f)
      /\ Holds(f, lines) /\ Count(f) <= Len(lines) + tears
  BY <1>2, <1>3, ReplayLength, Arithmetic DEF Settled
<1>5. file' = f \o Cells(current) /\ file' \in Seq(Cell)
  <2>1. (f \o b) \o buffer = f \o (b \o buffer)
    <3>1. f \in Seq(Cell) /\ b \in Seq(Cell) /\ buffer \in Seq(Cell)
      BY <1>1, <1>4
    <3> QED
      BY <3>1, Regrouped
  <2>2. Cells(current) \in Seq(Cell)
    BY <1>1, CellsAre
  <2>3. f \o Cells(current) \in Seq(Cell)
    BY <1>4, <2>2, Joined
  <2> QED
    BY <1>1, <1>4, <2>1, <2>3
<1>6. OnCleanLine <=> Clean(f)
  <2>1. Len(f) \in Nat /\ \A i \in 1 .. Len(f) : file[i] = f[i]
    BY <1>4, Joined
  <2>2. Len(f) = 0 <=> f = <<>>
    BY <1>4
  <2>3. Len(f) # 0 => file[Len(f)] = f[Len(f)]
    BY <2>1
  <2> QED
    BY <1>4, <2>2, <2>3 DEF OnCleanLine, Clean
<1>7. /\ Count(f) \in Nat /\ Count(file') <= Count(f) + 1 /\ Count(file') \in Nat
      /\ ~Clean(f) => Count(file') <= Count(f)
  BY <1>1, <1>4, <1>5, CellsAre, LineAdds, ReplayLength
<1> DEFINE S == {AsRead(r) : r \in Record}
<1>8. lines \in Seq(S) /\ AsRead(current) \in S
  BY <1>1 DEF IInv, Buffered
<1>9. Holds(file', lines') /\ Count(file') <= Len(lines') + tears'
  <2>1. CASE OnCleanLine
    <3>1. lines' = Append(lines, AsRead(current)) /\ Len(lines') = Len(lines) + 1
      BY <1>1, <1>8, <2>1
    <3>2. Holds(file', lines')
      <4> HIDE DEF S
      <4> QED
        BY <1>1, <1>4, <1>5, <1>6, <1>8, <2>1, <3>1, OneMoreHeld
    <3> QED
      BY <1>1, <1>4, <1>7, <3>1, <3>2, Arithmetic
  <2>2. CASE ~OnCleanLine
    <3>1. Holds(file', lines)
      BY <1>1, <1>4, <1>5, CellsAre, StaysHeld
    <3> QED
      BY <1>1, <1>4, <1>6, <1>7, <2>2, <3>1, Arithmetic
  <2> QED
    BY <2>1, <2>2
<1>10. Settled(file, <<>>)'
  <2>1. file' \o <<>> = file' /\ <<>> \in Seq(Cell)
    BY <1>5, EmptyText
  <2>2. Len(lines') + tears' \in Nat
    <3>1. Len(lines') \in Nat
      BY <1>1, <1>8 DEF IInv, Buffered
    <3> QED
      BY <1>1, <3>1, Arithmetic
  <2> QED
    BY <1>3, <1>5, <1>7, <1>9, <2>1, <2>2 DEF Settled
<1> QED
  BY <1>1, <1>10, EmptyText DEF Whole

LEMMA AppendRefusedWhole ==
  ASSUME IInv, Whole, AppendRefused
  PROVE  Whole'
<1>1. PICK n \in 0 .. Len(buffer) - 1 : file' = file \o SubSeq(buffer, 1, n)
  BY DEF AppendRefused
<1> DEFINE part == SubSeq(buffer, 1, n)
           rest == SubSeq(buffer, n + 1, Len(buffer))
<1>2. /\ n \in 0 .. Len(buffer) /\ n < Len(buffer) /\ buffer \in Seq(Cell)
      /\ OneLine(buffer)
  BY Arithmetic DEF Whole
<1>3. /\ part \in Seq(Cell) /\ rest \in Seq(Cell) /\ rest # <<>> /\ part \o rest = buffer
      /\ file' = file \o part
  BY <1>1, <1>2, CutText, CutLine
<1> HIDE DEF part, rest
<1>4. /\ current \in Record /\ current # None /\ stream = "good" /\ stream' = "bad"
      /\ current' = None /\ tears' = tears + 1 /\ UNCHANGED <<buffer, start, lines>>
  BY DEF AppendRefused, IInv, TypeOK
<1>5. PICK f, b : Settled(f, b)
  BY DEF Whole
<1>6. Composing /\ ~Composing' /\ ~Owed
  BY <1>4 DEF Composing, Owed
<1>7. /\ f \in Seq(Cell) /\ b \in Seq(Cell) /\ file = f \o b
      /\ b \o buffer = Cells(current) /\ Holds(f, lines)
      /\ Count(f) <= Len(lines) + tears
  BY <1>5, <1>6, ReplayLength, Arithmetic DEF Settled
<1>8. PICK d : d = b \o part
  OBVIOUS
<1>9. d \in Seq(Cell) /\ file' = f \o d /\ d \o rest = Cells(current)
  <2>1. f \in Seq(Cell) /\ b \in Seq(Cell) /\ part \in Seq(Cell) /\ rest \in Seq(Cell)
    BY <1>3, <1>7
  <2>2. (f \o b) \o part = f \o (b \o part)
    BY <2>1, Regrouped
  <2>3. (b \o part) \o rest = b \o (part \o rest)
    BY <2>1, Regrouped
  <2>4. b \o part \in Seq(Cell)
    BY <2>1, Joined
  <2> QED
    BY <1>3, <1>7, <1>8, <2>2, <2>3, <2>4
<1>10. OneLine(d) /\ (d # <<>> => ~Clean(f \o d))
  BY <1>3, <1>4, <1>7, <1>9, TornLine
<1>11. /\ file' \in Seq(Cell) /\ Holds(file', lines)
       /\ Count(f) \in Nat /\ Count(file') \in Nat /\ Count(file') <= Count(f) + 1
  BY <1>7, <1>9, <1>10, Joined, StaysHeld, LineAdds, ReplayLength
<1>12. Count(file') + (IF Owed' THEN 1 ELSE 0) <= Len(lines) + (tears + 1)
  <2> DEFINE x == Count(f)
             y == Count(file')
             z == Len(lines) + tears
             owed == IF Owed' THEN 1 ELSE 0
  <2>1. /\ x \in Nat /\ y \in Nat /\ y <= x + 1 /\ x <= z /\ z \in Nat
        /\ Len(lines) + (tears + 1) = z + 1 /\ owed \in {0, 1}
    <3>1. Len(lines) \in Nat /\ tears \in Nat
      BY Arithmetic
    <3>2. z \in Nat /\ Len(lines) + (tears + 1) = z + 1
      BY <3>1
    <3> HIDE DEF z
    <3> QED
      BY <1>7, <1>11, <3>2 DEF z
  <2>2. CASE d = <<>>
    <3>1. y = x
      BY <1>7, <1>9, <2>2, EmptyText
    <3> HIDE DEF x, y, z, owed
    <3>2. y + owed <= z + 1
      BY <2>1, <3>1
    <3> QED
      BY <2>1, <3>2 DEF y, owed
  <2>3. CASE d # <<>>
    <3>1. owed = 0
      BY <1>9, <1>10, <2>3 DEF Owed, Clean
    <3> HIDE DEF x, y, z, owed
    <3>2. y + owed <= z + 1
      BY <2>1, <3>1
    <3> QED
      BY <2>1, <3>2 DEF y, owed
  <2> QED
    BY <2>2, <2>3
<1>13. Settled(file, <<>>)'
  <2>1. file' \o <<>> = file' /\ <<>> \in Seq(Cell)
    BY <1>11, EmptyText
  <2> QED
    BY <1>4, <1>6, <1>11, <1>12, <2>1 DEF Settled
<1> QED
  BY <1>2, <1>4, <1>13 DEF Whole

(* Between two appends the whole file is settled, and remains so when the  *)
(* buffer is written after all.                                            *)
LEMMA SettledFile ==
  ASSUME IInv, Whole, ~Composing
  PROVE  /\ Holds(file, lines) /\ Holds(file \o buffer, lines)
         /\ Count(file) + (IF Owed THEN 1 ELSE 0) <= Len(lines) + tears
         /\ stream = "bad" => Count(file \o buffer) <= Len(lines) + tears
         /\ file \o buffer \in Seq(Cell)
         /\ Count(file) \in Nat /\ Count(file \o buffer) \in Nat
<1>1. PICK f, b : Settled(f, b)
  BY DEF Whole
<1>2. f \in Seq(Cell) /\ file = f
  BY <1>1, EmptyText DEF Settled
<1>3. /\ Holds(file, lines)
      /\ Count(file) + (IF Owed THEN 1 ELSE 0) <= Len(lines) + tears
  BY <1>1, <1>2 DEF Settled
<1>4. file \in Seq(Cell) /\ buffer \in Seq(Cell) /\ OneLine(buffer)
  BY Arithmetic DEF Whole
<1>5. /\ file \o buffer \in Seq(Cell) /\ Holds(file \o buffer, lines)
      /\ Count(file \o buffer) <= Count(file) + 1
      /\ ~Clean(file) => Count(file \o buffer) <= Count(file)
      /\ Count(file) \in Nat /\ Count(file \o buffer) \in Nat
  BY <1>3, <1>4, Joined, StaysHeld, LineAdds, ReplayLength
<1>6. ASSUME stream = "bad"
      PROVE  Count(file \o buffer) <= Len(lines) + tears
  <2>1. CASE buffer = <<>>
    <3>1. file \o buffer = file
      BY <1>4, <2>1, EmptyText
    <3> QED
      BY <1>3, <1>5, <3>1, Arithmetic
  <2>2. CASE buffer # <<>> /\ Clean(file)
    <3>1. Owed
      BY <1>6, <2>2 DEF Owed
    <3> QED
      BY <1>3, <1>5, <3>1, Arithmetic
  <2>3. CASE ~Clean(file)
    BY <1>3, <1>5, <2>3, Arithmetic
  <2> QED
    BY <2>1, <2>2, <2>3
<1> QED
  BY <1>3, <1>5, <1>6

(* The file as it is, or with the buffer behind it: settled again.         *)
LEMMA Resettles ==
  ASSUME IInv, Whole, ~Composing, ~Composing', UNCHANGED <<lines, tears>>,
         \/ file' = file /\ (Owed' => Owed)
         \/ file' = file \o buffer /\ stream = "bad" /\ ~Owed'
  PROVE  \E f, b : Settled(f, b)'
<1>1. /\ Holds(file', lines') /\ file' \in Seq(Cell)
      /\ Count(file') + (IF Owed' THEN 1 ELSE 0) <= Len(lines') + tears'
  <2>1. CASE file' = file /\ (Owed' => Owed)
    BY <2>1, SettledFile, Arithmetic
  <2>2. CASE file' = file \o buffer /\ stream = "bad" /\ ~Owed'
    BY <2>2, SettledFile, Arithmetic
  <2> QED
    BY <2>1, <2>2
<1>2. file' \o <<>> = file' /\ <<>> \in Seq(Cell)
  BY <1>1, EmptyText
<1>3. PICK f : f = file'
  OBVIOUS
<1>4. Settled(f, <<>>)'
  BY <1>1, <1>2, <1>3 DEF Settled
<1> QED
  BY <1>4

LEMMA FlushBadWhole ==
  ASSUME IInv, Whole, AppendIgnored \/ Sync
  PROVE  Whole'
<1>1. /\ stream = "bad" /\ stream' = "bad" /\ FlushBad /\ UNCHANGED <<lines, tears>>
  BY DEF AppendIgnored, Sync, ghosts
<1>2. ~Composing /\ ~Composing'
  BY <1>1 DEF Composing
<1>3. \/ file' = file /\ buffer' = buffer
      \/ file' = file \o buffer /\ buffer' = <<>>
  BY <1>1, WriteAll DEF FlushBad
<1>4. \E f, b : Settled(f, b)'
  <2>1. CASE file' = file /\ buffer' = buffer
    <3>1. Owed' => Owed
      BY <1>1, <2>1 DEF Owed
    <3> QED
      BY <1>1, <1>2, <2>1, <3>1, Resettles
  <2>2. CASE file' = file \o buffer /\ buffer' = <<>>
    <3>1. ~Owed'
      BY <2>2 DEF Owed
    <3> QED
      BY <1>1, <1>2, <2>2, <3>1, Resettles
  <2> QED
    BY <1>3, <2>1, <2>2
<1>5. OneLine(buffer')
  BY <1>3, EmptyText DEF Whole
<1> QED
  BY <1>1, <1>4, <1>5 DEF Whole

LEMMA TruncateWhole ==
  ASSUME IInv, Whole, Truncate
  PROVE  Whole'
<1>1. /\ file' = <<>> /\ buffer' = <<>> /\ stream' = "good" /\ current' = None
      /\ lines' = <<>> /\ tears' = 0
  BY DEF Truncate
<1>2. ~Composing' /\ ~Owed'
  BY <1>1 DEF Composing, Owed
<1>3. Settled(<<>>, <<>>)'
  BY <1>1, <1>2, EmptyText DEF Settled
<1> QED
  BY <1>1, <1>3, EmptyText DEF Whole

LEMMA TruncateFailsWhole ==
  ASSUME IInv, Whole, TruncateFails
  PROVE  Whole'
<1>1. /\ current = None /\ current' = None /\ buffer' = <<>> /\ stream' = "closed"
      /\ file' \in {file, file \o buffer} /\ UNCHANGED <<lines, tears>>
  BY DEF TruncateFails, ghosts
<1>2. ~Composing /\ ~Composing' /\ ~Owed'
  BY <1>1 DEF Composing, Owed
<1>3. file' = file \/ stream = "bad"
  <2>1. stream # "bad" => file \o buffer = file
    BY <1>1, Arithmetic, EmptyText DEF Whole
  <2> QED
    BY <1>1, <2>1
<1>4. \E f, b : Settled(f, b)'
  BY <1>1, <1>2, <1>3, Resettles
<1> QED
  BY <1>1, <1>4, EmptyText DEF Whole

LEMMA KillWhole ==
  ASSUME IInv, Whole, Kill
  PROVE  Whole'
<1>1. /\ tears' = IF Composing THEN tears + 1 ELSE tears
      /\ buffer' = <<>> /\ stream' = "good" /\ current' = None
      /\ UNCHANGED <<file, lines>>
  BY DEF Kill, Composing
<1>2. ~Composing' /\ ~Owed'
  BY <1>1 DEF Composing, Owed
<1>3. \E f, b : Settled(f, b)'
  <2>1. CASE ~Composing
    BY <1>1, <1>2, <2>1, Resettles
  <2>2. CASE Composing
    <3>1. PICK f, b : Settled(f, b)
      BY DEF Whole
    <3>2. ~Owed /\ current \in Record /\ buffer # <<>> /\ buffer \in Seq(Cell)
      BY <2>2, Arithmetic DEF Composing, Owed, IInv, Buffered, TypeOK
    <3>3. /\ f \in Seq(Cell) /\ b \in Seq(Cell) /\ file = f \o b
          /\ b \o buffer = Cells(current) /\ Holds(f, lines)
          /\ Count(f) <= Len(lines) + tears
      BY <2>2, <3>1, <3>2, ReplayLength, Arithmetic DEF Settled
    <3>4. OneLine(b)
      BY <3>2, <3>3, TornLine
    <3>5. /\ file' \in Seq(Cell) /\ Holds(file', lines)
          /\ Count(f) \in Nat /\ Count(file') \in Nat /\ Count(file') <= Count(f) + 1
      BY <1>1, <3>3, <3>4, Joined, StaysHeld, LineAdds, ReplayLength
    <3>6. Count(file') + 0 <= Len(lines') + tears'
      BY <1>1, <2>2, <3>3, <3>5, Arithmetic
    <3>7. file' \o <<>> = file' /\ <<>> \in Seq(Cell)
      BY <3>5, EmptyText
    <3>8. PICK t : t = file'
      OBVIOUS
    <3>9. Settled(t, <<>>)'
      BY <1>1, <1>2, <3>5, <3>6, <3>7, <3>8 DEF Settled
    <3> QED
      BY <3>9
  <2> QED
    BY <2>1, <2>2
<1> QED
  BY <1>1, <1>3, EmptyText DEF Whole

(* Every step leaves a settled part of the file.                           *)
LEMMA NextWhole == IInv /\ Whole /\ [Next]_vars => Whole'
<1> SUFFICES ASSUME IInv, Whole, [Next]_vars
             PROVE  Whole'
  OBVIOUS
<1>1. CASE UNCHANGED vars \/ AppendThrows
  <2>1. UNCHANGED <<file, buffer, stream, current, start, lines, tears>>
    BY <1>1 DEF vars, io, ghosts, AppendThrows
  <2>2. PICK f, b : Settled(f, b)
    BY DEF Whole
  <2>3. Settled(f, b)'
    BY <2>1, <2>2 DEF Settled, Composing, Owed
  <2> QED
    BY <2>1, <2>3 DEF Whole
<1> QED
  BY <1>1, AppendBeginWhole, OverflowWhole, AppendEndWhole, AppendRefusedWhole,
     FlushBadWhole, TruncateWhole, TruncateFailsWhole, KillWhole DEF Next

-----------------------------------------------------------------------------
(* The strengthened invariant holds of every execution. *)
THEOREM Invariant == Spec => [](IInv /\ Whole)
BY InitInvariant, NextInvariant, InitWhole, NextWhole, PTL DEF Spec

(* Types, for any keys and values. *)
THEOREM TypeCorrect == Spec => []TypeOK
<1>1. IInv => TypeOK
  BY DEF IInv
<1> QED
  BY <1>1, Invariant, PTL

(* Every record that append wrote whole, on a line of its own, is replayed *)
(* as it was and in its order, whatever was torn before, between or behind *)
(* such lines by a full disk or a kill.                                    *)
THEOREM WholeLinesReplayed == Spec => []WholeLinesSurvive
<1>1. IInv /\ Whole => WholeLinesSurvive
  <2> SUFFICES ASSUME IInv, Whole
               PROVE  WholeLinesSurvive
    OBVIOUS
  <2>1. PICK f, b : Settled(f, b)
    BY DEF Whole
  <2>2. f \in Seq(Cell) /\ b \in Seq(Cell) /\ file = f \o b /\ Holds(f, lines)
    BY <2>1 DEF Settled
  <2>3. Holds(file, lines) /\ file \in Seq(Cell)
    BY <2>2, StaysHeld, Joined
  <2>4. lines \in Seq({AsRead(r) : r \in Record})
    BY DEF IInv, Buffered
  <2> QED
    BY <2>3, <2>4, HeldIsReplayed DEF WholeLinesSurvive
<1> QED
  BY <1>1, Invariant, PTL

(* However many lines are torn, each costs at most one of the records that *)
(* append wrote without an error, and adds at most one to what is replayed *)
(* between two appends.                                                    *)
THEOREM DamageBounded == Spec => []DamageIsBounded
<1>1. IInv /\ Whole => DamageIsBounded
  <2> SUFFICES ASSUME IInv, Whole
               PROVE  DamageIsBounded
    OBVIOUS
  <2>1. LossIsBounded
    BY Arithmetic DEF IInv, Credit, LossIsBounded
  <2>2. ASSUME current = None
        PROVE  Len(Replay(file)) <= Len(lines) + tears
    <3>1. ~Composing
      BY <2>2 DEF Composing
    <3>2. Len(Replay(file)) = Count(file)
      BY ReplayLength, Arithmetic
    <3> QED
      BY <3>1, <3>2, SettledFile, Arithmetic
  <2> QED
    BY <2>1, <2>2 DEF DamageIsBounded
<1> QED
  BY <1>1, Invariant, PTL
=============================================================================
