---------------------------- MODULE Persistence ----------------------------
(***************************************************************************)
(* src/storage/MMapPersistence.cpp: snapshots of a map, written by the     *)
(* caller (snapshot) or by detached threads (async_snapshot), and load.    *)
(* Nothing orders the writers.  Each opens the one file of its own accord, *)
(* which empties it, and writes from its own position, in pieces.          *)
(*                                                                         *)
(* Keys, values and the file are sequences of characters, a map is a set   *)
(* of pairs of a key and a value.                                          *)
(***************************************************************************)
EXTENDS TextLines

CONSTANTS Writer,        \* the threads that write snapshots
          Character,     \* what keys and values consist of
          Maps,          \* the maps they write
          MaxSnapshots,  \* bound on the snapshots begun
          MaxFaults,     \* bound on the writes the disk refuses
          MaxKills       \* bound on the times the process is killed

(* An unordered_map has one value for a key.                               *)
ASSUME MapsAssumption ==
  \A m \in Maps : /\ IsFiniteSet(m) /\ m \subseteq Seq(Character) \X Seq(Character)
                  /\ \A p, q \in m : p[1] = q[1] => p = q
ASSUME BoundsAssumption == MaxSnapshots \in Nat /\ MaxFaults \in Nat /\ MaxKills \in Nat

VARIABLES file,          \* filename_, as the operating system has it
          text,          \* per writer: what it has to write in all, or Idle
          at,            \* per writer: how much of that it has written
          snapshots, faults, kills,
          author,        \* history: the map the file was last emptied for
          alone,         \* history: whether its writer has had the file for
                         \* itself since, and no write has failed
          complete       \* history: whether that writer has finished

ghosts == <<author, alone, complete>>
vars == <<file, text, at, snapshots, faults, kills, ghosts>>

Idle == <<"idle">>
Hole == "\f"             \* a zero byte, where nobody has written

-----------------------------------------------------------------------------
(* escape_string and unescape_string                                       *)

Space == " "
Return == "\r"
Tab == "\t"
Escape == "\\"

Codes == {<<Space, "s">>, <<Newline, "n">>, <<Return, "r">>, <<Tab, "t">>, <<Escape, Escape>>}

(* What a file may consist of. *)
Cell == Character \cup {Space, Newline, Escape, Hole} \cup {c[2] : c \in Codes}

EscapedChar(x) ==
  IF \E c \in Codes : c[1] = x THEN <<Escape, (CHOOSE c \in Codes : c[1] = x)[2]>> ELSE <<x>>

Escaped(s) == FlattenSeq([i \in DOMAIN s |-> EscapedChar(s[i])])

Plain(x) == (CHOOSE c \in Codes : c[2] = x)[1]

(* Mutant: the character after an escape is looked at once more. *)
UnescapedTwice(s) ==
  LET last[n \in 0 .. Len(s)] ==
        LET i == Len(s) - n + 1
        IN IF n = 0 THEN <<>>
           ELSE IF s[i] = Escape /\ n > 1 /\ \E c \in Codes : c[2] = s[i + 1]
                THEN <<Plain(s[i + 1])>> \o last[n - 1]
                ELSE <<s[i]>> \o last[n - 1]
  IN last[Len(s)]

(* What the last n characters stand for, read from the first of them: an   *)
(* escape that nothing known follows stands for itself.                    *)
Unescaped(s) ==
  LET last[n \in 0 .. Len(s)] ==
        LET i == Len(s) - n + 1
        IN IF n = 0 THEN <<>>
           ELSE IF s[i] = Escape /\ n > 1 /\ \E c \in Codes : c[2] = s[i + 1]
                THEN <<Plain(s[i + 1])>> \o last[n - 2]
                ELSE <<s[i]>> \o last[n - 1]
  IN last[Len(s)]

-----------------------------------------------------------------------------
(* The text of a map whose pairs come in the order of ps, and load.        *)

Line(p) == Escaped(p[1]) \o <<Space>> \o Escaped(p[2])

(* Mutant: the value is written as it is. *)
TextOfRawValues(ps) ==
  FlattenSeq([i \in DOMAIN ps |-> Escaped(ps[i][1]) \o <<Space>> \o ps[i][2] \o <<Newline>>])

TextOf(ps) == FlattenSeq([i \in DOMAIN ps |-> Line(ps[i]) \o <<Newline>>])

Spaces(l) == {j \in DOMAIN l : l[j] = Space}

KeyOf(l) == Unescaped(SubSeq(l, 1, First(l, Spaces(l)) - 1))
ValueOf(l) == Unescaped(SubSeq(l, First(l, Spaces(l)) + 1, Len(l)))

(* A line without a space is skipped; of two lines for a key the last wins. *)
Load(f) ==
  LET lines == Lines(f)
      valid == {n \in DOMAIN lines : Spaces(lines[n]) # {}}
      last == {n \in valid : \A k \in valid : n < k => KeyOf(lines[k]) # KeyOf(lines[n])}
  IN {<<KeyOf(lines[n]), ValueOf(lines[n])>> : n \in last}

-----------------------------------------------------------------------------
(* snapshot                                                                *)

(* Mutant: the file is opened without std::ios::trunc. *)
BeginOnOldFile(w, m) ==
  /\ text[w] = Idle /\ snapshots < MaxSnapshots
  /\ snapshots' = snapshots + 1
  /\ \E ps \in SetToSeqs(m) : text' = [text EXCEPT ![w] = TextOf(ps)]
  /\ at' = [at EXCEPT ![w] = 0]
  /\ author' = m /\ alone' = (\A u \in Writer : text[u] = Idle)
  /\ complete' = FALSE
  /\ UNCHANGED <<file, faults, kills>>

(* The file is emptied.  The map comes in any order, being unordered.      *)
Begin(w, m) ==
  /\ text[w] = Idle /\ snapshots < MaxSnapshots
  /\ snapshots' = snapshots + 1
  /\ file' = <<>>
  /\ \E ps \in SetToSeqs(m) : text' = [text EXCEPT ![w] = TextOf(ps)]
  /\ at' = [at EXCEPT ![w] = 0]
  /\ author' = m /\ alone' = (\A u \in Writer : text[u] = Idle)
  /\ complete' = FALSE
  /\ UNCHANGED <<faults, kills>>

(* The file with s written over it from position n on.                     *)
Over(n, s) ==
  [i \in 1 .. IF Len(file) < n + Len(s) THEN n + Len(s) ELSE Len(file) |->
     CASE i \in n + 1 .. n + Len(s) -> s[i - n]
       [] i \in DOMAIN file /\ i \notin n + 1 .. n + Len(s) -> file[i]
       [] OTHER -> Hole]

Rest(w) == SubSeq(text[w], at[w] + 1, Len(text[w]))

(* Mutant: the position is one too far. *)
WriteSkippingOne(w) ==
  /\ text[w] # Idle /\ at[w] < Len(text[w])
  /\ \E n \in 1 .. Len(Rest(w)) :
       /\ file' = Over(at[w], SubSeq(Rest(w), 1, n))
       /\ at' = [at EXCEPT ![w] = @ + n + 1]
  /\ UNCHANGED <<text, snapshots, faults, kills, ghosts>>

(* The buffer of the stream is full, or flushed at the end.                *)
Write(w) ==
  /\ text[w] # Idle /\ at[w] < Len(text[w])
  /\ \E n \in 1 .. Len(Rest(w)) :
       /\ file' = Over(at[w], SubSeq(Rest(w), 1, n))
       /\ at' = [at EXCEPT ![w] = @ + n]
  /\ UNCHANGED <<text, snapshots, faults, kills, ghosts>>

End(w) ==
  /\ text[w] # Idle /\ at[w] = Len(text[w])
  /\ text' = [text EXCEPT ![w] = Idle] /\ at' = [at EXCEPT ![w] = 0]
  /\ complete' = TRUE
  /\ UNCHANGED <<file, snapshots, faults, kills, author, alone>>

(* The disk takes a part only.  An exception tells the caller, or the      *)
(* thread that async_snapshot detached, and closing the stream may write   *)
(* what its buffer still holds.                                            *)
Fail(w) ==
  /\ text[w] # Idle /\ faults < MaxFaults
  /\ faults' = faults + 1
  /\ \E n \in 0 .. Len(Rest(w)) :
       \E retry \in {<<>>, Rest(w)} : file' = Over(at[w], SubSeq(Rest(w), 1, n) \o retry)
  /\ text' = [text EXCEPT ![w] = Idle] /\ at' = [at EXCEPT ![w] = 0]
  /\ alone' = FALSE
  /\ UNCHANGED <<snapshots, kills, author, complete>>

(* The process is killed, the detached threads with it.                    *)
Kill ==
  /\ kills < MaxKills
  /\ kills' = kills + 1
  /\ text' = [w \in Writer |-> Idle] /\ at' = [w \in Writer |-> 0]
  /\ UNCHANGED <<file, snapshots, faults, ghosts>>

(* No snapshot has been written yet, which loads as the empty map. *)
Init ==
  /\ file = <<>>
  /\ text = [w \in Writer |-> Idle] /\ at = [w \in Writer |-> 0]
  /\ snapshots = 0 /\ faults = 0 /\ kills = 0
  /\ author = {} /\ alone = TRUE /\ complete = TRUE

Next ==
  \/ \E w \in Writer : (\E m \in Maps : Begin(w, m)) \/ Write(w) \/ End(w) \/ Fail(w)
  \/ Kill

Spec == Init /\ [][Next]_vars

-----------------------------------------------------------------------------
(* Properties.                                                             *)

(* Types of the variables: nobody writes beyond the text it has to write. *)
TypeOK ==
  /\ file \in Seq(Cell)
  /\ text \in [Writer -> Seq(Cell) \cup {Idle}] /\ at \in [Writer -> Nat]
  /\ \A w \in Writer : text[w] # Idle => at[w] <= Len(text[w])
  /\ snapshots \in 0 .. MaxSnapshots /\ faults \in 0 .. MaxFaults /\ kills \in 0 .. MaxKills
  /\ author \in Maps \cup {{}} /\ alone \in BOOLEAN /\ complete \in BOOLEAN

(* A snapshot whose writer had the file for itself loads as the map it was *)
(* taken of, whatever mixture of earlier ones, killed, failed or written   *)
(* at the same time, was in the file before, and whatever spaces, newlines *)
(* and backslashes its strings hold.                                       *)
SnapshotLoads == alone /\ complete => Load(file) = author

(* One that was cut short, by a kill at any character, loads as a part of  *)
(* its map: no key is made up, and one value at most is not the key's own. *)
CutShortIsAPart ==
  alone =>
    /\ {p[1] : p \in Load(file)} \subseteq {p[1] : p \in author}
    /\ Cardinality(Load(file) \ author) <= 1
=============================================================================
