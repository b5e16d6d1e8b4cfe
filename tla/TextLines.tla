----------------------------- MODULE TextLines -----------------------------
(* Reading a text, a sequence of characters or larger cells, by lines.     *)
EXTENDS Integers, SequencesExt

Newline == "\n"

(* Where a line that is not empty ends, and where it began.                *)
LineEnds(text) ==
  {i \in 1 .. Len(text) : text[i] # Newline /\ (i = Len(text) \/ text[i + 1] = Newline)}

LineBegin(text, end) ==
  CHOOSE i \in 1 .. end : /\ i = 1 \/ text[i - 1] = Newline
                          /\ \A j \in i .. end : text[j] # Newline

(* The place of i among the numbers in I.                                  *)
Place(I, i) == Cardinality({j \in I : j <= i})

(* std::getline until the end, with the test for an empty line that both   *)
(* WAL::replay and MMapPersistence::load begin with: the last line counts  *)
(* without a newline, empty ones do not.                                   *)
Lines(text) ==
  LET ends == LineEnds(text)
      line(end) == SubSeq(text, LineBegin(text, end), end)
  IN [n \in 1 .. Cardinality(ends) |-> line(CHOOSE i \in ends : Place(ends, i) = n)]

(* The first of the positions I of s, or the one after its end.            *)
First(s, I) == IF I = {} THEN Len(s) + 1 ELSE CHOOSE i \in I : \A j \in I : i <= j
=============================================================================
