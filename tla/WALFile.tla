------------------------------ MODULE WALFile ------------------------------
(***************************************************************************)
(* src/storage/WAL.cpp down to the text: the stream wal_file_ with its     *)
(* buffer, the file behind it, and what replay reads out of a file whose   *)
(* lines may be torn.  Module CacheNode takes the log to be a sequence of  *)
(* records; this one shows what of that survives a process killed in the   *)
(* middle of a line, a disk that refuses one, and truncate.                *)
(*                                                                         *)
(* A text is a sequence of cells: an operation, a key, a word of a value,  *)
(* a space or a newline.  Cells without a space between them are one word, *)
(* which is how a line glued to a torn one reads.                          *)
(***************************************************************************)
EXTENDS TextLines

CONSTANTS Key,
          Value,         \* the values, each a sequence of cells
          MaxAppends,    \* bound on the calls of append
          MaxFaults,     \* bound on the writes and opens that fail
          MaxKills       \* bound on the times the process is killed

ASSUME BoundsAssumption == MaxAppends \in Nat /\ MaxFaults \in Nat /\ MaxKills \in Nat
ASSUME ValueAssumption == \A v \in Value : v \in Seq(ToSet(v))

Space == " "

(* Keys and values are what the clients make up, a word and a number.      *)
ASSUME SeparatorAssumption ==
  /\ Key \cap {Space, Newline} = {}
  /\ \A v \in Value : Newline \notin ToSet(v)

Record ==
  [op : {"SET"}, key : Key, value : Value] \cup [op : {"DEL"}, key : Key, value : {<<>>}]

None == [op |-> "none"]

VARIABLES file,          \* wal.log, as the operating system has it
          buffer,        \* what wal_file_ has not written yet
          stream,        \* wal_file_: "good", "bad" or "closed"
          current,       \* the append holding wal_mutex_, if any
          start,         \* history: the length of the file when it began
          appends, faults, kills,
          lines,         \* history: the records appended whole, on a line of their own
          written,       \* history: how many appends were written without an error
          tears          \* history: how many may have left part of a line

io == <<file, buffer, stream>>
ghosts == <<lines, written, tears>>
vars == <<io, current, start, appends, faults, kills, ghosts>>

-----------------------------------------------------------------------------
(* The text of a record, and back.                                         *)

(* An empty value is not written, nor the space before it. *)
Cells(r) ==
  <<r.op, Space, r.key>> \o (IF r.value = <<>> THEN <<>> ELSE <<Space>> \o r.value)
    \o <<Newline>>

(* iss >> word *)
Skipped(s) == SubSeq(s, First(s, {i \in DOMAIN s : s[i] # Space}), Len(s))
WordEnd(s) == First(s, {i \in DOMAIN s : s[i] = Space})
Word(s) == SubSeq(Skipped(s), 1, WordEnd(Skipped(s)) - 1)
AfterWord(s) == SubSeq(Skipped(s), WordEnd(Skipped(s)), Len(Skipped(s)))

(* Mutant: the space before the value is kept. *)
ParseKeepingSpace(line) ==
  LET rest == AfterWord(line)
  IN [op |-> Word(line), key |-> Word(rest), value |-> AfterWord(rest)]

Parse(line) ==
  LET rest == AfterWord(line)
      value == AfterWord(rest)
  IN [op |-> Word(line), key |-> Word(rest),
      value |-> IF value # <<>> /\ Head(value) = Space THEN Tail(value) ELSE value]

Replay(text) == LET ls == Lines(text) IN [i \in DOMAIN ls |-> Parse(ls[i])]

-----------------------------------------------------------------------------
(* append                                                                  *)

(* Mutant: ensure_file_open is not called, and a closed file takes nothing. *)
AppendBeginWithoutOpening(r) ==
  /\ current = None /\ appends < MaxAppends
  /\ appends' = appends + 1
  /\ current' = r /\ start' = Len(file)
  /\ buffer' = IF stream = "good" THEN Cells(r) ELSE buffer
  /\ UNCHANGED <<file, stream, faults, kills, ghosts>>

(* The mutex is taken, a closed file opened again, the line composed in    *)
(* the buffer.  A bad stream takes nothing.                                *)
AppendBegin(r) ==
  /\ current = None /\ appends < MaxAppends
  /\ appends' = appends + 1
  /\ current' = r /\ start' = Len(file)
  /\ buffer' = IF stream = "bad" THEN buffer ELSE Cells(r)
  /\ stream' = IF stream = "closed" THEN "good" ELSE stream
  /\ UNCHANGED <<file, faults, kills, ghosts>>

(* The file cannot be opened: an exception, and the request is not done.   *)
AppendThrows ==
  /\ current = None /\ appends < MaxAppends
  /\ stream = "closed" /\ faults < MaxFaults
  /\ appends' = appends + 1 /\ faults' = faults + 1
  /\ UNCHANGED <<io, current, start, kills, ghosts>>

WriteOut(n) ==
  /\ file' = file \o SubSeq(buffer, 1, n)
  /\ buffer' = SubSeq(buffer, n + 1, Len(buffer))

(* A line longer than the buffer of the stream is written in pieces.       *)
Overflow ==
  /\ current # None /\ stream = "good"
  /\ \E n \in 1 .. Len(buffer) - 1 : WriteOut(n)
  /\ UNCHANGED <<stream, current, start, appends, faults, kills, ghosts>>

OnCleanLine == start = 0 \/ file[start] = Newline

AsRead(r) == [op |-> <<r.op>>, key |-> <<r.key>>, value |-> r.value]

(* flush writes the rest, and append returns.                              *)
AppendEnd ==
  /\ current # None /\ stream = "good"
  /\ WriteOut(Len(buffer))
  /\ current' = None
  /\ written' = written + 1
  /\ lines' = IF OnCleanLine THEN Append(lines, AsRead(current)) ELSE lines
  /\ UNCHANGED <<stream, start, appends, faults, kills, tears>>

(* The disk takes a part of the line only, or nothing; the buffer keeps    *)
(* the whole, the stream turns bad, and append returns as if nothing were. *)
AppendRefused ==
  /\ current # None /\ stream = "good" /\ faults < MaxFaults
  /\ \E n \in 0 .. Len(buffer) - 1 : file' = file \o SubSeq(buffer, 1, n)
  /\ stream' = "bad" /\ faults' = faults + 1
  /\ current' = None
  /\ tears' = tears + 1
  /\ UNCHANGED <<buffer, start, appends, kills, lines, written>>

(* What flush does on a bad stream depends on the library: nothing, or it  *)
(* tries once more to write what the buffer kept.                          *)
FlushBad == UNCHANGED <<file, buffer>> \/ WriteOut(Len(buffer))

AppendIgnored ==
  /\ current # None /\ stream = "bad"
  /\ FlushBad
  /\ current' = None
  /\ UNCHANGED <<stream, start, appends, faults, kills, ghosts>>

-----------------------------------------------------------------------------
Sync ==
  /\ current = None /\ stream = "bad"
  /\ FlushBad
  /\ UNCHANGED <<stream, current, start, appends, faults, kills, ghosts>>

(* Mutant: the file is opened to append, and stays as it is. *)
TruncateAppending ==
  /\ current = None
  /\ buffer' = <<>> /\ stream' = "good"
  /\ lines' = <<>> /\ written' = 0 /\ tears' = 0
  /\ UNCHANGED <<file, current, start, appends, faults, kills>>

(* The file is closed and opened again, empty; that clears the errors.     *)
Truncate ==
  /\ current = None
  /\ file' = <<>> /\ buffer' = <<>> /\ stream' = "good"
  /\ lines' = <<>> /\ written' = 0 /\ tears' = 0
  /\ UNCHANGED <<current, start, appends, faults, kills>>

(* It is closed, which may write what the buffer kept, and not opened.     *)
TruncateFails ==
  /\ current = None /\ faults < MaxFaults
  /\ faults' = faults + 1
  /\ file' \in {file, file \o buffer}
  /\ buffer' = <<>> /\ stream' = "closed"
  /\ UNCHANGED <<current, start, appends, kills, ghosts>>

(* The process is killed, and the next one opens the file as it is.        *)
Kill ==
  /\ kills < MaxKills
  /\ kills' = kills + 1
  /\ tears' = IF current # None /\ stream = "good" THEN tears + 1 ELSE tears
  /\ buffer' = <<>> /\ stream' = "good" /\ current' = None
  /\ UNCHANGED <<file, start, appends, faults, lines, written>>

Init ==
  /\ file = <<>> /\ buffer = <<>> /\ stream = "good"
  /\ current = None /\ start = 0
  /\ appends = 0 /\ faults = 0 /\ kills = 0
  /\ lines = <<>> /\ written = 0 /\ tears = 0

Next ==
  \/ \E r \in Record : AppendBegin(r)
  \/ AppendThrows \/ Overflow \/ AppendEnd \/ AppendRefused \/ AppendIgnored
  \/ Sync \/ Truncate \/ TruncateFails \/ Kill

Spec == Init /\ [][Next]_vars

-----------------------------------------------------------------------------
(* Properties.                                                             *)

Text == Seq({"SET", "DEL", Space, Newline} \cup Key \cup UNION {ToSet(v) : v \in Value})

(* Types of the variables; and an append that is under way has its file    *)
(* open, whatever a truncate that failed before it left behind.            *)
TypeOK ==
  /\ file \in Text /\ buffer \in Text
  /\ stream \in {"good", "bad", "closed"}
  /\ current \in Record \cup {None} /\ start \in Nat
  /\ current # None => stream # "closed"
  /\ appends \in 0 .. MaxAppends /\ faults \in 0 .. MaxFaults /\ kills \in 0 .. MaxKills
  /\ written \in Nat /\ tears \in Nat

(* s is what is left of t when some of its entries are taken out.          *)
IsPartOf(s, t) ==
  \E g \in [DOMAIN s -> DOMAIN t] :
    /\ \A i \in DOMAIN s : s[i] = t[g[i]]
    /\ \A i, j \in DOMAIN s : i < j => g[i] < g[j]

(* Whatever was torn before, between or behind them, the records that were *)
(* appended whole on a line of their own are all replayed, unchanged and   *)
(* in their order.                                                         *)
WholeLinesSurvive == IsPartOf(lines, Replay(file))

(* Of the records written without an error at most one per tear is not on  *)
(* a line of its own.                                                      *)
LossIsBounded == written <= Len(lines) + tears

(* A torn line costs no more than itself and the record appended next:     *)
(* between two appends, replay yields at most one record too many per      *)
(* tear, and of the records written without an error at most one per tear  *)
(* is missing.                                                             *)
DamageIsBounded ==
  /\ current = None => Len(Replay(file)) <= Len(lines) + tears
  /\ LossIsBounded
=============================================================================
