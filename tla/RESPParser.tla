----------------------------- MODULE RESPParser -----------------------------
(***************************************************************************)
(* src/network/RESPParser.cpp: the text of a command into its words, and   *)
(* replies into the RESP protocol.  All are functions of a string: raw     *)
(* runs through all strings over the characters they tell apart.  CR and   *)
(* LF stand for one character each.                                        *)
(***************************************************************************)
EXTENDS Integers, SequencesExt

CONSTANT MaxLength       \* bound on the strings tried

VARIABLE raw

Blank == {" ", "\t", "CR", "LF"}
CRLF == <<"CR", "LF">>
UpperCase == [a |-> "A", b |-> "B"]
Letters == DOMAIN UpperCase
Char == Letters \cup {" ", "\t", "CR", "LF", "*", "$"}

-----------------------------------------------------------------------------
(* Commands.                                                               *)

trim(s) ==
  LET ink == {i \in DOMAIN s : s[i] \notin Blank}
  IN IF ink = {} THEN <<>> ELSE SubSeq(s, Min(ink), Max(ink))

(* Mutant: the pieces are not trimmed. *)
tokenRaw(piece) == piece

token(piece) == trim(piece)

(* The pieces between the delimiters, trimmed, the empty ones left out.    *)
split(s) ==
  LET ends == {0, Len(s) + 1} \cup {i \in DOMAIN s : s[i] = " "}
      from == SetToSortSeq(ends \ {Len(s) + 1}, <)
      next(i) == Min({e \in ends : e > from[i]})
      tokens == [i \in DOMAIN from |-> token(SubSeq(s, from[i] + 1, next(i) - 1))]
  IN SelectSeq(tokens, LAMBDA t : t # <<>>)

to_upper(s) == [i \in DOMAIN s |-> IF s[i] \in Letters THEN UpperCase[s[i]] ELSE s[i]]

NoCommand == [command |-> <<>>, args |-> <<>>]

parse_simple_string(s) ==
  LET tokens == split(trim(s))
  IN IF tokens = <<>> THEN NoCommand
     ELSE [command |-> to_upper(Head(tokens)), args |-> Tail(tokens)]

(* The prefix of an array or a bulk string is skipped, its counts are not  *)
(* looked at.                                                              *)
parse(s) ==
  IF s = <<>> THEN NoCommand
  ELSE parse_simple_string(IF Head(s) \in {"*", "$"} THEN Tail(s) ELSE s)

-----------------------------------------------------------------------------
(* Replies.                                                                *)

Digit == <<"0", "1", "2", "3", "4", "5", "6", "7", "8", "9">>

(* std::to_string *)
Decimal(n) ==
  LET size == IF n < 0 THEN -n ELSE n
      decimal[k \in 0 .. size] ==
        IF k < 10 THEN <<Digit[k + 1]>>
        ELSE Append(decimal[k \div 10], Digit[(k % 10) + 1])
  IN IF n < 0 THEN <<"-">> \o decimal[size] ELSE decimal[size]

(* Mutant: the line ends with LF alone. *)
serializeBare(result) == <<"+">> \o result \o <<"LF">>

serialize(result) == <<"+">> \o result \o CRLF
serialize_error(error) == <<"-">> \o error \o CRLF
serialize_integer(value) == <<":">> \o Decimal(value) \o CRLF
serialize_nil == <<"$", "-", "1">> \o CRLF

(* Mutant: the length is that of the trimmed text. *)
LengthTrimmed(data) == Len(trim(data))

Length(data) == Len(data)

serialize_bulk(data) == <<"$">> \o Decimal(Length(data)) \o CRLF \o data \o CRLF

serialize_array(items) ==
  <<"*">> \o Decimal(Len(items)) \o CRLF
    \o FlattenSeq([i \in DOMAIN items |-> serialize_bulk(items[i])])

-----------------------------------------------------------------------------
(* A client that reads replies by the protocol: up to the end of the line, *)
(* or as many characters as a bulk string announces.                       *)

Number(line) ==
  LET number[n \in 0 .. Len(line)] ==
        IF n = 0 THEN 0
        ELSE 10 * number[n - 1] + (CHOOSE d \in DOMAIN Digit : Digit[d] = line[n]) - 1
  IN number[Len(line)]

(* The reply that s begins with, and what follows it.                      *)
FirstReply(s) ==
  LET ends == {i \in 1 .. Len(s) - 1 : s[i] = "CR" /\ s[i + 1] = "LF"}
      line == SubSeq(s, 2, Min(ends) - 1)
      after == SubSeq(s, Min(ends) + 2, Len(s))
      bulk == Head(s) = "$" /\ line # <<"-", "1">>
      size == Number(line)
  IN IF ends = {} THEN [reply |-> <<"cut short">>, rest |-> <<>>]
     ELSE IF ~bulk THEN [reply |-> <<Head(s), line>>, rest |-> after]
     ELSE IF SubSeq(after, size + 1, size + 2) # CRLF
          THEN [reply |-> <<"out of step">>, rest |-> <<>>]
     ELSE [reply |-> <<"$", SubSeq(after, 1, size)>>,
           rest |-> SubSeq(after, size + 3, Len(after))]

(* What has been read after n replies, and what is left to read.           *)
ReadReplies(s) ==
  LET read[n \in 0 .. Len(s)] ==
        IF n = 0 THEN [replies |-> <<>>, rest |-> s]
        ELSE LET before == read[n - 1]
                 next == FirstReply(before.rest)
             IN IF before.rest = <<>> THEN before
                ELSE [replies |-> Append(before.replies, next.reply), rest |-> next.rest]
  IN read[Len(s)].replies

-----------------------------------------------------------------------------
RespInit == raw = <<>>
RespNext == Len(raw) < MaxLength /\ \E ch \in Char : raw' = Append(raw, ch)
RespSpec == RespInit /\ [][RespNext]_raw

(* Text with no end of line in it.                                         *)
OneLine(s) == ~\E i \in 1 .. Len(s) - 1 : s[i] = "CR" /\ s[i + 1] = "LF"

(* A client reads an array of strings, and what is sent after it, back as  *)
(* they were, whatever line ends and prefixes the strings contain, and     *)
(* whether their lengths have one digit or two.                            *)
StringsReadBack ==
  \A i \in 0 .. Len(raw) :
    LET items == <<SubSeq(raw, 1, i), SubSeq(raw, i + 1, Len(raw)), raw \o raw \o raw>>
    IN ReadReplies(serialize_array(items) \o serialize_nil \o serialize_bulk(raw))
         = <<<<"*", Decimal(3)>>>> \o [j \in 1 .. 3 |-> <<"$", items[j]>>]
             \o <<<<"$", <<"-", "1">>>>, <<"$", raw>>>>

(* The other replies have no length: they read back as long as the text is *)
(* one line.                                                               *)
LinesReadBack ==
  LET value == 10 - 4 * Len(raw)
  IN OneLine(raw) =>
       ReadReplies(serialize(raw) \o serialize_error(raw) \o serialize_integer(value))
         = <<<<"+", raw>>, <<"-", raw>>, <<":", Decimal(value)>>>>

Ink(s) == SelectSeq(s, LAMBDA ch : ch \notin Blank)

(* The first character of each word: between it and the ink before it is a *)
(* space, or there is none before it.                                      *)
WordStarts(s) ==
  {i \in DOMAIN s :
     /\ s[i] \notin Blank
     /\ \A j \in 1 .. i - 1 : s[j] \notin Blank => \E k \in j .. i : s[k] = " "}

(* The words of a command are what stands between the spaces, with no      *)
(* blanks at their ends and none empty; no other character is lost or      *)
(* moved; and only the command is put in upper case.                       *)
WordsAreRead ==
  LET p == parse(raw)
      text == IF raw # <<>> /\ Head(raw) \in {"*", "$"} THEN Tail(raw) ELSE raw
      words == IF p.command = <<>> THEN p.args ELSE <<p.command>> \o p.args
      size == Len(Ink(p.command))
  IN /\ Len(words) = Cardinality(WordStarts(text))
     /\ \A i \in DOMAIN words :
          words[i] # <<>> /\ trim(words[i]) = words[i] /\ ~Contains(words[i], " ")
     /\ Ink(FlattenSeq(p.args)) = SubSeq(Ink(text), size + 1, Len(Ink(text)))
     /\ Ink(p.command) = to_upper(SubSeq(Ink(text), 1, size))
=============================================================================
