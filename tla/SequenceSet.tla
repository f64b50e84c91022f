---------------------------- MODULE SequenceSet ----------------------------
(***************************************************************************)
(* Sequence sets: parse_sequence_set (src/parser/mod.rs), which reads one   *)
(* character after another, and the two readings of its result, contains    *)
(* and expand (Sequence, src/protocol/mod.rs).                              *)
(***************************************************************************)
EXTENDS Integers, SequencesExt

CONSTANTS
  MaxNumber,   \* the largest number that fits (u32::MAX)
  SetNumbers   \* the numbers clients write

ASSUME SequenceSetAssumption == MaxNumber \in Nat /\ SetNumbers \subseteq 0 .. MaxNumber

Star   == -1   \* None as an end of a Range
Number(n)   == [kind |-> "number", from |-> n, to |-> n]
Range2(s, e) == [kind |-> "range", from |-> s, to |-> e]
SavedSet    == [kind |-> "saved", from |-> 0, to |-> 0]

\* A Sequence is the list of its items; a List of one is that one.
IsSequence(seq) ==
  \A i \in DOMAIN seq : LET x == seq[i] IN
    \/ x = SavedSet
    \/ x = Number(x.from) /\ x.from \in Nat
    \/ x = Range2(x.from, x.to) /\ {x.from, x.to} \subseteq Nat \cup {Star}

Between(v, x, y) == (v >= x /\ v <= y) \/ (v >= y /\ v <= x)

ItemContains(item, v, max) ==
  CASE item.kind = "number" -> v = item.from
    [] item.kind = "saved"  -> FALSE
    [] item.kind = "range"  ->
         IF item.from = Star /\ item.to = Star THEN v = max
         ELSE IF item.from = Star THEN Between(v, item.to, max)
         ELSE IF item.to = Star THEN Between(v, item.from, max)
         ELSE Between(v, item.from, item.to)

SetContains(seq, v, max) == \E i \in DOMAIN seq : ItemContains(seq[i], v, max)

ItemExpand(item, max) ==
  LET start == IF item.from = Star THEN max ELSE item.from
      end   == IF item.to = Star THEN max ELSE item.to
  IN CASE item.kind = "number" -> {item.from}
       [] item.kind = "saved"  -> {}
       [] item.kind = "range"  -> IF start > end THEN end .. start ELSE start .. end

Expand(seq, max) == UNION {ItemExpand(seq[i], max) : i \in DOMAIN seq}

IsSavedSearch(seq) == \E i \in DOMAIN seq : seq[i].kind = "saved"

-----------------------------------------------------------------------------
(* The parser.  A `$' within a token makes it no number. *)

Digit == [c \in {"0", "1", "2", "3", "4", "5", "6", "7", "8", "9"} |->
            CASE c = "0" -> 0 [] c = "1" -> 1 [] c = "2" -> 2 [] c = "3" -> 3 [] c = "4" -> 4
              [] c = "5" -> 5 [] c = "6" -> 6 [] c = "7" -> 7 [] c = "8" -> 8 [] OTHER -> 9]

Value(token) == FoldLeft(LAMBDA n, c : 10 * n + Digit[c], 0, token)

\* parse_number::<u32>
IsNumber(token) == token # <<>> /\ ToSet(token) \subseteq DOMAIN Digit /\ Value(token) \in 0 .. MaxNumber

Parsing == [items |-> <<>>, start |-> Star, token |-> <<>>,
            wildcard |-> FALSE, range |-> FALSE, saved |-> FALSE, ok |-> TRUE]

Refuse(p) == [p EXCEPT !.ok = FALSE]

Colon(p) ==
  IF p.range THEN Refuse(p)
  ELSE IF p.token # <<>> /\ IsNumber(p.token) THEN [p EXCEPT !.start = Value(p.token), !.token = <<>>, !.range = TRUE]
  ELSE IF p.token = <<>> /\ p.wildcard THEN [p EXCEPT !.wildcard = FALSE, !.range = TRUE]
  ELSE Refuse(p)

Character(p, ch, next) ==
  CASE ch = "," -> p
    [] ch = ":" -> Colon(p)
    [] ch = "*" -> IF p.wildcard \/ p.token # <<>> THEN Refuse(p) ELSE [p EXCEPT !.wildcard = TRUE]
    [] ch = "$" -> IF next # "," THEN Refuse(p)
                   ELSE [p EXCEPT !.saved = TRUE, !.token = IF @ = <<>> THEN @ ELSE Append(@, ch)]
    [] ch \in DOMAIN Digit -> IF p.wildcard THEN Refuse(p) ELSE [p EXCEPT !.token = Append(@, ch)]
    [] OTHER    -> Refuse(p)

Item(p) == IF p.range THEN Range2(p.start, IF p.wildcard THEN Star ELSE Value(p.token))
           ELSE IF p.wildcard THEN Range2(Star, Star)
           ELSE IF p.saved THEN SavedSet
           ELSE Number(Value(p.token))

\* Mutant: the start of a range is kept for the next one.
AddToken_KeepsStart(p) ==
  IF ~p.wildcard /\ (p.range \/ ~p.saved) /\ ~IsNumber(p.token) THEN Refuse(p)
  ELSE [p EXCEPT !.items = Append(@, Item(p)), !.wildcard = FALSE, !.range = FALSE, !.token = <<>>,
                 !.saved = @ /\ (p.range \/ p.wildcard)]

AddToken(p) ==
  IF ~p.wildcard /\ (p.range \/ ~p.saved) /\ ~IsNumber(p.token) THEN Refuse(p)
  ELSE [p EXCEPT !.items = Append(@, Item(p)), !.wildcard = FALSE, !.range = FALSE,
                 !.start = Star, !.token = <<>>, !.saved = @ /\ (p.range \/ p.wildcard)]

ParseSequenceSet(text) ==
  LET Next(i) == IF i = Len(text) THEN "," ELSE text[i + 1]
      Step(p, i) == LET q == Character(p, text[i], Next(i)) IN
                    IF ~p.ok THEN p
                    ELSE IF q.ok /\ (text[i] = "," \/ i = Len(text)) THEN AddToken(q) ELSE q
      end == FoldLeft(Step, Parsing, [i \in DOMAIN text |-> i])
  IN [ok |-> end.ok /\ end.items # <<>>, items |-> end.items]

-----------------------------------------------------------------------------
(* Properties. *)

\* How a client writes an item; the list of its items with commas between them.
Numeral(n) == LET d(k) == CHOOSE c \in DOMAIN Digit : Digit[c] = k
              IN IF n = Star THEN <<"*">> ELSE IF n < 10 THEN <<d(n)>> ELSE <<d(n \div 10), d(n % 10)>>

Text(seq) ==
  LET Written(x) == CASE x.kind = "number" -> Numeral(x.from)
                      [] x.kind = "saved"  -> <<"$">>
                      [] x.kind = "range"  -> IF x = Range2(Star, Star) THEN <<"*">>
                                              ELSE Numeral(x.from) \o <<":">> \o Numeral(x.to)
  IN FoldLeft(LAMBDA t, x : t \o (IF t = <<>> THEN <<>> ELSE <<",">>) \o Written(x), <<>>, seq)

ClientItems == {Number(n) : n \in SetNumbers} \cup {SavedSet}
               \cup {Range2(s, e) : s, e \in SetNumbers \cup {Star}}

\* All that a client can mean by one, two or three items, the third a number.
ClientSets == {<<x>> : x \in ClientItems} \cup {<<x, y>> : x, y \in ClientItems}
              \cup {<<x, y, z>> : x, y \in ClientItems, z \in {Number(n) : n \in SetNumbers}}

\* A sequence set that follows the grammar is read as it is meant, whatever came before
\* an item; and a trailing comma is the only thing that is read as if it were not there.
ReadAsMeant(seq) ==
  /\ ParseSequenceSet(Text(seq)) = [ok |-> TRUE, items |-> seq]
  /\ ParseSequenceSet(Append(Text(seq), ",")) = [ok |-> TRUE, items |-> seq]
  /\ ~ParseSequenceSet(<<",">> \o Text(seq)).ok
  /\ ~ParseSequenceSet(Append(Text(seq), ":")).ok

\* The two readings agree: the numbers `expand' lists are those `contains' accepts,
\* with `*' and in ranges that are written backwards.
ReadingsAgree(seq, max) == \A v \in 0 .. MaxNumber : SetContains(seq, v, max) <=> v \in Expand(seq, max)
=============================================================================
