---------------------------- MODULE SearchFilter ----------------------------
(***************************************************************************)
(* A search program on its way from the client to the JMAP server: the      *)
(* tokens of the command are read into a tree of filters (parse_filters,    *)
(* src/parser/search.rs), which is turned into a JMAP filter                *)
(* (imap_filter_to_jmap, src/commands/search.rs).  Both are loops with an   *)
(* explicit stack.                                                          *)
(*                                                                         *)
(* A day is the unit of dates, and the sizes wrap where u32 does.  What the *)
(* JMAP server makes of a filter is RFC 8620 and RFC 8621.                  *)
(***************************************************************************)
EXTENDS Integers, SequencesExt

CONSTANTS
  Keys,       \* the search keys a client uses
  SizeWidth,  \* 2^32 in the code
  Today,      \* the present, in days
  MaxNested   \* levels on the parser's stack (10 in the code)

Day  == 1    \* the date, the age and the size the keys are about
Size == 1

VARIABLES
  program,  \* the client's filter
  conv      \* the locals of imap_filter_to_jmap

filterVars == <<program, conv>>

\* A filter is a key or an operator on a list of filters.
Key(k)        == [op |-> k, args |-> <<>>]
Oper(o, args) == [op |-> o, args |-> args]
Operators     == {"And", "Or", "Not"}

\* A part of a filter is found by a path: which of its arguments, which of those of that
\* one, and so on.
Part(f, path) ==
  LET part[p \in Seq(Nat)] == IF p = <<>> THEN f ELSE part[Front(p)].args[Last(p)]
  IN part[path]

\* All programs of up to two levels of operators and some of three; the parser makes an And of the keys
\* of the command.
Level1 == {Key(k) : k \in Keys}
Level2 == Level1 \cup {Oper("Not", <<x>>) : x \in Level1} \cup {Oper(o, <<x, y>>) : o \in {"And", "Or"}, x, y \in Level1}
Programs == {Oper("And", <<x, y>>) : x \in Level2, y \in Level1}
            \cup {Oper("Not", <<x>>) : x \in Level2}
            \cup {Oper("Or", <<x, y>>) : x \in Level1, y \in Level2}
            \cup {Oper("Not", <<Oper("Not", <<x>>)>>) : x \in Level2}
            \cup Level1

\* JMAP filters: a condition with its value, or an operator.
Cond(c, v)  == [op |-> c, value |-> v, args |-> <<>>]
JmapOper(o, args) == [op |-> o, value |-> 0, args |-> args]
Has(k)      == Cond("hasKeyword", k)
Lacks(k)    == Cond("notKeyword", k)

\* The conditions a key adds: keywords, dates and sizes, and the ids of a sequence set or
\* of the changes since a MODSEQ.
Conditions(k) ==
  CASE k = "all"     -> <<>>
    [] k = "seen"    -> <<Has("seen")>>
    [] k = "unseen"  -> <<Lacks("seen")>>
    [] k = "recent"  -> <<Has("recent")>>
    [] k = "new"     -> <<JmapOper("And", <<Has("recent"), Lacks("seen")>>)>>
    [] k = "old"     -> <<Has("recent")>>
    [] k = "on"      -> <<JmapOper("And", <<Cond("after", Day), Cond("before", Day + 1)>>)>>
    [] k = "since"   -> <<Cond("after", Day)>>
    [] k = "before"  -> <<Cond("before", Day)>>
    [] k = "older"   -> <<Cond("after", Today - Day)>>
    [] k = "younger" -> <<Cond("after", Today - Day)>>
    [] k = "larger"  -> <<Cond("minSize", (Size + 1) % SizeWidth)>>
    [] k = "largest" -> <<Cond("minSize", SizeWidth % SizeWidth)>>
    [] k = "smaller" -> <<Cond("maxSize", Size)>>
    [] k \in {"set", "modseq"} -> <<Cond("ids", k)>>

-----------------------------------------------------------------------------
(* parse_filters. *)

\* The tokens a client writes; the keys of the command need no parentheses.
Tokens(f) ==
  LET tokens[p \in Seq(Nat)] ==
        LET g == Part(f, p)
            Grouped(i) == LET inner == tokens[Append(p, i)]
                          IN IF g.args[i].op = "And" THEN <<"(">> \o inner \o <<")">> ELSE inner
        IN CASE g.op = "Not" -> <<"NOT">> \o Grouped(1)
             [] g.op = "Or"  -> <<"OR">> \o Grouped(1) \o Grouped(2)
             [] g.op = "And" -> Grouped(1) \o Grouped(2)
             [] OTHER        -> <<g.op>>
  IN tokens[<<>>]

FilterInit ==
  /\ program \in Programs
  /\ conv = [pc |-> "read", tokens |-> Tokens(program), filters |-> <<>>, op |-> "And", stack |-> <<>>,
             imap |-> <<>>, jmap |-> <<>>, seenModseq |-> FALSE]

CanRead == conv.pc = "read" /\ conv.tokens # <<>>
Opened == [o \in {"(", "OR", "NOT"} |-> CASE o = "(" -> "And" [] o = "OR" -> "Or" [] OTHER -> "Not"]

\* OR, NOT and an opening parenthesis: the filters so far wait on the stack.
OpenFilter ==
  LET t == Head(conv.tokens) IN
  /\ CanRead /\ t \in DOMAIN Opened /\ Len(conv.stack) <= MaxNested
  /\ conv' = [conv EXCEPT !.tokens = Tail(@), !.stack = Append(@, [filters |-> conv.filters, op |-> conv.op]),
                          !.filters = <<>>, !.op = Opened[t]]
  /\ UNCHANGED program

TooManyNested ==
  /\ CanRead /\ Head(conv.tokens) \in DOMAIN Opened /\ Len(conv.stack) > MaxNested
  /\ conv' = [conv EXCEPT !.pc = "no"]
  /\ UNCHANGED program

\* Mutant: a list in parentheses is always taken apart.
Flattens_Always(filters, op, prevOp) == op = "And"

\* A list in parentheses goes into the one around it, unless that is an OR.
Flattens(filters, op, prevOp) == op = "And" /\ (prevOp # "Or" \/ Len(filters) = 1)

\* What is complete is closed, and what that completes, down to one that is open.
Close(filters, op, stack) ==
  LET Pop(prev, d) ==
        LET now == IF Flattens(d.filters, d.op, prev.op) THEN prev.filters \o d.filters
                   ELSE Append(prev.filters, Oper(d.op, d.filters))
        IN IF d.open THEN [d EXCEPT !.stack = <<prev>> \o @]
           ELSE [filters |-> now, op |-> prev.op, stack |-> <<>>,
                 open |-> prev.op = "And" \/ (prev.op = "Or" /\ Len(now) < 2)]
  IN FoldRight(Pop, stack, [filters |-> filters, op |-> op, stack |-> <<>>, open |-> FALSE])

Read(filters, closes) ==
  LET done == IF closes THEN Close(filters, conv.op, conv.stack)
              ELSE [filters |-> filters, op |-> conv.op, stack |-> conv.stack]
  IN conv' = [conv EXCEPT !.tokens = Tail(@), !.filters = done.filters, !.op = done.op, !.stack = done.stack]

ReadKey ==
  LET k == Head(conv.tokens)
      filters == Append(conv.filters, Key(k))
  IN
  /\ CanRead /\ k \notin DOMAIN Opened \cup {")", "before"}
  /\ Read(filters, conv.stack # <<>> /\ (\/ conv.op = "Or" /\ Len(filters) = 2
                                         \/ conv.op = "Not" /\ Len(filters) = 1))
  /\ UNCHANGED program

\* BEFORE adds the filter of ALL and leaves its date, which is no sequence set.
ReadBefore ==
  /\ CanRead /\ Head(conv.tokens) = "before"
  /\ conv' = [conv EXCEPT !.pc = "no"]
  /\ UNCHANGED program

CloseFilter ==
  /\ CanRead /\ Head(conv.tokens) = ")"
  /\ Read(conv.filters, TRUE)
  /\ UNCHANGED program

\* A single filter is the search program, several are joined by And; the top of it is
\* taken apart at once.
BeginConversion ==
  LET one == Len(conv.filters) = 1 /\ conv.filters[1].op \in Operators IN
  /\ conv.pc = "read" /\ conv.tokens = <<>>
  /\ conv' = [conv EXCEPT !.pc = "loop", !.stack = <<>>,
                          !.op = IF one THEN conv.filters[1].op ELSE "And",
                          !.imap = IF one THEN conv.filters[1].args ELSE conv.filters]
  /\ UNCHANGED program

-----------------------------------------------------------------------------
(* imap_filter_to_jmap. *)

\* A second MODSEQ ends the search.
TwoModseqs ==
  /\ conv.pc = "loop" /\ conv.imap # <<>> /\ Head(conv.imap).op = "modseq" /\ conv.seenModseq
  /\ conv' = [conv EXCEPT !.pc = "no"]
  /\ UNCHANGED program

TakeKey ==
  LET f == Head(conv.imap) IN
  /\ conv.pc = "loop" /\ conv.imap # <<>> /\ f.op \notin Operators
  /\ ~(f.op = "modseq" /\ conv.seenModseq)
  /\ conv' = [conv EXCEPT !.imap = Tail(@), !.jmap = @ \o Conditions(f.op),
                          !.seenModseq = @ \/ f.op = "modseq"]
  /\ UNCHANGED program

PushOperator ==
  LET f == Head(conv.imap) IN
  /\ conv.pc = "loop" /\ conv.imap # <<>> /\ f.op \in Operators
  /\ conv' = [conv EXCEPT !.stack = Append(@, [op |-> conv.op, imap |-> Tail(conv.imap), jmap |-> conv.jmap]),
                          !.op = f.op, !.imap = f.args, !.jmap = <<>>]
  /\ UNCHANGED program

PopOperator ==
  LET prev == conv.stack[Len(conv.stack)] IN
  /\ conv.pc = "loop" /\ conv.imap = <<>> /\ conv.stack # <<>>
  /\ conv' = [conv EXCEPT !.stack = SubSeq(@, 1, Len(@) - 1), !.imap = prev.imap, !.op = prev.op,
                          !.jmap = Append(prev.jmap, JmapOper(conv.op, conv.jmap))]
  /\ UNCHANGED program

InMailbox == Cond("inMailbox", 0)

\* The selected mailbox is added, if it is one and not the virtual "All Mail".
Finished(isMailbox) ==
  IF isMailbox /\ conv.op = "And"
  THEN IF conv.jmap = <<>> THEN InMailbox ELSE JmapOper("And", Append(conv.jmap, InMailbox))
  ELSE IF isMailbox THEN JmapOper("And", <<InMailbox, JmapOper(conv.op, conv.jmap)>>)
  ELSE IF Len(conv.jmap) = 1 THEN conv.jmap[1]
  ELSE JmapOper(conv.op, conv.jmap)

FinishFilter(isMailbox) ==
  /\ conv.pc = "loop" /\ conv.imap = <<>> /\ conv.stack = <<>>
  /\ conv' = [conv EXCEPT !.pc = IF isMailbox THEN "mailbox" ELSE "all mail", !.jmap = <<Finished(isMailbox)>>]
  /\ UNCHANGED program

FilterNext == OpenFilter \/ TooManyNested \/ ReadKey \/ ReadBefore \/ CloseFilter \/ BeginConversion
              \/ TwoModseqs \/ TakeKey \/ PushOperator \/ PopOperator
              \/ \E isMailbox \in BOOLEAN : FinishFilter(isMailbox)

-----------------------------------------------------------------------------
(* What the server finds, and what the client asked for. *)

Messages == [keywords : SUBSET {"seen", "recent"}, received : 0 .. Today, size : 0 .. SizeWidth - 1,
             lists : SUBSET {"set", "modseq"}, inMailbox : BOOLEAN]

Found(f, m) ==
  LET found[p \in Seq(Nat)] ==
        LET g == Part(f, p)
        IN CASE g.op = "And" -> \A i \in DOMAIN g.args : found[Append(p, i)]
             [] g.op = "Or"  -> \E i \in DOMAIN g.args : found[Append(p, i)]
             [] g.op = "Not" -> \A i \in DOMAIN g.args : ~found[Append(p, i)]
             [] g.op = "hasKeyword" -> g.value \in m.keywords
             [] g.op = "notKeyword" -> g.value \notin m.keywords
             [] g.op = "after"      -> m.received >= g.value
             [] g.op = "before"     -> m.received < g.value
             [] g.op = "minSize"    -> m.size >= g.value
             [] g.op = "maxSize"    -> m.size < g.value
             [] g.op = "ids"        -> g.value \in m.lists
             [] g.op = "inMailbox"  -> m.inMailbox
  IN found[<<>>]

Asked(f, m) ==
  LET meant[p \in Seq(Nat)] ==
        LET g == Part(f, p)
        IN CASE g.op = "And" -> \A i \in DOMAIN g.args : meant[Append(p, i)]
             [] g.op = "Or"  -> \E i \in DOMAIN g.args : meant[Append(p, i)]
             [] g.op = "Not" -> ~meant[Append(p, 1)]
             [] g.op = "all"     -> TRUE
             [] g.op = "seen"    -> "seen" \in m.keywords
             [] g.op = "unseen"  -> "seen" \notin m.keywords
             [] g.op = "recent"  -> "recent" \in m.keywords
             [] g.op = "new"     -> "recent" \in m.keywords /\ "seen" \notin m.keywords
             [] g.op = "old"     -> "recent" \notin m.keywords
             [] g.op = "on"      -> m.received = Day
             [] g.op = "since"   -> m.received >= Day
             [] g.op = "before"  -> m.received < Day
             [] g.op = "older"   -> m.received < Today - Day
             [] g.op = "younger" -> m.received >= Today - Day
             [] g.op = "larger"  -> m.size > Size
             [] g.op = "largest" -> m.size > SizeWidth - 1
             [] g.op = "smaller" -> m.size < Size
             [] g.op \in {"set", "modseq"} -> g.op \in m.lists
  IN meant[<<>>]

\* OLD and OLDER are turned into the conditions of RECENT and YOUNGER, the largest LARGER
\* wraps, ALL, which adds no condition, is lost below OR and NOT, and NOT of a list is
\* read as none of its filters.
Exact(f) ==
  LET exact[p \in Seq(Nat), below \in BOOLEAN] ==
        LET g == Part(f, p)
        IN /\ g.op \notin {"old", "older", "largest"} /\ ~(g.op = "all" /\ below)
           /\ ~(g.op = "Not" /\ g.args[1].op = "And")
           /\ \A i \in DOMAIN g.args : exact[Append(p, i), below \/ g.op \in {"Or", "Not"}]
  IN exact[<<>>, FALSE]

\* A search finds the messages of the mailbox that the client asks for, however its
\* operators are nested, except for the keys above; in "All Mail" the NOT of a program
\* that is nothing else gets lost.
FindsWhatIsAsked ==
  conv.pc \in {"mailbox", "all mail"} /\ Exact(program) /\ ~(conv.pc = "all mail" /\ program.op = "Not") =>
    \A m \in Messages : Found(conv.jmap[1], m) <=> Asked(program, m) /\ (conv.pc = "mailbox" => m.inMailbox)
=============================================================================
