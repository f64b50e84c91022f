------------------------------ MODULE Receiver ------------------------------
(***************************************************************************)
(* The request receiver (src/core/receiver.rs): a state machine fed byte by *)
(* byte that cuts what a client sends into requests and their arguments,    *)
(* with quoted strings, literals the client announces and waits with, and   *)
(* limits on sizes; and the client that writes to it, line by line.         *)
(*                                                                         *)
(* A byte is one of a few characters that stand for their class.  Of a      *)
(* command only whether it takes brackets for tokens is known.              *)
(***************************************************************************)
EXTENDS SequenceSet, FiniteSetsExt

CONSTANTS
  StartStates,   \* Start for IMAP, Command for ManageSieve, which has no tags
  Arguments,     \* what the client's arguments are
  Spoilers,      \* characters it may write in the wrong place
  MaxRequest,    \* max_request_size
  MaxQuoted,     \* length of quoted strings (1024 in the code)
  MaxName,       \* length of tags and command names (128 and 15)
  MaxItems,      \* bound: arguments and parentheses of a line
  MaxLines       \* bound: lines

SP == "SP"
CR == "CR"
LF == "LF"
DQUOTE == "DQUOTE"
BSLASH == "BSLASH"

ASSUME ReceiverAssumption ==
  StartStates \subseteq {"start", "command"} /\ {MaxRequest, MaxQuoted, MaxName} \subseteq Nat

IsWhite(ch)  == ch \in {SP, CR, LF}
IsAlnum(ch)  == ch \in DOMAIN Digit \cup {"a", "f", "n", "u"}
IsBracket(ch) == ch \in {"[", "]", "<", ">", "."}
UidPrefix    == <<"u">>
Recognized(name)  == name \in {<<"f">>, <<"n">>}   \* T::parse
TokenizeBrackets(name) == name = <<"f">>

VARIABLES
  rcv,       \* the receiver
  wire,      \* what has been sent and not been parsed
  line,      \* client: the line it writes
  got,       \* the requests the line has led to
  errors,    \* and the errors
  plus,      \* whether a continuation request is on its way to the client
  startState

receiverVars == <<rcv, wire, line, got, errors, plus, startState>>

Fresh(start) == [state |-> start, buf |-> <<>>, name |-> <<>>, tokens |-> <<>>, size |-> 0,
                 last |-> SP, escaped |-> FALSE, nonSync |-> FALSE, left |-> 0, out |-> "more"]

Nil       == [kind |-> "nil", value |-> <<>>]
Arg(v)    == [kind |-> "argument", value |-> v]
Special(c) == [kind |-> "special", value |-> <<c>>]

\* What the client means by its line, and what that counts for; whether it waits for a
\* continuation request, and with which literal.
NewLine == [tokens |-> <<>>, cost |-> 0, long |-> FALSE, spoiled |-> FALSE,
            brackets |-> FALSE, begun |-> FALSE, done |-> FALSE, literal |-> <<>>, waits |-> FALSE, no |-> 1]

ReceiverInit ==
  /\ startState \in StartStates
  /\ rcv = Fresh(startState) /\ wire = <<>> /\ line = NewLine /\ got = <<>> /\ errors = 0 /\ plus = FALSE

-----------------------------------------------------------------------------
(* Receiver::parse, for one byte. *)

ErrorReset(r) == [Fresh(startState) EXCEPT !.out = "error"]
Return(r, out) == [r EXCEPT !.out = out]
Goto(r, s) == [r EXCEPT !.state = s]

Pushed(r, token, n) ==
  IF r.size + n > MaxRequest THEN ErrorReset(r)
  ELSE [r EXCEPT !.tokens = Append(@, token), !.size = r.size + n, !.buf = <<>>]

PushArgument(r, inQuote) ==
  IF r.buf # <<>> THEN Pushed(r, Arg(r.buf), Len(r.buf))
  ELSE IF inQuote THEN [r EXCEPT !.tokens = Append(@, Nil)]
  ELSE r

\* The `?' operator: what follows is done unless there was an error.
AndThen(r, Do(_)) == IF r.out = "error" THEN r ELSE Do(r)

StartByte(r, ch) ==
  CASE ~IsWhite(ch) -> Goto([r EXCEPT !.buf = Append(@, ch)], "tag")
    [] ch = LF      -> ErrorReset(r)
    [] OTHER        -> r

TagByte(r, ch) ==
  CASE ch = SP                                   -> Goto([r EXCEPT !.buf = <<>>], "command")
    [] ~IsWhite(ch) /\ Len(r.buf) < MaxName      -> [r EXCEPT !.buf = Append(@, ch)]
    [] OTHER                                     -> ErrorReset(r)

CommandByte(r, ch) ==
  IF IsAlnum(ch) THEN IF Len(r.buf) < MaxName THEN [r EXCEPT !.buf = Append(@, ch)] ELSE ErrorReset(r)
  ELSE IF ~IsWhite(ch) THEN ErrorReset(r)
  ELSE IF r.buf = <<>> THEN r
  ELSE IF r.buf = UidPrefix THEN [r EXCEPT !.buf = <<>>]
  ELSE IF ~Recognized(r.buf) THEN ErrorReset(r)
  ELSE IF ch = LF THEN Return(r, "request")
  ELSE Goto([r EXCEPT !.name = r.buf, !.buf = <<>>, !.last = SP], "argument")

ArgumentByte(r, ch) ==
  LET p == PushArgument(r, FALSE) IN
  CASE ch = DQUOTE /\ IsWhite(r.last) ->
         AndThen(p, LAMBDA q : Goto([q EXCEPT !.escaped = FALSE], "quoted"))
    [] ch = "{" /\ IsWhite(r.last) ->
         AndThen(p, LAMBDA q : Goto([q EXCEPT !.nonSync = FALSE], "literal"))
    [] ch \in {"(", ")"} \/ (IsBracket(ch) /\ TokenizeBrackets(r.name)) ->
         AndThen(p, LAMBDA q : Pushed(q, Special(ch), 1))
    [] ch = LF          -> AndThen(p, LAMBDA q : Return(q, "request"))
    [] ch \in {SP, CR}  -> AndThen(p, LAMBDA q : [q EXCEPT !.last = ch])
    [] OTHER            -> [r EXCEPT !.buf = Append(@, ch), !.last = ch]

\* Mutant: after an escaped backslash the next character is escaped, too.
Escaped_Stays(r) == TRUE

\* What a backslash makes of the character after it.
Escaped(r) == ~r.escaped

QuotedByte(r, ch) ==
  LET room == Len(r.buf) < MaxQuoted
      Add(s) == [r EXCEPT !.buf = @ \o s, !.escaped = FALSE]
  IN
  IF ch = DQUOTE /\ ~r.escaped
  THEN AndThen(PushArgument(r, TRUE), LAMBDA q : Goto([q EXCEPT !.last = SP], "argument"))
  ELSE IF ch = BSLASH THEN [r EXCEPT !.buf = IF r.escaped THEN Append(@, ch) ELSE @, !.escaped = Escaped(r)]
  ELSE IF ch = LF \/ ~room THEN ErrorReset(r)
  ELSE IF ch # DQUOTE /\ r.escaped THEN Add(<<BSLASH, ch>>)
  ELSE Add(<<ch>>)

\* Mutant: the literal is measured without what came before.
Fits_Alone(r) == Value(r.buf) <= MaxRequest

Fits(r) == r.size + Value(r.buf) <= MaxRequest

LiteralByte(r, ch) ==
  CASE ch = "}" /\ IsNumber(r.buf) /\ Fits(r) ->
         Goto([r EXCEPT !.left = Value(r.buf), !.buf = <<>>], "seek")
    [] ch = "+" /\ r.buf # <<>>               -> [r EXCEPT !.nonSync = TRUE]
    [] ch \in DOMAIN Digit /\ ~r.nonSync      -> [r EXCEPT !.buf = Append(@, ch)]
    [] OTHER                                  -> ErrorReset(r)

Announced(r) == ~r.nonSync

SeekByte(r, ch) ==
  LET next == IF r.left > 0 THEN Goto(r, "data")
              ELSE Pushed(Goto([r EXCEPT !.last = SP], "argument"), Nil, 1)
  IN
  CASE ch = LF         -> AndThen(next, LAMBDA q : IF Announced(r) THEN Return(q, "literal") ELSE q)
    [] ch \in {SP, CR} -> r
    [] OTHER           -> ErrorReset(r)

DataByte(r, ch) ==
  LET q == [r EXCEPT !.buf = Append(@, ch), !.left = @ - 1] IN
  IF r.left > 1 THEN q
  ELSE AndThen(PushArgument(q, FALSE), LAMBDA p : Goto([p EXCEPT !.last = SP], "argument"))

ParseByte(r, ch) ==
  CASE r.state = "start"    -> StartByte(r, ch)
    [] r.state = "tag"      -> TagByte(r, ch)
    [] r.state = "command"  -> CommandByte(r, ch)
    [] r.state = "argument" -> ArgumentByte(r, ch)
    [] r.state = "quoted"   -> QuotedByte(r, ch)
    [] r.state = "literal"  -> LiteralByte(r, ch)
    [] r.state = "seek"     -> SeekByte(r, ch)
    [] r.state = "data"     -> DataByte(r, ch)

-----------------------------------------------------------------------------
(* The loop of Session::ingest that calls it.  After an error, and when a    *)
(* literal is announced, it forgets the rest of what it has read: a read     *)
(* ends anywhere.                                                            *)

\* The client's writing does not depend on the parser before it waits or ends its line.
CanParse == wire # <<>> /\ (line.waits \/ line.done)

Parse ==
  LET r == ParseByte(rcv, Head(wire)) IN
  /\ CanParse /\ r.out = "more"
  /\ rcv' = r /\ wire' = Tail(wire)
  /\ UNCHANGED <<line, got, errors, plus, startState>>

Request ==
  LET r == ParseByte(rcv, Head(wire)) IN
  /\ CanParse /\ r.out = "request"
  /\ rcv' = Fresh(startState) /\ wire' = Tail(wire)
  /\ got' = Append(got, r.tokens)
  /\ UNCHANGED <<line, errors, plus, startState>>

Forget == \E k \in 1 .. Len(wire) : wire' = SubSeq(wire, k + 1, Len(wire))

NeedsLiteral ==
  LET r == ParseByte(rcv, Head(wire)) IN
  /\ CanParse /\ r.out = "literal"
  /\ rcv' = Return(r, "more") /\ Forget
  /\ plus' = TRUE
  /\ UNCHANGED <<line, got, errors, startState>>

ParseError ==
  LET r == ParseByte(rcv, Head(wire)) IN
  /\ CanParse /\ r.out = "error"
  /\ rcv' = Return(r, "more") /\ Forget
  /\ errors' = errors + 1
  /\ UNCHANGED <<line, got, plus, startState>>

-----------------------------------------------------------------------------
(* The client. *)

Writes(text) == wire' = wire \o text
CanWrite == ~line.waits /\ ~line.done /\ line.literal = <<>>
ReceiverSame == UNCHANGED <<rcv, got, errors, startState>>

\* A tag, if there are tags, and a command, which takes brackets or does not.
Begins(name, uid) ==
  /\ CanWrite /\ ~line.begun
  /\ Writes((IF startState = "start" THEN <<"a", SP>> ELSE <<>>) \o (IF uid THEN UidPrefix \o <<SP>> ELSE <<>>) \o name)
  /\ line' = [line EXCEPT !.begun = TRUE, !.brackets = TokenizeBrackets(name)]
  /\ ReceiverSame /\ UNCHANGED plus

Items == Len(line.tokens)
CanAdd == CanWrite /\ line.begun /\ Items < MaxItems

Means(v, cost) == [line EXCEPT !.tokens = Append(@, IF v = <<>> THEN Nil ELSE Arg(v)), !.cost = @ + cost]

Atom(v) ==
  /\ CanAdd /\ v # <<>> /\ \A i \in DOMAIN v : IsAlnum(v[i])
  /\ Writes(<<SP>> \o v) /\ line' = Means(v, Len(v))
  /\ ReceiverSame /\ UNCHANGED plus

Quoted(v) ==
  LET Written(c) == IF c \in {DQUOTE, BSLASH} THEN <<BSLASH, c>> ELSE <<c>> IN
  /\ CanAdd /\ LF \notin ToSet(v)
  /\ Writes(<<SP, DQUOTE>> \o FoldLeft(LAMBDA t, c : t \o Written(c), <<>>, v) \o <<DQUOTE>>)
  /\ line' = [Means(v, Len(v)) EXCEPT !.long = @ \/ Len(v) > MaxQuoted]
  /\ ReceiverSame /\ UNCHANGED plus

Announcement(v, sign) == <<SP, "{">> \o Numeral(Len(v)) \o sign \o <<"}", CR, LF>>
LiteralCost(v) == IF v = <<>> THEN 1 ELSE Len(v)

NonSync(v) ==
  /\ CanAdd
  /\ Writes(Announcement(v, <<"+">>) \o v) /\ line' = Means(v, LiteralCost(v))
  /\ ReceiverSame /\ UNCHANGED plus

Announces(v) ==
  /\ CanAdd
  /\ Writes(Announcement(v, <<>>))
  /\ line' = [Means(v, LiteralCost(v)) EXCEPT !.waits = TRUE, !.literal = v]
  /\ ReceiverSame /\ UNCHANGED plus

\* The continuation request arrives.
Continues ==
  /\ line.waits /\ plus
  /\ Writes(line.literal) /\ plus' = FALSE
  /\ line' = [line EXCEPT !.waits = FALSE, !.literal = <<>>]
  /\ ReceiverSame

\* A parenthesis after a space, a bracket without one after an item.
Punctuates(c) ==
  /\ CanAdd
  /\ IsBracket(c) => line.brackets /\ Items > 0
  /\ Writes(IF IsBracket(c) THEN <<c>> ELSE <<SP, c>>)
  /\ line' = [line EXCEPT !.tokens = Append(@, Special(c)), !.cost = @ + 1]
  /\ ReceiverSame /\ UNCHANGED plus

\* A character that does not belong there.
Spoils(c) ==
  /\ CanWrite /\ ~line.spoiled
  /\ Writes(<<c>>) /\ line' = [line EXCEPT !.spoiled = TRUE]
  /\ ReceiverSame /\ UNCHANGED plus

Ends ==
  /\ CanWrite /\ line.begun
  /\ Writes(<<CR, LF>>) /\ line' = [line EXCEPT !.done = TRUE]
  /\ ReceiverSame /\ UNCHANGED plus

\* An answer, to a command or to what was not understood, in place of the continuation.
GivesUp ==
  /\ line.waits /\ wire = <<>> /\ ~plus /\ (errors > 0 \/ got # <<>>)
  /\ line' = [line EXCEPT !.done = TRUE, !.waits = FALSE]
  /\ ReceiverSame /\ UNCHANGED <<wire, plus>>

\* The next line, when the one before has been read.
NextLine ==
  /\ line.done /\ wire = <<>> /\ line.no < MaxLines
  /\ line' = [NewLine EXCEPT !.no = line.no + 1]
  /\ got' = <<>> /\ errors' = 0 /\ plus' = FALSE
  /\ UNCHANGED <<rcv, wire, startState>>

ReceiverNext ==
  \/ Parse \/ Request \/ NeedsLiteral \/ ParseError
  \/ \E name \in {<<"f">>, <<"n">>}, uid \in BOOLEAN : Begins(name, uid)
  \/ \E v \in Arguments : Atom(v) \/ Quoted(v) \/ NonSync(v) \/ Announces(v)
  \/ \E c \in {"(", ")", "["} : Punctuates(c)
  \/ \E c \in Spoilers : Spoils(c)
  \/ Continues \/ Ends \/ GivesUp \/ NextLine

-----------------------------------------------------------------------------
(* Properties. *)

\* What is in the buffer while a literal is announced is digits, which the code unwraps;
\* no request is larger than the limit; a quoted string grows past its limit only by
\* backslashes.
ReceiverTypeOK ==
  /\ rcv.state = "literal" => ToSet(rcv.buf) \subseteq DOMAIN Digit
  /\ rcv.size <= MaxRequest /\ rcv.left <= MaxRequest
  /\ rcv.state = "data" => rcv.left > 0 /\ rcv.size + Len(rcv.buf) + rcv.left <= MaxRequest
  /\ rcv.state \in {"start", "tag", "literal", "seek", "data"} => rcv.out = "more"

\* However a client writes its arguments, as atoms, quoted or in literals, the receiver
\* finds the arguments it means, also after a line that was not understood; a line it
\* refuses is too large, and one that is too large is refused.  A client that waits to
\* send a literal gets an answer, and one that does not wait is not asked to go on.
LineUnderstood ==
  wire = <<>> /\ ~line.spoiled =>
    /\ line.done /\ ~line.long =>
         IF line.cost > MaxRequest THEN errors > 0 ELSE got = <<line.tokens>> /\ errors = 0
    /\ line.waits => plus \/ errors > 0
    /\ plus => line.waits
=============================================================================
