---------------------------- MODULE ListPattern ----------------------------
(***************************************************************************)
(* The patterns of LIST and LSUB: matches_pattern (src/commands/list.rs),   *)
(* which goes through pattern and name once and never goes back.            *)
(***************************************************************************)
EXTENDS Integers, SequencesExt

CONSTANTS
  Characters,   \* what the names of mailboxes are made of, the delimiter among it
  MaxPattern,   \* bound: the length of a pattern
  MaxMailbox    \* bound: the length of a name

Delimiter == "/"
Wildcards == {"%", "*"}

ASSUME PatternAssumption ==
  Delimiter \in Characters /\ Wildcards \cap Characters = {} /\ {MaxPattern, MaxMailbox} \subseteq Nat

\* The last position of the literal text that follows the wildcard at pos.
EndPos(pattern, pos) ==
  CHOOSE e \in pos .. Len(pattern) :
    /\ \A i \in pos + 1 .. e : pattern[i] \notin Wildcards
    /\ e < Len(pattern) => pattern[e + 1] \in Wildcards

\* Mutant: a character that differs does not start the count again.
AfterMismatch_Keeps(count) == count

\* The character that differs is not tried as the first of the text.
AfterMismatch(count) == 0

\* The loop that looks for the text after a wildcard: where the name goes on, 0 if the
\* name ends first.  At the end of the pattern the text must end the name, too.
Find(text, name, from, eof) ==
  LET scan[j \in Nat, count \in Nat] ==
        IF j > Len(name) THEN 0
        ELSE IF name[j] # text[count + 1] THEN scan[j + 1, AfterMismatch(count)]
        ELSE IF count + 1 < Len(text) THEN scan[j + 1, count + 1]
        ELSE IF ~eof \/ j = Len(name) THEN j + 1
        ELSE scan[j + 1, 0]
  IN scan[from, 0]

\* One pattern: pos is where it is read, at where the name is.
MatchesPattern(pattern, name) ==
  LET match[pos \in Nat, at \in Nat] ==
        IF pos > Len(pattern) THEN at > Len(name)
        ELSE IF pattern[pos] \notin Wildcards
        THEN at <= Len(name) /\ name[at] = pattern[pos] /\ match[pos + 1, at + 1]
        ELSE LET end  == EndPos(pattern, pos)
                 eof  == end = Len(pattern)
                 next == Find(SubSeq(pattern, pos + 1, end), name, at, eof)
             IN IF end > pos THEN next # 0 /\ (eof \/ match[end + 1, next])
                ELSE pattern[pos] = "*" \/ \A i \in at .. Len(name) : name[i] # Delimiter
  IN match[1, 1]

-----------------------------------------------------------------------------
(* Properties. *)

Words(alphabet, n) == UNION {[1 .. k -> alphabet] : k \in 0 .. n}
Patterns  == Words(Characters \cup Wildcards, MaxPattern)
Mailboxes == Words(Characters, MaxMailbox)

\* What a pattern means: `*' stands for any text, `%' for any without a delimiter.
Means(pattern, name) ==
  LET m[i \in Nat, j \in Nat] ==
        IF i > Len(pattern) THEN j > Len(name)
        ELSE \/ pattern[i] \in Wildcards /\ m[i + 1, j]
             \/ /\ j <= Len(name)
                /\ IF pattern[i] \in Wildcards THEN (pattern[i] = "%" => name[j] # Delimiter) /\ m[i, j + 1]
                   ELSE name[j] = pattern[i] /\ m[i + 1, j + 1]
  IN m[1, 1]

AsStars(pattern) == [i \in DOMAIN pattern |-> IF pattern[i] = "%" THEN "*" ELSE pattern[i]]
WildcardsOf(pattern) == {i \in DOMAIN pattern : pattern[i] \in Wildcards}

\* No wildcard follows another: what follows the second is ignored.
Apart(pattern) == \A i \in WildcardsOf(pattern) : i + 1 \notin WildcardsOf(pattern)

\* Patterns that need no second look: at most one character after each wildcard, and no
\* `*' before a final `%'.
Simple(pattern) ==
  \A i \in WildcardsOf(pattern) :
    /\ EndPos(pattern, i) - i <= 1
    /\ pattern[i] = "*" => Last(pattern) # "%"

\* Of the patterns whose wildcards stand apart: a name that is matched is one that the
\* pattern stands for when `%' is read as `*'; a name that a simple pattern stands for is
\* matched; and the patterns of most clients, a prefix and a wildcard, match exactly what
\* they mean.
PatternUnderstood(pattern) ==
  Apart(pattern) =>
    \A name \in Mailboxes :
      LET matched == MatchesPattern(pattern, name) IN
      /\ matched => Means(AsStars(pattern), name)
      /\ Simple(pattern) /\ Means(pattern, name) => matched
      /\ WildcardsOf(pattern) \subseteq {Len(pattern)} => (matched <=> Means(pattern, name))
=============================================================================
