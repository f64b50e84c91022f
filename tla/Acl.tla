-------------------------------- MODULE Acl --------------------------------
(***************************************************************************)
(* Access control lists: SETACL, DELETEACL and GETACL (src/commands/acl.rs)  *)
(* turn the rights of IMAP into those of JMAP and back (src/protocol/acl.rs), *)
(* which are fewer on one side and more on the other.  Nothing is kept in    *)
(* the session; the tasks of several commands meet at the JMAP server.       *)
(***************************************************************************)
EXTENDS Integers, Sequences, SequencesExt

CONSTANTS
  Editors,      \* tasks of sessions that change the list
  RightsTexts,  \* mod-rights that clients write, as sequences of characters
  Granted,      \* rights that JMAP clients grant
  MaxEdits      \* bound: commands and changes by JMAP clients

VARIABLES
  acl,     \* server: the JMAP rights an identifier has on the mailbox
  edit,    \* the command of each task
  edits,
  meant    \* history: the rights the commands stand for

aclVars == <<acl, edit, edits, meant>>

-----------------------------------------------------------------------------
\* Rights::from_acl
FromAcl == [Read |-> {"l"}, ReadItems |-> {"r"}, ModifyItems |-> {"w", "s"}, AddItems |-> {"i"},
            Submit |-> {"p"}, CreateChild |-> {"k"}, Modify |-> {"k"}, Delete |-> {"x"},
            RemoveItems |-> {"t", "e"}, Administer |-> {"a"}]

ASSUME AclAssumption == Granted \subseteq DOMAIN FromAcl

\* Mutant: EXPUNGE is taken for the deletion of the mailbox.
IntoAcl_Expunge(right) ==
  CASE right = "l" -> "Read"         [] right = "r" -> "ReadItems"
    [] right \in {"s", "w"} -> "ModifyItems"
    [] right = "i" -> "AddItems"     [] right = "p" -> "Submit"
    [] right = "k" -> "CreateChild"  [] right = "x" -> "Delete"
    [] right = "t" -> "RemoveItems"  [] right = "e" -> "Delete"
    [] right = "a" -> "Administer"

\* Rights::into_acl
IntoAcl(right) ==
  CASE right = "l" -> "Read"         [] right = "r" -> "ReadItems"
    [] right \in {"s", "w"} -> "ModifyItems"
    [] right = "i" -> "AddItems"     [] right = "p" -> "Submit"
    [] right = "k" -> "CreateChild"  [] right = "x" -> "Delete"
    [] right \in {"t", "e"} -> "RemoveItems"
    [] right = "a" -> "Administer"

\* The rights that LISTRIGHTS says are granted together.
Tied == {{"r"}, {"l"}, {"w", "s"}, {"i"}, {"e", "t"}, {"k"}, {"x"}, {"p"}, {"a"}}

\* ModRights::parse: a sign, if it is the first character, and rights, those of RFC 2086
\* among them; nothing but a sign is refused.
Signs == {"+", "-"}
Rights == UNION Tied
Obsolete == [c |-> "k", d |-> "t"]
ParseRights(text) ==
  LET op   == IF text # <<>> /\ text[1] \in Signs THEN text[1] ELSE "="
      rest == IF op = "=" THEN text ELSE Tail(text)
  IN [ok |-> rest # <<>> /\ ToSet(rest) \subseteq Rights \cup DOMAIN Obsolete,
      op |-> op,
      rights |-> {IF c \in DOMAIN Obsolete THEN Obsolete[c] ELSE c : c \in ToSet(rest)}]

\* What GETACL lists.
GetAcl(granted) == UNION {FromAcl[a] : a \in granted}

-----------------------------------------------------------------------------
Resting == [pc |-> "none"]

AclInit == /\ acl = {} /\ meant = {} /\ edits = 0
           /\ edit = [t \in Editors |-> Resting]

\* SETACL; a text that does not parse and an unknown mailbox are answered at once.
SetAcl(t, text) ==
  /\ edit[t].pc = "none" /\ edits < MaxEdits /\ edits' = edits + 1
  /\ edit' = [edit EXCEPT ![t] = IF ParseRights(text).ok THEN [pc |-> "set", text |-> text] ELSE Resting]
  /\ UNCHANGED <<acl, meant>>

DeleteAcl(t) ==
  /\ edit[t].pc = "none" /\ edits < MaxEdits /\ edits' = edits + 1
  /\ edit' = [edit EXCEPT ![t] = [pc |-> "delete"]]
  /\ UNCHANGED <<acl, meant>>

\* What the request makes of the rights there are, and of those the client means.
Modified(op, old, new) == CASE op = "+" -> old \cup new [] op = "-" -> old \ new [] OTHER -> new

\* Mailbox/set: single rights are set or cleared, or all replaced.
SetsMailbox(t) ==
  LET m == ParseRights(edit[t].text) IN
  /\ edit[t].pc = "set"
  /\ acl' = Modified(m.op, acl, {IntoAcl(r) : r \in m.rights})
  /\ meant' = Modified(m.op, meant, UNION {g \in Tied : g \cap m.rights # {}})
  /\ edit' = [edit EXCEPT ![t] = Resting]
  /\ UNCHANGED edits

ClearsMailbox(t) ==
  /\ edit[t].pc = "delete"
  /\ acl' = {} /\ meant' = {}
  /\ edit' = [edit EXCEPT ![t] = Resting]
  /\ UNCHANGED edits

\* The request fails or is refused.
AclFails(t) ==
  /\ edit[t].pc \in {"set", "delete"}
  /\ edit' = [edit EXCEPT ![t] = Resting]
  /\ UNCHANGED <<acl, edits, meant>>

JmapGrants(a) ==
  /\ edits < MaxEdits /\ edits' = edits + 1
  /\ acl' = acl \cup {a} /\ meant' = meant \cup FromAcl[a]
  /\ UNCHANGED edit

AclNext ==
  \/ \E t \in Editors : \/ \E text \in RightsTexts : SetAcl(t, text)
                        \/ DeleteAcl(t) \/ SetsMailbox(t) \/ ClearsMailbox(t) \/ AclFails(t)
  \/ \E a \in Granted : JmapGrants(a)

-----------------------------------------------------------------------------
\* However commands and JMAP clients take turns, GETACL lists the rights that an IMAP
\* server has that ties rights as LISTRIGHTS says: nothing remains of a right that was
\* taken away, and nothing else goes with it.  The exception is the JMAP right to modify
\* the mailbox, which is listed as `k' and which no SETACL can take away.
AclAsMeant ==
  IF "Modify" \in acl THEN GetAcl(acl) = meant \cup {"k"} ELSE GetAcl(acl) = meant
=============================================================================
