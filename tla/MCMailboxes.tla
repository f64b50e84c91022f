---------------------------- MODULE MCMailboxes ----------------------------
(***************************************************************************)
(* A session that works on its mailbox lists or answers STATUS, sessions    *)
(* that change the rights on a mailbox, or a pattern of LIST.  The mailboxes *)
(* are chosen so that one of the shared account has the id of one of the    *)
(* user's own.                                                              *)
(***************************************************************************)
EXTENDS MailboxList, MailboxStatus, Acl, ListPattern

VARIABLES
  part,
  pattern   \* of LIST

MCvars == <<part, pattern, listVars, statusVars, aclVars>>

Box(parent, name, sub) == [parent |-> parent, name |-> name, sub |-> sub]

\* a, a/b (subscribed) and a/b/a; in the shared account, a.
MCTrees == [own  |-> <<Box(0, "a", FALSE), Box(1, "b", TRUE), Box(2, "a", FALSE)>>,
            jane |-> <<Box(0, "a", TRUE)>>]

Of(op, n)  == [op |-> op, name |-> n]
Shared(n)  == <<"Shared", "jane", n>>
ListAll    == [op |-> "list", subscribed |-> FALSE, recursive |-> FALSE]
Rename(to) == [op |-> "rename", name |-> <<"a", "b">>, to |-> to]

MCRequests ==
  {ListAll, [ListAll EXCEPT !.subscribed = TRUE, !.recursive = TRUE], [op |-> "idle"]}
  \cup {Of("create", n) : n \in {<<"a", "c", "b">>, Shared("b"), <<"All", "b">>}}
  \cup {Of("delete", n) : n \in {<<"a", "b", "a">>, Shared("a")}}
  \cup {Of("subscribe", n) @@ [sub |-> FALSE] : n \in {<<"a", "b">>, Shared("a")}}
  \cup {Rename(<<"b">>), Rename(<<"b", "c">>), Rename(<<"a", "b", "c", "b">>)}

MCItems == {{"messages", "unseen", "deleted"}, {"uidnext", "unseen", "size", "validity"}, {"modseq", "messages"}}

\* Both signs, none, and rights of RFC 2086; the last three are not mod-rights.
MCRights == {<<"+", "d">>, <<"-", "e">>, <<"l", "r", "s">>, <<"+", "x">>, <<"-", "k", "w">>,
             <<"+", "c", "a">>, <<"-", "l", "p">>, <<"-">>, <<"l", "-">>, <<>>}

MCInit == /\ ListInit /\ StatusInit /\ AclInit
          /\ part \in {"list", "status", "acl", "pattern"}
          /\ part # "list" => linked = {}
          /\ IF part = "pattern" THEN pattern \in Patterns ELSE pattern = <<"*">>

MCNext ==
  /\ UNCHANGED <<part, pattern>>
  /\ \/ part = "list" /\ ListNext /\ UNCHANGED <<statusVars, aclVars>>
     \/ part = "status" /\ StatusNext /\ UNCHANGED <<listVars, aclVars>>
     \/ part = "acl" /\ AclNext /\ UNCHANGED <<listVars, statusVars>>

MCSpec == MCInit /\ [][MCNext]_MCvars

\* The type invariants, and that LIST has the data of every name it unwraps.
TypesOK == ListTypeOK /\ NamesHaveData /\ StatusTypeOK

\* PatternUnderstood, of every pattern: what LIST matches (matches_pattern).
PatternsUnderstood == part = "pattern" => PatternUnderstood(pattern)
=============================================================================
