---------------------------- MODULE MailboxList ----------------------------
(***************************************************************************)
(* The mailbox lists a session keeps of its accounts (src/core/mailbox.rs)  *)
(* and the commands that read and change them: LIST, CREATE, DELETE, RENAME *)
(* and SUBSCRIBE, each of which first synchronizes the lists.               *)
(*                                                                         *)
(* A name is the sequence of its parts.  The ids of mailboxes are numbers,  *)
(* each account's own: two accounts may use the same one.  The mailboxes of *)
(* an account fit one page of Mailbox/query; roles are left out.            *)
(***************************************************************************)
EXTENDS Integers, SequencesExt

CONSTANTS
  Tasks,        \* tasks that run commands of the session
  Requests,     \* the commands a client may send
  NameParts,    \* the parts names are made of
  Trees,        \* the mailboxes of each account when the session begins
  MaxChanges,   \* bound: changes made by other clients
  MaxCommands,  \* bound: commands of the session
  MaxListErrors,\* bound: JMAP requests that fail
  MaxDepth      \* MAX_MAILBOX_DEPTH

Own    == "own"
Jane   == "jane"
Accounts == {Own, Jane}
FolderShared == "Shared"
FolderAll    == "All"

\* Account::prefix
Prefix(a) == IF a = Own THEN <<>> ELSE <<FolderShared, Jane>>

VARIABLES
  log,       \* server: the states of each account's mailboxes, oldest first
  linked,    \* server: the accounts shared with the user
  known,     \* the client's copy of the JMAP session: the accounts in it
  mailboxes, \* SessionData::mailboxes
  task,
  listed,    \* the last LIST response, and the states when the command began
  lost,      \* history: accounts whose changes the session has skipped
  others, commands, errors, listPanicked

server  == <<log, linked>>
budgets == <<others, commands, errors>>
listVars == <<server, known, mailboxes, task, listed, lost, budgets, listPanicked>>

-----------------------------------------------------------------------------
(* The server: a tree of mailboxes; its state is the number of changes.      *)

State(a) == Len(log[a])
Tree(a)  == Last(log[a]).tree
NoParent == 0

\* The names of the mailboxes of a tree.
Paths(a, tree) ==
  LET p[i \in DOMAIN tree] ==
        IF tree[i].parent = NoParent THEN Append(Prefix(a), tree[i].name)
        ELSE Append(p[tree[i].parent], tree[i].name)
  IN p

Node(tree) == [parent : DOMAIN tree \cup {NoParent}, name : NameParts, sub : BOOLEAN]

\* Every mailbox has a path, and no two mailboxes have the same.
IsTree(tree) ==
  /\ tree \in [DOMAIN tree -> Node(tree)]
  /\ DOMAIN tree \subseteq Nat \ {NoParent}
  /\ \A i, j \in DOMAIN tree : tree[i].parent = tree[j].parent /\ tree[i].name = tree[j].name => i = j
  /\ LET p == Paths(Own, tree) IN
     \A i \in DOMAIN tree :
       /\ p[i] \in Seq(NameParts)
       /\ p[i] = Append(IF tree[i].parent = NoParent THEN <<>> ELSE p[tree[i].parent], tree[i].name)

ASSUME ListAssumption ==
  /\ {FolderShared, Jane, "c"} \subseteq NameParts
  /\ \A a \in Accounts : /\ IsTree(Trees[a]) /\ IsFiniteSet(DOMAIN Trees[a])
                          /\ DOMAIN Trees[a] = 1 .. Cardinality(DOMAIN Trees[a])
  /\ \A c \in Requests :
       /\ c.op \in {"list", "idle", "create", "delete", "rename", "subscribe"}
       /\ c.op \in {"create", "delete", "rename", "subscribe"} => c.name \in Seq(NameParts)
       /\ c.op = "rename" => c.to \in Seq(NameParts)
       /\ c.op = "subscribe" => c.sub \in BOOLEAN

Children(tree, i) == {j \in DOMAIN tree : tree[j].parent = i}

Exists(tree, parent, name) == \E i \in Children(tree, parent) : tree[i].name = name

FreshId(a) == 1 + Cardinality(UNION {DOMAIN log[a][k].tree : k \in DOMAIN log[a]})

Placed(tree, i, parent, name) == [tree EXCEPT ![i].parent = parent, ![i].name = name]

\* A function, where it is defined, and another one elsewhere.
Over(f, g) == [x \in DOMAIN f \cup DOMAIN g |-> IF x \in DOMAIN f THEN f[x] ELSE g[x]]

Without(f, S) == [x \in DOMAIN f \ S |-> f[x]]

\* Whether mailbox i may be moved below parent under a name.
MayMove(tree, i, parent, name) ==
  /\ i \in DOMAIN tree /\ parent \in DOMAIN tree \cup {NoParent}
  /\ ~Exists(tree, parent, name)
  /\ LET p == Paths(Own, tree) IN parent # NoParent => ~IsPrefix(p[i], p[parent])

Logged(a, tree, list) == [log EXCEPT ![a] = Append(@, [tree |-> tree, list |-> list])]

\* Another client changes an account, or the set of shared accounts changes.
OtherClient(a) ==
  /\ others < MaxChanges /\ others' = others + 1
  /\ LET tree == Tree(a) IN
     \/ \E i \in DOMAIN tree : Children(tree, i) = {} /\ log' = Logged(a, Without(tree, {i}), TRUE)
     \/ \E i \in DOMAIN tree : ~Exists(tree, NoParent, "c")
                               /\ log' = Logged(a, Placed(tree, i, NoParent, "c"), TRUE)
     \/ log' = Logged(a, tree, FALSE)
  /\ UNCHANGED <<linked, known, mailboxes, task, listed, lost, commands, errors, listPanicked>>

Share ==
  /\ others < MaxChanges /\ others' = others + 1
  /\ linked' = {Jane} \ linked
  /\ UNCHANGED <<log, known, mailboxes, task, listed, lost, commands, errors, listPanicked>>

-----------------------------------------------------------------------------
(* fetch_account_mailboxes. *)

Reachable(a) == a = Own \/ a \in linked

Listing(a, tree) ==
  LET p == Paths(a, tree) IN
  [names |-> [n \in {p[i] : i \in DOMAIN p} |-> CHOOSE i \in DOMAIN p : p[i] = n],
   data  |-> [i \in DOMAIN tree |-> [children |-> Children(tree, i) # {}, sub |-> tree[i].sub]]]

FetchAccountMailboxes(a) ==
  LET l == Listing(a, Tree(a)) IN [state |-> State(a), names |-> l.names, data |-> l.data]

Idle == [pc |-> "idle"]
NoParams == [account |-> Own, id |-> NoParent, path |-> <<>>, above |-> <<>>, parent |-> NoParent]
NoList == [start |-> <<>>]

ListInit ==
  /\ log = [a \in Accounts |-> <<[tree |-> Trees[a], list |-> TRUE]>>]
  /\ linked \in SUBSET {Jane} /\ known = linked
  /\ mailboxes = [a \in {Own} \cup linked |-> FetchAccountMailboxes(a)]
  /\ task = [t \in Tasks |-> Idle]
  /\ listed = NoList /\ lost = {}
  /\ others = 0 /\ commands = 0 /\ errors = 0 /\ listPanicked = FALSE

Goto(t, pc)  == task' = [task EXCEPT ![t].pc = pc]
Ends(t)      == task' = [task EXCEPT ![t] = Idle]

\* A request fails, or does not.
Attempt(ok) == /\ ~ok => errors < MaxListErrors
               /\ errors' = IF ok THEN errors ELSE errors + 1

Begin(t, c) ==
  /\ task[t].pc = "idle" /\ commands < MaxCommands /\ ~listPanicked
  /\ commands' = commands + 1
  /\ task' = [task EXCEPT ![t] = [pc |-> "sync", cmd |-> c, start |-> [a \in Accounts |-> State(a)],
                                  todo |-> {}, failed |-> {}, got |-> <<>>, reply |-> <<>>,
                                  params |-> NoParams, ids |-> <<>>, updated |-> FALSE, new |-> 0]]
  /\ listed' = NoList
  /\ UNCHANGED <<server, known, mailboxes, lost, others, errors, listPanicked>>

-----------------------------------------------------------------------------
(* synchronize_mailboxes. *)

\* The client has noticed that its copy of the JMAP session is old, and refreshes it.
RefreshSession(t, ok) ==
  /\ task[t].pc = "sync" /\ known # linked
  /\ Attempt(ok)
  /\ IF ok THEN /\ known' = linked
                /\ mailboxes' = Without(mailboxes, {Jane} \ linked)
                /\ lost' = lost \cap ({Own} \cup linked)
                /\ task' = [task EXCEPT ![t].pc = "added", ![t].todo = linked \ DOMAIN mailboxes]
           ELSE Ends(t) /\ UNCHANGED <<known, mailboxes, lost>>
  /\ UNCHANGED <<server, listed, others, commands, listPanicked>>

NoRefresh(t) ==
  /\ task[t].pc = "sync"
  /\ Goto(t, "added")
  /\ UNCHANGED <<server, known, mailboxes, listed, lost, budgets, listPanicked>>

\* The mailboxes of an added or a changed account are fetched; a failure is logged.
FetchAccount(t, a, ok) ==
  /\ task[t].pc \in {"added", "changed"} /\ a \in task[t].todo
  /\ ok => Reachable(a)
  /\ Attempt(ok \/ ~Reachable(a))
  /\ task' = [task EXCEPT ![t].todo = @ \ {a}, ![t].failed = IF ok THEN @ ELSE @ \cup {a},
                          ![t].got = IF ok THEN Over([x \in {a} |-> FetchAccountMailboxes(a)], @) ELSE @]
  /\ lost' = IF ~ok /\ task[t].pc = "added" THEN lost \cup {a} ELSE lost
  /\ UNCHANGED <<server, known, mailboxes, listed, others, commands, listPanicked>>

\* What Mailbox/changes says: nothing changed, only counts, or more.  The states
\* are read when the server handles the request.
ChangesMailbox(a) ==
  LET since == mailboxes[a].state IN
  IF ~Reachable(a) \/ since = 0 THEN "error"
  ELSE IF since = State(a) THEN "none"
  ELSE IF \E k \in since + 1 .. State(a) : log[a][k].list THEN "list"
  ELSE "counts"

AskChanges(t, ok) ==
  /\ task[t].pc = "added" /\ task[t].todo = {}
  /\ Attempt(ok)
  /\ IF ok THEN /\ task' = [task EXCEPT ![t].pc = "reply",
                                 ![t].reply = [a \in DOMAIN mailboxes |-> <<ChangesMailbox(a), State(a)>>]]
                /\ UNCHANGED lost
           ELSE Ends(t) /\ lost' = lost \cup DOMAIN task[t].got
  /\ UNCHANGED <<server, known, mailboxes, listed, others, commands, listPanicked>>

\* Mutant: the new state is taken before the mailboxes have been fetched.
Advanced_Early(reply) == {a \in DOMAIN reply : reply[a][1] \in {"counts", "list"}}

\* take_account_id leaves no account id behind, so that the new state is taken only
\* where the mailboxes are not fetched again.
Advanced(reply) == {a \in DOMAIN reply : reply[a][1] = "counts"}

\* IDLE (return_changes) fetches the mailboxes after a change of counts, too.
Changed(t) ==
  LET reply == task[t].reply
      adv   == IF task[t].cmd.op = "idle" THEN {} ELSE Advanced(reply)
  IN /\ task[t].pc = "reply"
     /\ task' = [task EXCEPT ![t].pc = "changed",
                   ![t].failed = @ \cup {a \in DOMAIN reply : reply[a][1] = "error"},
                   ![t].todo = {a \in DOMAIN reply :
                      reply[a][1] = "list" \/ (reply[a][1] = "counts" /\ task[t].cmd.op = "idle")}]
     /\ mailboxes' = [a \in DOMAIN mailboxes |->
                        IF a \in adv THEN [mailboxes[a] EXCEPT !.state = reply[a][2]] ELSE mailboxes[a]]
     /\ UNCHANGED <<server, known, listed, lost, budgets, listPanicked>>

Synchronized(t) ==
  /\ task[t].pc = "changed" /\ task[t].todo = {}
  /\ mailboxes' = Over(task[t].got, mailboxes)
  /\ lost' = lost \ DOMAIN task[t].got
  /\ IF task[t].cmd.op = "idle" THEN Ends(t) ELSE Goto(t, "act")
  /\ UNCHANGED <<server, known, listed, budgets, listPanicked>>

\* History: accounts of which the command may have an old list.
Stale(t) == lost \cup task[t].failed

-----------------------------------------------------------------------------
(* LIST: the names, with what their attributes are made of.                  *)

\* A mailbox is listed if it is subscribed or, with RECURSIVEMATCH, has a subscribed
\* one below it.
Selected(l, n, cmd) ==
  \/ ~cmd.subscribed
  \/ l.data[l.names[n]].sub
  \/ cmd.recursive /\ \E k \in DOMAIN l.names : IsStrictPrefix(n, k) /\ l.data[l.names[k]].sub

Listed(l, cmd) == {<<n, l.data[l.names[n]].children>> : n \in {k \in DOMAIN l.names : Selected(l, k, cmd)}}

\* mailbox_data.get(mailbox_id).unwrap()
Dangling(l) == Range(l.names) \ DOMAIN l.data # {}

List(t) ==
  /\ task[t].pc = "act" /\ task[t].cmd.op = "list"
  /\ listPanicked' = \E a \in DOMAIN mailboxes : Dangling(mailboxes[a])
  /\ listed' = IF listPanicked' THEN NoList
               ELSE [start |-> task[t].start, cmd |-> task[t].cmd, known |-> known, stale |-> Stale(t),
                     items |-> [a \in DOMAIN mailboxes |-> Listed(mailboxes[a], task[t].cmd)]]
  /\ Ends(t)
  /\ UNCHANGED <<server, known, mailboxes, lost, budgets>>

-----------------------------------------------------------------------------
(* CREATE, DELETE, RENAME, SUBSCRIBE: a look at the lists, a request, and the *)
(* change made to the lists.                                                  *)

\* get_mailbox_by_name: the first account that has the name.
Holders(n) == {a \in DOMAIN mailboxes : n \in DOMAIN mailboxes[a].names}

\* validate_mailbox_create: the account by the name's first parts.
AccountOf(n) == IF n[1] = FolderShared THEN Jane ELSE Own

Valid(n) ==
  /\ Len(n) \in 1 .. MaxDepth /\ n[1] # FolderAll
  /\ n[1] = FolderShared => Len(n) >= 3 /\ SubSeq(n, 1, 2) = Prefix(Jane)
  /\ AccountOf(n) \in DOMAIN mailboxes
  /\ n \notin DOMAIN mailboxes[AccountOf(n)].names

\* How much of the name is that of the nearest mailbox above it that exists.
ParentLength(n) ==
  LET above == {k \in 1 .. Len(n) - 1 : SubSeq(n, 1, k) \in DOMAIN mailboxes[AccountOf(n)].names}
  IN IF above = {} THEN 0 ELSE Max(above)

\* Mutant: the parts that were popped stay in that order.
CreateParams_NotReversed(n) ==
  LET k == ParentLength(n) IN
  [account |-> AccountOf(n), id |-> NoParent,
   path |-> Reverse(SubSeq(n, k + 1, Len(n))), above |-> SubSeq(n, 1, k),
   parent  |-> IF k = 0 THEN NoParent ELSE mailboxes[AccountOf(n)].names[SubSeq(n, 1, k)]]

CreateParams(n) ==
  LET k == ParentLength(n) IN
  [account |-> AccountOf(n),
   id      |-> NoParent,
   path    |-> SubSeq(n, k + 1, Len(n)),
   above   |-> SubSeq(n, 1, k),
   parent  |-> IF k = 0 THEN NoParent ELSE mailboxes[AccountOf(n)].names[SubSeq(n, 1, k)]]

\* The checks of each command before its request.
Accepts(c) ==
  CASE c.op = "create"    -> Valid(c.name)
    [] c.op = "rename"    -> Valid(c.to) /\ c.name \in DOMAIN mailboxes[AccountOf(c.to)].names
    [] c.op \in {"delete", "subscribe"} -> Holders(c.name) # {}

Validate(t) ==
  LET c == task[t].cmd IN
  /\ task[t].pc = "act" /\ c.op # "list"
  /\ IF ~Accepts(c) THEN Ends(t)
     ELSE task' = [task EXCEPT ![t].pc = "set", ![t].params =
            CASE c.op = "create" -> CreateParams(c.name)
              [] c.op = "rename" -> [CreateParams(c.to) EXCEPT !.id = mailboxes[AccountOf(c.to)].names[c.name]]
              [] OTHER -> LET a == CHOOSE x \in Holders(c.name) : TRUE
                          IN [NoParams EXCEPT !.account = a, !.id = mailboxes[a].names[c.name]]]
  /\ UNCHANGED <<server, known, mailboxes, listed, lost, budgets, listPanicked>>

\* The tree with a chain of new mailboxes below parent, and their ids.
ChainNode(first, parent, path, i) ==
  [parent |-> IF i = first THEN parent ELSE i - 1, name |-> path[i - first + 1], sub |-> FALSE]

ChainTree(tree, first, parent, path) ==
  Over([i \in {first + k - 1 : k \in DOMAIN path} |-> ChainNode(first, parent, path, i)], tree)

Chain(a, parent, path) == [ids  |-> [k \in DOMAIN path |-> FreshId(a) + k - 1],
                           tree |-> ChainTree(Tree(a), FreshId(a), parent, path)]

MayCreate(a, parent, path) ==
  /\ Reachable(a)
  /\ parent \in DOMAIN Tree(a) \cup {NoParent}
  /\ path # <<>> => ~Exists(Tree(a), parent, path[1])

\* The request fails, before or after the server has carried it out, or is refused:
\* the session's lists stay as they are.
SetFails(t) ==
  /\ task[t].pc = "set" /\ Attempt(FALSE)
  /\ Ends(t)
  /\ UNCHANGED <<server, known, mailboxes, listed, lost, others, commands, listPanicked>>

\* The answer of Mailbox/set: the ids created, whether the update was made, and
\* the new state.
Respond(t, ids, updated) ==
  task' = [task EXCEPT ![t].pc = "update", ![t].ids = ids, ![t].updated = updated,
                       ![t].new = Len(log'[task[t].params.account])]

SetCreate(t) ==
  LET p == task[t].params
      chain == Chain(p.account, p.parent, p.path)
  IN /\ task[t].pc = "set" /\ task[t].cmd.op = "create"
     /\ IF MayCreate(p.account, p.parent, p.path)
        THEN log' = Logged(p.account, chain.tree, TRUE) /\ Respond(t, chain.ids, FALSE)
        ELSE Ends(t) /\ UNCHANGED log
     /\ UNCHANGED <<linked, known, mailboxes, listed, lost, budgets, listPanicked>>

\* The parents that are missing are created in the same request; the update may
\* fail after that.
SetRename(t) ==
  LET p == task[t].params
      above == Front(p.path)
      chain == Chain(p.account, p.parent, above)
      parent == IF above = <<>> THEN p.parent ELSE Last(chain.ids)
      moved == MayMove(chain.tree, p.id, parent, Last(p.path))
      tree  == IF moved THEN Placed(chain.tree, p.id, parent, Last(p.path)) ELSE chain.tree
  IN /\ task[t].pc = "set" /\ task[t].cmd.op = "rename"
     /\ IF MayCreate(p.account, p.parent, above) /\ (moved \/ above # <<>>)
        THEN log' = Logged(p.account, tree, TRUE) /\ Respond(t, chain.ids, moved)
        ELSE Ends(t) /\ UNCHANGED log
     /\ UNCHANGED <<linked, known, mailboxes, listed, lost, budgets, listPanicked>>

\* mailbox_destroy and mailbox_subscribe are sent without an account id: to the
\* default account.
SetAccount(p) == Own

SetDelete(t) ==
  LET p == task[t].params
      a == SetAccount(p)
  IN /\ task[t].pc = "set" /\ task[t].cmd.op = "delete"
     /\ IF p.id \in DOMAIN Tree(a) /\ Children(Tree(a), p.id) = {}
        THEN log' = Logged(a, Without(Tree(a), {p.id}), TRUE) /\ Goto(t, "update")
        ELSE Ends(t) /\ UNCHANGED log
     /\ UNCHANGED <<linked, known, mailboxes, listed, lost, budgets, listPanicked>>

SetSubscribe(t) ==
  LET p == task[t].params
      a == SetAccount(p)
  IN /\ task[t].pc = "set" /\ task[t].cmd.op = "subscribe"
     /\ IF p.id \in DOMAIN Tree(a)
        THEN log' = Logged(a, [Tree(a) EXCEPT ![p.id].sub = task[t].cmd.sub], TRUE) /\ Goto(t, "update")
        ELSE Ends(t) /\ UNCHANGED log
     /\ UNCHANGED <<linked, known, mailboxes, listed, lost, budgets, listPanicked>>

\* An account's list is changed, if the session still has it.
Updated(a, Op(_)) == IF a \in DOMAIN mailboxes THEN [mailboxes EXCEPT ![a] = Op(@)] ELSE mailboxes

\* Other clients' changes that a new state taken for an account passes over.
Skips(a, new) == a \in DOMAIN mailboxes /\ \E k \in mailboxes[a].state + 1 .. new - 1 : log[a][k].list

\* add_created_mailboxes: the names are built from the nearest mailbox above, or
\* from the account's prefix.
AddCreated(l, p, ids, hasUpdated, new) ==
  LET base == IF p.above # <<>> THEN p.above ELSE Prefix(p.account)
      name(k) == base \o SubSeq(p.path, 1, k)
      data == IF p.parent \in DOMAIN l.data THEN [l.data EXCEPT ![p.parent].children = TRUE] ELSE l.data
  IN [state |-> new,
      names |-> Over([n \in {name(k) : k \in DOMAIN ids} |-> ids[Len(n) - Len(base)]], l.names),
      data  |-> Over([i \in Range(ids) |-> [children |-> i # Last(ids) \/ hasUpdated, sub |-> FALSE]], data)]

UpdateCreate(t) ==
  LET r == task[t]
      a == r.params.account
  IN /\ r.pc = "update" /\ r.cmd.op = "create"
     /\ mailboxes' = Updated(a, LAMBDA l : AddCreated(l, r.params, r.ids, FALSE, r.new))
     /\ lost' = IF Skips(a, r.new) THEN lost \cup {a} ELSE lost
     /\ Ends(t)
     /\ UNCHANGED <<server, known, listed, budgets, listPanicked>>

\* The names of a renamed mailbox and of those below it.
Renamed(n, from, to) == IF IsPrefix(from, n) THEN to \o SubSeq(n, Len(from) + 1, Len(n)) ELSE n

RenameNames(l, from, to, id) ==
  Over([n \in {to} |-> id],
       [n \in {Renamed(k, from, to) : k \in DOMAIN l.names \ {from}} |->
          l.names[CHOOSE k \in DOMAIN l.names \ {from} : Renamed(k, from, to) = n]])

\* The old parent keeps its mark while any other name begins with its own.
RenameData(l, from, parent) ==
  LET old == IF Len(from) > 1 /\ Front(from) \in DOMAIN l.names THEN l.names[Front(from)] ELSE NoParent
  IN [i \in DOMAIN l.data |->
        [l.data[i] EXCEPT !.children =
           IF i = parent THEN TRUE
           ELSE IF i = old THEN \E n \in DOMAIN l.names : n # from /\ IsStrictPrefix(Front(from), n)
           ELSE @]]

\* take_new_state takes the state away: after the new parents have been added there
\* is none left for the renaming.
UpdateRename(t) ==
  LET r == task[t]
      a == r.params.account
      above == [r.params EXCEPT !.path = Front(@)]
      added(l) == IF r.ids = <<>> THEN l ELSE AddCreated(l, above, r.ids, r.updated, r.new)
      Moved(l) == IF ~r.updated THEN l
                  ELSE [state |-> IF r.ids = <<>> THEN r.new ELSE 0,
                        names |-> RenameNames(l, r.cmd.name, r.cmd.to, r.params.id),
                        data  |-> RenameData(l, r.cmd.name, r.params.parent)]
  IN /\ r.pc = "update" /\ r.cmd.op = "rename"
     /\ mailboxes' = Updated(a, LAMBDA l : Moved(added(l)))
     /\ lost' = IF Skips(a, r.new) \/ (r.ids # <<>> /\ r.updated) THEN lost \cup {a} ELSE lost
     /\ Ends(t)
     /\ UNCHANGED <<server, known, listed, budgets, listPanicked>>

\* Mutant: the name stays in the list.
UpdateDelete_KeepsName(t) ==
  LET r == task[t]
      a == r.params.account
  IN /\ r.pc = "update" /\ r.cmd.op = "delete"
     /\ mailboxes' = Updated(a, LAMBDA l : [l EXCEPT !.data = Without(@, {r.params.id})])
     /\ Ends(t)
     /\ UNCHANGED <<server, known, listed, lost, budgets, listPanicked>>

\* The counts, the children marks of the mailboxes above and the state stay.
UpdateDelete(t) ==
  LET r == task[t]
      a == r.params.account
  IN /\ r.pc = "update" /\ r.cmd.op = "delete"
     /\ mailboxes' = Updated(a, LAMBDA l : [l EXCEPT !.names = Without(@, {r.cmd.name}),
                                                     !.data = Without(@, {r.params.id})])
     /\ lost' = IF a # SetAccount(r.params) THEN lost \cup {a} ELSE lost
     /\ Ends(t)
     /\ UNCHANGED <<server, known, listed, budgets, listPanicked>>

UpdateSubscribe(t) ==
  LET r == task[t]
      a == r.params.account
  IN /\ r.pc = "update" /\ r.cmd.op = "subscribe"
     /\ mailboxes' = Updated(a, LAMBDA l : [l EXCEPT !.data = [i \in DOMAIN @ |->
                       IF i = r.params.id THEN [@[i] EXCEPT !.sub = r.cmd.sub] ELSE @[i]]])
     /\ lost' = IF a # SetAccount(r.params) THEN lost \cup {a} ELSE lost
     /\ Ends(t)
     /\ UNCHANGED <<server, known, listed, budgets, listPanicked>>

ListNext ==
  \/ \E a \in Accounts : OtherClient(a)
  \/ Share
  \/ \E t \in Tasks :
       \/ \E c \in Requests : Begin(t, c)
       \/ \E ok \in BOOLEAN : RefreshSession(t, ok) \/ AskChanges(t, ok)
       \/ \E a \in Accounts, ok \in BOOLEAN : FetchAccount(t, a, ok)
       \/ NoRefresh(t) \/ Changed(t) \/ Synchronized(t) \/ List(t) \/ Validate(t) \/ SetFails(t)
       \/ SetCreate(t) \/ SetRename(t) \/ SetDelete(t) \/ SetSubscribe(t)
       \/ UpdateCreate(t) \/ UpdateRename(t) \/ UpdateDelete(t) \/ UpdateSubscribe(t)

-----------------------------------------------------------------------------
(* Properties. *)

\* The lists name mailboxes by ids that the server has given, and the session has
\* the accounts of its JMAP session and its own.
ListTypeOK ==
  /\ Own \in DOMAIN mailboxes /\ DOMAIN mailboxes \subseteq Accounts
  /\ lost \subseteq Accounts /\ known \subseteq {Jane} /\ linked \subseteq {Jane}
  /\ \A a \in DOMAIN mailboxes :
       /\ mailboxes[a].state \in 0 .. State(a)
       /\ Range(mailboxes[a].names) \subseteq 1 .. FreshId(a) - 1
       /\ \A n \in DOMAIN mailboxes[a].names : IsStrictPrefix(Prefix(a), n)

\* What a LIST should show of a tree.
Expected(a, tree, cmd) == {x[1] : x \in Listed(Listing(a, tree), cmd)}

\* LIST shows each account as it was on the server at some moment after the command
\* began, unless asking for its changes or fetching it failed in this command, or changes
\* were skipped before: by the new state that CREATE and RENAME take over, by a failure
\* while the account was added, or by a DELETE or SUBSCRIBE that went to another account.
\* Nor is a mailbox then shown as \HasNoChildren that has others below it in the list: a
\* client would not show them.
ListsTheServer ==
  listed # NoList =>
    /\ listed.known \subseteq DOMAIN listed.items \cup listed.stale
    /\ \A a \in DOMAIN listed.items \ listed.stale :
         /\ \E k \in listed.start[a] .. State(a) :
              {x[1] : x \in listed.items[a]} = Expected(a, log[a][k].tree, listed.cmd)
         /\ \A x, y \in listed.items[a] : IsStrictPrefix(x[1], y[1]) => x[2]

\* LIST finds the data of every name in its list (unwrap).
NamesHaveData == ~listPanicked

\* What a command may do to the mailboxes of an account: change the one whose name the
\* client gave, and create it and those above it.
ActsOn(a, r) ==
  LET old == Tree(a)
      new == Last(log'[a]).tree
      p   == Paths(a, old)
      q   == Paths(a, new)
  IN /\ \A i \in DOMAIN old \ DOMAIN new : r.cmd.op = "delete" /\ p[i] = r.cmd.name
     /\ \A i \in DOMAIN new \ DOMAIN old :
          IsPrefix(q[i], IF r.cmd.op = "rename" THEN r.cmd.to ELSE r.cmd.name)
     /\ \A i \in DOMAIN new \cap DOMAIN old :
          /\ new[i].sub # old[i].sub => p[i] = r.cmd.name
          /\ <<new[i].name, new[i].parent>> # <<old[i].name, old[i].parent>> => q[i] = r.cmd.to

\* CREATE, DELETE, RENAME and SUBSCRIBE change the mailbox the client named and no other,
\* in whatever account it is ("Shared Folders/<username>/<folder>", create.rs).
ActsOnNamedMailbox ==
  [][\A t \in Tasks, a \in Accounts : task'[t] # task[t] /\ log'[a] # log[a] => ActsOn(a, task[t])]_listVars

\* The same for the mailboxes of the user's own account, if the command has them as they
\* were when it began and no other client moves them while it is under way.
OwnMailboxNamed ==
  [][\A t \in Tasks :
       task[t].pc = "set" /\ task[t].params.account = Own /\ task'[t] # task[t] /\ log'[Own] # log[Own]
       /\ Own \notin Stale(t) /\ (\A k \in task[t].start[Own] + 1 .. State(Own) : ~log[Own][k].list)
       => ActsOn(Own, task[t])]_listVars
=============================================================================
