------------------------------- MODULE Resync -------------------------------
(***************************************************************************)
(* How a client that was away learns what happened to a mailbox: SELECT     *)
(* with QRESYNC (handle_select, src/commands/select.rs) synchronizes the    *)
(* UIDs, asks for the state that becomes HIGHESTMODSEQ, and then calls      *)
(* fetch (src/commands/fetch.rs) for what has changed since the client's    *)
(* MODSEQ and for what has vanished.                                        *)
(*                                                                         *)
(* A MODSEQ is the state it stands for (ModSeq has the map), and update_uids *)
(* is one step (UidCache has its parts).                                    *)
(***************************************************************************)
EXTENDS Integers, FiniteSets

CONSTANTS
  Old,          \* messages in the mailbox when the client went away
  New,          \* messages that may come
  MaxNow,       \* bound: changes to the account
  MaxSelects,   \* bound: times the client comes back
  MaxObjectsInGet

ASSUME ResyncAssumption ==
  /\ Old \cup New \subseteq Nat /\ IsFiniteSet(Old \cup New)
  /\ {MaxNow, MaxSelects} \subseteq Nat /\ MaxObjectsInGet \in Nat \ {0}

VARIABLES
  now,         \* server: the state of the account
  mails,       \* server: where a message is, since when it exists, when it changed last
  uidNext,     \* database: the next UID
  given,       \* database: the message each UID was given to
  uidOf,       \* database: JMAP_TO_UID, 0 when there is no key
  removed,     \* database: JMAP_DELETED_IDS, 0 when there is no key
  cached,      \* client: the UIDs it has, and the state their flags are of
  highest,     \* client: its MODSEQ
  sel,         \* the command
  selects,
  overwritten, \* history: UIDs whose record of removal has been replaced
  blind,       \* history: messages that changed between the list and HIGHESTMODSEQ
  unheard      \* history: a failure that the client was not told of

database == <<uidNext, given, uidOf, removed, overwritten>>
resyncVars == <<now, mails, database, cached, highest, sel, selects, blind, unheard>>

Mails == Old \cup New
InMailbox == {m \in Mails : mails[m].place = "in"}

\* New UIDs are given in the order of the messages.
Position(S, m) == Cardinality({k \in S : k <= m})

NoCommand(uids) == [pc |-> "away", uids |-> uids, listed |-> 0, state |-> 0, gone |-> {}, left |-> {}]

ResyncInit ==
  LET place(m) == IF m \in Old THEN "in" ELSE "none"
      uids == {Position(Old, m) : m \in Old}
  IN
  /\ now = 0 /\ highest = 0 /\ selects = 0
  /\ mails = [m \in Mails |-> [place |-> place(m), born |-> 0, changed |-> 0]]
  /\ uidNext = Cardinality(Old) + 1
  /\ given = [u \in uids |-> CHOOSE m \in Old : Position(Old, m) = u]
  /\ uidOf = [m \in Mails |-> IF m \in Old THEN Position(Old, m) ELSE 0]
  /\ removed = [m \in Mails |-> 0]
  /\ cached = [u \in uids |-> 0]
  /\ sel = NoCommand([m \in Old |-> Position(Old, m)])
  /\ overwritten = {} /\ blind = {} /\ unheard = FALSE

-----------------------------------------------------------------------------
(* Other clients: a message comes, is flagged, leaves the mailbox, comes     *)
(* back, or is destroyed.                                                    *)
Happens(m, from, to) ==
  /\ now < MaxNow /\ now' = now + 1
  /\ selects < MaxSelects \/ sel.pc # "away"   \* bound: nobody looks any more
  /\ mails[m].place \in from
  /\ mails' = [mails EXCEPT ![m] = [place |-> to, changed |-> now + 1,
                                    born |-> IF "none" \in from THEN now + 1 ELSE @.born]]
  /\ UNCHANGED <<database, cached, highest, sel, selects, blind, unheard>>

Arrive(m)  == Happens(m, {"none"}, "in")
Flag(m)    == Happens(m, {"in"}, "in")
Leave(m)   == Happens(m, {"in"}, "out")
Return(m)  == Happens(m, {"out"}, "in")
Destroy(m) == Happens(m, {"in", "out"}, "destroyed")

-----------------------------------------------------------------------------
(* update_uids: records for the messages that are gone, UIDs for new ones. *)
UpdateUids(listed) ==
  LET gone  == {m \in Mails : uidOf[m] # 0} \ listed
      fresh == {m \in listed : uidOf[m] = 0}
      uid(m) == uidNext - 1 + Position(fresh, m)
  IN
  /\ uidNext' = uidNext + Cardinality(fresh)
  /\ given' = [u \in DOMAIN given \cup {uid(m) : m \in fresh} |->
                 IF u \in DOMAIN given THEN given[u] ELSE CHOOSE m \in fresh : uid(m) = u]
  /\ uidOf' = [m \in Mails |-> CASE m \in gone  -> 0
                                 [] m \in fresh -> uid(m)
                                 [] OTHER       -> uidOf[m]]
  /\ removed' = [m \in Mails |-> IF m \in gone THEN uidOf[m] ELSE removed[m]]
  /\ overwritten' = overwritten \cup ({removed[m] : m \in gone} \ {0})

\* Another session synchronizes the mailbox.
OtherSession ==
  /\ selects < MaxSelects \/ sel.pc # "away"
  /\ UpdateUids(InMailbox) /\ uidOf' # uidOf
  /\ UNCHANGED <<now, mails, cached, highest, sel, selects, blind, unheard>>

-----------------------------------------------------------------------------
(* SELECT. *)
SelectLists ==
  /\ sel.pc \in {"away", "failed"} /\ selects < MaxSelects
  /\ selects' = selects + 1
  /\ UpdateUids(InMailbox)
  /\ sel' = [NoCommand([m \in InMailbox |-> uidOf'[m]]) EXCEPT !.pc = "state", !.listed = now]
  /\ UNCHANGED <<now, mails, cached, highest, blind, unheard>>

\* get_jmap_state, after the list.
SelectState ==
  /\ sel.pc = "state"
  /\ sel' = [sel EXCEPT !.pc = "changes", !.state = now]
  /\ blind' = blind \cup {m \in Mails : mails[m].changed > sel.listed}
  /\ UNCHANGED <<now, mails, database, cached, highest, selects, unheard>>

\* The SELECT is answered NO.
SelectFails ==
  /\ sel.pc = "state"
  /\ sel' = [sel EXCEPT !.pc = "failed"]
  /\ UNCHANGED <<now, mails, database, cached, highest, selects, blind, unheard>>

\* Email/changes: a message that came and was destroyed since is not in it.
ChangesSince(since) ==
  LET touched == {m \in Mails : mails[m].changed > since} IN
  [created   |-> {m \in touched : mails[m].born > since /\ mails[m].place # "destroyed"},
   updated   |-> {m \in touched : mails[m].born <= since /\ mails[m].place # "destroyed"},
   destroyed |-> {m \in touched : mails[m].born <= since /\ mails[m].place = "destroyed"}]

\* Mutant: only destroyed messages can have vanished.
MayHaveVanished_Destroyed(changes) == changes.destroyed

\* A message that has left the mailbox is an updated one.
MayHaveVanished(changes) == changes.destroyed \cup changes.updated

AskChanges ==
  LET changes == ChangesSince(highest) IN
  /\ sel.pc = "changes"
  /\ sel' = [sel EXCEPT
       !.gone = MayHaveVanished(changes),
       !.left = (changes.created \cup changes.updated) \cap DOMAIN sel.uids,
       !.pc = IF MayHaveVanished(changes) # {} THEN "vanished" ELSE "fetch"]
  /\ UNCHANGED <<now, mails, database, cached, highest, selects, blind, unheard>>

\* VANISHED (EARLIER): the UIDs on record (jmap_to_imap, OnlyIncludeDeleted).
Vanished ==
  LET uids == {removed[m] : m \in sel.gone} \ {0} IN
  /\ sel.pc = "vanished"
  /\ cached' = [u \in DOMAIN cached \ uids |-> cached[u]]
  /\ sel' = [sel EXCEPT !.pc = "fetch"]
  /\ UNCHANGED <<now, mails, database, highest, selects, blind, unheard>>

\* FETCH of what has changed, a chunk at a time.
FetchChunk(chunk) ==
  LET found == {m \in chunk : mails[m].place # "destroyed"}
      uids  == {sel.uids[m] : m \in found}
  IN
  /\ sel.pc = "fetch" /\ chunk \subseteq sel.left /\ chunk # {}
  /\ Cardinality(chunk) = MaxObjectsInGet \/ chunk = sel.left
  /\ cached' = [u \in DOMAIN cached \cup uids |->
                  IF u \in uids THEN mails[given[u]].changed ELSE cached[u]]
  /\ sel' = [sel EXCEPT !.left = @ \ chunk]
  /\ UNCHANGED <<now, mails, database, highest, selects, blind, unheard>>

\* A failure within fetch: handle_select does not look at what it returns, and a failure
\* of the database to name the vanished is only logged.
FetchFails ==
  /\ sel.pc \in {"changes", "vanished", "fetch"} /\ ~unheard
  /\ unheard' = TRUE
  /\ sel' = [sel EXCEPT !.pc = "fetch", !.left = IF sel.pc = "vanished" THEN @ ELSE {}]
  /\ UNCHANGED <<now, mails, database, cached, highest, selects, blind>>

\* The answer to SELECT: HIGHESTMODSEQ.
SelectAnswers ==
  /\ sel.pc = "fetch" /\ sel.left = {}
  /\ highest' = sel.state
  /\ sel' = NoCommand(sel.uids)
  /\ UNCHANGED <<now, mails, database, cached, selects, blind, unheard>>

ResyncNext ==
  \/ \E m \in Mails : Arrive(m) \/ Flag(m) \/ Leave(m) \/ Return(m) \/ Destroy(m)
  \/ OtherSession
  \/ SelectLists \/ SelectState \/ SelectFails \/ AskChanges \/ Vanished
  \/ \E chunk \in SUBSET Mails : FetchChunk(chunk)
  \/ FetchFails \/ SelectAnswers

-----------------------------------------------------------------------------
\* The client that has come back has no message that the session has not, and has all
\* that are still there with the flags they had at its HIGHESTMODSEQ, wherever it was
\* and however the changes met the command.  Left out: a message that changed between
\* the list and the state that HIGHESTMODSEQ is taken from, a UID whose record of
\* removal was replaced because the message came back and left again, and what follows
\* a failure that SELECT does not report.
ResyncComplete ==
  sel.pc = "away" /\ ~unheard =>
    /\ \A u \in DOMAIN cached \ overwritten :
         given[u] \notin blind => given[u] \in DOMAIN sel.uids /\ sel.uids[given[u]] = u
    /\ \A m \in DOMAIN sel.uids \ blind :
         mails[m].place = "in" /\ uidOf[m] = sel.uids[m] =>
           /\ uidOf[m] \in DOMAIN cached
           /\ mails[m].changed <= highest => cached[uidOf[m]] = mails[m].changed
=============================================================================
