--------------------------- MODULE SelectedView ---------------------------
(***************************************************************************)
(* The selected mailbox of a session: the list of UIDs whose positions are  *)
(* the sequence numbers (MailboxData, src/core/message.rs), the commands    *)
(* that refresh it from the JMAP server, and what the client believes.      *)
(*                                                                         *)
(* A message is named by its UID: UidCache is where UIDs come from, and     *)
(* synchronize_messages is one step here.  JMAP states are numbered in the  *)
(* order of the changes; the code only stores and returns them.             *)
(*                                                                         *)
(* A command is a task.  The session runs SELECT, NOOP, CHECK, EXPUNGE,     *)
(* CLOSE and UNSELECT itself and spawns the others, so that a client that   *)
(* does not wait for its answers has several under way.  The state is       *)
(* locked for one step at a time and what a step found out is written to    *)
(* the client in a later one.                                               *)
(***************************************************************************)
EXTENDS Positions, SequencesExt

CONSTANTS
  Tasks,      \* commands under way at a time
  Commands,   \* the commands the client sends
  Elsewhere,  \* what other clients do to the mailbox
  Qresync,    \* whether QRESYNC is enabled: the cases to consider
  MayFail,    \* whether JMAP calls and the database may fail
  MaxUid,     \* bound: messages
  MaxState    \* bound: changes to the account

Blocking == {"select", "unselect", "close", "noop", "expunge"}
Spawned  == {"fetch", "store", "move", "search", "append", "idle"}

ASSUME SelectedViewAssumption ==
  /\ Commands \subseteq Blocking \cup Spawned
  /\ Elsewhere \subseteq {"deliver", "vanish", "flags"}
  /\ Qresync \subseteq BOOLEAN /\ MayFail \in BOOLEAN
  /\ MaxUid \in Nat /\ MaxState \in Nat

VARIABLES
  present,        \* the messages in the mailbox, on the JMAP server
  nextUid,        \* the UID of the next message
  changed,        \* the JMAP state that the message's last change led to
  jmapState,      \* the JMAP state of the account
  isQresync,      \* Session.is_qresync: VANISHED instead of EXPUNGE
  selected,       \* State::Selected
  imapUids,       \* MailboxData.imap_uids, and jmap_ids beside it
  totalMessages,  \* MailboxData.total_messages
  lastState,      \* MailboxData.last_state
  saved,          \* SavedSearch: None, InFlight or Results with a set of ImapId
  task,           \* the commands
  view,           \* client: the messages it counts, in order
  known           \* client: the state in which it saw a message's flags, or 0

server  == <<present, nextUid, changed, jmapState>>
mailbox == <<isQresync, selected, imapUids, totalMessages, lastState, saved>>
client  == <<view, known>>
vars    == <<server, mailbox, task, client>>

Uids   == 1..MaxUid
States == 0..MaxState
ImapId == [uid : Uids, seqnum : Nat]
SavedSearch == [kind : {"none", "in_flight", "results"}, items : SUBSET ImapId]
NoSearch == [kind |-> "none", items |-> {}]
InFlight == [kind |-> "in_flight", items |-> {}]

\* Untagged responses in a buffer: numbers of EXPUNGE or UIDs of VANISHED, then
\* EXISTS.  The list that EXISTS counts is there for the client's sake only.
NoOut == [gone |-> <<>>, tell |-> FALSE, exists |-> 0, all |-> <<>>]

\* A command's locals: the messages it is about, the state it read or got, the
\* result of synchronize_messages, the buffer, the FETCH items, whether a search
\* is saved and the saved one to restore, whether IDLE has an event to handle.
Idle == [pc |-> "idle", cmd |-> "noop", ids |-> {}, since |-> 0, new |-> 0, list |-> <<>>,
         out |-> NoOut, items |-> {}, save |-> FALSE, prev |-> NoSearch, event |-> FALSE]

Labels == {"idle", "changes", "list", "state", "apply", "write", "reading", "advance", "get", "fetch",
           "seen", "destroy", "replace", "set", "drop", "query", "import", "save", "idling",
           "closed", "opened"}

TypeOK ==
  /\ present \subseteq Uids /\ nextUid \in 1..(MaxUid + 1)
  /\ changed \in [Uids -> States] /\ jmapState \in States
  /\ isQresync \in Qresync /\ selected \in BOOLEAN
  /\ ToSet(imapUids) \subseteq Uids /\ totalMessages \in Nat /\ lastState \in States
  /\ saved \in SavedSearch
  /\ \A t \in Tasks :
       /\ task[t].pc \in Labels /\ task[t].cmd \in Commands \cup {"noop"}
       /\ task[t].ids \subseteq Uids /\ task[t].since \in States /\ task[t].new \in States
       /\ ToSet(task[t].list) \subseteq Uids /\ ToSet(task[t].out.gone) \subseteq Nat \ {0}
       /\ task[t].prev \in SavedSearch
  /\ ToSet(view) \subseteq Uids /\ known \in [Uids -> States]

Init ==
  /\ present = {} /\ nextUid = 1 /\ changed = [u \in Uids |-> 0] /\ jmapState = 0
  /\ isQresync \in Qresync /\ selected = FALSE /\ imapUids = <<>> /\ totalMessages = 0 /\ lastState = 0
  /\ saved = NoSearch
  /\ task = [t \in Tasks |-> Idle]
  /\ view = <<>> /\ known = [u \in Uids |-> 0]

-----------------------------------------------------------------------------
(* The JMAP server, for this session and for the others. *)

Idling(t) == task[t].cmd = "idle" /\ task[t].pc # "idle"

\* Mutant: an event that comes while the changes are written is lost.
Listens_OnlyWaiting(t) == task[t].pc = "idling"

\* The event source is open from handle_idle on and buffers its events.
Listens(t) == Idling(t)

\* A change of the account to the messages `now`, of which `us` are new or
\* different: the new state, and an event to those who listen.
Changed(now, us) ==
  /\ jmapState < MaxState
  /\ jmapState' = jmapState + 1
  /\ present' = now
  /\ changed' = [u \in Uids |-> IF u \in us THEN jmapState + 1 ELSE changed[u]]

Hears(t) == [task[t] EXCEPT !.event = @ \/ Listens(t)]
Notify == task' = [t \in Tasks |-> Hears(t)]

Deliver ==
  /\ nextUid <= MaxUid
  /\ Changed(present \cup {nextUid}, {nextUid})
  /\ nextUid' = nextUid + 1
  /\ Notify /\ UNCHANGED <<mailbox, client>>

Vanish(u) ==
  /\ u \in present
  /\ Changed(present \ {u}, {})
  /\ Notify /\ UNCHANGED <<nextUid, mailbox, client>>

SetFlags(u) ==
  /\ u \in present
  /\ Changed(present, {u})
  /\ Notify /\ UNCHANGED <<nextUid, mailbox, client>>

Others ==
  \/ "deliver" \in Elsewhere /\ Deliver
  \/ "vanish" \in Elsewhere /\ \E u \in Uids : Vanish(u)
  \/ "flags" \in Elsewhere /\ \E u \in Uids : SetFlags(u)

-----------------------------------------------------------------------------
(* Commands begin and end. *)

At(t, l) == task[t].pc = l
Become(t, r) == task' = [task EXCEPT ![t] = r]
BecomeAndNotify(t, r) == task' = [k \in Tasks |-> IF k = t THEN r ELSE Hears(k)]
Local(t) == task[t]
Quiet == \A t \in Tasks : At(t, "idle")

\* The session reads no command while it runs a blocking one.  SELECT, CLOSE and
\* UNSELECT are sent when nothing is under way: a command keeps the mailbox it
\* was started on.
Accepts(c) ==
  /\ \A t \in Tasks : ~At(t, "idle") => task[t].cmd \in Spawned \ {"idle"}
  /\ c \in {"select", "unselect", "close"} => Quiet
  /\ c # "select" => selected

FirstLabel ==
  [select |-> "list", unselect |-> "opened", close |-> "destroy", noop |-> "changes",
   idle |-> "changes", expunge |-> "destroy", fetch |-> "get", store |-> "set",
   move |-> "set", search |-> "query", append |-> "import"]

\* ImapIds of the messages us in a list, with the state their flags are read in.
Located(us, list) ==
  {[uid |-> list[i], seqnum |-> i, state |-> 0] : i \in {k \in DOMAIN list : list[k] \in us}}

\* The messages a FETCH, a STORE or a MOVE is about are looked up when it starts
\* (sequence_to_jmap); without any there is nothing to do.
Start(t, c, us) ==
  /\ At(t, "idle")
  /\ Accepts(c)
  /\ IF c \in {"fetch", "store", "move"} THEN us # {} /\ us \subseteq ToSet(imapUids)
     ELSE us = {}
  /\ Become(t, [Idle EXCEPT !.pc = FirstLabel[c], !.cmd = c, !.ids = us, !.since = lastState,
                            !.items = Located(us, imapUids)])
  /\ UNCHANGED <<server, mailbox, client>>

\* SEARCH RETURN (SAVE): the previous result is kept to be restored.
StartSave(t) ==
  /\ At(t, "idle")
  /\ Accepts("search") /\ "search" \in Commands
  /\ saved.kind # "in_flight"
  /\ saved' = InFlight
  /\ Become(t, [Idle EXCEPT !.pc = "query", !.cmd = "search", !.prev = saved,
                            !.save = TRUE])
  /\ UNCHANGED <<server, isQresync, selected, imapUids, totalMessages, lastState, client>>

\* write_changes returns: NOOP is answered, IDLE waits.
Ended(t) ==
  IF task[t].cmd = "idle"
  THEN [Idle EXCEPT !.cmd = "idle", !.pc = "idling", !.event = task[t].event]
  ELSE Idle

\* An error of the JMAP server or of the database.  When it is the answer that is
\* lost, the change itself is one of those that Others make.
Fail(t) ==
  /\ MayFail
  /\ task[t].pc \in {"changes", "list", "state", "get", "seen", "destroy", "set", "drop",
                     "query", "import"}
  /\ Become(t, IF task[t].cmd = "close" THEN [Idle EXCEPT !.cmd = "close", !.pc = "opened"]
               ELSE Ended(t))
  /\ saved' = IF task[t].save THEN task[t].prev ELSE saved
  /\ UNCHANGED <<server, isQresync, selected, imapUids, totalMessages, lastState, client>>

-----------------------------------------------------------------------------
(* What is written to the client. *)

\* The positions in a list of members of S, and the list of these members.
Where(list, S) == {i \in DOMAIN list : list[i] \in S}
Only(list, S)  == Picked(list, Where(list, S))

\* Mutant: the numbers are those before the first EXPUNGE.
Numbers_Fixed(gone) == gone

\* expunge::Response::serialize_to: each EXPUNGE renumbers the ones after it.
Numbers(gone) == IF isQresync THEN gone ELSE [i \in DOMAIN gone |-> gone[i] - (i - 1)]

\* A client's list after an EXPUNGE, and after VANISHED and EXISTS.
Drop(v, n) == Picked(v, DOMAIN v \ {n})
Told(o) ==
  LET v == IF isQresync THEN Only(view, Uids \ ToSet(o.gone)) ELSE view
  IN IF o.tell /\ o.exists > Len(v) THEN v \o SubSeq(o.all, Len(v) + 1, o.exists) ELSE v

\* A client reads a buffer to its end before the next one.
Reads(t) == \A k \in Tasks \ {t} : ~At(k, "reading")

\* Mutant: positions are counted from zero.
Gone_ZeroBased(old, kept) ==
  Picked(IF isQresync THEN old ELSE [i \in DOMAIN old |-> i - 1], DOMAIN old \ Where(old, kept))

\* The positions in old of what is not kept, as EXPUNGE or VANISHED names them.
Gone(old, kept) ==
  Picked(IF isQresync THEN old ELSE [i \in DOMAIN old |-> i], DOMAIN old \ Where(old, kept))

-----------------------------------------------------------------------------
(* Steps. *)

\* synchronize_messages: UIDs in ascending order.
List(t) ==
  /\ At(t, "list")
  /\ Become(t, [Local(t) EXCEPT
       !.list = Only([u \in Uids |-> u], present),
       !.pc = CASE task[t].cmd = "select" -> "state"
                [] task[t].cmd = "expunge" -> "replace"
                [] OTHER -> "apply"])
  /\ UNCHANGED <<server, mailbox, client>>

\* handle_select: get_jmap_state, after the list.
GetState(t) ==
  /\ At(t, "state")
  /\ Become(t, [Local(t) EXCEPT !.new = jmapState, !.pc = "opened"])
  /\ UNCHANGED <<server, mailbox, client>>

\* SELECT installs the new mailbox and answers; CLOSE and UNSELECT leave it.
Opened(t) ==
  /\ At(t, "opened") /\ Reads(t)
  /\ selected' = (task[t].cmd = "select")
  /\ imapUids' = task[t].list /\ totalMessages' = Len(task[t].list)
  /\ lastState' = task[t].new
  /\ saved' = NoSearch
  /\ view' = task[t].list /\ known' = [u \in Uids |-> 0]
  /\ Become(t, Idle)
  /\ UNCHANGED <<server, isQresync>>

\* Mutant: the state is asked for as it is now, not since the last sync.
Since_Now(t) == jmapState

Since(t) == task[t].since

\* write_changes: Email/changes since last_state, which was read before.
Changes(t) ==
  /\ At(t, "changes")
  /\ Become(t, [Local(t) EXCEPT
       !.ids = {u \in Uids : changed[u] > Since(t)}, !.new = jmapState, !.pc = "list"])
  /\ UNCHANGED <<server, mailbox, client>>

\* synchronize_uids keeps what is still listed, or everything (remove_missing).
Kept(t) ==
  IF task[t].cmd \in {"noop", "idle"} THEN ToSet(task[t].list) ELSE ToSet(imapUids)

Apply(t) ==
  LET kept  == Only(imapUids, Kept(t))
      added == Only(task[t].list, Uids \ ToSet(kept))
      gone  == Gone(imapUids, Kept(t))
      left  == IF totalMessages < Len(gone) THEN 0 ELSE totalMessages - Len(gone)
  IN /\ At(t, "apply")
     /\ imapUids' = kept \o added
     /\ totalMessages' = left + Len(added)
     /\ Become(t, [Local(t) EXCEPT
          !.out = [gone |-> Numbers(gone), tell |-> gone # <<>> \/ added # <<>>,
                   exists |-> totalMessages', all |-> imapUids'],
          !.items = Located(task[t].ids, imapUids'),
          !.pc = "write"])
     /\ UNCHANGED <<server, isQresync, selected, lastState, saved, client>>

\* The buffer goes to the client, which reads one EXPUNGE at a time.
ReadExpunge(t) ==
  LET out == task[t].out IN
  /\ At(t, "write") \/ At(t, "reading")
  /\ Reads(t)
  /\ ~isQresync /\ out.gone # <<>>
  /\ view' = Drop(view, Head(out.gone))
  /\ Become(t, [Local(t) EXCEPT !.out = [out EXCEPT !.gone = Tail(@)], !.pc = "reading"])
  /\ UNCHANGED <<server, mailbox, known>>

Write(t) ==
  /\ At(t, "write") \/ At(t, "reading")
  /\ Reads(t)
  /\ isQresync \/ task[t].out.gone = <<>>
  /\ view' = Told(task[t].out)
  /\ Become(t, CASE task[t].cmd \in {"noop", "idle"} ->
                      [Local(t) EXCEPT !.out = NoOut, !.pc = "advance"]
                 [] task[t].cmd = "search" -> [Local(t) EXCEPT !.out = NoOut, !.pc = "save"]
                 [] OTHER -> Idle)
  /\ UNCHANGED <<server, mailbox, known>>

\* write_changes: when there were changes, last_state moves on and the changed
\* messages of the mailbox are fetched; without any, that is all.
Advance(t) ==
  LET us == task[t].ids \cap ToSet(imapUids)
      more == task[t].new # task[t].since
  IN /\ At(t, "advance")
     /\ lastState' = IF more THEN task[t].new ELSE lastState
     /\ Become(t, IF more /\ us # {} THEN [Local(t) EXCEPT !.items = Located(us, imapUids), !.pc = "get"]
                  ELSE Ended(t))
     /\ UNCHANGED <<server, isQresync, selected, imapUids, totalMessages, saved, client>>

\* fetch: the flags of the messages, from Email/get.
Get(t) ==
  /\ At(t, "get")
  /\ Become(t, [Local(t) EXCEPT
       !.items = {[i EXCEPT !.state = jmapState] : i \in {k \in @ : k.uid \in present}},
       !.pc = "fetch"])
  /\ UNCHANGED <<server, mailbox, client>>

\* The FETCH responses: a client takes them to be about its own numbering.
Fetch(t) ==
  /\ At(t, "fetch") /\ Reads(t)
  /\ known' = [u \in Uids |->
       IF \E i \in task[t].items : i.seqnum \in DOMAIN view /\ view[i.seqnum] = u
       THEN (CHOOSE i \in task[t].items : i.seqnum \in DOMAIN view /\ view[i.seqnum] = u).state
       ELSE known[u]]
  /\ Become(t, IF task[t].cmd = "fetch" THEN [Local(t) EXCEPT !.pc = "seen"] ELSE Ended(t))
  /\ UNCHANGED <<server, mailbox, view>>

\* FETCH of a body then sets \Seen on the messages it was new to, if any.
Seen(t, us) ==
  /\ At(t, "seen")
  /\ us \subseteq {i.uid : i \in task[t].items} \cap present
  /\ IF us = {} THEN UNCHANGED <<present, changed, jmapState>> ELSE Changed(present, us)
  /\ BecomeAndNotify(t, Idle)
  /\ UNCHANGED <<nextUid, mailbox, client>>

\* STORE and MOVE: one Email/set for the messages that are still there.  A MOVE
\* takes the new state for the mailbox's at once.
Set(t) ==
  LET us   == task[t].ids \cap present
      keep == IF task[t].cmd = "move" THEN present \ us ELSE present
      new  == IF us = {} THEN jmapState ELSE jmapState + 1
  IN /\ At(t, "set")
     /\ IF us = {} THEN UNCHANGED <<present, changed, jmapState>>
        ELSE Changed(keep, IF task[t].cmd = "move" THEN {} ELSE us)
     /\ lastState' = IF task[t].cmd = "move" THEN new ELSE lastState
     /\ BecomeAndNotify(t, IF task[t].cmd = "move" /\ us = {} THEN Idle
                  ELSE [Local(t) EXCEPT !.ids = us, !.new = new, !.pc = "drop"])
     /\ UNCHANGED <<nextUid, isQresync, selected, imapUids, totalMessages, saved, client>>

\* MOVE: the moved messages leave the list.  The saved search stays.
DropMoved(t) ==
  LET gone == Gone(imapUids, ToSet(imapUids) \ task[t].ids)
      left == Only(imapUids, Uids \ task[t].ids)
  IN /\ At(t, "drop") /\ task[t].cmd = "move"
     /\ imapUids' = left
     /\ totalMessages' = IF totalMessages < Len(gone) THEN 0 ELSE totalMessages - Len(gone)
     /\ Become(t, [Local(t) EXCEPT !.out = [NoOut EXCEPT !.gone = Numbers(gone)], !.pc = "write"])
     /\ UNCHANGED <<server, isQresync, selected, lastState, saved, client>>

\* STORE: last_state becomes the new state of Email/set; the flags go out.
StoreAdvance(t) ==
  /\ At(t, "drop") /\ task[t].cmd = "store"
  /\ lastState' = task[t].new
  /\ Become(t, [Local(t) EXCEPT
       !.items = {[i EXCEPT !.state = task[t].new] : i \in {k \in @ : k.uid \in task[t].ids}},
       !.pc = "fetch"])
  /\ UNCHANGED <<server, isQresync, selected, imapUids, totalMessages, saved, client>>

\* EXPUNGE and CLOSE destroy messages that carry \Deleted, whoever set it;
\* handle_expunge then forgets the saved search.
Destroy(t, us) ==
  LET new == IF us = {} THEN jmapState ELSE jmapState + 1 IN
  /\ At(t, "destroy")
  /\ us \subseteq present
  /\ IF us = {} THEN UNCHANGED <<present, changed, jmapState>> ELSE Changed(present \ us, {})
  /\ IF task[t].cmd = "close"
     THEN Become(t, [Idle EXCEPT !.cmd = "close", !.pc = "opened"]) /\ UNCHANGED saved
     ELSE /\ saved' = NoSearch
          /\ Become(t, [Local(t) EXCEPT !.new = new, !.pc = "list"])
  /\ UNCHANGED <<nextUid, isQresync, selected, imapUids, totalMessages, lastState, client>>

\* handle_expunge replaces the whole state.
Replace(t) ==
  LET list == task[t].list
      gone == Gone(imapUids, ToSet(list))
  IN /\ At(t, "replace")
     /\ imapUids' = list /\ totalMessages' = Len(list) /\ lastState' = task[t].new
     /\ Become(t, [Local(t) EXCEPT
          !.out = [gone |-> Numbers(gone), tell |-> gone # <<>> \/ totalMessages # Len(list),
                   exists |-> Len(list), all |-> list],
          !.pc = "write"])
     /\ UNCHANGED <<server, isQresync, selected, saved, client>>

\* SEARCH: Email/query; a hit the session does not know makes it synchronize.
Query(t, us) ==
  /\ At(t, "query")
  /\ us \subseteq present
  /\ Become(t, [Local(t) EXCEPT !.ids = us, !.items = Located(us, imapUids),
                  !.pc = IF us \subseteq ToSet(imapUids) THEN "save" ELSE "list"])
  /\ UNCHANGED <<server, mailbox, client>>

Save(t) ==
  /\ At(t, "save")
  /\ saved' = IF task[t].save
              THEN [kind |-> "results",
                    items |-> {[uid |-> i.uid, seqnum |-> i.seqnum] : i \in task[t].items}]
              ELSE saved
  /\ Become(t, Idle)
  /\ UNCHANGED <<server, isQresync, selected, imapUids, totalMessages, lastState, client>>

\* APPEND: the message is in, and its state is taken for the mailbox's.
Import(t) ==
  /\ At(t, "import")
  /\ nextUid <= MaxUid
  /\ Changed(present \cup {nextUid}, {nextUid})
  /\ nextUid' = nextUid + 1
  /\ lastState' = jmapState + 1
  /\ BecomeAndNotify(t, [Local(t) EXCEPT !.pc = "list"])
  /\ UNCHANGED <<isQresync, selected, imapUids, totalMessages, saved, client>>

\* IDLE: an event, the end of the event source, DONE.
Event(t) ==
  /\ At(t, "idling")
  /\ task[t].event
  /\ Become(t, [Idle EXCEPT !.cmd = task[t].cmd, !.since = lastState, !.pc = "changes"])
  /\ UNCHANGED <<server, mailbox, client>>

SourceClosed(t) ==
  /\ MayFail /\ At(t, "idling")
  /\ Become(t, [Local(t) EXCEPT !.pc = "closed"])
  /\ UNCHANGED <<server, mailbox, client>>

Done(t) ==
  /\ task[t].pc \in {"idling", "closed"}
  /\ Become(t, Idle)
  /\ UNCHANGED <<server, mailbox, client>>

\* What runs on without the client or the network's ill will.
Step(t) ==
  \/ List(t) \/ GetState(t) \/ Opened(t) \/ Changes(t) \/ Apply(t) \/ ReadExpunge(t) \/ Write(t)
  \/ Advance(t) \/ Get(t) \/ Fetch(t) \/ (\E us \in SUBSET present : Seen(t, us)) \/ Set(t) \/ DropMoved(t) \/ StoreAdvance(t)
  \/ (\E us \in SUBSET present : Destroy(t, us)) \/ Replace(t)
  \/ (\E us \in SUBSET present : Query(t, us)) \/ Save(t) \/ Import(t) \/ Event(t)

Next ==
  \/ Others
  \/ \E t \in Tasks :
       \/ \E c \in Commands, us \in SUBSET Uids : Start(t, c, us)
       \/ StartSave(t) \/ Step(t) \/ Fail(t) \/ SourceClosed(t) \/ Done(t)

Spec == Init /\ [][Next]_vars

\* tokio polls a task that can go on, the worker pool and the server answer.
FairSpec == Spec /\ \A t \in Tasks : WF_vars(Step(t))

-----------------------------------------------------------------------------
(* Properties. *)

\* Between commands the client and the session number the same messages, after
\* whatever EXPUNGE, VANISHED and EXISTS responses and whatever failures:
\* otherwise the next command by sequence number acts on another message.  And
\* when write_changes has written its first buffer the client counts exactly the
\* messages that synchronize_messages found, in UID order.
InStep ==
  /\ Quiet => view = imapUids /\ totalMessages = Len(imapUids)
  /\ \A t \in Tasks : At(t, "advance") => view = task[t].list

\* "Obtain changes since last sync": last_state never moves past a change to a
\* message whose flags the client has, without the client being told.
NoChangeSkipped ==
  (\A t \in Tasks : task[t].pc \in {"idle", "idling"}) =>
    \A u \in ToSet(view) \cap present :
      known[u] # 0 /\ changed[u] <= lastState => known[u] >= changed[u]

\* IDLE: a new message is announced in the end, if it stays and IDLE goes on,
\* also when it arrives while changes are being written.
IdleReports ==
  \A t \in Tasks, u \in Uids :
    (Idling(t) /\ u \in present /\ u \notin ToSet(view))
      ~> (u \in ToSet(view) \/ u \notin present \/ ~Idling(t))

=============================================================================
