----------------------------- MODULE UidCache -----------------------------
(***************************************************************************)
(* The persistent map between the JMAP ids and the IMAP UIDs of the         *)
(* messages of ONE mailbox (src/core/message.rs), kept in a sled database   *)
(* that every session of the process shares, beside the JMAP server that    *)
(* is the authority on which messages the mailbox holds.                    *)
(*                                                                         *)
(* Keys of two mailboxes never coincide (serialize_key puts the account and *)
(* the mailbox first), so one mailbox's slice of the key space is modelled. *)
(* A task is a session request (or the housekeeper) that runs one closure   *)
(* on the worker pool.  No lock protects a mailbox: sled makes one get, one *)
(* insert, one update_and_fetch and one apply_batch atomic, each of them is *)
(* one step here, and an iterator reads the tree key by key.                *)
(***************************************************************************)
EXTENDS Integers, Sequences

CONSTANTS
  Ids,         \* JMAP email ids
  NoId,        \* "no such key" for a key whose value is a JMAP id
  Tasks,       \* requests in flight, each on a worker of its own
  Ops,         \* the operations the tasks issue, a subset of AllOps
  InitPhases,  \* where the mailbox is in its life at start-up
  PageSize,    \* ids the JMAP server returns per Email/query
  MaxPages,    \* the 100 of "for _ in 0..100" in synchronize_messages
  Ttl,         \* cache-removed-id-ttl, in clock ticks
  InsertMayFail,  \* whether the first insert of insert_jmap_id may fail alone
  MaxList,     \* bound: ids in the list that add, move and vanished are given
  MaxUid,      \* bound: UIDs generated
  MaxTime      \* bound: clock ticks

RangeOf(s) == {s[i] : i \in DOMAIN s}

\* sync      synchronize_messages: Email/query, then update_uids
\* add       jmap_to_imap with AddIfMissing, then uids (APPEND, COPY, MOVE)
\* vanished  jmap_to_imap with OnlyIncludeDeleted (FETCH ... VANISHED)
\* move      delete_ids, after a JMAP call took the messages away (MOVE)
\* drop      delete_mailbox, after a JMAP call destroyed the mailbox (DELETE)
\* purge     purge_deleted_mailboxes, with the mailbox list of a login
\* expire    purge_deleted_ids, run by the housekeeper
AllOps == {"sync", "add", "vanished", "move", "drop", "purge", "expire"}
Phases == {"absent", "live", "destroyed"}

ASSUME NoIdAssumption   == NoId \notin Ids
ASSUME OpsAssumption    == Ops \subseteq AllOps /\ InitPhases \subseteq Phases
ASSUME BoundsAssumption == /\ PageSize \in Nat \ {0}
                           /\ MaxPages \in Nat \ {0}
                           /\ Ttl \in Nat
                           /\ InsertMayFail \in BOOLEAN
                           /\ MaxList \in Nat
                           /\ MaxUid \in Nat
                           /\ MaxTime \in Nat

VARIABLES
  \* the database
  jmapToUid,    \* JMAP_TO_UID keys: [Ids -> UID], 0 when there is no key
  uidToJmap,    \* UID_TO_JMAP keys: [UID -> Ids], NoId when there is no key
  deletedIds,   \* JMAP_DELETED_IDS keys: UID and insertion time, uid 0: no key
  uidNext,      \* UID_NEXT key: the last UID generated, 0 when there is no key
  uidValidity,  \* UID_VALIDITY key, 0 when there is no key
  \* the JMAP server and the clock
  phase,        \* the mailbox on the JMAP server
  mailbox,      \* its message ids, in the server's order
  now,          \* clock
  \* the tasks
  pc, op,
  ids,          \* valid_ids / update_jmap_ids / jmap_ids
  at,           \* position in ids, or the scan's last key
  pages,        \* iterations of the query loop
  found,        \* found_ids: the positions of ids that the scan met
  batch,        \* sled::Batch
  uid,          \* UID generated by update_and_fetch and not yet written
  reply,        \* what the closure returns
  \* history, read only by the properties
  owner,        \* the id each UID was generated for
  present,      \* messages in the mailbox since the task started
  wiped         \* the mailbox's keys were removed as a whole

dbVars   == <<jmapToUid, uidToJmap, deletedIds, uidNext, uidValidity>>
envVars  == <<phase, mailbox, now>>
taskVars == <<pc, op, ids, at, pages, found, batch, uid, reply>>
vars     == <<dbVars, envVars, taskVars, owner, present, wiped>>

Uids    == 1..MaxUid
Removed == [uid : 0..MaxUid, at : 0..MaxTime]
NoRecord == [uid |-> 0, at |-> 0]

\* A batch: the JMAP_DELETED_IDS records it inserts and the keys it removes.
Batches == [insert  : [Ids -> Removed],
            jmap    : SUBSET Ids,
            uids    : SUBSET Uids,
            deleted : SUBSET Ids,
            counters : SUBSET {"uid_next", "uid_validity"}]
EmptyBatch == [insert |-> [j \in Ids |-> NoRecord], jmap |-> {}, uids |-> {},
               deleted |-> {}, counters |-> {}]

\* The closure's result: (jmap_ids, imap_uids) and, of MailboxData and uids(),
\* the UIDVALIDITY and the UIDNEXT.
Replies == [ids : Seq(Ids), uids : Seq(Uids), validity : 0..(MaxTime + 1),
            next : 0..(MaxUid + 1)]
NoReply == [ids |-> <<>>, uids |-> <<>>, validity |-> 0, next |-> 0]

Labels == {"idle", "query", "validity", "put_validity", "scan", "apply",
           "alloc", "put_jmap", "put_uid", "uid_next", "lookup",
           "lookup_deleted", "find", "scan_all", "scan_expired", "done"}

DbTyped ==
  /\ jmapToUid \in [Ids -> 0..MaxUid]
  /\ uidToJmap \in [Uids -> Ids \cup {NoId}]
  /\ deletedIds \in [Ids -> Removed]
  /\ uidNext \in 0..MaxUid
  /\ uidValidity \in 0..(MaxTime + 1)

EnvTyped ==
  /\ phase \in Phases
  /\ mailbox \in Seq(Ids)
  /\ now \in 0..MaxTime

TasksTyped ==
  /\ pc \in [Tasks -> Labels]
  /\ op \in [Tasks -> AllOps]
  /\ ids \in [Tasks -> Seq(Ids)]
  /\ at \in [Tasks -> Nat]
  /\ pages \in [Tasks -> Nat]
  /\ found \in [Tasks -> SUBSET Nat]
  /\ batch \in [Tasks -> Batches]
  /\ uid \in [Tasks -> 0..MaxUid]
  /\ reply \in [Tasks -> Replies]

HistoryTyped ==
  /\ owner \in [Uids -> Ids \cup {NoId}]
  /\ present \in [Tasks -> SUBSET Ids]
  /\ wiped \in BOOLEAN

TypeOK == DbTyped /\ EnvTyped /\ TasksTyped /\ HistoryTyped

Init ==
  /\ jmapToUid = [j \in Ids |-> 0]
  /\ uidToJmap = [u \in Uids |-> NoId]
  /\ deletedIds = [j \in Ids |-> NoRecord]
  /\ uidNext = 0
  /\ uidValidity = 0
  /\ phase \in InitPhases
  /\ mailbox = <<>>
  /\ now = 0
  /\ pc = [t \in Tasks |-> "idle"]
  /\ op = [t \in Tasks |-> "sync"]
  /\ ids = [t \in Tasks |-> <<>>]
  /\ at = [t \in Tasks |-> 0]
  /\ pages = [t \in Tasks |-> 0]
  /\ found = [t \in Tasks |-> {}]
  /\ batch = [t \in Tasks |-> EmptyBatch]
  /\ uid = [t \in Tasks |-> 0]
  /\ reply = [t \in Tasks |-> NoReply]
  /\ owner = [u \in Uids |-> NoId]
  /\ present = [t \in Tasks |-> {}]
  /\ wiped = FALSE

-----------------------------------------------------------------------------
(* The other users of the JMAP server. *)

dbAndTasks == <<dbVars, taskVars, owner, wiped>>

\* present[t] loses what leaves the mailbox while t runs.
StillPresent(gone) == present' = [t \in Tasks |-> present[t] \ gone]

CreateMailbox ==
  /\ phase = "absent"
  /\ phase' = "live"
  /\ UNCHANGED <<mailbox, now, present, dbAndTasks>>

\* A delivery, an upload or a copy.  The queries name no sort order, so the
\* server is free to list the message anywhere.
Deliver(j, p) ==
  /\ phase = "live"
  /\ j \notin RangeOf(mailbox)
  /\ mailbox' = SubSeq(mailbox, 1, p) \o <<j>> \o SubSeq(mailbox, p + 1, Len(mailbox))
  /\ UNCHANGED <<phase, now, present, dbAndTasks>>

\* Any client, or the JMAP call of a MOVE, takes a message away.
RemoveMsg(p) ==
  /\ phase = "live"
  /\ mailbox' = SubSeq(mailbox, 1, p - 1) \o SubSeq(mailbox, p + 1, Len(mailbox))
  /\ StillPresent({mailbox[p]})
  /\ UNCHANGED <<phase, now, dbAndTasks>>

\* Any client, or the JMAP call of a DELETE; ids of mailboxes are not reused.
DestroyMailbox ==
  /\ phase = "live"
  /\ phase' = "destroyed"
  /\ mailbox' = <<>>
  /\ StillPresent(RangeOf(mailbox))
  /\ UNCHANGED <<now, dbAndTasks>>

Tick ==
  /\ now < MaxTime
  /\ now' = now + 1
  /\ UNCHANGED <<phase, mailbox, present, dbAndTasks>>

Environment ==
  \/ CreateMailbox
  \/ \E j \in Ids, p \in 0..Len(mailbox) : Deliver(j, p)
  \/ \E p \in 1..Len(mailbox) : RemoveMsg(p)
  \/ DestroyMailbox
  \/ Tick

-----------------------------------------------------------------------------
(* A task starts, fails or returns. *)

\* Lists of ids without repetitions.
Lists == {s \in UNION {[1..n -> Ids] : n \in 1..MaxList} :
            \A i, k \in DOMAIN s : s[i] = s[k] => i = k}

FirstLabel ==
  [sync |-> "query", add |-> "lookup", vanished |-> "lookup_deleted",
   move |-> "find", drop |-> "scan_all", purge |-> "scan_all",
   expire |-> "scan_expired"]

\* Mutant: every mailbox of the account counts as gone.
NotListed_Always == TRUE

\* The mailbox is not in the list that the login has fetched.
NotListed == phase # "live"

\* What the caller has seen of the JMAP server when it makes the call.  The
\* messages of an add were put in the mailbox, those of a move were taken from
\* it; a login that fetched a mailbox list without this mailbox purges it.
Called(o, s) ==
  CASE o = "sync"     -> phase = "live" /\ s = <<>>
    [] o = "add"      -> s \in Lists /\ RangeOf(s) \subseteq RangeOf(mailbox)
    [] o = "vanished" -> s \in Lists
    [] o = "move"     -> s \in Lists /\ RangeOf(s) \cap RangeOf(mailbox) = {}
    [] o = "drop"     -> phase = "destroyed" /\ s = <<>>
    [] o = "purge"    -> NotListed /\ s = <<>>
    [] o = "expire"   -> s = <<>>

Start(t, o, s) ==
  /\ pc[t] = "idle"
  /\ Called(o, s)
  /\ pc' = [pc EXCEPT ![t] = FirstLabel[o]]
  /\ op' = [op EXCEPT ![t] = o]
  /\ ids' = [ids EXCEPT ![t] = s]
  /\ at' = [at EXCEPT ![t] = IF s = <<>> THEN 0 ELSE 1]
  /\ present' = [present EXCEPT ![t] = RangeOf(mailbox)]
  /\ UNCHANGED <<pages, found, batch, uid, reply, dbVars, envVars, owner, wiped>>

Forget(t) ==
  /\ pc' = [pc EXCEPT ![t] = "idle"]
  /\ op' = [op EXCEPT ![t] = "sync"]
  /\ ids' = [ids EXCEPT ![t] = <<>>]
  /\ at' = [at EXCEPT ![t] = 0]
  /\ pages' = [pages EXCEPT ![t] = 0]
  /\ found' = [found EXCEPT ![t] = {}]
  /\ batch' = [batch EXCEPT ![t] = EmptyBatch]
  /\ uid' = [uid EXCEPT ![t] = 0]
  /\ reply' = [reply EXCEPT ![t] = NoReply]
  /\ present' = [present EXCEPT ![t] = {}]

\* Steps that only read the database.
ReadOnly == UNCHANGED <<dbVars, owner, wiped>>

Return(t) == pc[t] = "done" /\ Forget(t) /\ ReadOnly /\ UNCHANGED envVars

\* Mutant: a closure that fails gives back the UID it took.
Fail_GivesBack(t) ==
  /\ pc[t] \notin {"idle", "done"}
  /\ uidNext' = IF uid[t] = uidNext /\ uid[t] # 0 THEN uidNext - 1 ELSE uidNext
  /\ Forget(t)
  /\ UNCHANGED <<jmapToUid, uidToJmap, deletedIds, uidValidity, owner, wiped, envVars>>

\* Every database access and every JMAP call is followed by "?": an error ends
\* the closure there and nothing undoes what it has written.
Fail(t) ==
  pc[t] \notin {"idle", "done"} /\ Forget(t) /\ ReadOnly /\ UNCHANGED envVars

Goto(t, l) == pc' = [pc EXCEPT ![t] = l]

\* What no step of a running task changes.
Frame == UNCHANGED <<op, envVars, present>>

-----------------------------------------------------------------------------
(* The steps of the closures. *)

Remaining(t) == RangeOf(ids[t]) \ {ids[t][i] : i \in found[t]}

\* Mutant: the loop over the new ids skips one.
Unfound_Skip(t, p) == {i \in DOMAIN ids[t] : i > p + 1 /\ i \notin found[t]}

\* The positions after p that the scan did not meet.
Unfound(t, p) == {i \in DOMAIN ids[t] : i > p /\ i \notin found[t]}
GoToFirst(t, S) ==
  \E i \in S : (\A k \in S : i <= k) /\ at' = [at EXCEPT ![t] = i]

\* jmap_ids.push and imap_uids.push
Push(r, j, u) == [r EXCEPT !.ids = Append(@, j), !.uids = Append(@, u)]
PushUid(r, u) == [r EXCEPT !.uids = Append(@, u)]
Answer(t, j, u) == reply' = [reply EXCEPT ![t] = Push(@, j, u)]

\* Mutant: the UID_TO_JMAP key stays.
MarkDeleted_KeepUid(b, j, u) ==
  [b EXCEPT !.insert = [@ EXCEPT ![j] = [uid |-> u, at |-> now]], !.jmap = @ \cup {j}]

\* Record the UID of j as deleted and remove the two keys.
MarkDeleted(b, j, u) ==
  [b EXCEPT !.insert = [@ EXCEPT ![j] = [uid |-> u, at |-> now]],
            !.jmap   = @ \cup {j},
            !.uids   = @ \cup {u}]

\* Mutant: the position of the query is one too far.
Page_Late(t) ==
  LET rest == Len(mailbox) - at[t] IN
  SubSeq(mailbox, at[t] + 2, at[t] + IF rest < PageSize THEN rest ELSE PageSize)

\* The ids one Email/query returns, from position at[t].
Page(t) ==
  LET rest == Len(mailbox) - at[t] IN
  SubSeq(mailbox, at[t] + 1, at[t] + IF rest < PageSize THEN rest ELSE PageSize)

\* One turn of the query loop of synchronize_messages.
Query(t) ==
  LET page  == Page(t)
      all   == ids[t] \o page
      more  == /\ page # <<>>
               /\ Len(all) < Len(mailbox)
               /\ pages[t] + 1 < MaxPages
  IN /\ pc[t] = "query"
     /\ phase = "live"
     /\ ids' = [ids EXCEPT ![t] = all]
     /\ pages' = [pages EXCEPT ![t] = IF more THEN @ + 1 ELSE 0]
     /\ at' = [at EXCEPT ![t] = IF more THEN @ + Len(page) ELSE 0]
     /\ Goto(t, IF more THEN "query" ELSE "validity")
     /\ UNCHANGED <<found, batch, uid, reply>> /\ Frame /\ ReadOnly

\* uid_validity: the get ...
Validity(t) ==
  /\ pc[t] = "validity"
  /\ Goto(t, IF uidValidity = 0 THEN "put_validity"
             ELSE IF op[t] = "sync" THEN "scan" ELSE "uid_next")
  /\ reply' = [reply EXCEPT ![t] = [@ EXCEPT !.validity = uidValidity]]
  /\ UNCHANGED <<ids, at, pages, found, batch, uid>> /\ Frame /\ ReadOnly

\* ... and the insert of a value made from the clock, never zero.
PutValidity(t) ==
  /\ pc[t] = "put_validity"
  /\ uidValidity' = now + 1
  /\ reply' = [reply EXCEPT ![t] = [@ EXCEPT !.validity = now + 1]]
  /\ Goto(t, IF op[t] = "sync" THEN "scan" ELSE "uid_next")
  /\ UNCHANGED <<jmapToUid, uidToJmap, deletedIds, uidNext, owner, wiped>>
  /\ UNCHANGED <<ids, at, pages, found, batch, uid>> /\ Frame

\* Mutant: keys that do not sort like their numbers.
NextKey_Unsorted(t, u) == u # at[t]

\* Big-endian keys: the iterator goes from at[t] to the next greater UID.
NextKey(t, u) ==
  /\ u > at[t]
  /\ \A k \in Uids : at[t] < k /\ k < u => uidToJmap[k] = NoId

\* update_uids: the iterator meets the UID_TO_JMAP key of UID u, at[t] being the
\* last one it met.  jmap_ids_map keeps the last position of an id.
Scan(t, u) ==
  LET j    == uidToJmap[u]
      hits == {i \in DOMAIN ids[t] : ids[t][i] = j}
  IN /\ pc[t] = "scan"
     /\ NextKey(t, u)
     /\ j # NoId
     /\ at' = [at EXCEPT ![t] = u]
     /\ \/ /\ j \in Remaining(t)
           /\ Answer(t, j, u)
           /\ found' = [found EXCEPT ![t] =
                @ \cup {i \in hits : \A k \in hits : k <= i}]
           /\ UNCHANGED batch
        \/ /\ j \notin Remaining(t)
           /\ batch' = [batch EXCEPT ![t] = MarkDeleted(@, j, u)]
           /\ UNCHANGED <<found, reply>>
     /\ UNCHANGED <<pc, ids, pages, uid>> /\ Frame /\ ReadOnly

ScanEnd(t) ==
  /\ pc[t] = "scan"
  /\ \A k \in Uids : at[t] < k => uidToJmap[k] = NoId
  /\ at' = [at EXCEPT ![t] = 0]
  /\ Goto(t, "apply")
  /\ UNCHANGED <<ids, pages, found, batch, uid, reply>> /\ Frame /\ ReadOnly

\* apply_batch.  An empty batch is not applied, which changes nothing either.
Apply(t) ==
  LET b    == batch[t]
      todo == Unfound(t, 0)
  IN /\ pc[t] = "apply"
     /\ jmapToUid' = [j \in Ids |-> IF j \in b.jmap THEN 0 ELSE jmapToUid[j]]
     /\ uidToJmap' = [u \in Uids |-> IF u \in b.uids THEN NoId ELSE uidToJmap[u]]
     /\ deletedIds' = [j \in Ids |->
          IF b.insert[j].uid # 0 THEN b.insert[j]
          ELSE IF j \in b.deleted THEN NoRecord ELSE deletedIds[j]]
     /\ uidNext' = IF "uid_next" \in b.counters THEN 0 ELSE uidNext
     /\ uidValidity' = IF "uid_validity" \in b.counters THEN 0 ELSE uidValidity
     /\ wiped' = (wiped \/ (/\ op[t] \in {"drop", "purge"}
                            /\ b.counters # {} \/ b.jmap # {} \/ b.uids # {}))
     /\ IF op[t] = "sync" /\ Remaining(t) # {}
        THEN Goto(t, "alloc") /\ GoToFirst(t, todo)
        ELSE /\ Goto(t, IF op[t] = "sync" THEN "uid_next" ELSE "done")
             /\ UNCHANGED at
     /\ batch' = [batch EXCEPT ![t] = EmptyBatch]
     /\ UNCHANGED <<ids, pages, found, uid, reply, owner>> /\ Frame

\* Mutant: the greatest UID in use is taken for the counter.
Alloc_FromKeys(t) ==
  \E u \in Uids :
    /\ pc[t] = "alloc"
    /\ \A k \in Uids : uidToJmap[k] # NoId => k < u
    /\ \A n \in 1..(u - 1) : \E k \in n..(u - 1) : uidToJmap[k] # NoId
    /\ uidNext' = u
    /\ uid' = [uid EXCEPT ![t] = u]
    /\ owner' = [owner EXCEPT ![u] = ids[t][at[t]]]
    /\ Goto(t, "put_jmap")
    /\ UNCHANGED <<jmapToUid, uidToJmap, deletedIds, uidValidity, wiped>>
    /\ UNCHANGED <<ids, at, pages, found, batch, reply>> /\ Frame

\* insert_jmap_id for ids[t][at[t]]: update_and_fetch with increment_uid, then
\* the two inserts.
Alloc(t) ==
  /\ pc[t] = "alloc"
  /\ uidNext < MaxUid
  /\ uidNext' = uidNext + 1
  /\ uid' = [uid EXCEPT ![t] = uidNext + 1]
  /\ owner' = [owner EXCEPT ![uidNext + 1] = ids[t][at[t]]]
  /\ Goto(t, "put_jmap")
  /\ UNCHANGED <<jmapToUid, uidToJmap, deletedIds, uidValidity, wiped>>
  /\ UNCHANGED <<ids, at, pages, found, batch, reply>> /\ Frame

PutJmap(t) ==
  /\ pc[t] = "put_jmap"
  /\ jmapToUid' = [jmapToUid EXCEPT ![ids[t][at[t]]] = uid[t]]
  /\ Goto(t, "put_uid")
  /\ UNCHANGED <<uidToJmap, deletedIds, uidNext, uidValidity, owner, wiped>>
  /\ UNCHANGED <<ids, at, pages, found, batch, uid, reply>> /\ Frame

\* insert_jmap_id calls both inserts before it looks at the results: when the
\* first one fails the second is made all the same, and the closure ends.
PutJmapFails(t) ==
  /\ InsertMayFail
  /\ pc[t] = "put_jmap"
  /\ uidToJmap' = [uidToJmap EXCEPT ![uid[t]] = ids[t][at[t]]]
  /\ Forget(t)
  /\ UNCHANGED <<jmapToUid, deletedIds, uidNext, uidValidity, owner, wiped, envVars>>

\* jmap_to_imap and delete_ids go on to the next id of the list, or to l.
NextId(t, loop, l) ==
  IF at[t] < Len(ids[t])
  THEN Goto(t, loop) /\ at' = [at EXCEPT ![t] = @ + 1]
  ELSE Goto(t, l) /\ at' = [at EXCEPT ![t] = 0]

PutUid(t) ==
  LET todo == Unfound(t, at[t]) IN
  /\ pc[t] = "put_uid"
  /\ uidToJmap' = [uidToJmap EXCEPT ![uid[t]] = ids[t][at[t]]]
  /\ Answer(t, ids[t][at[t]], uid[t])
  /\ uid' = [uid EXCEPT ![t] = 0]
  /\ \/ /\ op[t] = "sync" /\ todo # {}
        /\ Goto(t, "alloc") /\ GoToFirst(t, todo)
     \/ /\ op[t] = "sync" /\ todo = {}
        /\ Goto(t, "uid_next") /\ at' = [at EXCEPT ![t] = 0]
     \/ op[t] = "add" /\ NextId(t, "lookup", "validity")
  /\ UNCHANGED <<jmapToUid, deletedIds, uidNext, uidValidity, owner, wiped>>
  /\ UNCHANGED <<ids, pages, found, batch>> /\ Frame

\* uid_next, the last step of update_uids and of uids.
ReadUidNext(t) ==
  /\ pc[t] = "uid_next"
  /\ reply' = [reply EXCEPT ![t] = [@ EXCEPT !.next = uidNext + 1]]
  /\ Goto(t, "done")
  /\ UNCHANGED <<ids, at, pages, found, batch, uid>> /\ Frame /\ ReadOnly

\* Mutant: an id without a UID is answered with UID 0.
Lookup_OrZero(t) ==
  /\ pc[t] = "lookup"
  /\ Answer(t, ids[t][at[t]], jmapToUid[ids[t][at[t]]])
  /\ NextId(t, "lookup", "validity")
  /\ UNCHANGED <<ids, pages, found, batch, uid>> /\ Frame /\ ReadOnly

\* jmap_to_imap, AddIfMissing.
Lookup(t) ==
  LET j == ids[t][at[t]] IN
  /\ pc[t] = "lookup"
  /\ \/ /\ jmapToUid[j] # 0
        /\ Answer(t, j, jmapToUid[j])
        /\ NextId(t, "lookup", "validity")
     \/ /\ jmapToUid[j] = 0
        /\ Goto(t, "alloc")
        /\ UNCHANGED <<at, reply>>
  /\ UNCHANGED <<ids, pages, found, batch, uid>> /\ Frame /\ ReadOnly

\* jmap_to_imap, OnlyIncludeDeleted: UIDs without their ids.
LookupDeleted(t) ==
  LET r == deletedIds[ids[t][at[t]]] IN
  /\ pc[t] = "lookup_deleted"
  /\ \/ /\ r.uid # 0
        /\ reply' = [reply EXCEPT ![t] = PushUid(@, r.uid)]
     \/ r.uid = 0 /\ UNCHANGED reply
  /\ NextId(t, "lookup_deleted", "done")
  /\ UNCHANGED <<ids, pages, found, batch, uid>> /\ Frame /\ ReadOnly

\* delete_ids: the get of one id of the list.
Find(t) ==
  LET j == ids[t][at[t]]
      u == jmapToUid[j]
  IN /\ pc[t] = "find"
     /\ \/ /\ u # 0
           /\ batch' = [batch EXCEPT ![t] = MarkDeleted(@, j, u)]
        \/ u = 0 /\ UNCHANGED batch
     /\ NextId(t, "find", "apply")
     /\ UNCHANGED <<ids, pages, found, uid, reply>> /\ Frame /\ ReadOnly

\* delete_mailbox and purge_deleted_mailboxes: the iterator passes the
\* JMAP_TO_UID keys, the UID_TO_JMAP keys and the two counters, in this order,
\* and stops before JMAP_DELETED_IDS.
ScanAll(t) ==
  /\ pc[t] = "scan_all"
  /\ \/ /\ at[t] = 0
        /\ batch' = [batch EXCEPT ![t] =
             [@ EXCEPT !.jmap = {j \in Ids : jmapToUid[j] # 0}]]
        /\ at' = [at EXCEPT ![t] = 1] /\ UNCHANGED pc
     \/ /\ at[t] = 1
        /\ batch' = [batch EXCEPT ![t] =
             [@ EXCEPT !.uids = {u \in Uids : uidToJmap[u] # NoId}]]
        /\ at' = [at EXCEPT ![t] = 2] /\ UNCHANGED pc
     \/ /\ at[t] = 2
        /\ batch' = [batch EXCEPT ![t] = [@ EXCEPT !.counters =
             {c \in {"uid_next", "uid_validity"} :
                \/ c = "uid_next" /\ uidNext # 0
                \/ c = "uid_validity" /\ uidValidity # 0}]]
        /\ at' = [at EXCEPT ![t] = 0] /\ Goto(t, "apply")
  /\ UNCHANGED <<ids, pages, found, uid, reply>> /\ Frame /\ ReadOnly

Expired(j) ==
  /\ deletedIds[j].uid # 0
  /\ deletedIds[j].at < now
  /\ now - deletedIds[j].at >= Ttl

\* purge_deleted_ids.
ScanExpired(t) ==
  /\ pc[t] = "scan_expired"
  /\ batch' = [batch EXCEPT ![t] = [@ EXCEPT !.deleted = {j \in Ids : Expired(j)}]]
  /\ Goto(t, "apply")
  /\ UNCHANGED <<ids, at, pages, found, uid, reply>> /\ Frame /\ ReadOnly

Step(t) ==
  \/ Query(t) \/ Validity(t) \/ PutValidity(t)
  \/ (\E u \in Uids : Scan(t, u)) \/ ScanEnd(t)
  \/ Apply(t) \/ Alloc(t) \/ PutJmap(t) \/ PutJmapFails(t) \/ PutUid(t) \/ ReadUidNext(t)
  \/ Lookup(t) \/ LookupDeleted(t) \/ Find(t)
  \/ ScanAll(t) \/ ScanExpired(t)

Next ==
  \/ Environment
  \/ \E t \in Tasks :
       \/ \E o \in Ops, s \in Lists \cup {<<>>} : Start(t, o, s)
       \/ Step(t) \/ Return(t) \/ Fail(t)

Spec == Init /\ [][Next]_vars

-----------------------------------------------------------------------------
(* Properties. *)

\* A UID names one message for ever: the two maps, the records of deleted
\* messages and every answer under way agree with the id insert_jmap_id
\* generated the UID for, whatever the tasks interleave (until the whole
\* mailbox is dropped, when the counter restarts under a new UIDVALIDITY).
UidDesignatesOneMessage ==
  ~wiped =>
    /\ \A j \in Ids : jmapToUid[j] # 0 => owner[jmapToUid[j]] = j
    /\ \A u \in Uids : uidToJmap[u] # NoId => owner[u] = uidToJmap[u]
    /\ \A j \in Ids : deletedIds[j].uid # 0 => owner[deletedIds[j].uid] = j
    /\ \A t \in Tasks : \A i \in DOMAIN reply[t].ids :
         owner[reply[t].uids[i]] = reply[t].ids[i]

\* increment_uid never hands out a UID a second time.
UidNeverReused ==
  [][\A u \in Uids : ~wiped /\ owner[u] # NoId => owner'[u] = owner[u]]_vars

\* update_uids answers in ascending UID order, all of them below the UIDNEXT it
\* reports: the scan is in key order and new UIDs follow.  The sequence numbers
\* of a SELECT are positions in this list.
AscendingUids ==
  ~wiped => \A t \in Tasks : op[t] = "sync" =>
    LET us == reply[t].uids IN
    /\ \A i, k \in DOMAIN us : i < k => us[i] < us[k]
    /\ pc[t] = "done" => \A i \in DOMAIN us : us[i] < reply[t].next

\* The MailboxData of update_uids lists exactly the messages it was given, even
\* when other tasks insert and remove keys under its iterator.
CompleteReply ==
  \A t \in Tasks :
    pc[t] = "done" /\ op[t] = "sync" => RangeOf(reply[t].ids) = RangeOf(ids[t])

\* "Remove from cache messages no longer present in the mailbox": the batch of
\* update_uids takes away no message that was there all along.
CleanupSparesPresentMessages ==
  \A t \in Tasks :
    op[t] = "sync" => \A j \in batch[t].jmap : j \notin present[t]

\* A UID the scan of update_uids can find leads back to itself through
\* JMAP_TO_UID, even after tasks that failed half way: JMAP_TO_UID is written
\* first and both are removed together (insert_jmap_id breaks this only when the
\* first of its inserts fails and the second does not).  And a UID recorded as
\* deleted, hence reported in VANISHED (EARLIER), designates no message any more:
\* apply_batch records and removes in one step.
MapsAgree ==
  ~wiped =>
    /\ \A u \in Uids : uidToJmap[u] # NoId => jmapToUid[uidToJmap[u]] = u
    /\ \A j \in Ids : deletedIds[j].uid # 0 => uidToJmap[deletedIds[j].uid] = NoId

\* "Delete from cache mailboxes that no longer exist": only those.
WipedOnlyDestroyed == wiped => phase = "destroyed"

\* The stage of a UID's life that the database and the tasks show: a task holds
\* it from update_and_fetch to the last insert.
Life ==
  [u \in Uids |->
     IF u > uidNext THEN "free"
     ELSE IF uidToJmap[u] # NoId THEN "shown"
     ELSE IF \E t \in Tasks : uid[t] = u THEN "given" ELSE "gone"]

Lifecycle == INSTANCE UidLifecycle
  WITH Messages <- Ids, NoMessage <- NoId, Numbers <- Uids,
       life <- Life, names <- uidToJmap, dropped <- wiped

\* The cache implements the life cycle of UIDs: whatever interleaves or fails,
\* insert_jmap_id takes the UIDs in order, its second insert makes the one it
\* holds name a message, and a batch of update_uids, delete_ids or a failure
\* ends a UID for ever.
KeepsLifecycle == Lifecycle!LifecycleSpec

=============================================================================
