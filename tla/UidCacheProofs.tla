-------------------------- MODULE UidCacheProofs --------------------------
(***************************************************************************)
(* A UID designates one message for ever, and is never generated twice:     *)
(* proved of UidCache for any number of tasks, messages and UIDs, any page   *)
(* size, and failures anywhere.                                             *)
(*                                                                         *)
(* A claim is a pair (UID, message) found anywhere: in the database, in a    *)
(* batch that waits to be applied, in a UID generated and not yet written,   *)
(* or in an answer.  The inductive invariant says that every claim is the    *)
(* one the UID was generated for, and that no UID above the counter was      *)
(* generated.  Steps other than Alloc only copy or drop claims; Alloc makes  *)
(* one on a UID nobody claims.                                              *)
(***************************************************************************)
EXTENDS UidCache, SequenceTheorems, TLAPS

-----------------------------------------------------------------------------
(* Types. *)

\* Where a task is in its list of ids, and the UID it has in hand.
Indexed ==
  \A t \in Tasks :
    /\ pc[t] \in {"lookup", "lookup_deleted", "find", "alloc", "put_jmap", "put_uid"}
         => at[t] \in DOMAIN ids[t]
    /\ pc[t] \in {"put_jmap", "put_uid"} => uid[t] \in Uids

Typed == TypeOK /\ Indexed

\* The initial values of a batch, an answer and a record have their types.
LEMMA EmptyTyped == EmptyBatch \in Batches /\ NoReply \in Replies /\ NoRecord \in Removed
BY BoundsAssumption DEF EmptyBatch, Batches, NoReply, Replies, NoRecord, Removed

\* What push makes of an answer is an answer.
LEMMA ReplyTyped ==
  ASSUME NEW r \in Replies
  PROVE  /\ \A j \in Ids, u \in Uids : Push(r, j, u) \in Replies
         /\ \A u \in Uids : PushUid(r, u) \in Replies
         /\ \A v \in 0..(MaxTime + 1) : [r EXCEPT !.validity = v] \in Replies
         /\ \A n \in 0..(MaxUid + 1) : [r EXCEPT !.next = n] \in Replies
<1>1. r.ids \in Seq(Ids) /\ r.uids \in Seq(Uids)
  BY DEF Replies
<1>2. \A j \in Ids : Append(r.ids, j) \in Seq(Ids)
  BY <1>1
<1>3. \A u \in Uids : Append(r.uids, u) \in Seq(Uids)
  BY <1>1
<1> QED
  BY <1>2, <1>3 DEF Replies, Push, PushUid

\* A batch with a field replaced is a batch.
LEMMA BatchTyped ==
  ASSUME NEW b \in Batches
  PROVE  /\ \A J \in SUBSET Ids : /\ [b EXCEPT !.jmap = J] \in Batches
                                   /\ [b EXCEPT !.deleted = J] \in Batches
         /\ \A U \in SUBSET Uids : [b EXCEPT !.uids = U] \in Batches
         /\ \A c \in SUBSET {"uid_next", "uid_validity"} : [b EXCEPT !.counters = c] \in Batches
BY DEF Batches

\* MarkDeleted makes a batch of a batch.
LEMMA MarkTyped ==
  ASSUME NEW b \in Batches, NEW j \in Ids, NEW u \in Uids, now \in 0..MaxTime
  PROVE  MarkDeleted(b, j, u) \in Batches
<1> DEFINE r == [uid |-> u, at |-> now]
<1>1. r \in Removed
  BY BoundsAssumption DEF Removed, Uids
<1>2. [b.insert EXCEPT ![j] = r] \in [Ids -> Removed]
  BY <1>1 DEF Batches
<1> QED
  BY <1>2 DEF Batches, MarkDeleted

\* The types at the start.
LEMMA InitTyped == Init => Typed
<1> SUFFICES ASSUME Init PROVE Typed
  OBVIOUS
<1> USE BoundsAssumption, OpsAssumption, EmptyTyped DEF Init
<1>1. DbTyped
  BY DEF DbTyped, Uids
<1>4. EnvTyped
  BY DEF EnvTyped
<1>5. HistoryTyped
  BY DEF HistoryTyped
<1>2. TasksTyped
  BY DEF TasksTyped, Labels, AllOps
<1>3. Indexed
  BY DEF Indexed
<1> QED
  BY <1>1, <1>2, <1>3, <1>4, <1>5 DEF Typed, TypeOK

\* Going on to the next id stays within the list.
LEMMA NextIdTyped ==
  ASSUME TasksTyped, NEW t \in Tasks, NEW loop \in Labels, NEW l \in Labels,
         NextId(t, loop, l), at[t] \in DOMAIN ids[t]
  PROVE  /\ pc' \in [Tasks -> Labels] /\ at' \in [Tasks -> Nat]
         /\ pc'[t] = l \/ (pc'[t] = loop /\ at'[t] \in DOMAIN ids[t])
         /\ \A k \in Tasks \ {t} : pc'[k] = pc[k] /\ at'[k] = at[k]
<1>1. at[t] \in Nat /\ Len(ids[t]) \in Nat /\ DOMAIN ids[t] = 1..Len(ids[t])
  BY DEF TasksTyped
<1>2. CASE at[t] < Len(ids[t])
  <2>1. pc' = [pc EXCEPT ![t] = loop] /\ at' = [at EXCEPT ![t] = at[t] + 1]
    BY <1>2 DEF NextId, Goto
  <2>2. at[t] + 1 \in Nat /\ at[t] + 1 \in DOMAIN ids[t]
    BY <1>1, <1>2
  <2>3. pc' \in [Tasks -> Labels] /\ at' \in [Tasks -> Nat]
    BY <2>1, <2>2 DEF TasksTyped
  <2>4. pc'[t] = loop /\ at'[t] = at[t] + 1
    BY <2>1 DEF TasksTyped
  <2>5. \A k \in Tasks \ {t} : pc'[k] = pc[k] /\ at'[k] = at[k]
    BY <2>1 DEF TasksTyped
  <2> QED
    BY <2>2, <2>3, <2>4, <2>5
<1>3. CASE ~(at[t] < Len(ids[t]))
  <2>1. pc' = [pc EXCEPT ![t] = l] /\ at' = [at EXCEPT ![t] = 0]
    BY <1>3 DEF NextId, Goto
  <2>2. pc' \in [Tasks -> Labels] /\ at' \in [Tasks -> Nat]
    BY <2>1 DEF TasksTyped
  <2>3. pc'[t] = l
    BY <2>1 DEF TasksTyped
  <2>4. \A k \in Tasks \ {t} : pc'[k] = pc[k] /\ at'[k] = at[k]
    BY <2>1 DEF TasksTyped
  <2> QED
    BY <2>2, <2>3, <2>4
<1> QED
  BY <1>2, <1>3

\* Going to the first id that was not found stays within the list.
LEMMA GoToFirstTyped ==
  ASSUME TasksTyped, NEW t \in Tasks, NEW p \in Nat, GoToFirst(t, Unfound(t, p))
  PROVE  /\ at' \in [Tasks -> Nat]
         /\ at'[t] \in DOMAIN ids[t]
         /\ \A k \in Tasks \ {t} : at'[k] = at[k]
<1>1. DOMAIN ids[t] \subseteq Nat
  BY DEF TasksTyped
<1> QED
  BY <1>1 DEF TasksTyped, GoToFirst, Unfound

\* CreateMailbox keeps the types.
LEMMA CreateMailboxTyped ==
  ASSUME Typed, CreateMailbox
  PROVE  Typed'
<1> USE BoundsAssumption, EmptyTyped DEF Typed, CreateMailbox, dbVars, envVars, taskVars, dbAndTasks, Goto, Frame, ReadOnly
<1>1. DbTyped'
  BY DEF TypeOK, DbTyped, TasksTyped, Indexed
<1>2. EnvTyped'
  BY DEF TypeOK, EnvTyped, Phases
<1>3. TasksTyped'
  BY DEF TypeOK, TasksTyped, DbTyped, EnvTyped, Labels
<1>4. HistoryTyped'
  BY DEF TypeOK, HistoryTyped, EnvTyped
<1>5. Indexed'
  BY DEF TypeOK, TasksTyped, DbTyped, Indexed
<1> QED
  BY <1>1, <1>2, <1>3, <1>4, <1>5 DEF TypeOK

\* Deliver keeps the types.
LEMMA DeliverTyped ==
  ASSUME Typed, NEW j \in Ids, NEW p \in 0..Len(mailbox), Deliver(j, p)
  PROVE  Typed'
<1> USE BoundsAssumption, EmptyTyped DEF Typed, Deliver, dbVars, envVars, taskVars, dbAndTasks, Goto, Frame, ReadOnly
<1>1. DbTyped'
  BY DEF TypeOK, DbTyped, TasksTyped, Indexed
<1>2. EnvTyped'
  BY DEF TypeOK, EnvTyped
<1>3. TasksTyped'
  BY DEF TypeOK, TasksTyped, DbTyped, EnvTyped, Labels
<1>4. HistoryTyped'
  BY DEF TypeOK, HistoryTyped, EnvTyped
<1>5. Indexed'
  BY DEF TypeOK, TasksTyped, DbTyped, Indexed
<1> QED
  BY <1>1, <1>2, <1>3, <1>4, <1>5 DEF TypeOK

\* RemoveMsg keeps the types.
LEMMA RemoveMsgTyped ==
  ASSUME Typed, NEW p \in 1..Len(mailbox), RemoveMsg(p)
  PROVE  Typed'
<1> USE BoundsAssumption, EmptyTyped DEF Typed, RemoveMsg, dbVars, envVars, taskVars, dbAndTasks, Goto, Frame, ReadOnly
<1>1. DbTyped'
  BY DEF TypeOK, DbTyped, TasksTyped, Indexed
<1>2. EnvTyped'
  BY DEF TypeOK, EnvTyped
<1>3. TasksTyped'
  BY DEF TypeOK, TasksTyped, DbTyped, EnvTyped, Labels
<1>4. HistoryTyped'
  BY DEF TypeOK, HistoryTyped, EnvTyped, StillPresent
<1>5. Indexed'
  BY DEF TypeOK, TasksTyped, DbTyped, Indexed
<1> QED
  BY <1>1, <1>2, <1>3, <1>4, <1>5 DEF TypeOK

\* DestroyMailbox keeps the types.
LEMMA DestroyMailboxTyped ==
  ASSUME Typed, DestroyMailbox
  PROVE  Typed'
<1> USE BoundsAssumption, EmptyTyped DEF Typed, DestroyMailbox, dbVars, envVars, taskVars, dbAndTasks, Goto, Frame, ReadOnly
<1>1. DbTyped'
  BY DEF TypeOK, DbTyped, TasksTyped, Indexed
<1>2. EnvTyped'
  BY DEF TypeOK, EnvTyped, Phases
<1>3. TasksTyped'
  BY DEF TypeOK, TasksTyped, DbTyped, EnvTyped, Labels
<1>4. HistoryTyped'
  BY DEF TypeOK, HistoryTyped, EnvTyped, StillPresent
<1>5. Indexed'
  BY DEF TypeOK, TasksTyped, DbTyped, Indexed
<1> QED
  BY <1>1, <1>2, <1>3, <1>4, <1>5 DEF TypeOK

\* Tick keeps the types.
LEMMA TickTyped ==
  ASSUME Typed, Tick
  PROVE  Typed'
<1> USE BoundsAssumption, EmptyTyped DEF Typed, Tick, dbVars, envVars, taskVars, dbAndTasks, Goto, Frame, ReadOnly
<1>1. DbTyped'
  BY DEF TypeOK, DbTyped, TasksTyped, Indexed
<1>2. EnvTyped'
  BY DEF TypeOK, EnvTyped
<1>3. TasksTyped'
  BY DEF TypeOK, TasksTyped, DbTyped, EnvTyped, Labels
<1>4. HistoryTyped'
  BY DEF TypeOK, HistoryTyped, EnvTyped
<1>5. Indexed'
  BY DEF TypeOK, TasksTyped, DbTyped, Indexed
<1> QED
  BY <1>1, <1>2, <1>3, <1>4, <1>5 DEF TypeOK

\* Start keeps the types.
LEMMA StartTyped ==
  ASSUME Typed, NEW t \in Tasks, NEW o \in Ops, NEW s \in Lists \cup {<<>>}, Start(t, o, s)
  PROVE  Typed'
<1> USE BoundsAssumption, EmptyTyped DEF Typed, Start, dbVars, envVars, taskVars, dbAndTasks, Goto, Frame, ReadOnly
<1>a. s \in Seq(Ids) /\ (s # <<>> => 1 \in DOMAIN s)
  <2>1. CASE s = <<>>
    BY <2>1
  <2>2. CASE s \in Lists
    <3>1. PICK n \in 1..MaxList : s \in [1..n -> Ids]
      BY <2>2 DEF Lists
    <3> QED
      BY <3>1
  <2> QED
    BY <2>1, <2>2
<1>b. o \in AllOps /\ FirstLabel[o] \in Labels
  BY OpsAssumption DEF AllOps, Labels, FirstLabel
<1>c. FirstLabel[o] \in {"lookup", "lookup_deleted", "find"} => s # <<>>
  <2>1. <<>> \notin Lists
    <3> SUFFICES ASSUME <<>> \in Lists PROVE FALSE
      OBVIOUS
    <3>1. PICK n \in 1..MaxList : <<>> \in [1..n -> Ids]
      BY DEF Lists
    <3>2. DOMAIN <<>> = 1..n /\ DOMAIN <<>> = {} /\ 1 \in 1..n
      BY <3>1
    <3> QED
      BY <3>2
  <2>2. o \in {"add", "vanished", "move"} => s \in Lists
    BY DEF Called
  <2> QED
    BY <1>b, <2>1, <2>2 DEF AllOps, FirstLabel
<1>1. DbTyped'
  BY DEF TypeOK, DbTyped, TasksTyped, Indexed
<1>2. EnvTyped'
  BY DEF TypeOK, EnvTyped
<1>3. TasksTyped'
  BY <1>a, <1>b DEF TypeOK, TasksTyped
<1>4. HistoryTyped'
  BY DEF TypeOK, HistoryTyped, EnvTyped, RangeOf
<1>5. Indexed'
  <2>1. FirstLabel[o] \notin {"alloc", "put_jmap", "put_uid"}
    BY <1>b DEF AllOps, FirstLabel
  <2> QED
    BY <1>a, <1>c, <2>1 DEF TypeOK, TasksTyped, Indexed
<1> QED
  BY <1>1, <1>2, <1>3, <1>4, <1>5 DEF TypeOK

\* A task that ends or fails keeps the types.
LEMMA ForgetTyped ==
  ASSUME Typed, NEW t \in Tasks, Forget(t), DbTyped', UNCHANGED <<envVars, owner, wiped>>
  PROVE  Typed'
<1> USE BoundsAssumption, EmptyTyped DEF Typed, Forget, dbVars, envVars, taskVars, dbAndTasks, Goto, Frame, ReadOnly
<1>1. DbTyped'
  OBVIOUS
<1>2. EnvTyped'
  BY DEF TypeOK, EnvTyped
<1>3. TasksTyped'
  BY DEF TypeOK, TasksTyped, Labels, AllOps
<1>4. HistoryTyped'
  BY DEF TypeOK, HistoryTyped, EnvTyped
<1>5. Indexed'
  BY DEF TypeOK, TasksTyped, DbTyped, Indexed
<1> QED
  BY <1>1, <1>2, <1>3, <1>4, <1>5 DEF TypeOK

\* A page of the query is a list of ids.
LEMMA PageTyped ==
  ASSUME Typed, NEW t \in Tasks
  PROVE  Page(t) \in Seq(Ids)
<1> DEFINE rest == Len(mailbox) - at[t]
           size == IF rest < PageSize THEN rest ELSE PageSize
<1>1. rest \in Int /\ size \in Int /\ size <= rest
  BY BoundsAssumption DEF Typed, TypeOK, EnvTyped, TasksTyped
<1>2. \A i \in (at[t] + 1)..(at[t] + size) : mailbox[i] \in Ids
  BY <1>1 DEF Typed, TypeOK, EnvTyped, TasksTyped
<1>3. Page(t) = SubSeq(mailbox, at[t] + 1, at[t] + size)
  BY DEF Page
<1>4. at[t] + 1 \in Int /\ at[t] + size \in Int
  BY <1>1 DEF Typed, TypeOK, TasksTyped
<1> HIDE DEF size, rest
<1> QED
  BY <1>2, <1>3, <1>4, SubSeqProperties

\* Query keeps the types.
LEMMA QueryTyped ==
  ASSUME Typed, NEW t \in Tasks, Query(t)
  PROVE  Typed'
<1> USE BoundsAssumption, EmptyTyped DEF Typed, Query, dbVars, envVars, taskVars, dbAndTasks, Goto, Frame, ReadOnly
<1>1. DbTyped'
  BY DEF TypeOK, DbTyped, TasksTyped, Indexed
<1>2. EnvTyped'
  BY DEF TypeOK, EnvTyped
<1>3. TasksTyped'
  <2> DEFINE page == Page(t)
  <2>2. page \in Seq(Ids)
    BY PageTyped
  <2>3. ids' = [ids EXCEPT ![t] = ids[t] \o page]
    OBVIOUS
  <2>4. \E b \in BOOLEAN : /\ at' = [at EXCEPT ![t] = IF b THEN @ + Len(page) ELSE 0]
                           /\ pages' = [pages EXCEPT ![t] = IF b THEN @ + 1 ELSE 0]
                           /\ pc' = [pc EXCEPT ![t] = IF b THEN "query" ELSE "validity"]
    OBVIOUS
  <2> HIDE DEF page, Query
  <2>5. ids[t] \o page \in Seq(Ids) /\ Len(page) \in Nat
    BY <2>2 DEF TypeOK, TasksTyped
  <2>6. ids' \in [Tasks -> Seq(Ids)]
    BY <2>3, <2>5 DEF TypeOK, TasksTyped
  <2>7. /\ at' \in [Tasks -> Nat]
        /\ pages' \in [Tasks -> Nat]
        /\ pc' \in [Tasks -> Labels]
    BY <2>4, <2>5 DEF TypeOK, TasksTyped, Labels
  <2> QED
    BY <2>6, <2>7 DEF TypeOK, TasksTyped, Query
<1>4. HistoryTyped'
  BY DEF TypeOK, HistoryTyped, EnvTyped
<1>5. Indexed'
  BY DEF TypeOK, TasksTyped, DbTyped, Indexed
<1> QED
  BY <1>1, <1>2, <1>3, <1>4, <1>5 DEF TypeOK

\* Validity keeps the types.
LEMMA ValidityTyped ==
  ASSUME Typed, NEW t \in Tasks, Validity(t)
  PROVE  Typed'
<1> USE BoundsAssumption, EmptyTyped DEF Typed, Validity, dbVars, envVars, taskVars, dbAndTasks, Goto, Frame, ReadOnly
<1>1. DbTyped'
  BY DEF TypeOK, DbTyped, TasksTyped, Indexed
<1>2. EnvTyped'
  BY DEF TypeOK, EnvTyped
<1>3. TasksTyped'
  <2>1. [reply[t] EXCEPT !.validity = uidValidity] \in Replies
    BY ReplyTyped DEF TypeOK, TasksTyped, DbTyped, EnvTyped
  <2>2. reply' \in [Tasks -> Replies]
    BY <2>1 DEF TypeOK, TasksTyped
  <2> QED
    BY <2>2 DEF TypeOK, TasksTyped, Labels
<1>4. HistoryTyped'
  BY DEF TypeOK, HistoryTyped, EnvTyped
<1>5. Indexed'
  BY DEF TypeOK, TasksTyped, DbTyped, Indexed
<1> QED
  BY <1>1, <1>2, <1>3, <1>4, <1>5 DEF TypeOK

\* PutValidity keeps the types.
LEMMA PutValidityTyped ==
  ASSUME Typed, NEW t \in Tasks, PutValidity(t)
  PROVE  Typed'
<1> USE BoundsAssumption, EmptyTyped DEF Typed, PutValidity, dbVars, envVars, taskVars, dbAndTasks, Goto, Frame, ReadOnly
<1>1. DbTyped'
  BY SMTT(30) DEF TypeOK, DbTyped, TasksTyped, Indexed, EnvTyped
<1>2. EnvTyped'
  BY DEF TypeOK, EnvTyped
<1>3. TasksTyped'
  <2>1. [reply[t] EXCEPT !.validity = now + 1] \in Replies
    <3>1. now + 1 \in 0..(MaxTime + 1)
      BY DEF TypeOK, EnvTyped
    <3> QED
      BY <3>1, ReplyTyped DEF TypeOK, TasksTyped
  <2>2. reply' \in [Tasks -> Replies]
    BY <2>1 DEF TypeOK, TasksTyped
  <2> QED
    BY <2>2 DEF TypeOK, TasksTyped, Labels
<1>4. HistoryTyped'
  BY DEF TypeOK, HistoryTyped, EnvTyped
<1>5. Indexed'
  BY DEF TypeOK, TasksTyped, DbTyped, Indexed
<1> QED
  BY <1>1, <1>2, <1>3, <1>4, <1>5 DEF TypeOK

\* ScanEnd keeps the types.
LEMMA ScanEndTyped ==
  ASSUME Typed, NEW t \in Tasks, ScanEnd(t)
  PROVE  Typed'
<1> USE BoundsAssumption, EmptyTyped DEF Typed, ScanEnd, dbVars, envVars, taskVars, dbAndTasks, Goto, Frame, ReadOnly
<1>1. DbTyped'
  BY DEF TypeOK, DbTyped, TasksTyped, Indexed
<1>2. EnvTyped'
  BY DEF TypeOK, EnvTyped
<1>3. TasksTyped'
  BY DEF TypeOK, TasksTyped, DbTyped, EnvTyped, Labels
<1>4. HistoryTyped'
  BY DEF TypeOK, HistoryTyped, EnvTyped
<1>5. Indexed'
  BY DEF TypeOK, TasksTyped, DbTyped, Indexed
<1> QED
  BY <1>1, <1>2, <1>3, <1>4, <1>5 DEF TypeOK

\* Apply keeps the types.
LEMMA ApplyTyped ==
  ASSUME Typed, NEW t \in Tasks, Apply(t)
  PROVE  Typed'
<1> USE BoundsAssumption, EmptyTyped DEF Typed, Apply, dbVars, envVars, taskVars, dbAndTasks, Goto, Frame, ReadOnly
<1>1. DbTyped'
  <2>1. batch[t].insert \in [Ids -> Removed]
    BY DEF TypeOK, TasksTyped, Batches
  <2> QED
    BY <2>1 DEF TypeOK, DbTyped
<1>2. EnvTyped'
  BY DEF TypeOK, EnvTyped
<1>3. TasksTyped'
  <2>1. at' \in [Tasks -> Nat]
    BY DEF TypeOK, TasksTyped, GoToFirst, Unfound
  <2>2. pc' \in [Tasks -> Labels]
    BY DEF TypeOK, TasksTyped, Labels
  <2> QED
    BY <2>1, <2>2 DEF TypeOK, TasksTyped
<1>4. HistoryTyped'
  BY DEF TypeOK, HistoryTyped, EnvTyped
<1>5. Indexed'
  <2>1. CASE op[t] = "sync" /\ Remaining(t) # {}
    BY <2>1 DEF TypeOK, TasksTyped, Indexed, GoToFirst, Unfound
  <2>2. CASE ~(op[t] = "sync" /\ Remaining(t) # {})
    BY <2>2 DEF TypeOK, TasksTyped, Indexed
  <2> QED
    BY <2>1, <2>2
<1> QED
  BY <1>1, <1>2, <1>3, <1>4, <1>5 DEF TypeOK

\* Alloc keeps the types.
LEMMA AllocTyped ==
  ASSUME Typed, NEW t \in Tasks, Alloc(t)
  PROVE  Typed'
<1> USE BoundsAssumption, EmptyTyped DEF Typed, Alloc, dbVars, envVars, taskVars, dbAndTasks, Goto, Frame, ReadOnly
<1>1. DbTyped'
  BY DEF TypeOK, DbTyped, TasksTyped, Indexed
<1>2. EnvTyped'
  BY DEF TypeOK, EnvTyped
<1>3. TasksTyped'
  BY DEF TypeOK, TasksTyped, DbTyped, EnvTyped, Labels
<1>4. HistoryTyped'
  BY DEF TypeOK, HistoryTyped, EnvTyped, TasksTyped, DbTyped, Indexed, Uids
<1>5. Indexed'
  BY DEF TypeOK, TasksTyped, DbTyped, Indexed, Uids
<1> QED
  BY <1>1, <1>2, <1>3, <1>4, <1>5 DEF TypeOK

\* PutJmap keeps the types.
LEMMA PutJmapTyped ==
  ASSUME Typed, NEW t \in Tasks, PutJmap(t)
  PROVE  Typed'
<1> USE BoundsAssumption, EmptyTyped DEF Typed, PutJmap, dbVars, envVars, taskVars, dbAndTasks, Goto, Frame, ReadOnly
<1>1. DbTyped'
  BY DEF TypeOK, DbTyped, TasksTyped, Indexed
<1>2. EnvTyped'
  BY DEF TypeOK, EnvTyped
<1>3. TasksTyped'
  BY DEF TypeOK, TasksTyped, DbTyped, EnvTyped, Labels
<1>4. HistoryTyped'
  BY DEF TypeOK, HistoryTyped, EnvTyped
<1>5. Indexed'
  BY DEF TypeOK, TasksTyped, DbTyped, Indexed
<1> QED
  BY <1>1, <1>2, <1>3, <1>4, <1>5 DEF TypeOK

\* PutJmapFails keeps the types.
LEMMA PutJmapFailsTyped ==
  ASSUME Typed, NEW t \in Tasks, PutJmapFails(t)
  PROVE  Typed'
<1>1. DbTyped'
  BY DEF PutJmapFails, Typed, TypeOK, DbTyped, TasksTyped, Indexed
<1> QED
  BY <1>1, ForgetTyped DEF PutJmapFails

\* PutUid keeps the types.
LEMMA PutUidTyped ==
  ASSUME Typed, NEW t \in Tasks, PutUid(t)
  PROVE  Typed'
<1> USE BoundsAssumption, EmptyTyped DEF Typed, PutUid, dbVars, envVars, taskVars, dbAndTasks, Goto, Frame, ReadOnly
<1>a. /\ at' \in [Tasks -> Nat] /\ pc' \in [Tasks -> Labels]
      /\ pc'[t] \in {"alloc", "lookup"} => at'[t] \in DOMAIN ids[t]
      /\ pc'[t] \in {"alloc", "lookup", "uid_next", "validity"}
      /\ \A k \in Tasks \ {t} : pc'[k] = pc[k] /\ at'[k] = at[k]
  <2>1. {"alloc", "lookup", "uid_next", "validity"} \subseteq Labels
    BY DEF Labels
  <2>2. at[t] \in Nat /\ at[t] \in DOMAIN ids[t]
    BY DEF TypeOK, TasksTyped, Indexed
  <2>3. CASE op[t] = "sync" /\ Unfound(t, at[t]) # {}
    <3>1. GoToFirst(t, Unfound(t, at[t])) /\ pc' = [pc EXCEPT ![t] = "alloc"]
      BY <2>3
    <3> QED
      BY <2>1, <2>2, <3>1, GoToFirstTyped DEF TypeOK, TasksTyped
  <2>4. CASE op[t] = "sync" /\ Unfound(t, at[t]) = {}
    <3>1. at' = [at EXCEPT ![t] = 0] /\ pc' = [pc EXCEPT ![t] = "uid_next"]
      BY <2>4
    <3> QED
      BY <2>1, <3>1 DEF TypeOK, TasksTyped
  <2>5. CASE op[t] = "add"
    BY <2>1, <2>2, <2>5, NextIdTyped DEF TypeOK
  <2> QED
    BY <2>3, <2>4, <2>5
<1>1. DbTyped'
  BY DEF TypeOK, DbTyped, TasksTyped, Indexed
<1>2. EnvTyped'
  BY DEF TypeOK, EnvTyped
<1>3. TasksTyped'
  <2>1. ids[t][at[t]] \in Ids /\ uid[t] \in Uids
    BY DEF TypeOK, TasksTyped, Indexed
  <2>2. Push(reply[t], ids[t][at[t]], uid[t]) \in Replies
    BY <2>1, ReplyTyped DEF TypeOK, TasksTyped
  <2>3. reply' \in [Tasks -> Replies]
    BY <2>2 DEF TypeOK, TasksTyped, Answer
  <2>4. at' \in [Tasks -> Nat] /\ pc' \in [Tasks -> Labels]
    BY <1>a
  <2>5. uid' \in [Tasks -> 0..MaxUid]
    BY DEF TypeOK, TasksTyped
  <2> QED
    BY <2>3, <2>4, <2>5 DEF TypeOK, TasksTyped
<1>4. HistoryTyped'
  BY DEF TypeOK, HistoryTyped, EnvTyped
<1>5. Indexed'
  BY <1>a DEF TypeOK, TasksTyped, Indexed
<1> QED
  BY <1>1, <1>2, <1>3, <1>4, <1>5 DEF TypeOK

\* ReadUidNext keeps the types.
LEMMA ReadUidNextTyped ==
  ASSUME Typed, NEW t \in Tasks, ReadUidNext(t)
  PROVE  Typed'
<1> USE BoundsAssumption, EmptyTyped DEF Typed, ReadUidNext, dbVars, envVars, taskVars, dbAndTasks, Goto, Frame, ReadOnly
<1>1. DbTyped'
  BY DEF TypeOK, DbTyped, TasksTyped, Indexed
<1>2. EnvTyped'
  BY DEF TypeOK, EnvTyped
<1>3. TasksTyped'
  <2>1. [reply[t] EXCEPT !.next = uidNext + 1] \in Replies
    <3>1. uidNext + 1 \in 0..(MaxUid + 1)
      BY DEF TypeOK, DbTyped
    <3> QED
      BY <3>1, ReplyTyped DEF TypeOK, TasksTyped
  <2>2. reply' \in [Tasks -> Replies]
    BY <2>1 DEF TypeOK, TasksTyped
  <2> QED
    BY <2>2 DEF TypeOK, TasksTyped, Labels
<1>4. HistoryTyped'
  BY DEF TypeOK, HistoryTyped, EnvTyped
<1>5. Indexed'
  BY DEF TypeOK, TasksTyped, DbTyped, Indexed
<1> QED
  BY <1>1, <1>2, <1>3, <1>4, <1>5 DEF TypeOK

\* Lookup keeps the types.
LEMMA LookupTyped ==
  ASSUME Typed, NEW t \in Tasks, Lookup(t)
  PROVE  Typed'
<1> USE BoundsAssumption, EmptyTyped DEF Typed, Lookup, dbVars, envVars, taskVars, dbAndTasks, Goto, Frame, ReadOnly
<1>1. DbTyped'
  BY DEF TypeOK, DbTyped, TasksTyped, Indexed
<1>2. EnvTyped'
  BY DEF TypeOK, EnvTyped
<1>3. TasksTyped'
  <2> DEFINE j == ids[t][at[t]]
  <2>1. j \in Ids
    BY DEF TypeOK, TasksTyped, Indexed
  <2>2. CASE jmapToUid[j] # 0
    <3>1. jmapToUid[j] \in Uids
      BY <2>1, <2>2 DEF TypeOK, DbTyped, Uids
    <3>2. Push(reply[t], j, jmapToUid[j]) \in Replies
      BY <2>1, <3>1, ReplyTyped DEF TypeOK, TasksTyped
    <3>3. reply' \in [Tasks -> Replies]
      BY <2>2, <3>2 DEF TypeOK, TasksTyped, Answer
    <3>4. at' \in [Tasks -> Nat] /\ pc' \in [Tasks -> Labels]
      <4>1. {"lookup", "validity"} \subseteq Labels
        BY DEF Labels
      <4> QED
        BY <2>2, <4>1, NextIdTyped DEF TypeOK, Indexed
    <3> QED
      BY <2>2, <3>3, <3>4 DEF TypeOK, TasksTyped
  <2>3. CASE jmapToUid[j] = 0
    BY <2>3 DEF TypeOK, TasksTyped, Labels
  <2> QED
    BY <2>2, <2>3
<1>4. HistoryTyped'
  BY DEF TypeOK, HistoryTyped, EnvTyped
<1>5. Indexed'
  <2>1. \A k \in Tasks \ {t} : pc'[k] = pc[k] /\ at'[k] = at[k]
    BY DEF TypeOK, TasksTyped, NextId
  <2>2. pc'[t] \in {"lookup", "alloc"} => at'[t] \in DOMAIN ids[t]
    BY DEF TypeOK, TasksTyped, Indexed, NextId
  <2>3. pc'[t] \in {"lookup", "alloc", "validity"} /\ ids' = ids /\ uid' = uid
    BY DEF TypeOK, TasksTyped, NextId
  <2> HIDE DEF Lookup
  <2> QED
    BY <2>1, <2>2, <2>3 DEF Indexed
<1> QED
  BY <1>1, <1>2, <1>3, <1>4, <1>5 DEF TypeOK

\* LookupDeleted keeps the types.
LEMMA LookupDeletedTyped ==
  ASSUME Typed, NEW t \in Tasks, LookupDeleted(t)
  PROVE  Typed'
<1> USE BoundsAssumption, EmptyTyped DEF Typed, LookupDeleted, dbVars, envVars, taskVars, dbAndTasks, Goto, Frame, ReadOnly
<1>a. /\ at' \in [Tasks -> Nat] /\ pc' \in [Tasks -> Labels]
      /\ pc'[t] = "done" \/ (pc'[t] = "lookup_deleted" /\ at'[t] \in DOMAIN ids[t])
      /\ \A k \in Tasks \ {t} : pc'[k] = pc[k] /\ at'[k] = at[k]
  <2>1. {"lookup_deleted", "done"} \subseteq Labels
    BY DEF Labels
  <2>2. at[t] \in DOMAIN ids[t]
    BY DEF TypeOK, TasksTyped, Indexed
  <2> QED
    BY <2>1, <2>2, NextIdTyped DEF TypeOK
<1>1. DbTyped'
  BY DEF TypeOK, DbTyped, TasksTyped, Indexed
<1>2. EnvTyped'
  BY DEF TypeOK, EnvTyped
<1>3. TasksTyped'
  <2> DEFINE r == deletedIds[ids[t][at[t]]]
  <2>1. r \in Removed
    BY DEF TypeOK, DbTyped, TasksTyped, Indexed
  <2>2. reply' \in [Tasks -> Replies]
    <3>1. CASE r.uid # 0
      <4>1. r.uid \in Uids
        BY <2>1, <3>1 DEF Removed, Uids
      <4>2. PushUid(reply[t], r.uid) \in Replies
        BY <4>1, ReplyTyped DEF TypeOK, TasksTyped
      <4> QED
        BY <3>1, <4>2 DEF TypeOK, TasksTyped
    <3>2. CASE r.uid = 0
      BY <3>2 DEF TypeOK, TasksTyped
    <3> QED
      BY <3>1, <3>2
  <2> QED
    BY <1>a, <2>2 DEF TypeOK, TasksTyped
<1>4. HistoryTyped'
  BY DEF TypeOK, HistoryTyped, EnvTyped
<1>5. Indexed'
  BY <1>a DEF TypeOK, TasksTyped, Indexed
<1> QED
  BY <1>1, <1>2, <1>3, <1>4, <1>5 DEF TypeOK

\* Find keeps the types.
LEMMA FindTyped ==
  ASSUME Typed, NEW t \in Tasks, Find(t)
  PROVE  Typed'
<1> USE BoundsAssumption, EmptyTyped DEF Typed, Find, dbVars, envVars, taskVars, dbAndTasks, Goto, Frame, ReadOnly
<1>a. /\ at' \in [Tasks -> Nat] /\ pc' \in [Tasks -> Labels]
      /\ pc'[t] = "apply" \/ (pc'[t] = "find" /\ at'[t] \in DOMAIN ids[t])
      /\ \A k \in Tasks \ {t} : pc'[k] = pc[k] /\ at'[k] = at[k]
  <2>1. {"find", "apply"} \subseteq Labels
    BY DEF Labels
  <2>2. at[t] \in DOMAIN ids[t]
    BY DEF TypeOK, TasksTyped, Indexed
  <2> QED
    BY <2>1, <2>2, NextIdTyped DEF TypeOK
<1>1. DbTyped'
  BY DEF TypeOK, DbTyped, TasksTyped, Indexed
<1>2. EnvTyped'
  BY DEF TypeOK, EnvTyped
<1>3. TasksTyped'
  <2> DEFINE j == ids[t][at[t]]
  <2>1. j \in Ids /\ jmapToUid[j] \in 0..MaxUid
    BY DEF TypeOK, DbTyped, TasksTyped, Indexed
  <2>2. batch' \in [Tasks -> Batches]
    <3>1. CASE jmapToUid[j] # 0
      <4>1. MarkDeleted(batch[t], j, jmapToUid[j]) \in Batches
        BY <2>1, <3>1, MarkTyped DEF TypeOK, TasksTyped, EnvTyped, Uids
      <4> QED
        BY <3>1, <4>1 DEF TypeOK, TasksTyped
    <3>2. CASE jmapToUid[j] = 0
      BY <3>2 DEF TypeOK, TasksTyped
    <3> QED
      BY <3>1, <3>2
  <2> QED
    BY <1>a, <2>2 DEF TypeOK, TasksTyped
<1>4. HistoryTyped'
  BY DEF TypeOK, HistoryTyped, EnvTyped
<1>5. Indexed'
  BY <1>a DEF TypeOK, TasksTyped, Indexed
<1> QED
  BY <1>1, <1>2, <1>3, <1>4, <1>5 DEF TypeOK

\* ScanAll keeps the types.
LEMMA ScanAllTyped ==
  ASSUME Typed, NEW t \in Tasks, ScanAll(t)
  PROVE  Typed'
<1> USE BoundsAssumption, EmptyTyped DEF Typed, ScanAll, dbVars, envVars, taskVars, dbAndTasks, Goto, Frame, ReadOnly
<1>1. DbTyped'
  BY DEF TypeOK, DbTyped, TasksTyped, Indexed
<1>2. EnvTyped'
  BY DEF TypeOK, EnvTyped
<1>3. TasksTyped'
  <2>1. batch[t] \in Batches
    BY DEF TypeOK, TasksTyped
  <2>2. CASE at[t] = 0
    <3> DEFINE S == {j \in Ids : jmapToUid[j] # 0}
    <3>1. batch' = [batch EXCEPT ![t] = [@ EXCEPT !.jmap = S]]
      BY <2>2
    <3>2. at' = [at EXCEPT ![t] = 1] /\ pc' = pc
      BY <2>2
    <3>3. [batch[t] EXCEPT !.jmap = S] \in Batches
      BY <2>1, BatchTyped
    <3> HIDE DEF ScanAll, S
    <3>4. batch' \in [Tasks -> Batches] /\ at' \in [Tasks -> Nat] /\ pc' \in [Tasks -> Labels]
      BY <3>1, <3>2, <3>3 DEF TypeOK, TasksTyped
    <3> QED
      BY <3>4 DEF TypeOK, TasksTyped, ScanAll
  <2>3. CASE at[t] = 1
    <3> DEFINE S == {u \in Uids : uidToJmap[u] # NoId}
    <3>1. batch' = [batch EXCEPT ![t] = [@ EXCEPT !.uids = S]]
      BY <2>3
    <3>2. at' = [at EXCEPT ![t] = 2] /\ pc' = pc
      BY <2>3
    <3>3. [batch[t] EXCEPT !.uids = S] \in Batches
      BY <2>1, BatchTyped
    <3> HIDE DEF ScanAll, S
    <3>4. batch' \in [Tasks -> Batches] /\ at' \in [Tasks -> Nat] /\ pc' \in [Tasks -> Labels]
      BY <3>1, <3>2, <3>3 DEF TypeOK, TasksTyped
    <3> QED
      BY <3>4 DEF TypeOK, TasksTyped, ScanAll
  <2>4. CASE at[t] = 2
    <3> DEFINE C == {c \in {"uid_next", "uid_validity"} :
                       \/ c = "uid_next" /\ uidNext # 0
                       \/ c = "uid_validity" /\ uidValidity # 0}
    <3>1. C \in SUBSET {"uid_next", "uid_validity"}
      OBVIOUS
    <3>2. [batch[t] EXCEPT !.counters = C] \in Batches
      BY <2>1, <3>1, BatchTyped
    <3>3. batch' = [batch EXCEPT ![t] = [@ EXCEPT !.counters = C]]
      BY <2>4
    <3>4. at' = [at EXCEPT ![t] = 0] /\ pc' = [pc EXCEPT ![t] = "apply"]
      BY <2>4
    <3> HIDE DEF ScanAll, C
    <3>5. batch' \in [Tasks -> Batches] /\ at' \in [Tasks -> Nat] /\ pc' \in [Tasks -> Labels]
      BY <3>2, <3>3, <3>4 DEF TypeOK, TasksTyped, Labels
    <3> QED
      BY <3>5 DEF TypeOK, TasksTyped, ScanAll
  <2> QED
    BY <2>2, <2>3, <2>4
<1>4. HistoryTyped'
  BY DEF TypeOK, HistoryTyped, EnvTyped
<1>5. Indexed'
  <2>1. ids' = ids /\ uid' = uid
    OBVIOUS
  <2>2. \A s \in Tasks : s # t => pc'[s] = pc[s] /\ at'[s] = at[s]
    BY SMTT(30) DEF TypeOK, TasksTyped
  <2>3. pc'[t] \in {"scan_all", "apply"}
    BY SMTT(30) DEF TypeOK, TasksTyped
  <2> QED
    BY <2>1, <2>2, <2>3, SMTT(30) DEF Indexed
<1> QED
  BY <1>1, <1>2, <1>3, <1>4, <1>5 DEF TypeOK

\* ScanExpired keeps the types.
LEMMA ScanExpiredTyped ==
  ASSUME Typed, NEW t \in Tasks, ScanExpired(t)
  PROVE  Typed'
<1> USE BoundsAssumption, EmptyTyped DEF Typed, ScanExpired, dbVars, envVars, taskVars, dbAndTasks, Goto, Frame, ReadOnly
<1>1. DbTyped'
  BY DEF TypeOK, DbTyped, TasksTyped, Indexed
<1>2. EnvTyped'
  BY DEF TypeOK, EnvTyped
<1>3. TasksTyped'
  <2>1. batch' \in [Tasks -> Batches]
    BY BatchTyped DEF TypeOK, TasksTyped
  <2> QED
    BY <2>1 DEF TypeOK, TasksTyped, Labels
<1>4. HistoryTyped'
  BY DEF TypeOK, HistoryTyped, EnvTyped
<1>5. Indexed'
  BY DEF TypeOK, TasksTyped, DbTyped, Indexed
<1> QED
  BY <1>1, <1>2, <1>3, <1>4, <1>5 DEF TypeOK

\* Scan keeps the types.
LEMMA ScanTyped ==
  ASSUME Typed, NEW t \in Tasks, NEW u \in Uids, Scan(t, u)
  PROVE  Typed'
<1> USE BoundsAssumption, EmptyTyped DEF Typed, Scan, dbVars, envVars, taskVars, dbAndTasks, Goto, Frame, ReadOnly
<1>1. DbTyped'
  BY DEF TypeOK, DbTyped, TasksTyped, Indexed
<1>2. EnvTyped'
  BY DEF TypeOK, EnvTyped
<1>3. TasksTyped'
  <2> DEFINE j == uidToJmap[u]
  <2>1. j \in Ids /\ u \in Nat
    BY DEF TypeOK, DbTyped, Uids
  <2>2. at' \in [Tasks -> Nat]
    BY <2>1 DEF TypeOK, TasksTyped
  <2>3. CASE j \in Remaining(t)
    <3>1. Push(reply[t], j, u) \in Replies
      BY <2>1, ReplyTyped DEF TypeOK, TasksTyped
    <3>2. reply' \in [Tasks -> Replies]
      BY <2>3, <3>1 DEF TypeOK, TasksTyped, Answer
    <3>3. found' \in [Tasks -> SUBSET Nat]
      <4> DEFINE hits == {i \in DOMAIN ids[t] : ids[t][i] = j}
      <4>1. {i \in hits : \A k \in hits : k <= i} \subseteq Nat
        BY DEF TypeOK, TasksTyped
      <4>2. found' = [found EXCEPT ![t] = @ \cup {i \in hits : \A k \in hits : k <= i}]
        BY <2>3
      <4> QED
        BY <4>1, <4>2 DEF TypeOK, TasksTyped
    <3> QED
      BY <2>2, <2>3, <3>2, <3>3 DEF TypeOK, TasksTyped
  <2>4. CASE j \notin Remaining(t)
    <3>1. MarkDeleted(batch[t], j, u) \in Batches
      BY <2>1, MarkTyped DEF TypeOK, TasksTyped, EnvTyped
    <3>2. batch' \in [Tasks -> Batches]
      BY <2>4, <3>1 DEF TypeOK, TasksTyped
    <3> QED
      BY <2>2, <2>4, <3>2 DEF TypeOK, TasksTyped
  <2> QED
    BY <2>3, <2>4
<1>4. HistoryTyped'
  BY DEF TypeOK, HistoryTyped, EnvTyped
<1>5. Indexed'
  BY DEF TypeOK, TasksTyped, DbTyped, Indexed
<1> QED
  BY <1>1, <1>2, <1>3, <1>4, <1>5 DEF TypeOK

\* Every step keeps the types.
LEMMA StepTyped == Typed /\ [Next]_vars => Typed'
<1> SUFFICES ASSUME Typed, [Next]_vars PROVE Typed'
  OBVIOUS
<1>1. CASE Environment
  BY <1>1, CreateMailboxTyped, DeliverTyped, RemoveMsgTyped, DestroyMailboxTyped, TickTyped
     DEF Environment
<1>2. ASSUME NEW t \in Tasks, NEW o \in Ops, NEW s \in Lists \cup {<<>>}, Start(t, o, s)
      PROVE  Typed'
  BY <1>2, StartTyped
<1>3. ASSUME NEW t \in Tasks, Return(t) \/ Fail(t) PROVE Typed'
  <2>1. DbTyped'
    BY <1>3 DEF Return, Fail, ReadOnly, dbVars, Typed, TypeOK, DbTyped
  <2> QED
    BY <1>3, <2>1, ForgetTyped DEF Return, Fail, ReadOnly
<1>4. ASSUME NEW t \in Tasks, Step(t) PROVE Typed'
  BY <1>4, QueryTyped, ValidityTyped, PutValidityTyped, ScanTyped, ScanEndTyped, ApplyTyped,
     AllocTyped, PutJmapTyped, PutJmapFailsTyped, PutUidTyped, ReadUidNextTyped, LookupTyped, LookupDeletedTyped,
     FindTyped, ScanAllTyped, ScanExpiredTyped
     DEF Step
<1>5. CASE UNCHANGED vars
  BY <1>5 DEF vars, dbVars, envVars, taskVars, Typed, TypeOK, DbTyped, EnvTyped, TasksTyped,
              HistoryTyped, Indexed
<1> QED
  BY <1>1, <1>2, <1>3, <1>4, <1>5 DEF Next

\* Types hold for every number of tasks, messages and UIDs, and every page size.
THEOREM UidCacheTyped == Spec => []TypeOK
<1>1. Typed => TypeOK
  BY DEF Typed
<1> QED
  BY InitTyped, StepTyped, <1>1, PTL DEF Spec

-----------------------------------------------------------------------------
(* Claims. *)

Writing == {"put_jmap", "put_uid"}

DbClaim(u, j) == jmapToUid[j] = u \/ uidToJmap[u] = j \/ deletedIds[j].uid = u

TaskClaim(t, u, j) ==
  \/ batch[t].insert[j].uid = u
  \/ pc[t] \in Writing /\ uid[t] = u /\ ids[t][at[t]] = j
  \/ \E i \in DOMAIN reply[t].ids : reply[t].ids[i] = j /\ reply[t].uids[i] = u

Claim(u, j) == DbClaim(u, j) \/ \E t \in Tasks : TaskClaim(t, u, j)

\* Which operation a label belongs to, and what the task holds there.
Shaped ==
  \A t \in Tasks :
    /\ pc[t] = "lookup_deleted" => op[t] = "vanished"
    /\ pc[t] = "scan_all" => op[t] \in {"drop", "purge"}
    /\ pc[t] \in {"query", "scan"} => op[t] = "sync"
    /\ pc[t] \in {"validity", "put_validity", "alloc", "put_jmap", "put_uid", "uid_next", "lookup"}
         => op[t] \in {"sync", "add"}
    /\ pc[t] = "idle" => reply[t] = NoReply /\ batch[t] = EmptyBatch
    /\ batch[t].counters # {} => op[t] \in {"drop", "purge"}
    /\ IF op[t] = "vanished" THEN reply[t].ids = <<>>
       ELSE Len(reply[t].ids) = Len(reply[t].uids)

ClaimsOwned == ~wiped => \A u \in Uids, j \in Ids : Claim(u, j) => owner[u] = j
CounterBounds == ~wiped => \A u \in Uids : owner[u] # NoId => u <= uidNext

OwnerInv == Typed /\ Shaped /\ ClaimsOwned /\ CounterBounds

\* The inductive invariant at the start.
LEMMA InitOwner == Init => OwnerInv
<1> SUFFICES ASSUME Init PROVE OwnerInv
  OBVIOUS
<1>1. Typed
  BY InitTyped
<1>2. Shaped
  BY DEF Init, Shaped, NoReply, EmptyBatch
<1>3. \A u \in Uids, j \in Ids : ~Claim(u, j)
  <2>1. \A u \in Uids : u # 0
    BY BoundsAssumption DEF Uids
  <2>2. \A u \in Uids, j \in Ids : ~DbClaim(u, j)
    <3>1. \A u \in Uids, j \in Ids :
            jmapToUid[j] = 0 /\ uidToJmap[u] = NoId /\ deletedIds[j].uid = 0
      BY DEF Init, NoRecord
    <3> QED
      BY <2>1, <3>1, NoIdAssumption DEF DbClaim
  <2>3. \A t \in Tasks, u \in Uids, j \in Ids : ~TaskClaim(t, u, j)
    <3>1. \A t \in Tasks, j \in Ids :
            pc[t] = "idle" /\ batch[t].insert[j].uid = 0 /\ DOMAIN reply[t].ids = {}
      <4>1. \A t \in Tasks : pc[t] = "idle" /\ batch[t] = EmptyBatch /\ reply[t] = NoReply
        BY DEF Init
      <4>2. DOMAIN NoReply.ids = {} /\ \A j \in Ids : EmptyBatch.insert[j].uid = 0
        BY DEF EmptyBatch, NoRecord, NoReply
      <4> QED
        BY <4>1, <4>2
    <3> QED
      BY <2>1, <3>1 DEF TaskClaim, Writing
  <2> QED
    BY <2>2, <2>3 DEF Claim
<1>4. \A u \in Uids : owner[u] = NoId
  BY DEF Init
<1> QED
  BY <1>1, <1>2, <1>3, <1>4 DEF OwnerInv, ClaimsOwned, CounterBounds

\* A step of task t leaves the others' locals alone.
OthersSame(t) ==
  \A k \in Tasks \ {t} :
    /\ pc'[k] = pc[k] /\ op'[k] = op[k] /\ ids'[k] = ids[k] /\ at'[k] = at[k]
    /\ batch'[k] = batch[k] /\ uid'[k] = uid[k] /\ reply'[k] = reply[k]

\* A step of one task leaves the claims of the others.
LEMMA OthersUnclaimed ==
  ASSUME NEW t \in Tasks, OthersSame(t), NEW k \in Tasks \ {t}, NEW u, NEW j
  PROVE  TaskClaim(k, u, j)' <=> TaskClaim(k, u, j)
BY DEF OthersSame, TaskClaim

\* An answer grows by the pair that is pushed.
LEMMA PushPairs ==
  ASSUME NEW r \in Replies, NEW j \in Ids, NEW u \in Uids, Len(r.ids) = Len(r.uids)
  PROVE  /\ Len(Push(r, j, u).ids) = Len(Push(r, j, u).uids)
         /\ \A i \in DOMAIN Push(r, j, u).ids :
              \/ Push(r, j, u).ids[i] = j /\ Push(r, j, u).uids[i] = u
              \/ /\ i \in DOMAIN r.ids
                 /\ Push(r, j, u).ids[i] = r.ids[i] /\ Push(r, j, u).uids[i] = r.uids[i]
<1>1. r.ids \in Seq(Ids) /\ r.uids \in Seq(Uids)
  BY DEF Replies
<1>2. Push(r, j, u).ids = Append(r.ids, j) /\ Push(r, j, u).uids = Append(r.uids, u)
  BY DEF Push, Replies
<1> QED
  BY <1>1, <1>2

\* What MarkDeleted inserts.
LEMMA MarkPairs ==
  ASSUME NEW b \in Batches, NEW j \in Ids, NEW u \in Uids, NEW k \in Ids
  PROVE  /\ MarkDeleted(b, j, u).counters = b.counters
         /\ MarkDeleted(b, j, u).insert[k].uid = (IF k = j THEN u ELSE b.insert[k].uid)
BY DEF MarkDeleted, Batches

\* Start makes no new claim.
LEMMA StartCopies ==
  ASSUME OwnerInv, NEW t \in Tasks, NEW o \in Ops, NEW s \in Lists \cup {<<>>}, Start(t, o, s)
  PROVE  Shaped' /\ \A u \in Uids, j \in Ids : Claim(u, j)' => Claim(u, j)
<1> USE DEF Start, dbVars, envVars, taskVars, Goto, Frame, ReadOnly
<1>a. /\ pc' = [pc EXCEPT ![t] = FirstLabel[o]] /\ op' = [op EXCEPT ![t] = o]
      /\ o \in AllOps /\ FirstLabel[o] \notin Writing
      /\ FirstLabel[o] = "lookup_deleted" => o = "vanished"
      /\ FirstLabel[o] = "scan_all" => o \in {"drop", "purge"}
      /\ FirstLabel[o] \in {"query", "scan"} => o = "sync"
      /\ FirstLabel[o] = "lookup" => o = "add"
      /\ FirstLabel[o] \notin {"validity", "put_validity", "alloc", "put_jmap", "put_uid",
                               "uid_next", "idle"}
  BY OpsAssumption DEF AllOps, FirstLabel, Writing
<1>1. OthersSame(t)
  BY DEF OwnerInv, Typed, TypeOK, TasksTyped, OthersSame
<1>2. \A u \in Uids, j \in Ids : DbClaim(u, j)' => Claim(u, j)
  BY DEF Claim, DbClaim
<1>3. \A u \in Uids, j \in Ids : TaskClaim(t, u, j)' => Claim(u, j)
  BY <1>a DEF OwnerInv, Typed, TypeOK, TasksTyped, Claim, TaskClaim, Writing
<1>4. Shaped'
  BY <1>a, <1>1 DEF OwnerInv, Typed, TypeOK, TasksTyped, Shaped, OthersSame, NoReply, EmptyBatch
<1> QED
  BY <1>1, <1>2, <1>3, <1>4, OthersUnclaimed DEF Claim

\* A task that ends or fails drops its claims.
LEMMA ForgetCopies ==
  ASSUME OwnerInv, NEW t \in Tasks, Forget(t),
         \A u \in Uids, j \in Ids : DbClaim(u, j)' => Claim(u, j)
  PROVE  Shaped' /\ \A u \in Uids, j \in Ids : Claim(u, j)' => Claim(u, j)
<1> USE DEF Forget, dbVars, envVars, taskVars, Goto, Frame, ReadOnly
<1>1. OthersSame(t)
  BY DEF OwnerInv, Typed, TypeOK, TasksTyped, OthersSame
<1>2. \A u \in Uids, j \in Ids : DbClaim(u, j)' => Claim(u, j)
  OBVIOUS
<1>3. \A u \in Uids, j \in Ids : TaskClaim(t, u, j)' => Claim(u, j)
  <2>1. batch'[t] = EmptyBatch /\ reply'[t] = NoReply /\ pc'[t] = "idle"
    BY DEF OwnerInv, Typed, TypeOK, TasksTyped
  <2> QED
    BY <2>1, BoundsAssumption DEF TaskClaim, Writing, EmptyBatch, NoReply, NoRecord, Uids
<1>4. Shaped'
  BY <1>1 DEF OwnerInv, Typed, TypeOK, TasksTyped, Shaped, OthersSame, NoReply, EmptyBatch
<1> QED
  BY <1>1, <1>2, <1>3, <1>4, OthersUnclaimed DEF Claim

\* Query makes no new claim.
LEMMA QueryCopies ==
  ASSUME OwnerInv, NEW t \in Tasks, Query(t)
  PROVE  Shaped' /\ \A u \in Uids, j \in Ids : Claim(u, j)' => Claim(u, j)
<1> USE DEF Query, dbVars, envVars, taskVars, Goto, Frame, ReadOnly
<1>1. OthersSame(t)
  BY DEF OwnerInv, Typed, TypeOK, TasksTyped, OthersSame
<1>2. \A u \in Uids, j \in Ids : DbClaim(u, j)' => Claim(u, j)
  BY DEF Claim, DbClaim
<1>3. \A u \in Uids, j \in Ids : TaskClaim(t, u, j)' => Claim(u, j)
  BY DEF OwnerInv, Typed, TypeOK, TasksTyped, Claim, TaskClaim, Writing
<1>4. Shaped'
  BY <1>1 DEF OwnerInv, Typed, TypeOK, TasksTyped, Shaped, OthersSame
<1> QED
  BY <1>1, <1>2, <1>3, <1>4, OthersUnclaimed DEF Claim

\* Validity makes no new claim.
LEMMA ValidityCopies ==
  ASSUME OwnerInv, NEW t \in Tasks, Validity(t)
  PROVE  Shaped' /\ \A u \in Uids, j \in Ids : Claim(u, j)' => Claim(u, j)
<1> USE DEF Validity, dbVars, envVars, taskVars, Goto, Frame, ReadOnly
<1>1. OthersSame(t)
  BY DEF OwnerInv, Typed, TypeOK, TasksTyped, OthersSame
<1>2. \A u \in Uids, j \in Ids : DbClaim(u, j)' => Claim(u, j)
  BY DEF Claim, DbClaim
<1>3. \A u \in Uids, j \in Ids : TaskClaim(t, u, j)' => Claim(u, j)
  <2>1. reply'[t].ids = reply[t].ids /\ reply'[t].uids = reply[t].uids
    BY DEF OwnerInv, Typed, TypeOK, TasksTyped, Replies
  <2> QED
    BY <2>1 DEF OwnerInv, Typed, TypeOK, TasksTyped, Claim, TaskClaim, Writing
<1>4. Shaped'
  <2>1. reply'[t].ids = reply[t].ids /\ reply'[t].uids = reply[t].uids
    BY DEF OwnerInv, Typed, TypeOK, TasksTyped, Replies
  <2> QED
    BY <1>1, <2>1 DEF OwnerInv, Typed, TypeOK, TasksTyped, Shaped, OthersSame
<1> QED
  BY <1>1, <1>2, <1>3, <1>4, OthersUnclaimed DEF Claim

\* PutValidity makes no new claim.
LEMMA PutValidityCopies ==
  ASSUME OwnerInv, NEW t \in Tasks, PutValidity(t)
  PROVE  Shaped' /\ \A u \in Uids, j \in Ids : Claim(u, j)' => Claim(u, j)
<1> USE DEF PutValidity, dbVars, envVars, taskVars, Goto, Frame, ReadOnly
<1>1. OthersSame(t)
  BY DEF OwnerInv, Typed, TypeOK, TasksTyped, OthersSame
<1>2. \A u \in Uids, j \in Ids : DbClaim(u, j)' => Claim(u, j)
  BY DEF Claim, DbClaim
<1>3. \A u \in Uids, j \in Ids : TaskClaim(t, u, j)' => Claim(u, j)
  <2>1. reply'[t].ids = reply[t].ids /\ reply'[t].uids = reply[t].uids
    BY DEF OwnerInv, Typed, TypeOK, TasksTyped, Replies
  <2> QED
    BY <2>1 DEF OwnerInv, Typed, TypeOK, TasksTyped, Claim, TaskClaim, Writing
<1>4. Shaped'
  <2>1. reply'[t].ids = reply[t].ids /\ reply'[t].uids = reply[t].uids
    BY DEF OwnerInv, Typed, TypeOK, TasksTyped, Replies
  <2> QED
    BY <1>1, <2>1 DEF OwnerInv, Typed, TypeOK, TasksTyped, Shaped, OthersSame
<1> QED
  BY <1>1, <1>2, <1>3, <1>4, OthersUnclaimed DEF Claim

\* ReadUidNext makes no new claim.
LEMMA ReadUidNextCopies ==
  ASSUME OwnerInv, NEW t \in Tasks, ReadUidNext(t)
  PROVE  Shaped' /\ \A u \in Uids, j \in Ids : Claim(u, j)' => Claim(u, j)
<1> USE DEF ReadUidNext, dbVars, envVars, taskVars, Goto, Frame, ReadOnly
<1>1. OthersSame(t)
  BY DEF OwnerInv, Typed, TypeOK, TasksTyped, OthersSame
<1>2. \A u \in Uids, j \in Ids : DbClaim(u, j)' => Claim(u, j)
  BY DEF Claim, DbClaim
<1>3. \A u \in Uids, j \in Ids : TaskClaim(t, u, j)' => Claim(u, j)
  <2>1. reply'[t].ids = reply[t].ids /\ reply'[t].uids = reply[t].uids
    BY DEF OwnerInv, Typed, TypeOK, TasksTyped, Replies
  <2> QED
    BY <2>1 DEF OwnerInv, Typed, TypeOK, TasksTyped, Claim, TaskClaim, Writing
<1>4. Shaped'
  <2>1. reply'[t].ids = reply[t].ids /\ reply'[t].uids = reply[t].uids
    BY DEF OwnerInv, Typed, TypeOK, TasksTyped, Replies
  <2> QED
    BY <1>1, <2>1 DEF OwnerInv, Typed, TypeOK, TasksTyped, Shaped, OthersSame
<1> QED
  BY <1>1, <1>2, <1>3, <1>4, OthersUnclaimed DEF Claim

\* ScanEnd makes no new claim.
LEMMA ScanEndCopies ==
  ASSUME OwnerInv, NEW t \in Tasks, ScanEnd(t)
  PROVE  Shaped' /\ \A u \in Uids, j \in Ids : Claim(u, j)' => Claim(u, j)
<1> USE DEF ScanEnd, dbVars, envVars, taskVars, Goto, Frame, ReadOnly
<1>1. OthersSame(t)
  BY DEF OwnerInv, Typed, TypeOK, TasksTyped, OthersSame
<1>2. \A u \in Uids, j \in Ids : DbClaim(u, j)' => Claim(u, j)
  BY DEF Claim, DbClaim
<1>3. \A u \in Uids, j \in Ids : TaskClaim(t, u, j)' => Claim(u, j)
  BY DEF OwnerInv, Typed, TypeOK, TasksTyped, Claim, TaskClaim, Writing
<1>4. Shaped'
  BY <1>1 DEF OwnerInv, Typed, TypeOK, TasksTyped, Shaped, OthersSame
<1> QED
  BY <1>1, <1>2, <1>3, <1>4, OthersUnclaimed DEF Claim

\* Apply makes no new claim.
LEMMA ApplyCopies ==
  ASSUME OwnerInv, NEW t \in Tasks, Apply(t)
  PROVE  Shaped' /\ \A u \in Uids, j \in Ids : Claim(u, j)' => Claim(u, j)
<1> USE DEF Apply, dbVars, envVars, taskVars, Goto, Frame, ReadOnly
<1>1. OthersSame(t)
  <2>1. \A k \in Tasks \ {t} : at'[k] = at[k]
    BY DEF OwnerInv, Typed, TypeOK, TasksTyped, GoToFirst
  <2> QED
    BY <2>1 DEF OwnerInv, Typed, TypeOK, TasksTyped, OthersSame
<1>2. \A u \in Uids, j \in Ids : DbClaim(u, j)' => Claim(u, j)
  <2> SUFFICES ASSUME NEW u \in Uids, NEW j \in Ids, DbClaim(u, j)'
               PROVE  Claim(u, j)
    OBVIOUS
  <2>1. CASE jmapToUid'[j] = u \/ uidToJmap'[u] = j
    BY <2>1, NoIdAssumption, BoundsAssumption DEF Claim, DbClaim, Uids
  <2>2. CASE deletedIds'[j].uid = u
    BY <2>2, BoundsAssumption DEF Claim, DbClaim, TaskClaim, NoRecord, Uids
  <2> QED
    BY <2>1, <2>2 DEF DbClaim
<1>3. \A u \in Uids, j \in Ids : TaskClaim(t, u, j)' => Claim(u, j)
  <2>1. batch'[t] = EmptyBatch /\ reply'[t] = reply[t] /\ pc'[t] \notin Writing
    BY DEF OwnerInv, Typed, TypeOK, TasksTyped, Writing
  <2> QED
    BY <2>1, BoundsAssumption DEF Claim, TaskClaim, EmptyBatch, NoRecord, Uids
<1>4. Shaped'
  <2>1. batch'[t].counters = {} /\ reply'[t] = reply[t] /\ op'[t] = op[t]
    BY DEF OwnerInv, Typed, TypeOK, TasksTyped, EmptyBatch
  <2>2. \/ pc'[t] \in {"alloc", "uid_next"} /\ op[t] = "sync"
        \/ pc'[t] = "done"
    BY DEF OwnerInv, Typed, TypeOK, TasksTyped
  <2> QED
    BY <1>1, <2>1, <2>2 DEF OwnerInv, Shaped, OthersSame
<1> QED
  BY <1>1, <1>2, <1>3, <1>4, OthersUnclaimed DEF Claim

\* PutJmap makes no new claim.
LEMMA PutJmapCopies ==
  ASSUME OwnerInv, NEW t \in Tasks, PutJmap(t)
  PROVE  Shaped' /\ \A u \in Uids, j \in Ids : Claim(u, j)' => Claim(u, j)
<1> USE DEF PutJmap, dbVars, envVars, taskVars, Goto, Frame, ReadOnly
<1>1. OthersSame(t)
  BY DEF OwnerInv, Typed, TypeOK, TasksTyped, OthersSame
<1>2. \A u \in Uids, j \in Ids : DbClaim(u, j)' => Claim(u, j)
  <2>1. jmapToUid' = [jmapToUid EXCEPT ![ids[t][at[t]]] = uid[t]]
    OBVIOUS
  <2>2. \A u \in Uids, j \in Ids : jmapToUid'[j] = u =>
          jmapToUid[j] = u \/ (ids[t][at[t]] = j /\ uid[t] = u)
    BY <2>1 DEF OwnerInv, Typed, TypeOK, DbTyped
  <2> QED
    BY <2>2 DEF Claim, DbClaim, TaskClaim, Writing
<1>3. \A u \in Uids, j \in Ids : TaskClaim(t, u, j)' => Claim(u, j)
  BY DEF OwnerInv, Typed, TypeOK, TasksTyped, Claim, TaskClaim, Writing
<1>4. Shaped'
  BY <1>1 DEF OwnerInv, Typed, TypeOK, TasksTyped, Shaped, OthersSame
<1> QED
  BY <1>1, <1>2, <1>3, <1>4, OthersUnclaimed DEF Claim

\* PutJmapFails makes no new claim.
LEMMA PutJmapFailsCopies ==
  ASSUME OwnerInv, NEW t \in Tasks, PutJmapFails(t)
  PROVE  Shaped' /\ \A u \in Uids, j \in Ids : Claim(u, j)' => Claim(u, j)
<1>1. \A u \in Uids, j \in Ids : DbClaim(u, j)' => Claim(u, j)
  BY DEF PutJmapFails, OwnerInv, Typed, TypeOK, DbTyped, Claim, DbClaim, TaskClaim, Writing
<1> QED
  BY <1>1, ForgetCopies DEF PutJmapFails

\* PutUid makes no new claim.
LEMMA PutUidCopies ==
  ASSUME OwnerInv, NEW t \in Tasks, PutUid(t)
  PROVE  Shaped' /\ \A u \in Uids, j \in Ids : Claim(u, j)' => Claim(u, j)
<1> USE DEF PutUid, dbVars, envVars, taskVars, Goto, Frame, ReadOnly
<1>a. /\ ids[t][at[t]] \in Ids /\ uid[t] \in Uids /\ reply[t] \in Replies
      /\ op[t] \in {"sync", "add"} /\ Len(reply[t].ids) = Len(reply[t].uids)
      /\ reply'[t] = Push(reply[t], ids[t][at[t]], uid[t])
  BY DEF OwnerInv, Typed, TypeOK, TasksTyped, Indexed, Shaped, Answer
<1>b. pc'[t] \in {"alloc", "uid_next", "lookup", "validity"}
  BY DEF OwnerInv, Typed, TypeOK, TasksTyped, NextId
<1>1. OthersSame(t)
  <2>1. \A k \in Tasks \ {t} : at'[k] = at[k] /\ pc'[k] = pc[k]
    BY DEF OwnerInv, Typed, TypeOK, TasksTyped, GoToFirst, NextId
  <2>2. \A k \in Tasks \ {t} : reply'[k] = reply[k] /\ uid'[k] = uid[k]
    BY DEF OwnerInv, Typed, TypeOK, TasksTyped, Answer
  <2> QED
    BY <2>1, <2>2 DEF OthersSame
<1>2. \A u \in Uids, j \in Ids : DbClaim(u, j)' => Claim(u, j)
  <2>1. \A u \in Uids, j \in Ids : uidToJmap'[u] = j =>
          uidToJmap[u] = j \/ (ids[t][at[t]] = j /\ uid[t] = u)
    BY DEF OwnerInv, Typed, TypeOK, DbTyped
  <2> QED
    BY <2>1 DEF Claim, DbClaim, TaskClaim, Writing
<1>3. \A u \in Uids, j \in Ids : TaskClaim(t, u, j)' => Claim(u, j)
  <2>1. \A u \in Uids, j \in Ids, i \in DOMAIN reply'[t].ids :
          reply'[t].ids[i] = j /\ reply'[t].uids[i] = u =>
            \/ j = ids[t][at[t]] /\ u = uid[t]
            \/ i \in DOMAIN reply[t].ids /\ reply[t].ids[i] = j /\ reply[t].uids[i] = u
    BY SMTT(60), <1>a, PushPairs DEF OwnerInv, Typed, TypeOK, TasksTyped
  <2>2. batch'[t] = batch[t] /\ pc'[t] \notin Writing
    BY <1>b DEF Writing
  <2> QED
    BY <2>1, <2>2 DEF Claim, TaskClaim, Writing
<1>4. Shaped'
  <2>1. Len(reply'[t].ids) = Len(reply'[t].uids)
    BY <1>a, PushPairs DEF OwnerInv, Typed, TypeOK, TasksTyped
  <2>2. batch'[t] = batch[t] /\ op'[t] = op[t]
    OBVIOUS
  <2> QED
    BY <1>1, <1>a, <1>b, <2>1, <2>2 DEF OwnerInv, Shaped, OthersSame
<1> QED
  BY <1>1, <1>2, <1>3, <1>4, OthersUnclaimed DEF Claim

\* Lookup makes no new claim.
LEMMA LookupCopies ==
  ASSUME OwnerInv, NEW t \in Tasks, Lookup(t)
  PROVE  Shaped' /\ \A u \in Uids, j \in Ids : Claim(u, j)' => Claim(u, j)
<1> USE DEF Lookup, dbVars, envVars, taskVars, Goto, Frame, ReadOnly
<1>a. /\ ids[t][at[t]] \in Ids /\ reply[t] \in Replies
      /\ op[t] \in {"sync", "add"} /\ Len(reply[t].ids) = Len(reply[t].uids)
  BY DEF OwnerInv, Typed, TypeOK, TasksTyped, Indexed, Shaped
<1>b. pc'[t] \in {"alloc", "lookup", "validity"} /\ op' = op /\ batch' = batch
  BY DEF OwnerInv, Typed, TypeOK, TasksTyped, NextId
<1>1. OthersSame(t)
  <2>1. \A k \in Tasks \ {t} : at'[k] = at[k] /\ pc'[k] = pc[k]
    BY DEF OwnerInv, Typed, TypeOK, TasksTyped, NextId
  <2>2. \A k \in Tasks \ {t} : reply'[k] = reply[k] /\ batch'[k] = batch[k]
    BY DEF OwnerInv, Typed, TypeOK, TasksTyped, Answer
  <2> QED
    BY <2>1, <2>2 DEF OthersSame
<1>2. \A u \in Uids, j \in Ids : DbClaim(u, j)' => Claim(u, j)
  BY DEF Claim, DbClaim
<1>3. \A u \in Uids, j \in Ids : TaskClaim(t, u, j)' => Claim(u, j)
  <2> DEFINE j0 == ids[t][at[t]]
  <2>1. CASE jmapToUid[j0] # 0
    <3>1. jmapToUid[j0] \in Uids /\ reply'[t] = Push(reply[t], j0, jmapToUid[j0])
      BY <1>a, <2>1 DEF OwnerInv, Typed, TypeOK, TasksTyped, DbTyped, Uids, Answer
    <3>2. \A u \in Uids, j \in Ids, i \in DOMAIN reply'[t].ids :
            reply'[t].ids[i] = j /\ reply'[t].uids[i] = u =>
              \/ j = j0 /\ u = jmapToUid[j0]
              \/ i \in DOMAIN reply[t].ids /\ reply[t].ids[i] = j /\ reply[t].uids[i] = u
      <4> HIDE DEF Lookup
      <4> QED
        BY <1>a, <3>1, PushPairs
    <3>3. batch'[t] = batch[t] /\ pc'[t] \notin Writing
      BY <1>b DEF Writing
    <3> QED
      BY <3>2, <3>3 DEF Claim, DbClaim, TaskClaim
  <2>2. CASE jmapToUid[j0] = 0
    <3>1. batch'[t] = batch[t] /\ pc'[t] \notin Writing /\ reply'[t] = reply[t]
      BY <1>b, <2>2 DEF Writing
    <3> QED
      BY <3>1 DEF Claim, TaskClaim
  <2> QED
    BY <2>1, <2>2
<1>4. Shaped'
  <2> DEFINE j0 == ids[t][at[t]]
  <2>1. Len(reply'[t].ids) = Len(reply'[t].uids)
    <3>1. CASE jmapToUid[j0] # 0
      <4>1. jmapToUid[j0] \in Uids /\ reply'[t] = Push(reply[t], j0, jmapToUid[j0])
        BY <1>a, <3>1 DEF OwnerInv, Typed, TypeOK, TasksTyped, DbTyped, Uids, Answer
      <4> QED
        BY <1>a, <4>1, PushPairs
    <3>2. CASE jmapToUid[j0] = 0
      BY <1>a, <3>2
    <3> QED
      BY <3>1, <3>2
  <2> QED
    BY <1>1, <1>a, <1>b, <2>1 DEF OwnerInv, Shaped, OthersSame
<1> QED
  BY <1>1, <1>2, <1>3, <1>4, OthersUnclaimed DEF Claim

\* LookupDeleted makes no new claim.
LEMMA LookupDeletedCopies ==
  ASSUME OwnerInv, NEW t \in Tasks, LookupDeleted(t)
  PROVE  Shaped' /\ \A u \in Uids, j \in Ids : Claim(u, j)' => Claim(u, j)
<1> USE DEF LookupDeleted, dbVars, envVars, taskVars, Goto, Frame, ReadOnly
<1>b. /\ pc'[t] \in {"lookup_deleted", "done"} /\ op' = op /\ batch' = batch
      /\ op[t] = "vanished" /\ reply'[t].ids = <<>>
  <2>1. op[t] = "vanished" /\ reply[t].ids = <<>>
    BY DEF OwnerInv, Shaped
  <2>2. reply'[t].ids = reply[t].ids
    BY DEF OwnerInv, Typed, TypeOK, TasksTyped, Replies, PushUid
  <2> QED
    BY <2>1, <2>2 DEF OwnerInv, Typed, TypeOK, TasksTyped, NextId
<1>1. OthersSame(t)
  <2>1. \A k \in Tasks \ {t} : at'[k] = at[k] /\ pc'[k] = pc[k]
    BY DEF OwnerInv, Typed, TypeOK, TasksTyped, NextId
  <2>2. \A k \in Tasks \ {t} : reply'[k] = reply[k] /\ batch'[k] = batch[k]
    BY DEF OwnerInv, Typed, TypeOK, TasksTyped, Answer
  <2> QED
    BY <2>1, <2>2 DEF OthersSame
<1>2. \A u \in Uids, j \in Ids : DbClaim(u, j)' => Claim(u, j)
  BY DEF Claim, DbClaim
<1>3. \A u \in Uids, j \in Ids : TaskClaim(t, u, j)' => Claim(u, j)
  <2>1. batch'[t] = batch[t] /\ pc'[t] \notin Writing /\ DOMAIN reply'[t].ids = {}
    BY <1>b DEF Writing
  <2> QED
    BY <2>1 DEF Claim, TaskClaim
<1>4. Shaped'
  BY <1>1, <1>b DEF OwnerInv, Shaped, OthersSame
<1> QED
  BY <1>1, <1>2, <1>3, <1>4, OthersUnclaimed DEF Claim

\* Find makes no new claim.
LEMMA FindCopies ==
  ASSUME OwnerInv, NEW t \in Tasks, Find(t)
  PROVE  Shaped' /\ \A u \in Uids, j \in Ids : Claim(u, j)' => Claim(u, j)
<1> USE DEF Find, dbVars, envVars, taskVars, Goto, Frame, ReadOnly
<1>a. ids[t][at[t]] \in Ids /\ batch[t] \in Batches
  BY DEF OwnerInv, Typed, TypeOK, TasksTyped, Indexed
<1>b. pc'[t] \in {"find", "apply"} /\ op' = op /\ reply' = reply
  BY DEF OwnerInv, Typed, TypeOK, TasksTyped, NextId
<1>1. OthersSame(t)
  <2>1. \A k \in Tasks \ {t} : at'[k] = at[k] /\ pc'[k] = pc[k]
    BY DEF OwnerInv, Typed, TypeOK, TasksTyped, NextId
  <2>2. \A k \in Tasks \ {t} : reply'[k] = reply[k] /\ batch'[k] = batch[k]
    BY DEF OwnerInv, Typed, TypeOK, TasksTyped, Answer
  <2> QED
    BY <2>1, <2>2 DEF OthersSame
<1>2. \A u \in Uids, j \in Ids : DbClaim(u, j)' => Claim(u, j)
  BY DEF Claim, DbClaim
<1>3. \A u \in Uids, j \in Ids : TaskClaim(t, u, j)' => Claim(u, j)
  <2> DEFINE j0 == ids[t][at[t]]
  <2>1. CASE jmapToUid[j0] # 0
    <3>1. jmapToUid[j0] \in Uids /\ batch'[t] = MarkDeleted(batch[t], j0, jmapToUid[j0])
      BY <1>a, <2>1 DEF OwnerInv, Typed, TypeOK, TasksTyped, DbTyped, Uids
    <3>2. \A j \in Ids : batch'[t].insert[j].uid =
            (IF j = j0 THEN jmapToUid[j0] ELSE batch[t].insert[j].uid)
      BY <1>a, <3>1, MarkPairs
    <3>3. reply'[t] = reply[t] /\ pc'[t] \notin Writing
      BY <1>b DEF Writing
    <3> QED
      BY <3>2, <3>3 DEF Claim, DbClaim, TaskClaim
  <2>2. CASE jmapToUid[j0] = 0
    <3>1. batch'[t] = batch[t] /\ pc'[t] \notin Writing /\ reply'[t] = reply[t]
      BY <1>b, <2>2 DEF Writing
    <3> QED
      BY <3>1 DEF Claim, TaskClaim
  <2> QED
    BY <2>1, <2>2
<1>4. Shaped'
  <2> DEFINE j0 == ids[t][at[t]]
  <2>1. batch'[t].counters = batch[t].counters
    <3>1. CASE jmapToUid[j0] # 0
      <4>1. jmapToUid[j0] \in Uids /\ batch'[t] = MarkDeleted(batch[t], j0, jmapToUid[j0])
        BY <1>a, <3>1 DEF OwnerInv, Typed, TypeOK, TasksTyped, DbTyped, Uids
      <4> QED
        BY <1>a, <4>1, MarkPairs
    <3>2. CASE jmapToUid[j0] = 0
      BY <3>2
    <3> QED
      BY <3>1, <3>2
  <2> QED
    BY <1>1, <1>b, <2>1 DEF OwnerInv, Shaped, OthersSame
<1> QED
  BY <1>1, <1>2, <1>3, <1>4, OthersUnclaimed DEF Claim

\* ScanAll makes no new claim.
LEMMA ScanAllCopies ==
  ASSUME OwnerInv, NEW t \in Tasks, ScanAll(t)
  PROVE  Shaped' /\ \A u \in Uids, j \in Ids : Claim(u, j)' => Claim(u, j)
<1> USE DEF ScanAll, dbVars, envVars, taskVars, Goto, Frame, ReadOnly
<1>1. OthersSame(t)
  BY DEF OwnerInv, Typed, TypeOK, TasksTyped, OthersSame
<1>2. \A u \in Uids, j \in Ids : DbClaim(u, j)' => Claim(u, j)
  BY DEF Claim, DbClaim
<1>3. \A u \in Uids, j \in Ids : TaskClaim(t, u, j)' => Claim(u, j)
  <2>1. batch'[t].insert = batch[t].insert
    BY DEF OwnerInv, Typed, TypeOK, TasksTyped, Batches
  <2> QED
    BY <2>1 DEF OwnerInv, Typed, TypeOK, TasksTyped, Claim, TaskClaim, Writing
<1>4. Shaped'
  BY <1>1 DEF OwnerInv, Typed, TypeOK, TasksTyped, Shaped, OthersSame
<1> QED
  BY <1>1, <1>2, <1>3, <1>4, OthersUnclaimed DEF Claim

\* ScanExpired makes no new claim.
LEMMA ScanExpiredCopies ==
  ASSUME OwnerInv, NEW t \in Tasks, ScanExpired(t)
  PROVE  Shaped' /\ \A u \in Uids, j \in Ids : Claim(u, j)' => Claim(u, j)
<1> USE DEF ScanExpired, dbVars, envVars, taskVars, Goto, Frame, ReadOnly
<1>1. OthersSame(t)
  BY DEF OwnerInv, Typed, TypeOK, TasksTyped, OthersSame
<1>2. \A u \in Uids, j \in Ids : DbClaim(u, j)' => Claim(u, j)
  BY DEF Claim, DbClaim
<1>3. \A u \in Uids, j \in Ids : TaskClaim(t, u, j)' => Claim(u, j)
  <2>1. batch'[t].insert = batch[t].insert
    BY DEF OwnerInv, Typed, TypeOK, TasksTyped, Batches
  <2> QED
    BY <2>1 DEF OwnerInv, Typed, TypeOK, TasksTyped, Claim, TaskClaim, Writing
<1>4. Shaped'
  <2>1. batch'[t].counters = batch[t].counters
    BY DEF OwnerInv, Typed, TypeOK, TasksTyped, Batches
  <2> QED
    BY <1>1, <2>1 DEF OwnerInv, Typed, TypeOK, TasksTyped, Shaped, OthersSame
<1> QED
  BY <1>1, <1>2, <1>3, <1>4, OthersUnclaimed DEF Claim

\* Scan makes no new claim.
LEMMA ScanCopies ==
  ASSUME OwnerInv, NEW t \in Tasks, NEW v \in Uids, Scan(t, v)
  PROVE  Shaped' /\ \A u \in Uids, j \in Ids : Claim(u, j)' => Claim(u, j)
<1> USE DEF Scan, dbVars, envVars, taskVars, Goto, Frame, ReadOnly
<1>a. /\ uidToJmap[v] \in Ids /\ reply[t] \in Replies /\ batch[t] \in Batches
      /\ pc[t] = "scan" /\ op[t] = "sync" /\ Len(reply[t].ids) = Len(reply[t].uids)
  BY DEF OwnerInv, Typed, TypeOK, TasksTyped, DbTyped, Shaped
<1>b. pc'[t] \notin Writing
  BY <1>a DEF Writing
<1>1. OthersSame(t)
  <2>1. \A k \in Tasks \ {t} : reply'[k] = reply[k] /\ batch'[k] = batch[k] /\ at'[k] = at[k]
    BY DEF OwnerInv, Typed, TypeOK, TasksTyped, Answer
  <2> QED
    BY <2>1 DEF OthersSame
<1>2. \A u \in Uids, j \in Ids : DbClaim(u, j)' => Claim(u, j)
  BY DEF Claim, DbClaim
<1>3. \A u \in Uids, j \in Ids : TaskClaim(t, u, j)' => Claim(u, j)
  <2> DEFINE j0 == uidToJmap[v]
  <2>1. CASE j0 \in Remaining(t)
    <3>1. reply'[t] = Push(reply[t], j0, v) /\ batch'[t] = batch[t]
      BY <2>1 DEF OwnerInv, Typed, TypeOK, TasksTyped, Answer
    <3>2. \A u \in Uids, j \in Ids, i \in DOMAIN reply'[t].ids :
            reply'[t].ids[i] = j /\ reply'[t].uids[i] = u =>
              \/ j = j0 /\ u = v
              \/ i \in DOMAIN reply[t].ids /\ reply[t].ids[i] = j /\ reply[t].uids[i] = u
      BY <1>a, <3>1, PushPairs
    <3> QED
      BY <1>b, <3>1, <3>2 DEF Claim, DbClaim, TaskClaim
  <2>2. CASE j0 \notin Remaining(t)
    <3>1. batch'[t] = MarkDeleted(batch[t], j0, v) /\ reply'[t] = reply[t]
      BY <2>2 DEF OwnerInv, Typed, TypeOK, TasksTyped
    <3>2. \A j \in Ids : batch'[t].insert[j].uid =
            (IF j = j0 THEN v ELSE batch[t].insert[j].uid)
      BY <1>a, <3>1, MarkPairs
    <3> QED
      BY <1>b, <3>1, <3>2 DEF Claim, DbClaim, TaskClaim
  <2> QED
    BY <2>1, <2>2
<1>4. Shaped'
  <2> DEFINE j0 == uidToJmap[v]
  <2>1. Len(reply'[t].ids) = Len(reply'[t].uids) /\ batch'[t].counters = batch[t].counters
    <3>1. CASE j0 \in Remaining(t)
      <4>1. reply'[t] = Push(reply[t], j0, v) /\ batch'[t] = batch[t]
        BY <3>1 DEF OwnerInv, Typed, TypeOK, TasksTyped, Answer
      <4> QED
        BY <1>a, <4>1, PushPairs
    <3>2. CASE j0 \notin Remaining(t)
      <4>1. batch'[t] = MarkDeleted(batch[t], j0, v) /\ reply'[t] = reply[t]
        BY <3>2 DEF OwnerInv, Typed, TypeOK, TasksTyped
      <4> QED
        BY <1>a, <4>1, MarkPairs
    <3> QED
      BY <3>1, <3>2
  <2>2. pc' = pc /\ op' = op
    OBVIOUS
  <2> QED
    BY <1>1, <1>a, <2>1, <2>2 DEF OwnerInv, Shaped, OthersSame
<1> QED
  BY <1>1, <1>2, <1>3, <1>4, OthersUnclaimed DEF Claim

\* The JMAP server's other users touch neither the database nor the tasks.
LEMMA EnvironmentCopies ==
  ASSUME OwnerInv, Environment \/ UNCHANGED vars
  PROVE  Shaped' /\ \A u \in Uids, j \in Ids : Claim(u, j)' => Claim(u, j)
<1>1. UNCHANGED <<dbVars, taskVars>>
  BY DEF Environment, CreateMailbox, Deliver, RemoveMsg, DestroyMailbox, Tick, vars, dbAndTasks
<1> QED
  BY <1>1 DEF OwnerInv, Shaped, Claim, DbClaim, TaskClaim, dbVars, taskVars

\* Alloc claims the next UID for the id it is generated for, and nothing else.
LEMMA AllocClaims ==
  ASSUME OwnerInv, NEW t \in Tasks, Alloc(t)
  PROVE  /\ Shaped'
         /\ \A u \in Uids, j \in Ids :
              Claim(u, j)' => Claim(u, j) \/ (u = uidNext + 1 /\ j = ids[t][at[t]])
<1> USE DEF Alloc, dbVars, envVars, taskVars, Goto, Frame
<1>1. OthersSame(t)
  BY DEF OwnerInv, Typed, TypeOK, TasksTyped, OthersSame
<1>2. \A u \in Uids, j \in Ids : DbClaim(u, j)' => Claim(u, j)
  BY DEF Claim, DbClaim
<1>3. \A u \in Uids, j \in Ids :
        TaskClaim(t, u, j)' => Claim(u, j) \/ (u = uidNext + 1 /\ j = ids[t][at[t]])
  BY DEF OwnerInv, Typed, TypeOK, TasksTyped, Claim, TaskClaim
<1>4. Shaped'
  BY <1>1 DEF OwnerInv, Typed, TypeOK, TasksTyped, Shaped, OthersSame
<1> QED
  BY <1>1, <1>2, <1>3, <1>4, OthersUnclaimed DEF Claim

\* The JMAP server's other users touch neither the database nor the tasks.
LEMMA EnvironmentKeeps == Environment => UNCHANGED dbAndTasks
BY DEF Environment, CreateMailbox, Deliver, RemoveMsg, DestroyMailbox, Tick

\* Only Alloc names an owner.
LEMMA OwnerKept ==
  ASSUME [Next]_vars, ~ \E t \in Tasks : Alloc(t)
  PROVE  owner' = owner
<1>1. CASE Environment
  BY <1>1, EnvironmentKeeps DEF dbAndTasks
<1>2. ASSUME NEW t \in Tasks, NEW o \in Ops, NEW s \in Lists \cup {<<>>}, Start(t, o, s)
      PROVE  owner' = owner
  BY <1>2 DEF Start
<1>3. ASSUME NEW t \in Tasks, Return(t) \/ Fail(t) PROVE owner' = owner
  BY <1>3 DEF Return, Fail, ReadOnly
<1>4. ASSUME NEW t \in Tasks, Step(t) PROVE owner' = owner
  BY <1>4 DEF Step, Query, Validity, PutValidity, Scan, ScanEnd, Apply, PutJmap, PutJmapFails, PutUid,
     ReadUidNext, Lookup, LookupDeleted, Find, ScanAll, ScanExpired, ReadOnly
<1>5. CASE UNCHANGED vars
  BY <1>5 DEF vars
<1> QED
  BY <1>1, <1>2, <1>3, <1>4, <1>5 DEF Next

\* Until a mailbox is dropped only Alloc moves the counter or names an owner.
LEMMA CounterKept ==
  ASSUME OwnerInv, [Next]_vars, ~ \E t \in Tasks : Alloc(t), ~wiped'
  PROVE  owner' = owner /\ uidNext' = uidNext /\ ~wiped
<1> USE DEF dbVars, envVars, taskVars, dbAndTasks, Frame, ReadOnly
<1>1. CASE Environment
  BY <1>1, EnvironmentKeeps
<1>2. ASSUME NEW t \in Tasks, NEW o \in Ops, NEW s \in Lists \cup {<<>>}, Start(t, o, s)
      PROVE  owner' = owner /\ uidNext' = uidNext /\ ~wiped
  BY <1>2 DEF Start
<1>3. ASSUME NEW t \in Tasks, Return(t) \/ Fail(t)
      PROVE  owner' = owner /\ uidNext' = uidNext /\ ~wiped
  BY <1>3 DEF Return, Fail, ReadOnly
<1>4. ASSUME NEW t \in Tasks, Step(t)
      PROVE  owner' = owner /\ uidNext' = uidNext /\ ~wiped
  <2>1. CASE Apply(t)
    <3>1. owner' = owner /\ ~wiped
      BY <2>1 DEF Apply
    <3>2. batch[t].counters = {}
      BY <2>1 DEF Apply, OwnerInv, Shaped
    <3> QED
      BY <2>1, <3>1, <3>2 DEF Apply
  <2>2. CASE ~Apply(t)
    BY <1>4, <2>2 DEF Step, Query, Validity, PutValidity, Scan, ScanEnd, PutJmap, PutJmapFails, PutUid,
       ReadUidNext, Lookup, LookupDeleted, Find, ScanAll, ScanExpired
  <2> QED
    BY <2>1, <2>2
<1>5. CASE UNCHANGED vars
  BY <1>5 DEF vars
<1> QED
  BY <1>1, <1>2, <1>3, <1>4, <1>5 DEF Next

\* Every step but Alloc copies claims or drops them.
LEMMA NoNewClaim ==
  ASSUME OwnerInv, [Next]_vars, ~ \E t \in Tasks : Alloc(t)
  PROVE  Shaped' /\ \A u \in Uids, j \in Ids : Claim(u, j)' => Claim(u, j)
<1> DEFINE Copies == Shaped' /\ \A u \in Uids, j \in Ids : Claim(u, j)' => Claim(u, j)
<1>1. CASE Environment \/ UNCHANGED vars
  BY <1>1, EnvironmentCopies
<1>2. ASSUME NEW t \in Tasks, NEW o \in Ops, NEW s \in Lists \cup {<<>>}, Start(t, o, s)
      PROVE  Copies
  BY <1>2, StartCopies
<1>3. ASSUME NEW t \in Tasks, Return(t) \/ Fail(t) PROVE Copies
  <2>1. \A u \in Uids, j \in Ids : DbClaim(u, j)' => Claim(u, j)
    BY <1>3 DEF Return, Fail, ReadOnly, dbVars, DbClaim, Claim
  <2> QED
    BY <1>3, <2>1, ForgetCopies DEF Return, Fail
<1>4. ASSUME NEW t \in Tasks, Step(t) PROVE Copies
  <2> HIDE DEF Copies
  <2>1. Query(t) \/ Validity(t) \/ PutValidity(t) \/ ScanEnd(t) \/ ReadUidNext(t) => Copies
    BY QueryCopies, ValidityCopies, PutValidityCopies, ScanEndCopies, ReadUidNextCopies DEF Copies
  <2>2. (\E u \in Uids : Scan(t, u)) => Copies
    BY ScanCopies DEF Copies
  <2>3. Apply(t) \/ PutJmap(t) \/ PutJmapFails(t) \/ PutUid(t) => Copies
    BY ApplyCopies, PutJmapCopies, PutJmapFailsCopies, PutUidCopies DEF Copies
  <2>4. Lookup(t) \/ LookupDeleted(t) \/ Find(t) => Copies
    BY LookupCopies, LookupDeletedCopies, FindCopies DEF Copies
  <2>5. ScanAll(t) \/ ScanExpired(t) => Copies
    BY ScanAllCopies, ScanExpiredCopies DEF Copies
  <2> QED
    BY <1>4, <2>1, <2>2, <2>3, <2>4, <2>5 DEF Step
<1> QED
  BY <1>1, <1>2, <1>3, <1>4 DEF Next

\* Every step keeps the inductive invariant: Alloc by the freshness of its UID,
\* the others because they make no new claim.
LEMMA OwnerStep == OwnerInv /\ [Next]_vars => OwnerInv'
<1> SUFFICES ASSUME OwnerInv, [Next]_vars PROVE OwnerInv'
  OBVIOUS
<1>1. Typed'
  BY StepTyped DEF OwnerInv
<1>2. CASE \E t \in Tasks : Alloc(t)
  <2>1. PICK t \in Tasks : Alloc(t)
    BY <1>2
  <2>2. /\ owner' = [owner EXCEPT ![uidNext + 1] = ids[t][at[t]]]
        /\ uidNext' = uidNext + 1 /\ wiped' = wiped
    BY <2>1 DEF Alloc
  <2>3. /\ uidNext \in Nat /\ uidNext + 1 \in Uids /\ Uids \subseteq Nat
        /\ owner \in [Uids -> Ids \cup {NoId}]
    BY <2>1, BoundsAssumption DEF Alloc, OwnerInv, Typed, TypeOK, DbTyped, HistoryTyped, Uids
  <2>4. ClaimsOwned'
    <3> SUFFICES ASSUME ~wiped, NEW u \in Uids, NEW j \in Ids, Claim(u, j)'
                 PROVE  owner'[u] = j
      BY <2>2 DEF ClaimsOwned
    <3>1. CASE u = uidNext + 1 /\ j = ids[t][at[t]]
      BY <2>2, <2>3, <3>1
    <3>2. CASE Claim(u, j)
      <4>1. owner[u] = j /\ u <= uidNext
        BY <3>2, NoIdAssumption DEF OwnerInv, ClaimsOwned, CounterBounds
      <4> QED
        BY <2>2, <2>3, <4>1
    <3> QED
      BY <2>1, <3>1, <3>2, AllocClaims
  <2>5. CounterBounds'
    BY <2>2, <2>3 DEF OwnerInv, CounterBounds
  <2> QED
    BY <1>1, <2>1, <2>4, <2>5, AllocClaims DEF OwnerInv
<1>3. CASE ~ \E t \in Tasks : Alloc(t)
  <2>1. Shaped' /\ \A u \in Uids, j \in Ids : Claim(u, j)' => Claim(u, j)
    BY <1>3, NoNewClaim
  <2>2. ~wiped' => owner' = owner /\ uidNext' = uidNext /\ ~wiped
    BY <1>3, CounterKept
  <2>3. ClaimsOwned'
    BY <2>1, <2>2 DEF OwnerInv, ClaimsOwned
  <2>4. CounterBounds'
    BY <2>2 DEF OwnerInv, CounterBounds
  <2> QED
    BY <1>1, <2>1, <2>3, <2>4 DEF OwnerInv
<1> QED
  BY <1>2, <1>3

\* The inductive invariant implies the property.
LEMMA OwnerImplies == OwnerInv => UidDesignatesOneMessage
<1> SUFFICES ASSUME OwnerInv, ~wiped PROVE UidDesignatesOneMessage
  BY DEF UidDesignatesOneMessage
<1>1. \A u \in Uids, j \in Ids : Claim(u, j) => owner[u] = j
  BY DEF OwnerInv, ClaimsOwned
<1>2. \A j \in Ids : jmapToUid[j] # 0 => owner[jmapToUid[j]] = j
  BY <1>1, BoundsAssumption DEF OwnerInv, Typed, TypeOK, DbTyped, Claim, DbClaim, Uids
<1>3. \A u \in Uids : uidToJmap[u] # NoId => owner[u] = uidToJmap[u]
  BY <1>1 DEF OwnerInv, Typed, TypeOK, DbTyped, Claim, DbClaim
<1>4. \A j \in Ids : deletedIds[j].uid # 0 => owner[deletedIds[j].uid] = j
  <2>1. \A j \in Ids : deletedIds[j].uid # 0 => deletedIds[j].uid \in Uids
    BY BoundsAssumption DEF OwnerInv, Typed, TypeOK, DbTyped, Removed, Uids
  <2> QED
    BY <1>1, <2>1 DEF Claim, DbClaim
<1>5. \A t \in Tasks : \A i \in DOMAIN reply[t].ids : owner[reply[t].uids[i]] = reply[t].ids[i]
  <2> SUFFICES ASSUME NEW t \in Tasks, NEW i \in DOMAIN reply[t].ids
               PROVE  owner[reply[t].uids[i]] = reply[t].ids[i]
    OBVIOUS
  <2>1. reply[t].ids \in Seq(Ids) /\ reply[t].uids \in Seq(Uids)
    BY DEF OwnerInv, Typed, TypeOK, TasksTyped, Replies
  <2>2. Len(reply[t].ids) = Len(reply[t].uids)
    BY <2>1 DEF OwnerInv, Shaped
  <2>3. reply[t].ids[i] \in Ids /\ reply[t].uids[i] \in Uids
    BY <2>1, <2>2
  <2> QED
    BY <1>1, <2>3 DEF Claim, TaskClaim
<1> QED
  BY <1>2, <1>3, <1>4, <1>5 DEF UidDesignatesOneMessage

\* A UID designates one message for ever, in both maps, in the records of
\* deleted messages and in every answer.
THEOREM UidDesignatesOneMessageAlways == Spec => []UidDesignatesOneMessage
BY InitOwner, OwnerStep, OwnerImplies, PTL DEF Spec

\* increment_uid never hands out a UID twice.
THEOREM UidNeverReusedAlways == Spec => UidNeverReused
<1>1. OwnerInv /\ [Next]_vars =>
        [\A u \in Uids : ~wiped /\ owner[u] # NoId => owner'[u] = owner[u]]_vars
  <2> SUFFICES ASSUME OwnerInv, [Next]_vars, NEW u \in Uids, ~wiped, owner[u] # NoId
               PROVE  owner'[u] = owner[u]
    OBVIOUS
  <2>1. CASE \E t \in Tasks : Alloc(t)
    <3>1. PICK t \in Tasks : Alloc(t)
      BY <2>1
    <3>2. u <= uidNext /\ uidNext \in Nat /\ u \in Nat /\ owner \in [Uids -> Ids \cup {NoId}]
      BY BoundsAssumption
         DEF OwnerInv, CounterBounds, Typed, TypeOK, DbTyped, HistoryTyped, Uids
    <3>3. owner' = [owner EXCEPT ![uidNext + 1] = ids[t][at[t]]]
      BY <3>1 DEF Alloc
    <3>4. u # uidNext + 1
      BY <3>2
    <3> QED
      BY <3>2, <3>3, <3>4
  <2>2. CASE ~ \E t \in Tasks : Alloc(t)
    BY <2>2, OwnerKept
  <2> QED
    BY <2>1, <2>2
<1> QED
  BY InitOwner, OwnerStep, <1>1, PTL DEF Spec, UidNeverReused

=============================================================================
