-------------------------- MODULE UidPromiseProofs ------------------------
(***************************************************************************)
(* What the UID cache promises, proved of UidCache for any number of tasks,  *)
(* messages and UIDs, with failures anywhere: it implements UidLifecycle,    *)
(* and the answers of update_uids are complete and in ascending order.       *)
(*                                                                         *)
(* For the life cycle a step is seen by what it does to the UIDs that tasks   *)
(* hold and to UID_TO_JMAP: nothing, a task ends, a batch is applied, a UID   *)
(* is taken, or the UID a task holds is written.  A UID that is held names    *)
(* no message yet and is held by one task only.                              *)
(***************************************************************************)
EXTENDS UidCacheProofs, FiniteSetTheorems, WellFoundedInduction

lifeVars == <<uid, uidToJmap, uidNext, wiped>>

\* A step that the life cycle does not see.
Quiet ==
  /\ UNCHANGED lifeVars
  /\ \A k \in Tasks : pc'[k] \in Writing <=> pc[k] \in Writing

\* A closure returns or fails.
Ends(t) ==
  /\ pc'[t] = "idle" /\ uid' = [uid EXCEPT ![t] = 0]
  /\ \A k \in Tasks \ {t} : pc'[k] = pc[k]
  /\ UNCHANGED <<uidToJmap, uidNext, wiped>>

\* A batch is applied.
Applies(t) ==
  /\ pc[t] \notin Writing /\ pc'[t] \notin Writing /\ UNCHANGED uid
  /\ \A k \in Tasks \ {t} : pc'[k] = pc[k]
  /\ uidToJmap' = [u \in Uids |-> IF u \in batch[t].uids THEN NoId ELSE uidToJmap[u]]
  /\ wiped => wiped'
  /\ wiped' \/ uidNext' = uidNext

\* A UID is taken from the counter.
Takes(t) ==
  /\ pc[t] \notin Writing /\ pc'[t] \in Writing
  /\ \A k \in Tasks \ {t} : pc'[k] = pc[k]
  /\ uidNext + 1 \in Uids /\ uidNext' = uidNext + 1
  /\ uid' = [uid EXCEPT ![t] = uidNext + 1]
  /\ UNCHANGED <<uidToJmap, wiped>>

\* The second insert of insert_jmap_id.
Writes(t) ==
  /\ pc[t] \in Writing /\ pc'[t] \notin Writing
  /\ \A k \in Tasks \ {t} : pc'[k] = pc[k]
  /\ uid' = [uid EXCEPT ![t] = 0]
  /\ \E j \in Ids : uidToJmap' = [uidToJmap EXCEPT ![uid[t]] = j]
  /\ UNCHANGED <<uidNext, wiped>>

\* What a task holds.
Held ==
  \A t \in Tasks :
    /\ pc[t] \notin Writing => uid[t] = 0
    /\ ~wiped /\ uid[t] # 0 =>
         /\ uid[t] <= uidNext /\ uidToJmap[uid[t]] = NoId
         /\ \A k \in Tasks \ {t} : uid[k] # uid[t]

\* The steps before the counter, and those that only read, are not seen.
LEMMA QuietSteps ==
  ASSUME Typed, NEW t \in Tasks,
         \/ \E o \in Ops, s \in Lists \cup {<<>>} : Start(t, o, s)
         \/ Query(t) \/ Validity(t) \/ PutValidity(t) \/ (\E u \in Uids : Scan(t, u))
         \/ ScanEnd(t) \/ PutJmap(t) \/ ReadUidNext(t) \/ Lookup(t) \/ LookupDeleted(t)
         \/ Find(t) \/ ScanAll(t) \/ ScanExpired(t)
  PROVE  Quiet
<1> USE DEF Typed, TypeOK, TasksTyped, Quiet, lifeVars, dbVars, envVars, Frame, ReadOnly, Writing
<1>1. ASSUME NEW o \in Ops, NEW s \in Lists \cup {<<>>}, Start(t, o, s) PROVE Quiet
  <2>1. FirstLabel[o] \notin Writing
    BY OpsAssumption DEF AllOps, FirstLabel
  <2> QED
    BY <1>1, <2>1 DEF Start
<1>2. CASE Query(t)
  BY <1>2 DEF Query, Goto
<1>3. CASE Validity(t)
  BY <1>3 DEF Validity, Goto
<1>4. CASE PutValidity(t)
  BY <1>4 DEF PutValidity, Goto
<1>5. CASE \E u \in Uids : Scan(t, u)
  BY <1>5 DEF Scan
<1>6. CASE ScanEnd(t)
  BY <1>6 DEF ScanEnd, Goto
<1>7. CASE PutJmap(t)
  BY <1>7 DEF PutJmap, Goto
<1>8. CASE ReadUidNext(t)
  BY <1>8 DEF ReadUidNext, Goto
<1>9. CASE Lookup(t)
  BY <1>9 DEF Lookup, NextId, Goto
<1>10. CASE LookupDeleted(t)
  BY <1>10 DEF LookupDeleted, NextId, Goto
<1>11. CASE Find(t)
  BY <1>11 DEF Find, NextId, Goto
<1>12. CASE ScanAll(t)
  BY <1>12 DEF ScanAll, Goto
<1>13. CASE ScanExpired(t)
  BY <1>13 DEF ScanExpired, Goto
<1> QED
  BY <1>1, <1>2, <1>3, <1>4, <1>5, <1>6, <1>7, <1>8, <1>9, <1>10, <1>11, <1>12, <1>13

\* Every step is of one of the kinds.
LEMMA Kinds ==
  ASSUME OwnerInv, [Next]_vars
  PROVE  Quiet \/ \E t \in Tasks : Ends(t) \/ Applies(t) \/ Takes(t) \/ Writes(t)
<1>1. CASE Environment
  BY <1>1, EnvironmentKeeps DEF Quiet, lifeVars, dbAndTasks, dbVars, taskVars
<1>2. CASE UNCHANGED vars
  BY <1>2 DEF vars, Quiet, lifeVars, dbVars, taskVars
<1>3. ASSUME NEW t \in Tasks, Return(t) \/ Fail(t) PROVE Ends(t)
  BY <1>3 DEF OwnerInv, Typed, TypeOK, TasksTyped, Return, Fail, Forget, ReadOnly, dbVars, Ends
<1>4. ASSUME NEW t \in Tasks, Apply(t) PROVE Applies(t)
  <2>1. wiped' \/ uidNext' = uidNext
    <3>1. "uid_next" \in batch[t].counters => op[t] \in {"drop", "purge"}
      BY DEF OwnerInv, Shaped
    <3> QED
      BY <1>4, <3>1 DEF Apply
  <2>2. /\ pc[t] \notin Writing /\ pc'[t] \notin Writing
        /\ \A k \in Tasks \ {t} : pc'[k] = pc[k]
    BY <1>4 DEF OwnerInv, Typed, TypeOK, TasksTyped, Apply, Goto, Writing
  <2> QED
    BY <1>4, <2>1, <2>2 DEF Apply, Applies
<1>5. ASSUME NEW t \in Tasks, Alloc(t) PROVE Takes(t)
  BY <1>5, BoundsAssumption
     DEF OwnerInv, Typed, TypeOK, TasksTyped, DbTyped, Alloc, Goto, Takes, Writing, Uids
<1>6. ASSUME NEW t \in Tasks, PutUid(t) \/ PutJmapFails(t) PROVE Writes(t)
  <2>1. pc[t] \in Writing
    BY <1>6 DEF PutUid, PutJmapFails, Writing
  <2>2. ids[t][at[t]] \in Ids
    <3>1. ids[t] \in Seq(Ids) /\ at[t] \in DOMAIN ids[t]
      BY <2>1 DEF OwnerInv, Typed, TypeOK, TasksTyped, Indexed, Writing
    <3> QED
      BY <3>1
  <2>3. pc'[t] \notin Writing /\ \A k \in Tasks \ {t} : pc'[k] = pc[k]
    BY <1>6 DEF OwnerInv, Typed, TypeOK, TasksTyped, PutUid, PutJmapFails, NextId, Goto, Forget, Writing
  <2> QED
    BY <1>6, <2>1, <2>2, <2>3 DEF PutUid, PutJmapFails, Forget, Writes
<1>7. ASSUME NEW t \in Tasks, Step(t)
      PROVE  Quiet \/ Ends(t) \/ Applies(t) \/ Takes(t) \/ Writes(t)
  BY <1>4, <1>5, <1>6, <1>7, QuietSteps DEF Step, OwnerInv
<1> QED
  BY <1>1, <1>2, <1>3, <1>7, QuietSteps DEF Next, OwnerInv

\* Nothing is held at the start.
LEMMA InitHeld == Init => Held
BY DEF Init, Held

\* A UID above the counter names no message.
LEMMA ShownBelow ==
  ASSUME OwnerInv, ~wiped, NEW u \in Uids, uidToJmap[u] # NoId
  PROVE  u <= uidNext
<1>1. uidToJmap[u] \in Ids
  BY DEF OwnerInv, Typed, TypeOK, DbTyped
<1>2. Claim(u, uidToJmap[u])
  BY DEF Claim, DbClaim
<1>3. owner[u] = uidToJmap[u]
  BY <1>1, <1>2 DEF OwnerInv, ClaimsOwned
<1> QED
  BY <1>1, <1>3, NoIdAssumption DEF OwnerInv, CounterBounds

\* Each kind of step leaves every UID with one holder and no message.
LEMMA HeldStep == OwnerInv /\ Held /\ [Next]_vars => Held'
<1> SUFFICES ASSUME OwnerInv, Held, [Next]_vars PROVE Held'
  OBVIOUS
<1>0. /\ uid \in [Tasks -> 0..MaxUid] /\ uidNext \in 0..MaxUid
      /\ uidToJmap \in [Uids -> Ids \cup {NoId}] /\ Uids = 1..MaxUid /\ MaxUid \in Nat
  BY BoundsAssumption DEF OwnerInv, Typed, TypeOK, DbTyped, TasksTyped, Uids
<1>1. CASE Quiet
  BY <1>1 DEF Held, Quiet, lifeVars
<1>2. ASSUME NEW t \in Tasks, Ends(t) PROVE Held'
  BY <1>0, <1>2 DEF Held, Ends, Writing
<1>3. ASSUME NEW t \in Tasks, Applies(t) PROVE Held'
  <2> SUFFICES ASSUME NEW k \in Tasks
               PROVE  /\ pc'[k] \notin Writing => uid'[k] = 0
                      /\ ~wiped' /\ uid'[k] # 0 =>
                           /\ uid'[k] <= uidNext' /\ uidToJmap'[uid'[k]] = NoId
                           /\ \A l \in Tasks \ {k} : uid'[l] # uid'[k]
    BY DEF Held
  <2>1. pc'[k] \notin Writing => uid'[k] = 0
    BY <1>3 DEF Held, Applies
  <2>2. ASSUME ~wiped', uid'[k] # 0 PROVE uidToJmap'[uid'[k]] = NoId
    BY <1>0, <1>3, <2>2 DEF Held, Applies
  <2> QED
    BY <1>3, <2>1, <2>2 DEF Held, Applies
<1>4. ASSUME NEW t \in Tasks, Takes(t) PROVE Held'
  <2>1. ~wiped => uidToJmap[uidNext + 1] = NoId
    BY <1>0, <1>4, ShownBelow DEF Takes
  <2> QED
    BY <1>0, <1>4, <2>1 DEF Held, Takes
<1>5. ASSUME NEW t \in Tasks, Writes(t) PROVE Held'
  BY <1>0, <1>5 DEF Held, Writes
<1> QED
  BY <1>1, <1>2, <1>3, <1>4, <1>5, Kinds

\* The abstract state that the mapping gives, UID by UID.
LEMMA LifeOf ==
  ASSUME NEW u \in Uids
  PROVE  /\ Life[u] = IF u > uidNext THEN "free"
                      ELSE IF uidToJmap[u] # NoId THEN "shown"
                      ELSE IF \E t \in Tasks : uid[t] = u THEN "given" ELSE "gone"
         /\ Life'[u] = IF u > uidNext' THEN "free"
                       ELSE IF uidToJmap'[u] # NoId THEN "shown"
                       ELSE IF \E t \in Tasks : uid'[t] = u THEN "given" ELSE "gone"
BY DEF Life

\* Every UID is free, and names nothing, at the start.
LEMMA InitLifecycle == Init => Lifecycle!LifecycleInit
<1> SUFFICES ASSUME Init PROVE Lifecycle!LifecycleInit
  OBVIOUS
<1>1. \A u \in Uids : u > 0
  BY BoundsAssumption DEF Uids
<1>2. Life = [u \in Uids |-> "free"]
  BY <1>1 DEF Init, Life
<1> QED
  BY <1>2 DEF Init, Lifecycle!LifecycleInit

\* A step of the cache is a step of the life cycle, or one it does not see.
LEMMA LifecycleStep ==
  OwnerInv /\ Held /\ [Next]_vars => [Lifecycle!LifecycleNext]_<<Life, uidToJmap, wiped>>
<1> SUFFICES ASSUME OwnerInv, Held, [Next]_vars, ~wiped'
             PROVE  Lifecycle!LifecycleNext \/ UNCHANGED <<Life, uidToJmap, wiped>>
  BY DEF Lifecycle!LifecycleNext, Lifecycle!Drop
<1>0. /\ uid \in [Tasks -> 0..MaxUid] /\ uidNext \in 0..MaxUid
      /\ uidToJmap \in [Uids -> Ids \cup {NoId}] /\ Uids = 1..MaxUid /\ MaxUid \in Nat
  BY BoundsAssumption DEF OwnerInv, Typed, TypeOK, DbTyped, TasksTyped, Uids
<1>1. CASE Quiet
  BY <1>1 DEF Quiet, lifeVars, Life
<1>2. ASSUME NEW t \in Tasks, Ends(t) PROVE \E gone \in SUBSET Uids : Lifecycle!Retire(gone)
  <2> DEFINE gone == {u \in Uids : u = uid[t]}
  <2>1. /\ uid' = [uid EXCEPT ![t] = 0] /\ uidToJmap' = uidToJmap /\ uidNext' = uidNext
        /\ wiped' = wiped
    BY <1>2 DEF Ends
  <2>2. \A u \in gone : Life[u] = "given" /\ uidToJmap[u] = NoId
    BY <1>0, <2>1, LifeOf DEF Held
  <2>3. \A u \in Uids : Life'[u] = IF u \in gone THEN "gone" ELSE Life[u]
    BY <1>0, <2>1, LifeOf DEF Held
  <2>4. Life' = [u \in Uids |-> IF u \in gone THEN "gone" ELSE Life[u]]
    BY <2>3 DEF Life
  <2>5. uidToJmap' = [u \in Uids |-> IF u \in gone THEN NoId ELSE uidToJmap[u]]
    BY <1>0, <2>1, <2>2
  <2> QED
    BY <2>1, <2>2, <2>4, <2>5 DEF Lifecycle!Retire
<1>3. ASSUME NEW t \in Tasks, Applies(t) PROVE \E gone \in SUBSET Uids : Lifecycle!Retire(gone)
  <2> DEFINE gone == {u \in batch[t].uids \cap Uids : uidToJmap[u] # NoId}
  <2>1. /\ uid' = uid /\ uidNext' = uidNext /\ wiped' = wiped /\ ~wiped
        /\ uidToJmap' = [u \in Uids |-> IF u \in batch[t].uids THEN NoId ELSE uidToJmap[u]]
    <3>1. wiped \in BOOLEAN /\ wiped' \in BOOLEAN
      BY OwnerStep DEF OwnerInv, Typed, TypeOK, HistoryTyped
    <3> QED
      BY <1>3, <3>1 DEF Applies
  <2>2. \A u \in gone : Life[u] = "shown"
    BY <1>0, <2>1, LifeOf, ShownBelow
  <2>3. \A u \in gone : \A k \in Tasks : uid[k] # u
    BY <1>0, <2>1 DEF Held
  <2>4. \A u \in Uids : Life'[u] = IF u \in gone THEN "gone" ELSE Life[u]
    BY <1>0, <2>1, <2>3, LifeOf, ShownBelow
  <2>5. Life' = [u \in Uids |-> IF u \in gone THEN "gone" ELSE Life[u]]
    BY <2>4 DEF Life
  <2>6. uidToJmap' = [u \in Uids |-> IF u \in gone THEN NoId ELSE uidToJmap[u]]
    BY <1>0, <2>1
  <2> QED
    BY <2>1, <2>2, <2>5, <2>6 DEF Lifecycle!Retire
<1>4. ASSUME NEW t \in Tasks, Takes(t) PROVE Lifecycle!Give(uidNext + 1) /\ uidNext + 1 \in Uids
  <2>1. /\ uid' = [uid EXCEPT ![t] = uidNext + 1] /\ uid[t] = 0 /\ uidNext' = uidNext + 1
        /\ uidNext + 1 \in Uids /\ uidToJmap' = uidToJmap /\ wiped' = wiped
    BY <1>4 DEF Takes, Held
  <2>2. Life[uidNext + 1] = "free" /\ uidToJmap[uidNext + 1] = NoId
    BY <1>0, <2>1, LifeOf, ShownBelow
  <2>3. \A u \in Uids : u < uidNext + 1 => Life[u] # "free"
    BY <1>0, LifeOf
  <2>4. \A u \in Uids : Life'[u] = IF u = uidNext + 1 THEN "given" ELSE Life[u]
    BY <1>0, <2>1, <2>2, LifeOf
  <2>5. Life' = [Life EXCEPT ![uidNext + 1] = "given"]
    BY <2>4 DEF Life
  <2> QED
    BY <2>1, <2>2, <2>3, <2>5 DEF Lifecycle!Give
<1>5. ASSUME NEW t \in Tasks, Writes(t)
      PROVE  uid[t] \in Uids /\ \E j \in Ids : Lifecycle!Show(uid[t], j)
  <2>1. PICK j \in Ids : uidToJmap' = [uidToJmap EXCEPT ![uid[t]] = j]
    BY <1>5 DEF Writes
  <2>2. /\ uid' = [uid EXCEPT ![t] = 0] /\ uid[t] \in Uids /\ uidNext' = uidNext
        /\ wiped' = wiped
    BY <1>5 DEF Writes, OwnerInv, Typed, Indexed, Writing
  <2>3. Life[uid[t]] = "given"
    BY <1>0, <2>2, LifeOf DEF Held
  <2>4. \A u \in Uids : Life'[u] = IF u = uid[t] THEN "shown" ELSE Life[u]
    BY <1>0, <2>1, <2>2, LifeOf, NoIdAssumption DEF Held
  <2>5. Life' = [Life EXCEPT ![uid[t]] = "shown"]
    <3>1. Life = [u \in Uids |-> Life[u]] /\ Life' = [u \in Uids |-> Life'[u]]
      BY DEF Life
    <3> QED
      BY <2>4, <3>1
  <2> QED
    BY <2>1, <2>2, <2>3, <2>5 DEF Lifecycle!Show
<1> QED
  BY <1>1, <1>2, <1>3, <1>4, <1>5, Kinds DEF Lifecycle!LifecycleNext

\* The cache implements the life cycle of UIDs.
THEOREM LifecycleRefined == Spec => KeepsLifecycle
BY InitOwner, OwnerStep, InitHeld, HeldStep, InitLifecycle, LifecycleStep, PTL
   DEF Spec, KeepsLifecycle, Lifecycle!LifecycleSpec

-----------------------------------------------------------------------------
(* The answer of update_uids.  Until the scan it is empty; the scan adds the   *)
(* ids at the positions it has met, at keys up to the iterator's; the loop     *)
(* over the new ids adds every position it passes, with a UID that is greater  *)
(* than all before it because the counter is.                                 *)

Before == {"idle", "query", "validity", "put_validity"}
SyncLabels == Before \cup Writing \cup {"scan", "apply", "alloc", "uid_next", "done"}

Filled(t) ==
  LET answered == RangeOf(reply[t].ids) IN
  /\ found[t] \subseteq DOMAIN ids[t]
  /\ pc[t] \in Before => found[t] = {} /\ reply[t].ids = <<>>
  /\ pc[t] \in {"scan", "apply"} => answered = {ids[t][i] : i \in found[t]}
  /\ pc[t] \in {"alloc"} \cup Writing =>
       /\ answered \subseteq RangeOf(ids[t])
       /\ \A i \in DOMAIN ids[t] : i \in found[t] \/ i < at[t] => ids[t][i] \in answered
  /\ pc[t] \in {"uid_next", "done"} => answered = RangeOf(ids[t])

Increasing(us) == \A i, k \in DOMAIN us : i < k => us[i] < us[k]
AllBelow(us, n) == \A i \in DOMAIN us : us[i] < n

Ordered(t) ==
  LET us == reply[t].uids IN
  /\ Increasing(us)
  /\ pc[t] \in Before => us = <<>>
  /\ pc[t] = "scan" => AllBelow(us, at[t] + 1)
  /\ pc[t] \in Writing => AllBelow(us, uid[t])
  /\ pc[t] = "done" => AllBelow(us, reply[t].next)

SyncOk(t) ==
  /\ pc[t] = "idle" => op[t] = "sync"
  /\ op[t] = "sync" => pc[t] \in SyncLabels /\ Filled(t) /\ (~wiped => Ordered(t))
SyncInv == \A t \in Tasks : SyncOk(t)

\* A step of task t leaves the others' locals alone.
OthersStay(t) == OthersSame(t) /\ \A k \in Tasks \ {t} : found'[k] = found[k]

\* Appending to a sequence.
LEMMA Appended ==
  ASSUME NEW S, NEW s \in Seq(S), NEW e \in S
  PROVE  /\ RangeOf(Append(s, e)) = RangeOf(s) \cup {e}
         /\ DOMAIN Append(s, e) = 1..(Len(s) + 1) /\ DOMAIN s = 1..Len(s) /\ Len(s) \in Nat
         /\ \A i \in DOMAIN s : Append(s, e)[i] = s[i]
         /\ Append(s, e)[Len(s) + 1] = e
<1>1. /\ DOMAIN Append(s, e) = 1..(Len(s) + 1) /\ DOMAIN s = 1..Len(s) /\ Len(s) \in Nat
      /\ \A i \in DOMAIN s : Append(s, e)[i] = s[i]
      /\ Append(s, e)[Len(s) + 1] = e
  OBVIOUS
<1> QED
  BY <1>1 DEF RangeOf

\* A greater UID keeps the order.
LEMMA IncreasingAppend ==
  ASSUME NEW us \in Seq(Uids), NEW u \in Uids, Increasing(us), AllBelow(us, u)
  PROVE  Increasing(Append(us, u)) /\ AllBelow(Append(us, u), u + 1)
<1>1. Uids \subseteq Nat
  BY BoundsAssumption DEF Uids
<1>2. \A i \in DOMAIN us : us[i] \in Nat
  <2>1. \A i \in DOMAIN us : us[i] \in Uids
    OBVIOUS
  <2> QED
    BY <1>1, <2>1
<1> QED
  BY <1>1, <1>2, Appended DEF Increasing, AllBelow

\* What Push does to the two lists.
LEMMA PushLists ==
  ASSUME NEW r \in Replies, NEW j \in Ids, NEW u \in Uids
  PROVE  /\ r.ids \in Seq(Ids) /\ r.uids \in Seq(Uids)
         /\ Push(r, j, u).ids = Append(r.ids, j)
         /\ Push(r, j, u).uids = Append(r.uids, u)
BY DEF Push, Replies

\* Every UID in an answer was generated, so the counter has passed it.
LEMMA AnsweredBelow ==
  ASSUME OwnerInv, ~wiped, NEW t \in Tasks, op[t] = "sync"
  PROVE  AllBelow(reply[t].uids, uidNext + 1)
<1> SUFFICES ASSUME NEW i \in DOMAIN reply[t].uids PROVE reply[t].uids[i] < uidNext + 1
  BY DEF AllBelow
<1>1. reply[t].ids \in Seq(Ids) /\ reply[t].uids \in Seq(Uids)
  BY DEF OwnerInv, Typed, TypeOK, TasksTyped, Replies
<1>2. Len(reply[t].ids) = Len(reply[t].uids)
  BY <1>1 DEF OwnerInv, Shaped
<1>3. i \in DOMAIN reply[t].ids /\ reply[t].ids[i] \in Ids /\ reply[t].uids[i] \in Uids
  BY <1>1, <1>2
<1>4. owner[reply[t].uids[i]] = reply[t].ids[i]
  BY <1>3, OwnerImplies DEF UidDesignatesOneMessage
<1>5. reply[t].uids[i] <= uidNext
  BY <1>3, <1>4, NoIdAssumption DEF OwnerInv, CounterBounds
<1> QED
  BY <1>3, <1>5, BoundsAssumption DEF OwnerInv, Typed, TypeOK, DbTyped, Uids

\* Nothing is answered at the start.
LEMMA InitSync == Init => SyncInv
<1> SUFFICES ASSUME Init, NEW t \in Tasks PROVE SyncOk(t)
  BY DEF SyncInv
<1>1. /\ pc[t] = "idle" /\ op[t] = "sync" /\ found[t] = {}
      /\ reply[t].ids = <<>> /\ reply[t].uids = <<>>
  BY DEF Init, NoReply
<1> QED
  BY <1>1 DEF SyncOk, Filled, Ordered, Increasing, Before, SyncLabels, Writing

\* The other tasks keep what they have answered.
LEMMA OthersOk ==
  ASSUME SyncInv, NEW t \in Tasks, OthersStay(t), wiped => wiped', NEW k \in Tasks \ {t}
  PROVE  SyncOk(k)'
<1>1. /\ pc'[k] = pc[k] /\ op'[k] = op[k] /\ ids'[k] = ids[k] /\ at'[k] = at[k]
      /\ found'[k] = found[k] /\ uid'[k] = uid[k] /\ reply'[k] = reply[k]
  BY DEF OthersStay, OthersSame
<1>2. SyncOk(k)
  BY DEF SyncInv
<1> QED
  BY <1>1, <1>2 DEF SyncOk, Filled, Ordered

\* A task that starts has answered nothing.
LEMMA StartSync ==
  ASSUME OwnerInv, SyncInv, NEW t \in Tasks, NEW o \in Ops, NEW s \in Lists \cup {<<>>}, Start(t, o, s)
  PROVE  OthersStay(t) /\ SyncOk(t)'
<1> USE DEF OwnerInv, Typed, TypeOK, TasksTyped
<1>1. OthersStay(t)
  BY DEF Start, OthersStay, OthersSame
<1>2. /\ op'[t] = o /\ pc'[t] = FirstLabel[o] /\ found'[t] = found[t] /\ reply'[t] = reply[t]
      /\ pc[t] = "idle" /\ o \in AllOps
  BY OpsAssumption DEF Start
<1>3. found[t] = {} /\ reply[t].ids = <<>> /\ reply[t].uids = <<>>
  BY <1>2 DEF SyncInv, SyncOk, Filled, Shaped, NoReply, Before
<1>4. FirstLabel[o] # "idle" /\ (o = "sync" => FirstLabel[o] = "query")
  BY <1>2 DEF FirstLabel, AllOps
<1> QED
  BY <1>1, <1>2, <1>3, <1>4
     DEF SyncOk, Filled, Ordered, Increasing, AllBelow, Before, SyncLabels, Writing

\* A task that ends has answered nothing.
LEMMA ForgetSync ==
  ASSUME OwnerInv, NEW t \in Tasks, Forget(t)
  PROVE  OthersStay(t) /\ SyncOk(t)'
<1>1. OthersStay(t)
  BY DEF OwnerInv, Typed, TypeOK, TasksTyped, Forget, OthersStay, OthersSame
<1>2. /\ op'[t] = "sync" /\ pc'[t] = "idle" /\ found'[t] = {} /\ reply'[t].ids = <<>>
      /\ reply'[t].uids = <<>>
  BY DEF OwnerInv, Typed, TypeOK, TasksTyped, Forget, NoReply
<1> QED
  BY <1>1, <1>2 DEF SyncOk, Filled, Ordered, Increasing, AllBelow, Before, SyncLabels, Writing

\* The steps before the scan answer nothing.
LEMMA BeforeSync ==
  ASSUME OwnerInv, SyncInv, NEW t \in Tasks, Query(t) \/ Validity(t) \/ PutValidity(t)
  PROVE  OthersStay(t) /\ SyncOk(t)'
<1> USE DEF OwnerInv, Typed, TypeOK, TasksTyped
<1>1. OthersStay(t)
  BY DEF Query, Validity, PutValidity, Goto, Frame, OthersStay, OthersSame
<1>2. /\ op'[t] = op[t] /\ found'[t] = found[t] /\ reply'[t].ids = reply[t].ids
      /\ reply'[t].uids = reply[t].uids
  BY DEF Query, Validity, PutValidity, Frame, Replies
<1>3. pc[t] \in Before /\ pc[t] # "idle"
  BY DEF Query, Validity, PutValidity, Before
<1>4. pc'[t] # "idle" /\ (op[t] = "sync" => pc'[t] \in {"query", "validity", "put_validity", "scan"})
  BY DEF Query, Validity, PutValidity, Goto
<1>5. op[t] = "sync" => found[t] = {} /\ reply[t].ids = <<>> /\ (~wiped => reply[t].uids = <<>>)
  BY <1>3 DEF SyncInv, SyncOk, Filled, Ordered
<1>6. wiped' = wiped
  BY DEF Query, Validity, PutValidity, ReadOnly
<1>7. op[t] = "sync" => SyncOk(t)'
  BY <1>2, <1>4, <1>5, <1>6
     DEF SyncOk, Filled, Ordered, Increasing, AllBelow, RangeOf, Before, SyncLabels, Writing
<1> QED
  BY <1>1, <1>2, <1>4, <1>7 DEF SyncOk

\* The labels of the other operations.
LEMMA OtherSync ==
  ASSUME OwnerInv, SyncInv, NEW t \in Tasks,
         Lookup(t) \/ LookupDeleted(t) \/ Find(t) \/ ScanAll(t) \/ ScanExpired(t)
  PROVE  OthersStay(t) /\ SyncOk(t)'
<1> USE DEF OwnerInv, Typed, TypeOK, TasksTyped
<1>1. OthersStay(t)
  <2> USE DEF Goto, NextId, Frame, OthersStay, OthersSame
  <2>1. CASE Lookup(t)
    BY <2>1 DEF Lookup, Answer
  <2>2. CASE LookupDeleted(t)
    BY <2>2 DEF LookupDeleted
  <2>3. CASE Find(t)
    BY <2>3 DEF Find
  <2>4. CASE ScanAll(t)
    BY <2>4 DEF ScanAll
  <2>5. CASE ScanExpired(t)
    BY <2>5 DEF ScanExpired
  <2> QED
    BY <2>1, <2>2, <2>3, <2>4, <2>5
<1>2. pc[t] \in {"lookup", "lookup_deleted", "find", "scan_all", "scan_expired"}
  BY DEF Lookup, LookupDeleted, Find, ScanAll, ScanExpired
<1>3. op[t] # "sync"
  BY <1>2 DEF SyncInv, SyncOk, SyncLabels, Before, Writing
<1>4. op'[t] = op[t]
  BY DEF Lookup, LookupDeleted, Find, ScanAll, ScanExpired, Frame
<1>5. pc'[t] # "idle"
  BY DEF Lookup, LookupDeleted, Find, ScanAll, ScanExpired, NextId, Goto
<1> QED
  BY <1>1, <1>3, <1>4, <1>5 DEF SyncOk

\* A set of numbers that is not empty has a least element.
LEMMA LeastNat ==
  ASSUME NEW T \in SUBSET Nat, T # {}
  PROVE  \E x \in T : \A y \in T : x <= y
<1>1. \E x \in T : \A y \in T : ~(<<y, x>> \in OpToRel(<, Nat))
  BY NatLessThanWellFounded, WFMin
<1>2. \A x \in T, y \in T : <<y, x>> \in OpToRel(<, Nat) <=> y < x
  BY DEF OpToRel
<1>3. \E x \in T : \A y \in T : ~(y < x)
  BY <1>1, <1>2, Zenon
<1> QED
  BY <1>3

\* A set of positions that is not empty has a last one.
LEMMA LastHit ==
  ASSUME NEW n \in Nat, NEW hits \in SUBSET (1..n), hits # {}
  PROVE  {i \in hits : \A k \in hits : k <= i} # {}
<1> DEFINE T == {m \in Nat : \E i \in hits : m = n - i}
<1>1. T # {}
  <2>1. PICK i \in hits : TRUE
    OBVIOUS
  <2>2. i \in Nat /\ n - i \in Nat
    BY <2>1
  <2> QED
    BY <2>2
<1>2. PICK x \in T : \A y \in T : x <= y
  BY <1>1, LeastNat
<1>3. PICK h \in hits : x = n - h
  BY <1>2
<1>4. ASSUME NEW k \in hits PROVE k <= h
  <2>1. n - k \in T
    OBVIOUS
  <2>2. n - h <= n - k /\ h \in Int /\ k \in Int
    BY <1>2, <1>3, <2>1
  <2> QED
    BY <2>2
<1> QED
  BY <1>4

\* The scan answers what it meets, in the order of the keys.
LEMMA ScanSync ==
  ASSUME OwnerInv, SyncInv, NEW t \in Tasks, NEW u \in Uids, Scan(t, u)
  PROVE  OthersStay(t) /\ SyncOk(t)'
<1> USE DEF OwnerInv, Typed, TypeOK, TasksTyped, DbTyped
<1> DEFINE j == uidToJmap[u]
           hits == {i \in DOMAIN ids[t] : ids[t][i] = j}
           last == {i \in hits : \A k \in hits : k <= i}
<1>1. OthersStay(t)
  BY DEF Scan, Answer, Frame, OthersStay, OthersSame
<1>2. /\ pc[t] = "scan" /\ pc'[t] = "scan" /\ op'[t] = op[t] /\ ids'[t] = ids[t]
      /\ at'[t] = u /\ u > at[t] /\ wiped' = wiped /\ j \in Ids
  BY DEF Scan, NextKey, Frame, ReadOnly
<1>3. op[t] = "sync"
  BY <1>2 DEF Shaped
<1>4. /\ found[t] \subseteq DOMAIN ids[t]
      /\ RangeOf(reply[t].ids) = {ids[t][i] : i \in found[t]}
      /\ ~wiped => Increasing(reply[t].uids) /\ AllBelow(reply[t].uids, at[t] + 1)
  BY <1>2, <1>3 DEF SyncInv, SyncOk, Filled, Ordered
<1>5. Uids \subseteq Nat /\ at[t] \in Nat /\ reply[t] \in Replies
      /\ ids[t] \in Seq(Ids) /\ reply[t].uids \in Seq(Uids) /\ reply[t].ids \in Seq(Ids)
  BY BoundsAssumption, SMTT(30) DEF Uids, Replies
<1>6. ~wiped => AllBelow(reply[t].uids, u)
  <2>1. \A i \in DOMAIN reply[t].uids : reply[t].uids[i] \in Uids
    BY <1>5
  <2> QED
    BY <1>2, <1>4, <1>5, <2>1 DEF AllBelow
<1>7. CASE /\ reply'[t] = Push(reply[t], j, u) /\ j \in Remaining(t)
           /\ found'[t] = found[t] \cup last
  <2>1. reply'[t].ids = Append(reply[t].ids, j) /\ reply'[t].uids = Append(reply[t].uids, u)
    BY <1>2, <1>5, <1>7, PushLists
  <2>2. RangeOf(reply'[t].ids) = RangeOf(reply[t].ids) \cup {j}
    BY <1>2, <1>5, <2>1, Appended
  <2>3. last # {} /\ last \subseteq hits
    <3>1. j \in RangeOf(ids[t])
      BY <1>7 DEF Remaining
    <3>2. DOMAIN ids[t] = 1..Len(ids[t]) /\ Len(ids[t]) \in Nat
      BY <1>5
    <3>3. hits # {} /\ hits \in SUBSET (1..Len(ids[t]))
      BY <3>1, <3>2 DEF RangeOf
    <3> HIDE DEF hits
    <3> QED
      BY <3>2, <3>3, LastHit
  <2>4. {ids[t][i] : i \in last} = {j}
    BY <2>3
  <2>5. Filled(t)'
    BY <1>2, <1>4, <1>7, <2>2, <2>3, <2>4 DEF Filled, Before, Writing
  <2>6. ~wiped' => Ordered(t)'
    BY <1>2, <1>4, <1>5, <1>6, <2>1, IncreasingAppend DEF Ordered, Before, Writing
  <2> QED
    BY <1>1, <1>2, <2>5, <2>6 DEF SyncOk, SyncLabels
<1>8. CASE reply'[t] = reply[t] /\ found'[t] = found[t]
  <2>1. Filled(t)'
    BY <1>2, <1>4, <1>8 DEF Filled, Before, Writing
  <2>2. ~wiped => AllBelow(reply[t].uids, u + 1)
    <3> SUFFICES ASSUME ~wiped, NEW i \in DOMAIN reply[t].uids PROVE reply[t].uids[i] < u + 1
      BY DEF AllBelow
    <3>1. reply[t].uids[i] \in Uids
      BY <1>5
    <3>2. reply[t].uids[i] < u
      BY <1>6 DEF AllBelow
    <3>3. reply[t].uids[i] \in Nat /\ u \in Nat
      BY <1>5, <3>1
    <3> HIDE DEF OwnerInv
    <3> QED
      BY <3>2, <3>3
  <2>3. ~wiped' => Ordered(t)'
    BY <1>2, <1>4, <1>8, <2>2 DEF Ordered, Before, Writing
  <2> QED
    BY <1>1, <1>2, <2>1, <2>3 DEF SyncOk, SyncLabels
<1> QED
  BY <1>7, <1>8 DEF Scan, Answer

\* The end of the scan, and the batch: what is not met remains to be done.
LEMMA ApplySync ==
  ASSUME OwnerInv, SyncInv, NEW t \in Tasks, ScanEnd(t) \/ Apply(t)
  PROVE  OthersStay(t) /\ SyncOk(t)'
<1>a. /\ TasksTyped /\ ids[t] \in Seq(Ids) /\ DOMAIN ids[t] \in SUBSET Nat
  BY DEF OwnerInv, Typed, TypeOK, TasksTyped
<1>1. OthersStay(t)
  <2>1. CASE ScanEnd(t)
    BY <1>a, <2>1 DEF TasksTyped, ScanEnd, Goto, Frame, OthersStay, OthersSame
  <2>2. CASE Apply(t)
    <3>1. \A k \in Tasks \ {t} : pc'[k] = pc[k] /\ at'[k] = at[k]
      BY <1>a, <2>2 DEF TasksTyped, Apply, Goto, GoToFirst
    <3>2. \A k \in Tasks \ {t} :
            /\ op'[k] = op[k] /\ ids'[k] = ids[k] /\ batch'[k] = batch[k] /\ uid'[k] = uid[k]
            /\ reply'[k] = reply[k] /\ found'[k] = found[k]
      BY <1>a, <2>2 DEF TasksTyped, Apply, Frame
    <3> QED
      BY <3>1, <3>2 DEF OthersStay, OthersSame
  <2> QED
    BY <2>1, <2>2
<1>2. /\ op'[t] = op[t] /\ ids'[t] = ids[t] /\ found'[t] = found[t] /\ reply'[t] = reply[t]
      /\ wiped => wiped'
  <2>1. CASE ScanEnd(t)
    BY <2>1 DEF ScanEnd, Frame, ReadOnly
  <2>2. CASE Apply(t)
    BY <2>2 DEF Apply, Frame
  <2> QED
    BY <2>1, <2>2
<1>3. CASE op[t] # "sync"
  <2>1. pc'[t] # "idle"
    BY <1>a DEF TasksTyped, ScanEnd, Apply, Goto
  <2> QED
    BY <1>1, <1>2, <1>3, <2>1 DEF SyncOk
<1>4. CASE op[t] = "sync"
  <2>1. /\ pc[t] \in {"scan", "apply"} /\ found[t] \subseteq DOMAIN ids[t]
        /\ RangeOf(reply[t].ids) = {ids[t][i] : i \in found[t]}
        /\ ~wiped => Increasing(reply[t].uids)
    BY <1>4 DEF ScanEnd, Apply, SyncInv, SyncOk, Filled, Ordered
  <2>2. CASE pc'[t] = "apply"
    BY <1>1, <1>2, <1>4, <2>1, <2>2 DEF SyncOk, SyncLabels, Filled, Ordered, Before, Writing
  <2>3. CASE pc'[t] = "uid_next" /\ Remaining(t) = {}
    <3>1. RangeOf(reply[t].ids) = RangeOf(ids[t])
      BY <2>1, <2>3 DEF Remaining, RangeOf
    <3> QED
      BY <1>1, <1>2, <1>4, <2>1, <2>3, <3>1
         DEF SyncOk, SyncLabels, Filled, Ordered, Before, Writing
  <2>4. CASE pc'[t] = "alloc" /\ GoToFirst(t, Unfound(t, 0))
    <3>1. PICK i \in Unfound(t, 0) :
            (\A k \in Unfound(t, 0) : i <= k) /\ at' = [at EXCEPT ![t] = i]
      BY <2>4 DEF GoToFirst
    <3>2. at'[t] = i /\ i \in Nat
      BY <1>a, <3>1 DEF TasksTyped, Unfound
    <3>3. ASSUME NEW k \in DOMAIN ids[t], k < i PROVE k \in found[t]
      <4>1. k \in Nat /\ k > 0
        BY <1>a
      <4> QED
        BY <3>1, <3>2, <3>3, <4>1 DEF Unfound
    <3>4. Filled(t)'
      BY <1>2, <2>1, <2>4, <3>2, <3>3 DEF Filled, RangeOf, Before, Writing
    <3> QED
      BY <1>1, <1>2, <1>4, <2>1, <2>4, <3>4 DEF SyncOk, SyncLabels, Ordered, Before, Writing
  <2> QED
    BY <1>a, <1>4, <2>2, <2>3, <2>4 DEF TasksTyped, ScanEnd, Apply, Goto
<1> QED
  BY <1>3, <1>4

\* The counter is above all that was answered; the first insert and the read of
\* the counter leave the lists.
LEMMA CounterSync ==
  ASSUME OwnerInv, SyncInv, NEW t \in Tasks, Alloc(t) \/ PutJmap(t) \/ ReadUidNext(t)
  PROVE  OthersStay(t) /\ SyncOk(t)'
<1>a. TasksTyped /\ uidNext \in Nat
  BY BoundsAssumption DEF OwnerInv, Typed, TypeOK, DbTyped
<1>1. OthersStay(t)
  BY <1>a DEF TasksTyped, Alloc, PutJmap, ReadUidNext, Goto, Frame, OthersStay, OthersSame
<1>2. /\ op'[t] = op[t] /\ ids'[t] = ids[t] /\ found'[t] = found[t] /\ at'[t] = at[t]
      /\ reply'[t].ids = reply[t].ids /\ reply'[t].uids = reply[t].uids
      /\ wiped' = wiped
  BY <1>a DEF TasksTyped, Alloc, PutJmap, ReadUidNext, Frame, ReadOnly, Replies
<1>3. \/ pc[t] = "alloc" /\ pc'[t] = "put_jmap" /\ uid'[t] = uidNext + 1
      \/ pc[t] = "put_jmap" /\ pc'[t] = "put_uid" /\ uid'[t] = uid[t]
      \/ pc[t] = "uid_next" /\ pc'[t] = "done" /\ reply'[t].next = uidNext + 1
  BY <1>a DEF TasksTyped, Alloc, PutJmap, ReadUidNext, Goto, Replies
<1>4. CASE op[t] # "sync"
  BY <1>1, <1>2, <1>3, <1>4 DEF SyncOk
<1>5. CASE op[t] = "sync"
  <2>1. Filled(t) /\ (~wiped => Ordered(t) /\ AllBelow(reply[t].uids, uidNext + 1))
    BY <1>5, AnsweredBelow DEF SyncInv, SyncOk
  <2>2. Filled(t)'
    BY <1>2, <1>3, <2>1 DEF Filled, Before, Writing
  <2>3. ~wiped' => Ordered(t)'
    BY <1>2, <1>3, <2>1 DEF Ordered, Before, Writing
  <2> QED
    BY <1>1, <1>2, <1>3, <1>5, <2>2, <2>3 DEF SyncOk, SyncLabels, Writing
<1> QED
  BY <1>4, <1>5

\* The second insert answers the id at the position that the loop is at.
LEMMA PutUidSync ==
  ASSUME OwnerInv, SyncInv, NEW t \in Tasks, PutUid(t)
  PROVE  OthersStay(t) /\ SyncOk(t)'
<1>a. /\ TasksTyped /\ ids[t] \in Seq(Ids) /\ DOMAIN ids[t] \in SUBSET Nat /\ reply[t] \in Replies
      /\ at[t] \in DOMAIN ids[t] /\ uid[t] \in Uids /\ pc[t] = "put_uid"
  BY DEF OwnerInv, Typed, TypeOK, TasksTyped, Indexed, PutUid
<1>b. ids[t][at[t]] \in Ids
  BY <1>a
<1>1. OthersStay(t)
  <2>1. \A k \in Tasks \ {t} : pc'[k] = pc[k] /\ at'[k] = at[k]
    BY <1>a DEF TasksTyped, PutUid, NextId, Goto, GoToFirst
  <2>2. \A k \in Tasks \ {t} :
          /\ op'[k] = op[k] /\ ids'[k] = ids[k] /\ batch'[k] = batch[k] /\ uid'[k] = uid[k]
          /\ reply'[k] = reply[k] /\ found'[k] = found[k]
    BY <1>a DEF TasksTyped, PutUid, Answer, Frame
  <2> QED
    BY <2>1, <2>2 DEF OthersStay, OthersSame
<1>2. /\ op'[t] = op[t] /\ ids'[t] = ids[t] /\ found'[t] = found[t] /\ wiped' = wiped
      /\ reply'[t] = Push(reply[t], ids[t][at[t]], uid[t])
  <2>1. reply' = [reply EXCEPT ![t] = Push(@, ids[t][at[t]], uid[t])]
    BY DEF PutUid, Answer
  <2> QED
    BY <1>a, <2>1 DEF TasksTyped, PutUid, Frame
<1>3. /\ reply[t].ids \in Seq(Ids) /\ reply[t].uids \in Seq(Uids)
      /\ reply'[t].ids = Append(reply[t].ids, ids[t][at[t]])
      /\ reply'[t].uids = Append(reply[t].uids, uid[t])
  <2> DEFINE pushed == Push(reply[t], ids[t][at[t]], uid[t])
  <2>1. /\ reply[t].ids \in Seq(Ids) /\ reply[t].uids \in Seq(Uids)
        /\ pushed.ids = Append(reply[t].ids, ids[t][at[t]])
        /\ pushed.uids = Append(reply[t].uids, uid[t])
    BY <1>a, <1>b, PushLists, ZenonT(40)
  <2> HIDE DEF pushed
  <2>2. reply'[t] = pushed
    BY <1>2 DEF pushed
  <2> QED
    BY <2>1, <2>2
<1>4. CASE op[t] # "sync"
  <2>1. pc'[t] # "idle"
    BY <1>a DEF TasksTyped, PutUid, NextId, Goto
  <2> QED
    BY <1>1, <1>2, <1>4, <2>1 DEF SyncOk
<1>5. CASE op[t] = "sync"
  <2>1. /\ found[t] \subseteq DOMAIN ids[t] /\ RangeOf(reply[t].ids) \subseteq RangeOf(ids[t])
        /\ \A i \in DOMAIN ids[t] :
             i \in found[t] \/ i < at[t] => ids[t][i] \in RangeOf(reply[t].ids)
        /\ ~wiped => Increasing(reply[t].uids) /\ AllBelow(reply[t].uids, uid[t])
    BY <1>a, <1>5 DEF SyncInv, SyncOk, Filled, Ordered, Writing
  <2>2. RangeOf(reply'[t].ids) = RangeOf(reply[t].ids) \cup {ids[t][at[t]]}
    BY <1>b, <1>3, Appended
  <2>3. ids[t][at[t]] \in RangeOf(ids[t])
    BY <1>a DEF RangeOf
  <2>4. ~wiped => Increasing(reply'[t].uids)
    BY <1>a, <1>3, <2>1, IncreasingAppend
  <2>5. \A i \in DOMAIN ids[t] :
          i \in found[t] \/ i < at[t] \/ i = at[t] => ids[t][i] \in RangeOf(reply'[t].ids)
    BY <2>1, <2>2
  <2>6. CASE pc'[t] = "uid_next" /\ Unfound(t, at[t]) = {}
    <3>1. \A i \in DOMAIN ids[t] : i \in found[t] \/ i < at[t] \/ i = at[t]
      BY <1>a, <2>6 DEF Unfound
    <3>2. RangeOf(reply'[t].ids) = RangeOf(ids[t])
      <4>1. RangeOf(ids[t]) \subseteq RangeOf(reply'[t].ids)
        BY <2>5, <3>1 DEF RangeOf
      <4> QED
        BY <2>1, <2>2, <2>3, <4>1
    <3>3. Filled(t)'
      BY <1>2, <2>1, <2>6, <3>2 DEF Filled, Before, Writing
    <3> QED
      BY <1>1, <1>2, <1>5, <2>4, <2>6, <3>3 DEF SyncOk, SyncLabels, Ordered, Before, Writing
  <2>7. CASE pc'[t] = "alloc" /\ GoToFirst(t, Unfound(t, at[t]))
    <3>1. PICK i \in Unfound(t, at[t]) :
            (\A k \in Unfound(t, at[t]) : i <= k) /\ at' = [at EXCEPT ![t] = i]
      BY <2>7 DEF GoToFirst
    <3>2. at'[t] = i /\ i \in Nat
      BY <1>a, <3>1 DEF TasksTyped, Unfound
    <3>3. ASSUME NEW k \in DOMAIN ids[t], k < i PROVE k \in found[t] \/ k < at[t] \/ k = at[t]
      <4>1. k \in Nat /\ at[t] \in Nat
        BY <1>a
      <4> QED
        BY <3>1, <3>2, <3>3, <4>1 DEF Unfound
    <3>4. Filled(t)'
      BY <1>2, <2>1, <2>2, <2>3, <2>5, <2>7, <3>2, <3>3 DEF Filled, Before, Writing
    <3> QED
      BY <1>1, <1>2, <1>5, <2>4, <2>7, <3>4 DEF SyncOk, SyncLabels, Ordered, Before, Writing
  <2> QED
    BY <1>a, <1>5, <2>6, <2>7 DEF TasksTyped, PutUid, Goto
<1> QED
  BY <1>4, <1>5

\* Every step keeps the answers as they should be.
LEMMA SyncStep == OwnerInv /\ SyncInv /\ [Next]_vars => SyncInv'
<1> SUFFICES ASSUME OwnerInv, SyncInv, [Next]_vars PROVE SyncInv'
  OBVIOUS
<1>1. wiped => wiped'
  BY Kinds DEF Quiet, lifeVars, Ends, Applies, Takes, Writes
<1>2. CASE Environment \/ UNCHANGED vars
  <2>1. UNCHANGED <<taskVars, wiped>>
    BY <1>2, EnvironmentKeeps DEF dbAndTasks, vars
  <2> SUFFICES ASSUME NEW k \in Tasks PROVE SyncOk(k)'
    BY DEF SyncInv
  <2>2. SyncOk(k)
    BY DEF SyncInv
  <2>3. /\ pc' = pc /\ op' = op /\ ids' = ids /\ at' = at /\ found' = found /\ uid' = uid
        /\ reply' = reply /\ wiped' = wiped
    BY <2>1 DEF taskVars
  <2> QED
    BY <2>2, <2>3 DEF SyncOk, Filled, Ordered
<1>3. ASSUME NEW t \in Tasks, OthersStay(t), SyncOk(t)' PROVE SyncInv'
  BY <1>1, <1>3, OthersOk DEF SyncInv
<1>4. ASSUME NEW t \in Tasks, NEW o \in Ops, NEW s \in Lists \cup {<<>>}, Start(t, o, s)
      PROVE  SyncInv'
  BY <1>3, <1>4, StartSync
<1>5. ASSUME NEW t \in Tasks, Return(t) \/ Fail(t) \/ PutJmapFails(t) PROVE SyncInv'
  BY <1>3, <1>5, ForgetSync DEF Return, Fail, PutJmapFails
<1>6. ASSUME NEW t \in Tasks, Step(t) PROVE SyncInv'
  <2>1. CASE PutJmapFails(t)
    BY <1>5, <2>1
  <2>2. CASE ~PutJmapFails(t)
    <3>1. OthersStay(t) /\ SyncOk(t)'
      BY <1>6, <2>2, BeforeSync, ScanSync, ApplySync, CounterSync, PutUidSync, OtherSync DEF Step
    <3> QED
      BY <1>3, <3>1
  <2> QED
    BY <2>1, <2>2
<1> QED
  BY <1>2, <1>4, <1>5, <1>6 DEF Next

\* update_uids answers in ascending UID order, below the UIDNEXT it reports.
THEOREM AscendingUidsAlways == Spec => []AscendingUids
<1>1. SyncInv => AscendingUids
  BY DEF SyncInv, SyncOk, Ordered, Increasing, AllBelow, AscendingUids
<1> QED
  BY <1>1, InitOwner, OwnerStep, InitSync, SyncStep, PTL DEF Spec

\* update_uids answers exactly the messages it was given, whatever other tasks
\* insert and remove under its iterator.
THEOREM CompleteReplyAlways == Spec => []CompleteReply
<1>1. SyncInv => CompleteReply
  BY DEF SyncInv, SyncOk, Filled, CompleteReply
<1> QED
  BY <1>1, InitOwner, OwnerStep, InitSync, SyncStep, PTL DEF Spec


-----------------------------------------------------------------------------
(***************************************************************************)
(* What the UID cache keeps when operations on a mailbox come one after      *)
(* another (Serial), for any number of messages, UIDs and operations and any *)
(* failures; with two tasks at once none of it holds.                        *)
(*                                                                         *)
(* Only the keys of a mailbox that was destroyed are removed as a whole: a    *)
(* purge of one that is not yet created finds nothing.  With lists that fit   *)
(* a page, the two maps agree and update_uids removes no message that is      *)
(* there all along.                                                          *)
(***************************************************************************)

\* One task, that is, one operation at a time.
Serial == \A t, k \in Tasks : t = k

NoRepeat(s) == \A i, k \in DOMAIN s : s[i] = s[k] => i = k

MailboxInv ==
  /\ NoRepeat(mailbox)
  /\ phase # "live" => mailbox = <<>>
  /\ \A t \in Tasks : present[t] \subseteq RangeOf(mailbox)

DbEmpty ==
  /\ \A j \in Ids : jmapToUid[j] = 0
  /\ \A u \in Uids : uidToJmap[u] = NoId
  /\ uidNext = 0 /\ uidValidity = 0

\* A mailbox that was never created has no keys, and a task that wipes one which
\* is not destroyed found none.
Purging ==
  /\ wiped => phase = "destroyed"
  /\ phase = "absent" => DbEmpty /\ \A t \in Tasks : pc[t] = "idle" \/ op[t] \notin {"sync", "add"}
  /\ \A t \in Tasks : op[t] \in {"drop", "purge"} /\ phase # "destroyed" =>
       DbEmpty /\ batch[t].jmap = {} /\ batch[t].uids = {} /\ batch[t].counters = {}

-----------------------------------------------------------------------------
(* The mailbox on the JMAP server. *)

\* The end of a list.
LEMMA Later ==
  ASSUME NEW s \in Seq(Ids), NEW p \in 0..Len(s)
  PROVE  LET c == SubSeq(s, p + 1, Len(s)) IN
         c \in Seq(Ids) /\ Len(c) = Len(s) - p /\ \A i \in 1..(Len(s) - p) : c[i] = s[p + i]
<1>1. /\ p \in Nat /\ Len(s) \in Nat /\ p <= Len(s)
      /\ \A i \in (p + 1)..Len(s) : s[i] \in Ids
  OBVIOUS
<1> DEFINE c == SubSeq(s, p + 1, Len(s))
<1>2. /\ c \in Seq(Ids) /\ Len(c) = IF p + 1 <= Len(s) THEN Len(s) - (p + 1) + 1 ELSE 0
      /\ \A i \in 1..(Len(s) - (p + 1) + 1) : c[i] = s[(p + 1) + i - 1]
  BY <1>1, SubSeqProperties
<1> HIDE DEF c
<1>3. \A i \in 1..(Len(s) - p) : c[i] = s[p + i]
  <2> SUFFICES ASSUME NEW i \in 1..(Len(s) - p) PROVE c[i] = s[p + i]
    OBVIOUS
  <2>1. i \in 1..(Len(s) - (p + 1) + 1) /\ (p + 1) + i - 1 = p + i
    BY <1>1
  <2> QED
    BY <1>2, <2>1
<1> QED
  BY <1>1, <1>2, <1>3 DEF c

\* A message put anywhere into a list without repetitions.
LEMMA Inserted ==
  ASSUME NEW s \in Seq(Ids), NEW j \in Ids, NEW p \in 0..Len(s), NoRepeat(s), j \notin RangeOf(s)
  PROVE  LET r == SubSeq(s, 1, p) \o <<j>> \o SubSeq(s, p + 1, Len(s)) IN
         NoRepeat(r) /\ RangeOf(s) \subseteq RangeOf(r)
<1> DEFINE r == SubSeq(s, 1, p) \o <<j>> \o SubSeq(s, p + 1, Len(s))
<1>1. /\ p \in Nat /\ Len(s) \in Nat /\ p <= Len(s) /\ DOMAIN s = 1..Len(s)
      /\ \A i \in 1..Len(s) : s[i] \in Ids
  OBVIOUS
<1>2. /\ DOMAIN r = 1..(Len(s) + 1)
      /\ \A i \in 1..(Len(s) + 1) :
           r[i] = IF i <= p THEN s[i] ELSE IF i = p + 1 THEN j ELSE s[i - 1]
  <2> DEFINE a == SubSeq(s, 1, p)
             b == a \o <<j>>
             c == SubSeq(s, p + 1, Len(s))
  <2>1. a \in Seq(Ids) /\ Len(a) = p /\ \A i \in 1..p : a[i] = s[i]
    BY <1>1
  <2>2. c \in Seq(Ids) /\ Len(c) = Len(s) - p /\ \A i \in 1..(Len(s) - p) : c[i] = s[p + i]
    BY <1>1, Later
  <2> HIDE DEF a, c
  <2>3. b \in Seq(Ids) /\ Len(b) = p + 1 /\ \A i \in 1..(p + 1) : b[i] = IF i <= p THEN s[i] ELSE j
    BY <1>1, <2>1
  <2>4. r = b \o c
    BY DEF a, c
  <2> HIDE DEF b
  <2>5. /\ DOMAIN (b \o c) = 1..(Len(s) + 1)
        /\ \A i \in 1..(Len(s) + 1) : (b \o c)[i] = IF i <= p + 1 THEN b[i] ELSE c[i - (p + 1)]
    <3>1. Len(b) + Len(c) = Len(s) + 1
      BY <1>1, <2>2, <2>3
    <3> QED
      BY <2>2, <2>3, <3>1, ConcatProperties
  <2>6. ASSUME NEW i \in 1..(Len(s) + 1), ~(i <= p + 1) PROVE c[i - (p + 1)] = s[i - 1]
    <3>1. i - (p + 1) \in 1..(Len(s) - p) /\ p + (i - (p + 1)) = i - 1
      BY <1>1, <2>6
    <3> QED
      BY <2>2, <3>1
  <2>7. ASSUME NEW i \in 1..(Len(s) + 1)
        PROVE  (b \o c)[i] = IF i <= p THEN s[i] ELSE IF i = p + 1 THEN j ELSE s[i - 1]
    <3>1. CASE i <= p + 1
      <4>1. i \in 1..(p + 1)
        BY <1>1, <3>1
      <4> QED
        BY <1>1, <2>3, <2>5, <3>1, <4>1
    <3>2. CASE ~(i <= p + 1)
      BY <1>1, <2>5, <2>6, <3>2
    <3> QED
      BY <3>1, <3>2
  <2> QED
    BY <2>4, <2>5, <2>7
<1> HIDE DEF r
<1>3. NoRepeat(r)
  BY <1>1, <1>2 DEF NoRepeat, RangeOf
<1>4. ASSUME NEW i \in 1..Len(s) PROVE \E k \in DOMAIN r : r[k] = s[i]
  <2>1. CASE i <= p
    BY <1>1, <1>2, <2>1
  <2>2. CASE ~(i <= p)
    <3>1. i + 1 \in DOMAIN r /\ r[i + 1] = s[i]
      BY <1>1, <1>2, <2>2
    <3> QED
      BY <3>1
  <2> QED
    BY <2>1, <2>2
<1>5. RangeOf(s) \subseteq RangeOf(r)
  BY <1>1, <1>4 DEF RangeOf
<1> QED
  BY <1>3, <1>5 DEF r

\* A message taken from a list without repetitions.
LEMMA Taken ==
  ASSUME NEW s \in Seq(Ids), NEW p \in 1..Len(s), NoRepeat(s)
  PROVE  LET r == SubSeq(s, 1, p - 1) \o SubSeq(s, p + 1, Len(s)) IN
         NoRepeat(r) /\ RangeOf(s) \ {s[p]} \subseteq RangeOf(r)
<1> DEFINE r == SubSeq(s, 1, p - 1) \o SubSeq(s, p + 1, Len(s))
<1>1. /\ p \in Nat /\ p >= 1 /\ Len(s) \in Nat /\ p <= Len(s) /\ DOMAIN s = 1..Len(s)
      /\ p \in 0..Len(s) /\ \A i \in 1..Len(s) : s[i] \in Ids
  OBVIOUS
<1>2. /\ DOMAIN r = 1..(Len(s) - 1)
      /\ \A i \in 1..(Len(s) - 1) : r[i] = IF i < p THEN s[i] ELSE s[i + 1]
  <2> DEFINE a == SubSeq(s, 1, p - 1)
             c == SubSeq(s, p + 1, Len(s))
  <2>1. a \in Seq(Ids) /\ Len(a) = p - 1 /\ \A i \in 1..(p - 1) : a[i] = s[i]
    BY <1>1
  <2>2. c \in Seq(Ids) /\ Len(c) = Len(s) - p /\ \A i \in 1..(Len(s) - p) : c[i] = s[p + i]
    BY <1>1, Later
  <2>3. r = a \o c
    OBVIOUS
  <2> HIDE DEF a, c, r
  <2>4. /\ DOMAIN (a \o c) = 1..(Len(s) - 1)
        /\ \A i \in 1..(Len(s) - 1) : (a \o c)[i] = IF i <= p - 1 THEN a[i] ELSE c[i - (p - 1)]
    <3>1. Len(a) + Len(c) = Len(s) - 1
      BY <1>1, <2>1, <2>2
    <3> QED
      BY <2>1, <2>2, <3>1, ConcatProperties
  <2>5. ASSUME NEW i \in 1..(Len(s) - 1), ~(i < p) PROVE c[i - (p - 1)] = s[i + 1]
    <3>1. i - (p - 1) \in 1..(Len(s) - p) /\ p + (i - (p - 1)) = i + 1
      BY <1>1, <2>5
    <3> QED
      BY <2>2, <3>1
  <2>6. ASSUME NEW i \in 1..(Len(s) - 1)
        PROVE  (a \o c)[i] = IF i < p THEN s[i] ELSE s[i + 1]
    <3>1. CASE i < p
      <4>1. i \in 1..(p - 1) /\ i <= p - 1
        BY <1>1, <3>1
      <4> QED
        BY <2>1, <2>4, <3>1, <4>1
    <3>2. CASE ~(i < p)
      <4>1. ~(i <= p - 1)
        BY <1>1, <3>2
      <4> QED
        BY <2>4, <2>5, <3>2, <4>1
    <3> QED
      BY <3>1, <3>2
  <2> QED
    BY <2>3, <2>4, <2>6
<1> HIDE DEF r
<1>3. NoRepeat(r)
  BY <1>1, <1>2 DEF NoRepeat, RangeOf
<1>4. ASSUME NEW i \in 1..Len(s), s[i] # s[p] PROVE \E k \in DOMAIN r : r[k] = s[i]
  <2>1. CASE i < p
    BY <1>1, <1>2, <2>1
  <2>2. CASE ~(i < p)
    <3>1. i - 1 \in DOMAIN r /\ r[i - 1] = s[i]
      BY <1>1, <1>2, <1>4, <2>2
    <3> QED
      BY <3>1
  <2> QED
    BY <2>1, <2>2
<1>5. RangeOf(s) \ {s[p]} \subseteq RangeOf(r)
  BY <1>1, <1>4 DEF RangeOf
<1> QED
  BY <1>3, <1>5 DEF r

\* What a step of a task does to the mailbox and to what is present.
LEMMA TaskPresent ==
  ASSUME Typed, NEW t \in Tasks,
         \/ \E o \in Ops, s \in Lists \cup {<<>>} : Start(t, o, s)
         \/ Step(t) \/ Return(t) \/ Fail(t)
  PROVE  /\ UNCHANGED envVars
         /\ \A k \in Tasks : present'[k] \subseteq present[k] \cup RangeOf(mailbox)
         /\ pc'[t] # "idle" /\ pc[t] # "idle" => present' = present
<1>a. present \in [Tasks -> SUBSET Ids]
  BY DEF Typed, TypeOK, HistoryTyped
<1>1. ASSUME NEW o \in Ops, NEW s \in Lists \cup {<<>>}, Start(t, o, s)
      PROVE  UNCHANGED envVars /\ present' = [present EXCEPT ![t] = RangeOf(mailbox)] /\ pc[t] = "idle"
  BY <1>1 DEF Start
<1>2. ASSUME Return(t) \/ Fail(t) \/ PutJmapFails(t)
      PROVE  UNCHANGED envVars /\ present' = [present EXCEPT ![t] = {}] /\ pc'[t] = "idle"
  BY <1>2 DEF Return, Fail, PutJmapFails, Forget, Typed, TypeOK, TasksTyped
<1>3. ASSUME Step(t), ~PutJmapFails(t) PROVE UNCHANGED envVars /\ present' = present
  <2>1. Frame
    BY <1>3 DEF Step, Query, Validity, PutValidity, Scan, ScanEnd, Apply, Alloc, PutJmap, PutUid,
       ReadUidNext, Lookup, LookupDeleted, Find, ScanAll, ScanExpired
  <2> QED
    BY <2>1 DEF Frame
<1> QED
  BY <1>a, <1>1, <1>2, <1>3

\* The mailbox at the start.
LEMMA InitMailbox == Init => MailboxInv
BY DEF Init, MailboxInv, NoRepeat, RangeOf

\* Deliveries and removals keep the list without repetitions, and what is present
\* in it.
LEMMA MailboxStep == Typed /\ MailboxInv /\ [Next]_vars => MailboxInv'
<1> SUFFICES ASSUME Typed, MailboxInv, [Next]_vars PROVE MailboxInv'
  OBVIOUS
<1>a. mailbox \in Seq(Ids) /\ present \in [Tasks -> SUBSET Ids]
  BY DEF Typed, TypeOK, EnvTyped, HistoryTyped
<1>1. CASE CreateMailbox \/ Tick \/ UNCHANGED vars
  BY <1>1 DEF CreateMailbox, Tick, vars, envVars, MailboxInv
<1>2. ASSUME NEW j \in Ids, NEW p \in 0..Len(mailbox), Deliver(j, p) PROVE MailboxInv'
  <2>1. /\ mailbox' = SubSeq(mailbox, 1, p) \o <<j>> \o SubSeq(mailbox, p + 1, Len(mailbox))
        /\ j \notin RangeOf(mailbox) /\ phase = "live" /\ phase' = phase /\ present' = present
    BY <1>2 DEF Deliver
  <2>2. NoRepeat(mailbox') /\ RangeOf(mailbox) \subseteq RangeOf(mailbox')
    BY <1>a, <2>1, Inserted DEF MailboxInv
  <2> QED
    BY <2>1, <2>2 DEF MailboxInv
<1>3. ASSUME NEW p \in 1..Len(mailbox), RemoveMsg(p) PROVE MailboxInv'
  <2>1. /\ mailbox' = SubSeq(mailbox, 1, p - 1) \o SubSeq(mailbox, p + 1, Len(mailbox))
        /\ phase = "live" /\ phase' = phase
        /\ \A t \in Tasks : present'[t] = present[t] \ {mailbox[p]}
    BY <1>3 DEF RemoveMsg, StillPresent
  <2>2. NoRepeat(mailbox') /\ RangeOf(mailbox) \ {mailbox[p]} \subseteq RangeOf(mailbox')
    BY <1>a, <2>1, Taken DEF MailboxInv
  <2> QED
    BY <2>1, <2>2 DEF MailboxInv
<1>4. CASE DestroyMailbox
  BY <1>4 DEF DestroyMailbox, StillPresent, MailboxInv, NoRepeat, RangeOf
<1>5. ASSUME NEW t \in Tasks,
             \/ \E o \in Ops, s \in Lists \cup {<<>>} : Start(t, o, s)
             \/ Step(t) \/ Return(t) \/ Fail(t)
      PROVE  MailboxInv'
  BY <1>5, TaskPresent DEF MailboxInv, envVars
<1> QED
  BY <1>1, <1>2, <1>3, <1>4, <1>5 DEF Next, Environment

-----------------------------------------------------------------------------
(* What is wiped. *)

\* Nothing is recorded, and nothing wiped, at the start.
LEMMA InitPurging == Init => Purging
BY DEF Init, Purging, DbEmpty

\* In a mailbox that is not created nobody is called to synchronize or to add.
LEMMA StartPurging ==
  ASSUME OwnerInv, MailboxInv, Purging, Serial,
         NEW t \in Tasks, NEW o \in Ops, NEW s \in Lists \cup {<<>>}, Start(t, o, s)
  PROVE  Purging'
<1>1. /\ \A k \in Tasks : k = t
      /\ pc[t] = "idle" /\ Called(o, s) /\ o \in AllOps
      /\ op'[t] = o /\ batch' = batch /\ phase' = phase /\ wiped' = wiped
      /\ DbEmpty' <=> DbEmpty
  BY OpsAssumption DEF Serial, Start, OwnerInv, Typed, TypeOK, TasksTyped, DbEmpty, dbVars, envVars
<1>2. batch[t] = EmptyBatch
  BY <1>1 DEF OwnerInv, Shaped
<1>3. phase = "absent" => o \notin {"sync", "add"}
  <2>1. \A l \in Lists : RangeOf(l) # {}
    BY DEF Lists, RangeOf
  <2>2. phase = "absent" => RangeOf(mailbox) = {}
    BY DEF MailboxInv, RangeOf
  <2> QED
    BY <1>1, <2>1, <2>2 DEF Called, AllOps
<1>4. o \in {"drop", "purge"} => phase # "live"
  BY <1>1 DEF Called, NotListed, AllOps
<1>5. phase \in Phases
  BY DEF OwnerInv, Typed, TypeOK, EnvTyped
<1> QED
  BY <1>1, <1>2, <1>3, <1>4, <1>5 DEF Purging, EmptyBatch, Phases

\* A step that leaves the mailbox's keys, or an operation that synchronizes or adds,
\* leaves nothing to purge.
LEMMA QuietPurging ==
  ASSUME OwnerInv, Purging, Serial, NEW t \in Tasks,
         op'[t] = op[t], phase' = phase, wiped' = wiped,
         pc[t] # "idle" /\ op[t] \in {"sync", "add"}
  PROVE  Purging'
<1>1. \A k \in Tasks : k = t
  BY DEF Serial
<1>2. phase # "absent"
  BY DEF Purging
<1> QED
  BY <1>1, <1>2 DEF Purging

\* The steps of the operations that only read the database or remove keys.
LEMMA WipingPurging ==
  ASSUME OwnerInv, Purging, Serial, NEW t \in Tasks,
         Apply(t) \/ LookupDeleted(t) \/ Find(t) \/ ScanAll(t) \/ ScanExpired(t),
         op[t] \notin {"sync", "add"}
  PROVE  Purging'
<1>1. /\ \A k \in Tasks : k = t
      /\ op' = op /\ phase' = phase
      /\ batch[t] \in Batches /\ jmapToUid \in [Ids -> 0..MaxUid]
  BY DEF Serial, OwnerInv, Typed, TypeOK, TasksTyped, DbTyped, Frame, envVars,
     Apply, LookupDeleted, Find, ScanAll, ScanExpired
<1>2. DbEmpty => DbEmpty'
  <2>1. CASE Apply(t)
    BY <2>1 DEF Apply, DbEmpty
  <2>2. CASE LookupDeleted(t) \/ Find(t) \/ ScanAll(t) \/ ScanExpired(t)
    BY <2>2 DEF LookupDeleted, Find, ScanAll, ScanExpired, ReadOnly, dbVars, DbEmpty
  <2> QED
    BY <2>1, <2>2
<1> DEFINE Bare(b) == b.jmap = {} /\ b.uids = {} /\ b.counters = {}
<1>3. ASSUME DbEmpty, Bare(batch[t]) PROVE Bare(batch'[t]) /\ wiped' = wiped
  <2> USE DEF OwnerInv, Typed, TypeOK, TasksTyped
  <2>1. CASE Apply(t)
    <3>1. batch'[t] = EmptyBatch
      BY <2>1 DEF Apply
    <3>2. wiped' = wiped
      BY <1>3, <2>1 DEF Apply, HistoryTyped
    <3> QED
      BY <3>1, <3>2 DEF EmptyBatch
  <2>2. CASE LookupDeleted(t)
    BY <1>3, <2>2 DEF LookupDeleted, ReadOnly
  <2>3. CASE Find(t)
    <3>1. ids[t][at[t]] \in Ids
      <4>1. ids[t] \in Seq(Ids) /\ at[t] \in DOMAIN ids[t]
        BY <2>3 DEF Find, Indexed
      <4> QED
        BY <4>1
    <3> QED
      BY <1>3, <2>3, <3>1 DEF Find, ReadOnly, DbEmpty
  <2>4. CASE ScanAll(t)
    <3>1. \/ batch'[t] = [batch[t] EXCEPT !.jmap = {j \in Ids : jmapToUid[j] # 0}]
          \/ batch'[t] = [batch[t] EXCEPT !.uids = {u \in Uids : uidToJmap[u] # NoId}]
          \/ batch'[t] = [batch[t] EXCEPT !.counters =
               {c \in {"uid_next", "uid_validity"} :
                  \/ c = "uid_next" /\ uidNext # 0
                  \/ c = "uid_validity" /\ uidValidity # 0}]
      BY <2>4 DEF ScanAll
    <3>2. /\ {j \in Ids : jmapToUid[j] # 0} = {}
          /\ {u \in Uids : uidToJmap[u] # NoId} = {}
          /\ {c \in {"uid_next", "uid_validity"} :
                \/ c = "uid_next" /\ uidNext # 0
                \/ c = "uid_validity" /\ uidValidity # 0} = {}
      BY <1>3 DEF DbEmpty
    <3>3. \/ batch'[t] = [batch[t] EXCEPT !.jmap = {}]
          \/ batch'[t] = [batch[t] EXCEPT !.uids = {}]
          \/ batch'[t] = [batch[t] EXCEPT !.counters = {}]
      BY <3>1, <3>2
    <3>4. wiped' = wiped
      BY <2>4 DEF ScanAll, ReadOnly
    <3> QED
      BY <1>1, <1>3, <3>3, <3>4 DEF Batches
  <2>5. CASE ScanExpired(t)
    <3>1. batch'[t] = [batch[t] EXCEPT !.deleted = {j \in Ids : Expired(j)}]
      BY <2>5 DEF ScanExpired
    <3> QED
      BY <1>1, <1>3, <2>5, <3>1 DEF Batches, ScanExpired, ReadOnly
  <2> QED
    BY <2>1, <2>2, <2>3, <2>4, <2>5
<1>4. op[t] \notin {"drop", "purge"} => wiped' = wiped
  <2>1. CASE Apply(t)
    BY <2>1 DEF Apply, OwnerInv, Typed, TypeOK, HistoryTyped
  <2>2. CASE LookupDeleted(t) \/ Find(t) \/ ScanAll(t) \/ ScanExpired(t)
    BY <2>2 DEF LookupDeleted, Find, ScanAll, ScanExpired, ReadOnly
  <2> QED
    BY <2>1, <2>2
<1> HIDE DEF Bare
<1>5. op[t] \in {"drop", "purge"} /\ phase # "destroyed" => DbEmpty /\ Bare(batch[t])
  BY DEF Purging, Bare
<1>6. wiped' => phase' = "destroyed"
  BY <1>1, <1>3, <1>4, <1>5 DEF Purging
<1>7. phase' = "absent" => DbEmpty'
  BY <1>1, <1>2 DEF Purging
<1>8. op'[t] \in {"drop", "purge"} /\ phase' # "destroyed" => DbEmpty' /\ Bare(batch'[t])
  BY <1>1, <1>2, <1>3, <1>5
<1> QED
  BY <1>1, <1>6, <1>7, <1>8 DEF Purging, Bare

\* A step wipes nothing but a mailbox that was destroyed.
LEMMA PurgingStep ==
  ASSUME Serial
  PROVE  OwnerInv /\ SyncInv /\ MailboxInv /\ Purging /\ [Next]_vars => Purging'
<1> SUFFICES ASSUME OwnerInv, SyncInv, MailboxInv, Purging, [Next]_vars PROVE Purging'
  OBVIOUS
<1>1. CASE UNCHANGED vars
  BY <1>1 DEF vars, dbVars, envVars, taskVars, Purging, DbEmpty
<1>2. CASE Environment
  <2>1. /\ phase' = phase \/ (phase = "absent" /\ phase' = "live")
           \/ (phase = "live" /\ phase' = "destroyed")
    BY <1>2 DEF Environment, CreateMailbox, Deliver, RemoveMsg, DestroyMailbox, Tick
  <2>2. UNCHANGED <<dbVars, pc, op, batch, wiped>>
    BY <1>2, EnvironmentKeeps DEF dbAndTasks, taskVars
  <2> QED
    BY <2>1, <2>2 DEF dbVars, Purging, DbEmpty
<1>3. ASSUME NEW t \in Tasks, NEW o \in Ops, NEW s \in Lists \cup {<<>>}, Start(t, o, s)
      PROVE  Purging'
  BY <1>3, StartPurging
<1>4. ASSUME NEW t \in Tasks, Return(t) \/ Fail(t) PROVE Purging'
  <2>1. /\ \A k \in Tasks : k = t
        /\ pc'[t] = "idle" /\ op'[t] = "sync" /\ phase' = phase /\ UNCHANGED <<dbVars, wiped>>
    BY <1>4 DEF Serial, Return, Fail, Forget, ReadOnly, envVars, OwnerInv, Typed, TypeOK, TasksTyped
  <2> QED
    BY <2>1 DEF dbVars, Purging, DbEmpty
<1>5. ASSUME NEW t \in Tasks, Step(t), PutJmapFails(t) PROVE Purging'
  <2>1. /\ \A k \in Tasks : k = t
        /\ pc'[t] = "idle" /\ op'[t] = "sync" /\ phase' = phase /\ wiped' = wiped
        /\ pc[t] = "put_jmap"
    BY <1>5 DEF Serial, PutJmapFails, Forget, envVars, OwnerInv, Typed, TypeOK, TasksTyped
  <2>2. op[t] \in {"sync", "add"}
    BY <2>1 DEF OwnerInv, Shaped
  <2> QED
    BY <2>1, <2>2 DEF Purging
<1>6. ASSUME NEW t \in Tasks, Step(t), ~PutJmapFails(t), op[t] \in {"sync", "add"} PROVE Purging'
  <2>1. pc[t] # "idle" /\ Frame
    BY <1>6 DEF Step, Query, Validity, PutValidity, Scan, ScanEnd, Apply, Alloc, PutJmap, PutUid,
       ReadUidNext, Lookup, LookupDeleted, Find, ScanAll, ScanExpired
  <2>2. wiped' = wiped
    <3>1. CASE Apply(t)
      BY <1>6, <3>1 DEF Apply, OwnerInv, Typed, TypeOK, HistoryTyped
    <3>2. CASE ~Apply(t)
      BY <1>6, <3>2 DEF Step, Query, Validity, PutValidity, Scan, ScanEnd, Alloc, PutJmap, PutUid,
         ReadUidNext, Lookup, LookupDeleted, Find, ScanAll, ScanExpired, ReadOnly
    <3> QED
      BY <3>1, <3>2
  <2> QED
    BY <1>6, <2>1, <2>2, QuietPurging DEF Frame, envVars
<1>7. ASSUME NEW t \in Tasks, Step(t), op[t] \notin {"sync", "add"} PROVE Purging'
  <2>1. pc[t] \notin {"query", "scan", "validity", "put_validity", "alloc", "put_jmap", "put_uid",
                      "uid_next", "lookup"}
    BY <1>7 DEF OwnerInv, Shaped
  <2>2. Apply(t) \/ LookupDeleted(t) \/ Find(t) \/ ScanAll(t) \/ ScanExpired(t)
    BY <1>7, <2>1 DEF Step, Query, Validity, PutValidity, Scan, ScanEnd, Alloc, PutJmap, PutJmapFails,
       PutUid, ReadUidNext, Lookup
  <2> QED
    BY <1>7, <2>2, WipingPurging
<1> QED
  BY <1>1, <1>2, <1>3, <1>4, <1>5, <1>6, <1>7 DEF Next

\* "Delete from cache mailboxes that no longer exist": with one operation at a time
\* purge_deleted_mailboxes and delete_mailbox remove the keys of no other.
THEOREM WipedOnlyDestroyedAlways ==
  ASSUME Serial
  PROVE  Spec => []WipedOnlyDestroyed
<1>1. Purging => WipedOnlyDestroyed
  BY DEF Purging, WipedOnlyDestroyed
<1>2. OwnerInv => Typed
  BY DEF OwnerInv
<1>3. OwnerInv /\ SyncInv /\ MailboxInv /\ Purging /\ [Next]_vars => Purging'
  BY PurgingStep
<1> QED
  BY <1>1, <1>2, <1>3, InitOwner, OwnerStep, InitSync, SyncStep, InitMailbox, MailboxStep, InitPurging,
     PTL DEF Spec

-----------------------------------------------------------------------------
(* The keys. *)

\* One Email/query returns the whole mailbox.
FitsPage == IsFiniteSet(Ids) /\ Cardinality(Ids) <= PageSize

Inserting == {"alloc", "put_jmap", "put_uid"}
Collecting == {"scan", "apply", "find", "scan_all", "scan_expired"}

\* What a task has collected: its list has the messages that were there all along,
\* each once, and its batch has none of them.
Collected(t) ==
  /\ pc[t] \notin Collecting => batch[t] = EmptyBatch
  /\ pc[t] = "find" => op[t] = "move"
  /\ pc[t] = "query" => ids[t] = <<>> /\ at[t] = 0
  /\ op[t] = "sync" /\ pc[t] \in {"validity", "put_validity"} => at[t] = 0
  /\ op[t] = "sync" /\ pc[t] \notin {"idle", "query"} =>
       NoRepeat(ids[t]) /\ present[t] \subseteq RangeOf(ids[t])
  /\ op[t] = "sync" => \A j \in batch[t].jmap : j \notin present[t]

\* The batch of a task removes the keys of a message together and records what it
\* removes.
Together(t) ==
  /\ op[t] \notin {"drop", "purge"} =>
       \A j \in batch[t].jmap, u \in Uids : uidToJmap[u] = j => u \in batch[t].uids
  /\ \A j \in Ids : batch[t].insert[j].uid # 0 =>
       op[t] \in {"sync", "move"} /\ batch[t].insert[j].uid \in batch[t].uids

\* The ids of a list that the scan has not found have no UID_TO_JMAP key.
Scanned(t) ==
  op[t] = "sync" =>
    /\ pc[t] = "scan" => \A u \in Uids, i \in DOMAIN ids[t] :
         uidToJmap[u] = ids[t][i] => (u <= at[t] <=> i \in found[t])
    /\ pc[t] = "apply" => \A u \in Uids, i \in DOMAIN ids[t] :
         uidToJmap[u] = ids[t][i] => i \in found[t]
    /\ pc[t] \in Inserting => \A u \in Uids, i \in DOMAIN ids[t] :
         uidToJmap[u] = ids[t][i] => i < at[t] \/ i \in found[t]

\* The message that is given a UID has no other, and the UID has no record.
Inserts(t) ==
  /\ pc[t] \in Writing => \A j \in Ids : deletedIds[j].uid # uid[t]
  /\ pc[t] \in Inserting => \A u \in Uids : uidToJmap[u] # ids[t][at[t]]
  /\ pc[t] = "put_uid" => jmapToUid[ids[t][at[t]]] = uid[t]

Keys(t) == Collected(t) /\ (~wiped => Together(t) /\ Scanned(t) /\ Inserts(t))

KeysInv == MapsAgree /\ \A t \in Tasks : Keys(t)

\* All that a step of one task may rely on.
SerialInv == OwnerInv /\ SyncInv /\ MailboxInv /\ Purging /\ KeysInv

\* An empty batch removes and records nothing.
LEMMA EmptyKeys ==
  /\ EmptyBatch.jmap = {} /\ EmptyBatch.uids = {} /\ EmptyBatch.counters = {}
  /\ \A j \in Ids : EmptyBatch.insert[j].uid = 0
BY DEF EmptyBatch, NoRecord

\* What MarkDeleted removes.
LEMMA MarkKeys ==
  ASSUME NEW b \in Batches, NEW j \in Ids, NEW u \in Uids
  PROVE  /\ MarkDeleted(b, j, u).jmap = b.jmap \cup {j}
         /\ MarkDeleted(b, j, u).uids = b.uids \cup {u}
BY DEF MarkDeleted, Batches

\* There are no keys at the start.
LEMMA InitKeys == Init => KeysInv
<1> SUFFICES ASSUME Init PROVE KeysInv
  OBVIOUS
<1>1. MapsAgree
  BY DEF Init, MapsAgree, NoRecord
<1>2. ASSUME NEW t \in Tasks PROVE Keys(t)
  <2>1. pc[t] = "idle" /\ batch[t] = EmptyBatch /\ op[t] = "sync" /\ present[t] = {}
    BY DEF Init
  <2> QED
    BY <2>1, EmptyKeys DEF Keys, Collected, Together, Scanned, Inserts, Inserting, Writing
<1> QED
  BY <1>1, <1>2 DEF KeysInv

\* The maps agree after a step that leaves the keys.
LEMMA MapsKept ==
  ASSUME MapsAgree, UNCHANGED <<jmapToUid, uidToJmap, deletedIds, wiped>>
  PROVE  MapsAgree'
BY DEF MapsAgree

\* The other users of the JMAP server only take messages from what is present.
LEMMA EnvironmentSerial ==
  ASSUME SerialInv, Environment \/ UNCHANGED vars
  PROVE  KeysInv'
<1>1. UNCHANGED <<dbVars, taskVars, wiped>>
  BY EnvironmentKeeps DEF dbAndTasks, vars
<1>2. \A t \in Tasks : present'[t] \subseteq present[t]
  BY DEF Environment, CreateMailbox, Deliver, RemoveMsg, DestroyMailbox, Tick, StillPresent, vars
<1>3. MapsAgree'
  BY <1>1, MapsKept DEF SerialInv, KeysInv, dbVars
<1>4. ASSUME NEW t \in Tasks PROVE Keys(t)'
  <2>1. Keys(t)
    BY DEF SerialInv, KeysInv
  <2>2. Collected(t)'
    BY <1>1, <1>2, <2>1 DEF Keys, Collected, taskVars
  <2>3. ~wiped' => Together(t)' /\ Scanned(t)' /\ Inserts(t)'
    BY <1>1, <2>1 DEF Keys, Together, Scanned, Inserts, taskVars, dbVars
  <2> QED
    BY <2>2, <2>3 DEF Keys
<1> QED
  BY <1>3, <1>4 DEF KeysInv

\* A task that starts has an empty batch.
LEMMA StartSerial ==
  ASSUME SerialInv, NEW t \in Tasks, NEW o \in Ops, NEW s \in Lists \cup {<<>>}, Start(t, o, s)
  PROVE  MapsAgree' /\ Keys(t)'
<1>1. MapsAgree'
  BY MapsKept DEF SerialInv, KeysInv, Start, dbVars
<1>2. /\ pc[t] = "idle" /\ pc'[t] = FirstLabel[o] /\ op'[t] = o /\ ids'[t] = s
      /\ at'[t] = (IF s = <<>> THEN 0 ELSE 1) /\ batch'[t] = batch[t] /\ o \in AllOps
      /\ Called(o, s)
  BY OpsAssumption DEF Start, SerialInv, OwnerInv, Typed, TypeOK, TasksTyped
<1>3. batch[t] = EmptyBatch
  BY <1>2 DEF SerialInv, OwnerInv, Shaped
<1>4. /\ FirstLabel[o] \notin Inserting \cup Writing \cup {"idle", "validity", "put_validity"}
      /\ FirstLabel[o] = "find" => o = "move"
      /\ FirstLabel[o] = "query" <=> o = "sync"
  BY <1>2 DEF AllOps, FirstLabel, Inserting, Writing
<1>5. o = "sync" => s = <<>>
  BY <1>2 DEF Called, AllOps
<1>6. Collected(t)'
  BY <1>2, <1>3, <1>4, <1>5, EmptyKeys DEF Collected
<1>7. Together(t)' /\ Inserts(t)'
  BY <1>2, <1>3, <1>4, EmptyKeys DEF Together, Inserts, Inserting
<1>8. Scanned(t)'
  BY <1>2, <1>4 DEF Scanned, Inserting
<1> QED
  BY <1>1, <1>6, <1>7, <1>8 DEF Keys

\* A task that ends has an empty batch.
LEMMA ForgetSerial ==
  ASSUME SerialInv, NEW t \in Tasks, Return(t) \/ Fail(t)
  PROVE  MapsAgree' /\ Keys(t)'
<1>1. MapsAgree'
  BY MapsKept DEF SerialInv, KeysInv, Return, Fail, ReadOnly, dbVars
<1>2. pc'[t] = "idle" /\ batch'[t] = EmptyBatch /\ present'[t] = {}
  BY DEF Return, Fail, Forget, SerialInv, OwnerInv, Typed, TypeOK, TasksTyped, HistoryTyped
<1> QED
  BY <1>1, <1>2, EmptyKeys DEF Keys, Collected, Together, Scanned, Inserts, Inserting, Writing

\* A list without repetitions is no longer than the number of messages.
LEMMA ListFits ==
  ASSUME FitsPage, NEW s \in Seq(Ids), NoRepeat(s)
  PROVE  Len(s) <= PageSize
<1>1. s \in [1..Len(s) -> Ids] /\ Len(s) \in Nat
  OBVIOUS
<1>2. s \in Injection(1..Len(s), Ids)
  BY <1>1 DEF NoRepeat, Injection, IsInjective
<1>3. Cardinality(1..Len(s)) <= Cardinality(Ids)
  BY <1>2, FS_Injection DEF FitsPage
<1>4. Cardinality(1..Len(s)) = Len(s)
  <2>1. 1 \in Int /\ Len(s) \in Int
    BY <1>1
  <2>2. Cardinality(1..Len(s)) = IF 1 > Len(s) THEN 0 ELSE Len(s) - 1 + 1
    BY <2>1, FS_Interval
  <2> QED
    BY <1>1, <2>2
<1>5. Cardinality(Ids) \in Nat
  BY FS_CardinalityType DEF FitsPage
<1> QED
  BY <1>1, <1>3, <1>4, <1>5, BoundsAssumption DEF FitsPage

\* The query returns the mailbox.
LEMMA QuerySerial ==
  ASSUME FitsPage, SerialInv, NEW t \in Tasks, Query(t)
  PROVE  MapsAgree' /\ Keys(t)'
<1>1. MapsAgree'
  BY MapsKept DEF SerialInv, KeysInv, Query, ReadOnly, dbVars
<1>2. /\ pc[t] = "query" /\ op[t] = "sync" /\ op'[t] = "sync" /\ batch'[t] = batch[t]
      /\ present'[t] = present[t] /\ mailbox \in Seq(Ids)
  BY DEF Query, Frame, SerialInv, OwnerInv, Shaped, Typed, TypeOK, EnvTyped
<1>3. ids[t] = <<>> /\ at[t] = 0 /\ batch[t] = EmptyBatch
  BY <1>2 DEF SerialInv, KeysInv, Keys, Collected, Collecting
<1>4. ids[t] \o Page(t) = mailbox
  <2>1. Len(mailbox) <= PageSize /\ Len(mailbox) \in Nat /\ PageSize \in Nat
    BY <1>2, ListFits, BoundsAssumption DEF SerialInv, MailboxInv
  <2>2. Page(t) = SubSeq(mailbox, 1, IF Len(mailbox) < PageSize THEN Len(mailbox) ELSE PageSize)
    BY <1>3, <2>1 DEF Page
  <2>3. Page(t) = SubSeq(mailbox, 1, Len(mailbox))
    BY <2>1, <2>2
  <2>4. SubSeq(mailbox, 1, Len(mailbox)) = mailbox
    BY <1>2, SubSeqFull
  <2>5. <<>> \o mailbox = mailbox
    BY <1>2, ConcatEmptySeq
  <2> QED
    BY <1>3, <2>3, <2>4, <2>5
<1>5. ids'[t] = mailbox /\ at'[t] = 0 /\ pc'[t] = "validity"
  BY <1>2, <1>4 DEF Query, Goto, SerialInv, OwnerInv, Typed, TypeOK, TasksTyped
<1>6. Collected(t)'
  BY <1>2, <1>3, <1>5, EmptyKeys DEF SerialInv, MailboxInv, Collected
<1>7. Together(t)' /\ Scanned(t)' /\ Inserts(t)'
  BY <1>2, <1>3, <1>5, EmptyKeys DEF Together, Scanned, Inserts, Inserting, Writing
<1> QED
  BY <1>1, <1>6, <1>7 DEF Keys

\* The scan begins with nothing found.
LEMMA ValiditySerial ==
  ASSUME SerialInv, NEW t \in Tasks, Validity(t) \/ PutValidity(t)
  PROVE  MapsAgree' /\ Keys(t)'
<1>1. MapsAgree'
  BY MapsKept DEF SerialInv, KeysInv, Validity, PutValidity, ReadOnly, dbVars
<1>2. /\ pc[t] \in {"validity", "put_validity"}
      /\ pc'[t] \in {"put_validity", "uid_next", "scan"}
      /\ op[t] = "sync" => pc'[t] \in {"put_validity", "scan"}
      /\ op'[t] = op[t] /\ batch'[t] = batch[t] /\ present'[t] = present[t]
      /\ ids'[t] = ids[t] /\ at'[t] = at[t] /\ found'[t] = found[t]
      /\ UNCHANGED <<jmapToUid, uidToJmap, deletedIds, wiped>>
  BY DEF Validity, PutValidity, Goto, Frame, ReadOnly, dbVars,
     SerialInv, OwnerInv, Typed, TypeOK, TasksTyped
<1>3. batch[t] = EmptyBatch /\ Collected(t)
  BY <1>2 DEF SerialInv, KeysInv, Keys, Collected, Collecting
<1>4. op[t] = "sync" => found[t] = {} /\ at[t] = 0
  BY <1>2, <1>3 DEF Collected, SerialInv, SyncInv, SyncOk, Filled, Before
<1>5. Collected(t)'
  BY <1>2, <1>3, EmptyKeys DEF Collected
<1>6. Together(t)' /\ Inserts(t)'
  BY <1>2, <1>3, EmptyKeys DEF Together, Inserts, Inserting, Writing
<1>7. Scanned(t)'
  BY <1>2, <1>4, BoundsAssumption DEF Scanned, Inserting, Uids
<1> QED
  BY <1>1, <1>5, <1>6, <1>7 DEF Keys

\* The scan meets each key once: it finds every message of the list that has one,
\* and marks the others.
LEMMA ScanSerial ==
  ASSUME SerialInv, NEW t \in Tasks, NEW v \in Uids, Scan(t, v)
  PROVE  MapsAgree' /\ Keys(t)'
<1> DEFINE j0 == uidToJmap[v]
           hits == {i \in DOMAIN ids[t] : ids[t][i] = j0}
<1>1. MapsAgree'
  BY MapsKept DEF SerialInv, KeysInv, Scan, ReadOnly, dbVars
<1>2. /\ pc[t] = "scan" /\ pc'[t] = "scan" /\ op[t] = "sync" /\ op'[t] = "sync"
      /\ present'[t] = present[t] /\ ids'[t] = ids[t] /\ at'[t] = v
      /\ j0 \in Ids /\ batch[t] \in Batches /\ at[t] \in Nat /\ NextKey(t, v)
      /\ UNCHANGED <<uidToJmap, wiped>>
  BY DEF Scan, Frame, ReadOnly, dbVars, SerialInv, OwnerInv, Shaped, Typed, TypeOK, TasksTyped, DbTyped
<1>3. /\ NoRepeat(ids[t]) /\ present[t] \subseteq RangeOf(ids[t])
      /\ \A j \in batch[t].jmap : j \notin present[t]
  BY <1>2 DEF SerialInv, KeysInv, Keys, Collected
<1>4. ~wiped => Together(t) /\ Scanned(t) /\ \A u \in Uids : uidToJmap[u] = j0 => u = v
  BY <1>2, NoIdAssumption DEF SerialInv, KeysInv, Keys, MapsAgree
<1>5. v \in Nat /\ v > at[t] /\ Uids \subseteq Nat
  BY <1>2, BoundsAssumption DEF NextKey, Uids
<1>6. ~wiped => \A i \in hits : i \notin found[t]
  BY <1>2, <1>4, <1>5 DEF Scanned
<1>7. \A i \in DOMAIN ids[t] : ids[t][i] \in Ids
  BY DEF SerialInv, OwnerInv, Typed, TypeOK, TasksTyped
<1>8. CASE j0 \in Remaining(t)
  <2>1. /\ batch'[t] = batch[t]
        /\ found'[t] = found[t] \cup {i \in hits : \A k \in hits : k <= i}
    BY <1>8 DEF Scan, SerialInv, OwnerInv, Typed, TypeOK, TasksTyped
  <2>2. {i \in hits : \A k \in hits : k <= i} = hits
    <3>1. \A i, k \in hits : i = k /\ i \in Nat
      BY <1>3 DEF NoRepeat, SerialInv, OwnerInv, Typed, TypeOK, TasksTyped
    <3> HIDE DEF hits
    <3> QED
      BY <3>1
  <2>3. Collected(t)'
    BY <1>2, <1>3, <2>1 DEF Collected, Collecting
  <2>4. ~wiped => Together(t)'
    BY <1>2, <1>4, <2>1 DEF Together
  <2>5. ~wiped => Scanned(t)'
    <3> SUFFICES ASSUME ~wiped, NEW u \in Uids, NEW i \in DOMAIN ids[t], uidToJmap[u] = ids[t][i]
                 PROVE  u <= v <=> i \in found'[t]
      BY <1>2 DEF Scanned, Inserting
    <3>1. u <= at[t] <=> i \in found[t]
      BY <1>2, <1>4 DEF Scanned
    <3>2. i \in found'[t] <=> i \in found[t] \/ i \in hits
      BY <2>1, <2>2
    <3>3. i \in hits <=> u = v
      BY <1>4
    <3>4. ~(at[t] < u /\ u < v)
      BY <1>2, <1>7, NoIdAssumption DEF NextKey
    <3>5. u \in Nat
      BY <1>5
    <3> HIDE DEF hits, SerialInv
    <3> QED
      BY <1>2, <1>5, <3>1, <3>2, <3>3, <3>4, <3>5
  <2>6. Inserts(t)'
    BY <1>2 DEF Inserts, Inserting, Writing
  <2> QED
    BY <1>1, <1>2, <2>3, <2>4, <2>5, <2>6 DEF Keys
<1>9. CASE j0 \notin Remaining(t)
  <2>1. batch'[t] = MarkDeleted(batch[t], j0, v) /\ found'[t] = found[t]
    BY <1>9 DEF Scan, SerialInv, OwnerInv, Typed, TypeOK, TasksTyped
  <2>2. /\ batch'[t].jmap = batch[t].jmap \cup {j0} /\ batch'[t].uids = batch[t].uids \cup {v}
        /\ \A j \in Ids : batch'[t].insert[j].uid = (IF j = j0 THEN v ELSE batch[t].insert[j].uid)
    BY <1>2, <2>1, MarkKeys, MarkPairs
  <2>3. ~wiped => hits = {}
    <3> SUFFICES ASSUME ~wiped, NEW i \in hits PROVE FALSE
      OBVIOUS
    <3>1. PICK k \in found[t] : ids[t][k] = j0
      BY <1>9 DEF Remaining, RangeOf
    <3>2. k \in DOMAIN ids[t]
      BY <1>2 DEF SerialInv, SyncInv, SyncOk, Filled
    <3> QED
      BY <1>6, <3>1, <3>2
  <2>4. j0 \notin present[t]
    <3>1. CASE wiped
      <4>1. RangeOf(mailbox) = {} /\ present[t] \subseteq RangeOf(mailbox)
        BY <3>1 DEF SerialInv, Purging, MailboxInv, RangeOf
      <4> QED
        BY <4>1
    <3>2. CASE ~wiped
      BY <1>3, <2>3, <3>2 DEF RangeOf
    <3> QED
      BY <3>1, <3>2
  <2>5. Collected(t)'
    BY <1>2, <1>3, <2>2, <2>4 DEF Collected, Collecting
  <2>6. ~wiped => Together(t)'
    BY <1>2, <1>4, <2>2 DEF Together
  <2>7. ~wiped => Scanned(t)'
    <3> SUFFICES ASSUME ~wiped, NEW u \in Uids, NEW i \in DOMAIN ids[t], uidToJmap[u] = ids[t][i]
                 PROVE  u <= v <=> i \in found'[t]
      BY <1>2 DEF Scanned, Inserting
    <3>1. u <= at[t] <=> i \in found[t]
      BY <1>2, <1>4 DEF Scanned
    <3>2. u # v
      BY <2>3
    <3>3. ~(at[t] < u /\ u < v)
      BY <1>2, <1>7, NoIdAssumption DEF NextKey
    <3>4. u \in Nat
      BY <1>5
    <3> HIDE DEF hits, SerialInv
    <3> QED
      BY <1>2, <1>5, <2>1, <3>1, <3>2, <3>3, <3>4
  <2>8. Inserts(t)'
    BY <1>2 DEF Inserts, Inserting, Writing
  <2> QED
    BY <1>1, <1>2, <2>5, <2>6, <2>7, <2>8 DEF Keys
<1> QED
  BY <1>8, <1>9

\* The scan has passed every key.
LEMMA ScanEndSerial ==
  ASSUME SerialInv, NEW t \in Tasks, ScanEnd(t)
  PROVE  MapsAgree' /\ Keys(t)'
<1>1. MapsAgree'
  BY MapsKept DEF SerialInv, KeysInv, ScanEnd, ReadOnly, dbVars
<1>2. /\ pc[t] = "scan" /\ pc'[t] = "apply" /\ op[t] = "sync" /\ op'[t] = "sync"
      /\ present'[t] = present[t] /\ ids'[t] = ids[t] /\ found'[t] = found[t] /\ batch'[t] = batch[t]
      /\ at[t] \in Nat /\ Uids \subseteq Nat
      /\ \A k \in Uids : at[t] < k => uidToJmap[k] = NoId
      /\ UNCHANGED <<uidToJmap, wiped>>
  BY BoundsAssumption DEF ScanEnd, Goto, Frame, ReadOnly, dbVars, SerialInv, OwnerInv, Shaped, Typed,
     TypeOK, TasksTyped, Uids
<1>3. Keys(t)
  BY DEF SerialInv, KeysInv
<1>4. Collected(t)'
  BY <1>2, <1>3 DEF Keys, Collected, Collecting
<1>5. ~wiped => Together(t)'
  BY <1>2, <1>3 DEF Keys, Together
<1>6. ~wiped => Scanned(t)'
  <2> SUFFICES ASSUME ~wiped, NEW u \in Uids, NEW i \in DOMAIN ids[t], uidToJmap[u] = ids[t][i]
               PROVE  i \in found[t]
    BY <1>2 DEF Scanned, Inserting
  <2>1. ids[t][i] \in Ids
    BY DEF SerialInv, OwnerInv, Typed, TypeOK, TasksTyped
  <2>2. u <= at[t]
    BY <1>2, <2>1, NoIdAssumption
  <2> QED
    BY <1>2, <1>3, <2>2 DEF Keys, Scanned
<1>7. Inserts(t)'
  BY <1>2 DEF Inserts, Inserting, Writing
<1> QED
  BY <1>1, <1>2, <1>4, <1>5, <1>6, <1>7 DEF Keys

\* The first position that the scan did not find.
LEMMA FirstUnfound ==
  ASSUME SerialInv, NEW t \in Tasks, NEW p \in Nat, GoToFirst(t, Unfound(t, p))
  PROVE  /\ at'[t] \in DOMAIN ids[t] /\ at'[t] > p /\ at'[t] \notin found[t]
         /\ \A i \in DOMAIN ids[t] : i > p /\ i < at'[t] => i \in found[t]
<1>1. DOMAIN ids[t] \subseteq Nat /\ at \in [Tasks -> Nat]
  BY DEF SerialInv, OwnerInv, Typed, TypeOK, TasksTyped
<1>2. PICK i \in Unfound(t, p) : (\A k \in Unfound(t, p) : i <= k) /\ at' = [at EXCEPT ![t] = i]
  BY DEF GoToFirst
<1>3. at'[t] = i
  BY <1>1, <1>2
<1> QED
  BY <1>1, <1>2, <1>3 DEF Unfound

\* The batch removes the keys of a message together.
LEMMA ApplySerial ==
  ASSUME SerialInv, NEW t \in Tasks, Apply(t)
  PROVE  MapsAgree' /\ Keys(t)'
<1> DEFINE b == batch[t]
<1>1. /\ pc[t] = "apply" /\ op'[t] = op[t] /\ present'[t] = present[t] /\ ids'[t] = ids[t]
      /\ found'[t] = found[t] /\ batch'[t] = EmptyBatch
      /\ pc'[t] \in {"alloc", "uid_next", "done"}
      /\ pc'[t] = "alloc" => op[t] = "sync" /\ GoToFirst(t, Unfound(t, 0))
  BY DEF Apply, Goto, Frame, SerialInv, OwnerInv, Typed, TypeOK, TasksTyped
<1>2. /\ \A j \in Ids : jmapToUid'[j] = IF j \in b.jmap THEN 0 ELSE jmapToUid[j]
      /\ \A u \in Uids : uidToJmap'[u] = IF u \in b.uids THEN NoId ELSE uidToJmap[u]
      /\ \A j \in Ids : deletedIds'[j] =
           IF b.insert[j].uid # 0 THEN b.insert[j]
           ELSE IF j \in b.deleted THEN NoRecord ELSE deletedIds[j]
  BY DEF Apply
<1>3. /\ uidToJmap \in [Uids -> Ids \cup {NoId}] /\ b \in Batches /\ Uids = 1..MaxUid
      /\ deletedIds \in [Ids -> Removed] /\ MaxUid \in Nat
  BY BoundsAssumption DEF SerialInv, OwnerInv, Typed, TypeOK, TasksTyped, DbTyped, Uids
<1>4. ~wiped' => ~wiped /\ (op[t] \in {"drop", "purge"} => b.jmap = {} /\ b.uids = {})
  BY DEF Apply
<1>5. Keys(t) /\ MapsAgree
  BY DEF SerialInv, KeysInv
<1>6. MapsAgree'
  <2> SUFFICES ASSUME ~wiped' PROVE MapsAgree'
    BY DEF MapsAgree
  <2>1. Together(t) /\ ~wiped
    BY <1>4, <1>5 DEF Keys
  <2>2. \A j \in b.jmap, u \in Uids : uidToJmap[u] = j => u \in b.uids
    BY <1>4, <2>1 DEF Together
  <2>3. ASSUME NEW u \in Uids, uidToJmap'[u] # NoId PROVE jmapToUid'[uidToJmap'[u]] = u
    <3>1. u \notin b.uids /\ uidToJmap'[u] = uidToJmap[u] /\ uidToJmap[u] \in Ids
      BY <1>2, <1>3, <2>3
    <3>2. uidToJmap[u] \notin b.jmap
      BY <2>2, <3>1
    <3>3. jmapToUid[uidToJmap[u]] = u
      BY <1>5, <2>1, <3>1, NoIdAssumption DEF MapsAgree
    <3> QED
      BY <1>2, <3>1, <3>2, <3>3
  <2>4. ASSUME NEW j \in Ids, deletedIds'[j].uid # 0 PROVE uidToJmap'[deletedIds'[j].uid] = NoId
    <3>1. CASE b.insert[j].uid # 0
      <4>1. deletedIds'[j].uid \in b.uids /\ b.uids \subseteq Uids
        BY <1>2, <1>3, <2>1, <3>1 DEF Together, Batches
      <4> QED
        BY <1>2, <4>1
    <3>2. CASE b.insert[j].uid = 0
      <4>1. deletedIds'[j] = deletedIds[j] /\ deletedIds[j].uid \in Uids
        BY <1>2, <1>3, <2>4, <3>2 DEF NoRecord, Removed
      <4> QED
        BY <1>2, <1>5, <2>1, <2>4, <4>1 DEF MapsAgree
    <3> QED
      BY <3>1, <3>2
  <2> QED
    BY <2>3, <2>4 DEF MapsAgree
<1>7. Collected(t)'
  BY <1>1, <1>5, EmptyKeys DEF Keys, Collected, Collecting
<1>8. Together(t)'
  BY <1>1, EmptyKeys DEF Together
<1>9. ASSUME ~wiped', pc'[t] = "alloc" PROVE Scanned(t)' /\ Inserts(t)'
  <2>1. \A u \in Uids, i \in DOMAIN ids[t] : uidToJmap'[u] = ids[t][i] => i \in found[t]
    <3> SUFFICES ASSUME NEW u \in Uids, NEW i \in DOMAIN ids[t], uidToJmap'[u] = ids[t][i]
                 PROVE  i \in found[t]
      OBVIOUS
    <3>1. ids[t][i] \in Ids
      BY DEF SerialInv, OwnerInv, Typed, TypeOK, TasksTyped
    <3>2. uidToJmap[u] = ids[t][i]
      BY <1>2, <3>1, NoIdAssumption
    <3> QED
      BY <1>1, <1>4, <1>5, <1>9, <3>2 DEF Keys, Scanned
  <2>2. at'[t] \in DOMAIN ids[t] /\ at'[t] \notin found[t]
    BY <1>1, <1>9, FirstUnfound
  <2> QED
    BY <1>1, <1>9, <2>1, <2>2 DEF Scanned, Inserts, Inserting, Writing
<1>10. pc'[t] # "alloc" => Scanned(t)' /\ Inserts(t)'
  BY <1>1 DEF Scanned, Inserts, Inserting, Writing
<1> QED
  BY <1>6, <1>7, <1>8, <1>9, <1>10 DEF Keys

\* A UID that is generated has no record: the counter has not reached it before.
LEMMA AllocSerial ==
  ASSUME SerialInv, NEW t \in Tasks, Alloc(t)
  PROVE  MapsAgree' /\ Keys(t)'
<1>1. MapsAgree'
  BY MapsKept DEF SerialInv, KeysInv, Alloc
<1>2. /\ pc[t] = "alloc" /\ pc'[t] = "put_jmap" /\ op'[t] = op[t] /\ present'[t] = present[t]
      /\ ids'[t] = ids[t] /\ at'[t] = at[t] /\ found'[t] = found[t] /\ batch'[t] = batch[t]
      /\ uid'[t] = uidNext + 1 /\ uidNext + 1 \in Uids /\ uidNext \in Nat
      /\ UNCHANGED <<jmapToUid, uidToJmap, deletedIds, wiped>>
  BY BoundsAssumption DEF Alloc, Goto, Frame, SerialInv, OwnerInv, Typed, TypeOK, TasksTyped, DbTyped, Uids
<1>3. Keys(t)
  BY DEF SerialInv, KeysInv
<1>4. ASSUME ~wiped, NEW j \in Ids PROVE deletedIds[j].uid # uidNext + 1
  <2> SUFFICES ASSUME deletedIds[j].uid = uidNext + 1 PROVE FALSE
    OBVIOUS
  <2>1. Claim(uidNext + 1, j)
    BY DEF Claim, DbClaim
  <2>2. owner[uidNext + 1] = j
    BY <1>2, <1>4, <2>1 DEF SerialInv, OwnerInv, ClaimsOwned
  <2>3. uidNext + 1 <= uidNext
    BY <1>2, <1>4, <2>2, NoIdAssumption DEF SerialInv, OwnerInv, CounterBounds
  <2> QED
    BY <1>2, <2>3
<1>5. Collected(t)'
  BY <1>2, <1>3 DEF Keys, Collected, Collecting
<1>6. ~wiped' => Together(t)' /\ Scanned(t)'
  BY <1>2, <1>3 DEF Keys, Together, Scanned, Inserting
<1>7. ~wiped' => Inserts(t)'
  BY <1>2, <1>3, <1>4 DEF Keys, Inserts, Inserting, Writing
<1> QED
  BY <1>1, <1>5, <1>6, <1>7 DEF Keys

\* The first insert: the message has no UID_TO_JMAP key that it could disagree with.
LEMMA PutJmapSerial ==
  ASSUME SerialInv, NEW t \in Tasks, PutJmap(t)
  PROVE  MapsAgree' /\ Keys(t)'
<1>1. /\ pc[t] = "put_jmap" /\ pc'[t] = "put_uid" /\ op'[t] = op[t] /\ present'[t] = present[t]
      /\ ids'[t] = ids[t] /\ at'[t] = at[t] /\ found'[t] = found[t] /\ batch'[t] = batch[t]
      /\ uid'[t] = uid[t]
      /\ UNCHANGED <<uidToJmap, deletedIds, wiped>>
  BY DEF PutJmap, Goto, Frame, SerialInv, OwnerInv, Typed, TypeOK, TasksTyped
<1>2. Keys(t) /\ MapsAgree
  BY DEF SerialInv, KeysInv
<1>3. ids[t][at[t]] \in Ids
  <2>1. ids[t] \in Seq(Ids) /\ at[t] \in DOMAIN ids[t]
    BY <1>1 DEF SerialInv, OwnerInv, Typed, TypeOK, TasksTyped, Indexed
  <2> QED
    BY <2>1
<1>4. /\ jmapToUid'[ids[t][at[t]]] = uid[t]
      /\ \A j \in Ids : j # ids[t][at[t]] => jmapToUid'[j] = jmapToUid[j]
  BY <1>3 DEF PutJmap, SerialInv, OwnerInv, Typed, TypeOK, DbTyped
<1>5. MapsAgree'
  <2> SUFFICES ASSUME ~wiped PROVE MapsAgree'
    BY <1>1 DEF MapsAgree
  <2>1. \A u \in Uids : uidToJmap[u] # ids[t][at[t]]
    BY <1>1, <1>2 DEF Keys, Inserts, Inserting
  <2>2. \A u \in Uids : uidToJmap[u] \in Ids \cup {NoId}
    BY DEF SerialInv, OwnerInv, Typed, TypeOK, DbTyped
  <2> QED
    BY <1>1, <1>2, <1>4, <2>1, <2>2 DEF MapsAgree
<1>6. Collected(t)'
  BY <1>1, <1>2 DEF Keys, Collected, Collecting
<1>7. ~wiped' => Together(t)' /\ Scanned(t)'
  BY <1>1, <1>2 DEF Keys, Together, Scanned, Inserting
<1>8. ~wiped' => Inserts(t)'
  BY <1>1, <1>2, <1>4 DEF Keys, Inserts, Inserting, Writing
<1> QED
  BY <1>5, <1>6, <1>7, <1>8 DEF Keys

\* The second insert, and the next message of the list.
LEMMA PutUidSerial ==
  ASSUME SerialInv, NEW t \in Tasks, PutUid(t)
  PROVE  MapsAgree' /\ Keys(t)'
<1>1. /\ pc[t] = "put_uid" /\ op'[t] = op[t] /\ present'[t] = present[t]
      /\ ids'[t] = ids[t] /\ found'[t] = found[t] /\ batch'[t] = batch[t]
      /\ pc'[t] \in {"alloc", "uid_next", "lookup", "validity"}
      /\ op[t] = "sync" => pc'[t] \in {"alloc", "uid_next"}
      /\ pc'[t] = "alloc" => op[t] = "sync" /\ GoToFirst(t, Unfound(t, at[t]))
      /\ uidToJmap' = [uidToJmap EXCEPT ![uid[t]] = ids[t][at[t]]]
      /\ UNCHANGED <<jmapToUid, deletedIds, wiped>>
  BY DEF PutUid, NextId, Goto, Frame, SerialInv, OwnerInv, Typed, TypeOK, TasksTyped
<1>2. Keys(t) /\ MapsAgree
  BY DEF SerialInv, KeysInv
<1>3. /\ ids[t] \in Seq(Ids) /\ at[t] \in DOMAIN ids[t] /\ uid[t] \in Uids /\ at[t] \in Nat
      /\ uidToJmap \in [Uids -> Ids \cup {NoId}]
  BY <1>1 DEF SerialInv, OwnerInv, Typed, TypeOK, TasksTyped, DbTyped, Indexed
<1>4. ids[t][at[t]] \in Ids /\ \A i \in DOMAIN ids[t] : i \in Nat
  BY <1>3
<1>5. /\ uidToJmap'[uid[t]] = ids[t][at[t]]
      /\ \A u \in Uids : u # uid[t] => uidToJmap'[u] = uidToJmap[u]
  BY <1>1, <1>3
<1>6. MapsAgree'
  <2> SUFFICES ASSUME ~wiped PROVE MapsAgree'
    BY <1>1 DEF MapsAgree
  <2>1. Inserts(t)
    BY <1>2 DEF Keys
  <2>2. ASSUME NEW u \in Uids, uidToJmap'[u] # NoId PROVE jmapToUid[uidToJmap'[u]] = u
    BY <1>1, <1>2, <1>5, <2>1, <2>2 DEF MapsAgree, Inserts
  <2>3. ASSUME NEW j \in Ids, deletedIds[j].uid # 0 PROVE uidToJmap'[deletedIds[j].uid] = NoId
    <3>1. deletedIds[j].uid # uid[t] /\ deletedIds[j].uid \in Uids
      BY <1>1, <2>1, <2>3, BoundsAssumption
         DEF Inserts, Writing, SerialInv, OwnerInv, Typed, TypeOK, DbTyped, Removed, Uids
    <3> QED
      BY <1>2, <1>5, <2>3, <3>1 DEF MapsAgree
  <2> QED
    BY <1>1, <2>2, <2>3 DEF MapsAgree
<1>7. Collected(t)' /\ Together(t)'
  <2>1. batch[t] = EmptyBatch
    BY <1>1, <1>2 DEF Keys, Collected, Collecting
  <2> QED
    BY <1>1, <1>2, <2>1, EmptyKeys DEF Keys, Collected, Collecting, Together
<1>8. ASSUME ~wiped', pc'[t] = "alloc" PROVE Scanned(t)' /\ Inserts(t)'
  <2>1. NoRepeat(ids[t]) /\ Scanned(t) /\ op[t] = "sync"
    BY <1>1, <1>2, <1>8 DEF Keys, Collected
  <2>2. /\ at'[t] \in DOMAIN ids[t] /\ at'[t] > at[t] /\ at'[t] \notin found[t]
    BY <1>1, <1>3, <1>8, FirstUnfound
  <2>3. \A u \in Uids, i \in DOMAIN ids[t] :
          uidToJmap'[u] = ids[t][i] => i = at[t] \/ i < at[t] \/ i \in found[t]
    <3> SUFFICES ASSUME NEW u \in Uids, NEW i \in DOMAIN ids[t], uidToJmap'[u] = ids[t][i]
                 PROVE  i = at[t] \/ i < at[t] \/ i \in found[t]
      OBVIOUS
    <3>1. CASE u = uid[t]
      BY <1>3, <1>5, <2>1, <3>1 DEF NoRepeat
    <3>2. CASE u # uid[t]
      BY <1>1, <1>5, <2>1, <3>2 DEF Scanned, Inserting
    <3> QED
      BY <3>1, <3>2
  <2>4. \A u \in Uids, i \in DOMAIN ids[t] : uidToJmap'[u] = ids[t][i] => i < at'[t] \/ i \in found[t]
    BY <1>3, <1>4, <2>2, <2>3
  <2>5. \A u \in Uids : uidToJmap'[u] # ids[t][at'[t]]
    BY <1>3, <1>4, <2>2, <2>3
  <2> QED
    BY <1>1, <1>8, <2>4, <2>5 DEF Scanned, Inserts, Inserting, Writing
<1>9. pc'[t] # "alloc" => Scanned(t)' /\ Inserts(t)'
  BY <1>1 DEF Scanned, Inserts, Inserting, Writing
<1> QED
  BY <1>6, <1>7, <1>8, <1>9 DEF Keys

\* jmap_to_imap generates a UID only for a message that has none in either map.
LEMMA LookupSerial ==
  ASSUME SerialInv, NEW t \in Tasks, Lookup(t)
  PROVE  MapsAgree' /\ Keys(t)'
<1>1. MapsAgree'
  BY MapsKept DEF SerialInv, KeysInv, Lookup, ReadOnly, dbVars
<1>2. /\ pc[t] = "lookup" /\ op'[t] = op[t] /\ ids'[t] = ids[t] /\ batch'[t] = batch[t]
      /\ pc'[t] \in {"lookup", "validity", "alloc"} /\ UNCHANGED <<jmapToUid, uidToJmap>>
      /\ pc'[t] = "alloc" => at'[t] = at[t] /\ jmapToUid[ids[t][at[t]]] = 0
  BY DEF Lookup, NextId, Goto, Frame, ReadOnly, dbVars, SerialInv, OwnerInv, Typed, TypeOK, TasksTyped
<1>3. batch[t] = EmptyBatch
  BY <1>2 DEF SerialInv, KeysInv, Keys, Collected, Collecting
<1>4. op[t] # "sync"
  BY <1>2 DEF SerialInv, SyncInv, SyncOk, SyncLabels, Before, Writing
<1>5. Collected(t)' /\ Together(t)' /\ Scanned(t)'
  BY <1>2, <1>3, <1>4, EmptyKeys DEF Collected, Together, Scanned
<1>6. ~wiped' => Inserts(t)'
  <2> SUFFICES ASSUME ~wiped', pc'[t] = "alloc", NEW u \in Uids PROVE uidToJmap[u] # ids[t][at[t]]
    BY <1>2 DEF Inserts, Inserting, Writing
  <2>1. ids[t][at[t]] # NoId
    <3>1. ids[t] \in Seq(Ids) /\ at[t] \in DOMAIN ids[t]
      BY <1>2 DEF SerialInv, OwnerInv, Typed, TypeOK, TasksTyped, Indexed
    <3> QED
      BY <3>1, NoIdAssumption
  <2>2. ~wiped
    BY DEF Lookup, ReadOnly
  <2>3. u # 0
    BY BoundsAssumption DEF Uids
  <2> QED
    BY <1>2, <2>1, <2>2, <2>3 DEF SerialInv, KeysInv, MapsAgree
<1> QED
  BY <1>1, <1>5, <1>6 DEF Keys

\* The steps that read a counter or the records.
LEMMA ReadSerial ==
  ASSUME SerialInv, NEW t \in Tasks, ReadUidNext(t) \/ LookupDeleted(t)
  PROVE  MapsAgree' /\ Keys(t)'
<1>1. MapsAgree'
  BY MapsKept DEF SerialInv, KeysInv, ReadUidNext, LookupDeleted, ReadOnly, dbVars
<1>2. /\ pc[t] \in {"uid_next", "lookup_deleted"} /\ pc'[t] \in {"done", "lookup_deleted"}
      /\ op'[t] = op[t] /\ ids'[t] = ids[t] /\ batch'[t] = batch[t] /\ present'[t] = present[t]
  BY DEF ReadUidNext, LookupDeleted, NextId, Goto, Frame, SerialInv, OwnerInv, Typed, TypeOK, TasksTyped
<1>3. batch[t] = EmptyBatch /\ Collected(t)
  BY <1>2 DEF SerialInv, KeysInv, Keys, Collected, Collecting
<1> QED
  BY <1>1, <1>2, <1>3, EmptyKeys DEF Keys, Collected, Together, Scanned, Inserts, Inserting, Writing

\* delete_ids marks the UID of a message, which is the only one that leads to it.
LEMMA FindSerial ==
  ASSUME SerialInv, NEW t \in Tasks, Find(t)
  PROVE  MapsAgree' /\ Keys(t)'
<1> DEFINE j0 == ids[t][at[t]]
           v == jmapToUid[j0]
<1>1. MapsAgree'
  BY MapsKept DEF SerialInv, KeysInv, Find, ReadOnly, dbVars
<1>2. /\ pc[t] = "find" /\ op'[t] = op[t] /\ ids'[t] = ids[t] /\ pc'[t] \in {"find", "apply"}
      /\ UNCHANGED <<uidToJmap, wiped>> /\ batch[t] \in Batches
      /\ \/ v # 0 /\ batch'[t] = MarkDeleted(batch[t], j0, v)
         \/ batch'[t] = batch[t]
  BY DEF Find, NextId, Goto, Frame, ReadOnly, dbVars, SerialInv, OwnerInv, Typed, TypeOK, TasksTyped
<1>3. op[t] = "move" /\ (~wiped => Together(t))
  BY <1>2 DEF SerialInv, KeysInv, Keys, Collected
<1>4. Collected(t)' /\ Scanned(t)' /\ Inserts(t)'
  BY <1>2, <1>3 DEF Collected, Collecting, Scanned, Inserts, Inserting, Writing
<1>5. ~wiped' => Together(t)'
  <2>1. CASE batch'[t] = batch[t]
    BY <1>2, <1>3, <2>1 DEF Together
  <2>2. CASE v # 0 /\ batch'[t] = MarkDeleted(batch[t], j0, v)
    <3>1. ids[t] \in Seq(Ids) /\ at[t] \in DOMAIN ids[t]
      BY <1>2 DEF SerialInv, OwnerInv, Typed, TypeOK, TasksTyped, Indexed
    <3>2. j0 \in Ids
      BY <3>1
    <3>3. v \in Uids
      BY <2>2, <3>2, BoundsAssumption DEF SerialInv, OwnerInv, Typed, TypeOK, DbTyped, Uids
    <3>4. ~wiped => \A u \in Uids : uidToJmap[u] = j0 => u = v
      BY <3>2, NoIdAssumption DEF SerialInv, KeysInv, MapsAgree
    <3> HIDE DEF v, j0
    <3>5. /\ batch'[t].jmap = batch[t].jmap \cup {j0} /\ batch'[t].uids = batch[t].uids \cup {v}
          /\ \A j \in Ids : batch'[t].insert[j].uid = (IF j = j0 THEN v ELSE batch[t].insert[j].uid)
      BY <1>2, <2>2, <3>2, <3>3, MarkKeys, MarkPairs
    <3> QED
      BY <1>2, <1>3, <3>4, <3>5 DEF Together
  <2> QED
    BY <1>2, <2>1, <2>2
<1> QED
  BY <1>1, <1>4, <1>5 DEF Keys

\* The scans of delete_mailbox, of the purge and of the housekeeper.
LEMMA PurgeSerial ==
  ASSUME SerialInv, NEW t \in Tasks, ScanAll(t) \/ ScanExpired(t)
  PROVE  MapsAgree' /\ Keys(t)'
<1>1. MapsAgree'
  BY MapsKept DEF SerialInv, KeysInv, ScanAll, ScanExpired, ReadOnly, dbVars
<1>2. /\ pc[t] \in {"scan_all", "scan_expired"} /\ op'[t] = op[t]
      /\ pc'[t] \in {"scan_all", "apply"} /\ UNCHANGED <<uidToJmap, wiped>> /\ batch[t] \in Batches
  BY DEF ScanAll, ScanExpired, Goto, Frame, ReadOnly, dbVars, SerialInv, OwnerInv, Typed, TypeOK, TasksTyped
<1>3. op[t] # "sync" /\ (~wiped => Together(t))
  BY <1>2 DEF SerialInv, SyncInv, SyncOk, SyncLabels, Before, Writing, KeysInv, Keys
<1>4. Collected(t)' /\ Scanned(t)' /\ Inserts(t)'
  BY <1>2, <1>3 DEF Collected, Collecting, Scanned, Inserts, Inserting, Writing
<1>5. ~wiped' => Together(t)'
  <2>1. CASE ScanAll(t)
    <3>1. op[t] \in {"drop", "purge"}
      BY <2>1 DEF ScanAll, SerialInv, OwnerInv, Shaped
    <3>2. batch'[t].insert = batch[t].insert
      BY <2>1 DEF ScanAll, Batches, SerialInv, OwnerInv, Typed, TypeOK, TasksTyped
    <3> QED
      BY <1>2, <1>3, <3>1, <3>2 DEF Together
  <2>2. CASE ScanExpired(t)
    <3>1. /\ batch'[t].insert = batch[t].insert /\ batch'[t].jmap = batch[t].jmap
          /\ batch'[t].uids = batch[t].uids
      BY <2>2 DEF ScanExpired, Batches, SerialInv, OwnerInv, Typed, TypeOK, TasksTyped
    <3> QED
      BY <1>2, <1>3, <3>1 DEF Together
  <2> QED
    BY <2>1, <2>2
<1> QED
  BY <1>1, <1>4, <1>5 DEF Keys

\* Every step of the one task keeps its keys in order.
LEMMA KeysStep ==
  ASSUME Serial, FitsPage, ~InsertMayFail
  PROVE  SerialInv /\ [Next]_vars => KeysInv'
<1> SUFFICES ASSUME SerialInv, [Next]_vars PROVE KeysInv'
  OBVIOUS
<1>1. CASE Environment \/ UNCHANGED vars
  BY <1>1, EnvironmentSerial
<1>2. ASSUME NEW t \in Tasks, MapsAgree' /\ Keys(t)' PROVE KeysInv'
  BY <1>2 DEF Serial, KeysInv
<1>3. ASSUME NEW t \in Tasks, NEW o \in Ops, NEW s \in Lists \cup {<<>>}, Start(t, o, s)
      PROVE  KeysInv'
  BY <1>2, <1>3, StartSerial
<1>4. ASSUME NEW t \in Tasks, Return(t) \/ Fail(t) PROVE KeysInv'
  BY <1>2, <1>4, ForgetSerial
<1>5. ASSUME NEW t \in Tasks, Step(t) PROVE KeysInv'
  <2>1. ~PutJmapFails(t)
    BY DEF PutJmapFails
  <2>2. MapsAgree' /\ Keys(t)'
    BY <1>5, <2>1, QuerySerial, ValiditySerial, ScanSerial, ScanEndSerial, ApplySerial, AllocSerial,
       PutJmapSerial, PutUidSerial, LookupSerial, ReadSerial, FindSerial, PurgeSerial DEF Step
  <2> QED
    BY <1>2, <2>2
<1> QED
  BY <1>1, <1>3, <1>4, <1>5 DEF Next

\* With one operation at a time, mailboxes that fit a page and inserts that do not
\* fail one alone, the invariant holds.
LEMMA SerialAlways ==
  ASSUME Serial, FitsPage, ~InsertMayFail
  PROVE  Spec => []SerialInv
<1>1. OwnerInv => Typed
  BY DEF OwnerInv
<1>2. OwnerInv /\ SyncInv /\ MailboxInv /\ Purging /\ [Next]_vars => Purging'
  BY PurgingStep
<1>3. SerialInv /\ [Next]_vars => KeysInv'
  BY KeysStep
<1>4. SerialInv <=> OwnerInv /\ SyncInv /\ MailboxInv /\ Purging /\ KeysInv
  BY DEF SerialInv
<1> QED
  BY <1>1, <1>2, <1>3, <1>4, InitOwner, OwnerStep, InitSync, SyncStep, InitMailbox, MailboxStep,
     InitPurging, InitKeys, PTL DEF Spec

\* A UID that the scan can find leads back to itself through JMAP_TO_UID, even after
\* tasks that failed half way, and a UID recorded as deleted designates no message.
THEOREM MapsAgreeAlways ==
  ASSUME Serial, FitsPage, ~InsertMayFail
  PROVE  Spec => []MapsAgree
<1>1. SerialInv => MapsAgree
  BY DEF SerialInv, KeysInv
<1>2. Spec => []SerialInv
  BY SerialAlways
<1> QED
  BY <1>1, <1>2, PTL

\* "Remove from cache messages no longer present in the mailbox": update_uids takes
\* away no message that was there all along.
THEOREM CleanupSparesAlways ==
  ASSUME Serial, FitsPage, ~InsertMayFail
  PROVE  Spec => []CleanupSparesPresentMessages
<1>1. SerialInv => CleanupSparesPresentMessages
  BY DEF SerialInv, KeysInv, Keys, Collected, CleanupSparesPresentMessages
<1>2. Spec => []SerialInv
  BY SerialAlways
<1> QED
  BY <1>1, <1>2, PTL

=============================================================================
