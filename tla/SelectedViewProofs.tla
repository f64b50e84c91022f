------------------------ MODULE SelectedViewProofs -------------------------
(***************************************************************************)
(* Proofs about SelectedView, for any number of messages and changes: the   *)
(* types with any tasks at once; with one command at a time, that client    *)
(* and session number the same messages and that no change of flags is      *)
(* skipped.                                                                 *)
(***************************************************************************)
EXTENDS SelectedView, PositionsProofs

-----------------------------------------------------------------------------
(* Types. *)

Items   == [uid : Uids, seqnum : Nat, state : States]
Outs    == [gone : Seq(Nat \ {0}), tell : BOOLEAN, exists : Nat, all : Seq(Uids)]
Records == [pc : Labels, cmd : Commands \cup {"noop"}, ids : SUBSET Uids, since : States, new : States,
            list : Seq(Uids), out : Outs, items : SUBSET Items, save : BOOLEAN, prev : SavedSearch,
            event : BOOLEAN]

ServerTyped ==
  /\ present \in SUBSET Uids /\ nextUid \in 1..(MaxUid + 1)
  /\ changed \in [Uids -> States] /\ jmapState \in States

MailboxTyped ==
  /\ isQresync \in Qresync /\ selected \in BOOLEAN
  /\ imapUids \in Seq(Uids) /\ totalMessages \in Nat /\ lastState \in States
  /\ saved \in SavedSearch

ClientTyped == view \in Seq(Uids) /\ known \in [Uids -> States]

\* What TypeOK says, with the types of the lists.  The counter of messages is that of
\* the list, and the list after EXISTS is as long as EXISTS says.
Typed ==
  /\ ServerTyped /\ MailboxTyped /\ ClientTyped
  /\ task \in [Tasks -> Records]
  /\ totalMessages = Len(imapUids)
  /\ \A t \in Tasks : task[t].out.exists <= Len(task[t].out.all)

LEMMA Bounds == MaxUid \in Nat /\ MaxState \in Nat /\ 0 \in States /\ Uids \subseteq Nat \ {0} /\ States \subseteq Nat
BY SelectedViewAssumption DEF Uids, States

LEMMA NoSearchTyped == NoSearch \in SavedSearch /\ InFlight \in SavedSearch
BY DEF NoSearch, InFlight, SavedSearch

LEMMA IdleTyped == Idle \in Records /\ Idle.out.exists <= Len(Idle.out.all)
<1>1. NoOut \in Outs /\ NoOut.exists <= Len(NoOut.all)
  BY DEF NoOut, Outs
<1> QED
  BY <1>1, Bounds, NoSearchTyped DEF Idle, Records, Labels

LEMMA TypedImplies == Typed => TypeOK
<1> SUFFICES ASSUME Typed PROVE TypeOK
  OBVIOUS
<1>1. ToSet(imapUids) \subseteq Uids /\ ToSet(view) \subseteq Uids
  BY DEF Typed, MailboxTyped, ClientTyped, ToSet
<1>2. ASSUME NEW t \in Tasks
      PROVE  /\ task[t].pc \in Labels /\ task[t].cmd \in Commands \cup {"noop"}
             /\ task[t].ids \subseteq Uids /\ task[t].since \in States /\ task[t].new \in States
             /\ ToSet(task[t].list) \subseteq Uids /\ ToSet(task[t].out.gone) \subseteq Nat \ {0}
             /\ task[t].prev \in SavedSearch
  <2>1. task[t] \in Records
    BY DEF Typed
  <2>2. task[t].list \in Seq(Uids) /\ task[t].out.gone \in Seq(Nat \ {0})
    BY <2>1 DEF Records, Outs
  <2> QED
    BY <2>1, <2>2 DEF Records, ToSet
<1> QED
  BY <1>1, <1>2 DEF TypeOK, Typed, ServerTyped, MailboxTyped, ClientTyped

\* What becomes of one task.
LEMMA BecomeTyped ==
  ASSUME Typed, NEW t \in Tasks, NEW r \in Records, r.out.exists <= Len(r.out.all), Become(t, r)
  PROVE  task' \in [Tasks -> Records] /\ \A k \in Tasks : task'[k].out.exists <= Len(task'[k].out.all)
BY DEF Typed, Become

LEMMA HearsTyped ==
  ASSUME Typed, NEW k \in Tasks
  PROVE  Hears(k) \in Records /\ Hears(k).out.exists <= Len(Hears(k).out.all)
<1>1. task[k] \in Records /\ task[k].out.exists <= Len(task[k].out.all)
  BY DEF Typed
<1>2. (task[k].event \/ Listens(k)) \in BOOLEAN
  OBVIOUS
<1> QED
  BY <1>1, <1>2 DEF Hears, Records

LEMMA NotifyTyped ==
  ASSUME Typed, Notify
  PROVE  task' \in [Tasks -> Records] /\ \A k \in Tasks : task'[k].out.exists <= Len(task'[k].out.all)
BY HearsTyped DEF Notify

LEMMA BecomeAndNotifyTyped ==
  ASSUME Typed, NEW t \in Tasks, NEW r \in Records, r.out.exists <= Len(r.out.all), BecomeAndNotify(t, r)
  PROVE  task' \in [Tasks -> Records] /\ \A k \in Tasks : task'[k].out.exists <= Len(task'[k].out.all)
BY HearsTyped DEF BecomeAndNotify

-----------------------------------------------------------------------------
(* The operators on lists. *)

LEMMA MembersAre == \A s : ToSet(s) = Members(s)
BY DEF ToSet, Members

LEMMA OnlyIs ==
  ASSUME NEW R, NEW s \in Seq(R), NEW S
  PROVE  /\ Only(s, S) \in Seq(R) /\ ToSet(Only(s, S)) = ToSet(s) \cap S
         /\ Len(Only(s, S)) = Cardinality(Where(s, S)) /\ Where(s, S) \in SUBSET (DOMAIN s)
<1>1. Where(s, S) \in SUBSET (DOMAIN s)
  BY DEF Where
<1>2. /\ Only(s, S) \in Seq(R) /\ Members(Only(s, S)) = {s[k] : k \in Where(s, S)}
      /\ Len(Only(s, S)) = Cardinality(Where(s, S))
  BY <1>1, PickedMembers DEF Only
<1>3. {s[k] : k \in Where(s, S)} = Members(s) \cap S
  BY DEF Where, Members
<1> QED
  BY <1>1, <1>2, <1>3, MembersAre

LEMMA PositionsAre ==
  ASSUME NEW R, NEW s \in Seq(R)
  PROVE  LET p == [i \in DOMAIN s |-> i] IN
         p \in Seq(Nat \ {0}) /\ p \in Seq(Int) /\ Ascends(p) /\ DOMAIN p = DOMAIN s
<1>1. DOMAIN s = 1..Len(s) /\ Len(s) \in Nat
  OBVIOUS
<1>2. [i \in DOMAIN s |-> i] \in [1..Len(s) -> Nat \ {0}] /\ [i \in DOMAIN s |-> i] \in [1..Len(s) -> Int]
  BY <1>1
<1> QED
  BY <1>1, <1>2 DEF Ascends

LEMMA Wider ==
  ASSUME NEW R, NEW Q, R \subseteq Q, NEW s \in Seq(R)
  PROVE  s \in Seq(Q)
<1>1. s \in [1..Len(s) -> R] /\ Len(s) \in Nat
  OBVIOUS
<1>2. s \in [1..Len(s) -> Q]
  BY <1>1
<1> QED
  BY <1>1, <1>2

\* Without QRESYNC the positions of what is gone, with it the UIDs.
LEMMA GoneIs ==
  ASSUME NEW old \in Seq(Uids), NEW kept
  PROVE  LET g == Gone(old, kept)
             P == DOMAIN old \ Where(old, kept)
         IN /\ g \in Seq(Nat \ {0})
            /\ Len(g) = Cardinality(P) /\ Len(g) + Len(Only(old, kept)) = Len(old)
            /\ ~isQresync => ToSet(g) = P /\ Ascends(g)
            /\ isQresync => ToSet(g) = ToSet(old) \ kept
<1> DEFINE P == DOMAIN old \ Where(old, kept)
           p == [i \in DOMAIN old |-> i]
<1>1. P \in SUBSET (DOMAIN old) /\ Where(old, kept) \in SUBSET (DOMAIN old)
  BY DEF Where
<1>2. /\ Cardinality(P) \in Nat /\ Cardinality(Where(old, kept)) \in Nat
      /\ Cardinality(Where(old, kept)) + Cardinality(P) = Len(old)
  BY <1>1, PickedOrNot
<1>3. Len(Only(old, kept)) = Cardinality(Where(old, kept))
  BY OnlyIs
<1>4. CASE isQresync
  <2>1. Gone(old, kept) = Picked(old, P)
    BY <1>4 DEF Gone
  <2>2. /\ Picked(old, P) \in Seq(Uids) /\ Members(Picked(old, P)) = {old[k] : k \in P}
        /\ Len(Picked(old, P)) = Cardinality(P)
    BY <1>1, PickedMembers
  <2>3. Picked(old, P) \in Seq(Nat \ {0})
    BY ZenonT(60), <2>2, Bounds, Wider
  <2>4. {old[k] : k \in P} = Members(old) \ kept
    BY DEF Where, Members
  <2>5. ToSet(Gone(old, kept)) = ToSet(old) \ kept
    BY <2>1, <2>2, <2>4, MembersAre
  <2>6. Len(Gone(old, kept)) = Cardinality(P) /\ Len(Gone(old, kept)) + Len(Only(old, kept)) = Len(old)
    BY <1>2, <1>3, <2>1, <2>2
  <2> QED
    BY <1>4, <2>1, <2>3, <2>5, <2>6
<1>5. CASE ~isQresync
  <2>1. Gone(old, kept) = Picked(p, P)
    BY <1>5 DEF Gone
  <2>2. p \in Seq(Nat \ {0}) /\ p \in Seq(Int) /\ Ascends(p) /\ DOMAIN p = DOMAIN old
    BY PositionsAre
  <2>3. P \in SUBSET (DOMAIN p)
    BY <1>1, <2>2
  <2>4. {p[k] : k \in P} = P
    BY <1>1
  <2> HIDE DEF p, P
  <2>5. /\ Picked(p, P) \in Seq(Nat \ {0}) /\ Members(Picked(p, P)) = {p[k] : k \in P}
        /\ Len(Picked(p, P)) = Cardinality(P)
    BY <2>2, <2>3, PickedMembers
  <2>6. Ascends(Picked(p, P))
    BY <2>2, <2>3, PickedAscends
  <2>7. ToSet(Gone(old, kept)) = P
    BY <2>1, <2>4, <2>5, MembersAre
  <2>8. Len(Gone(old, kept)) = Cardinality(P) /\ Len(Gone(old, kept)) + Len(Only(old, kept)) = Len(old)
    BY <1>2, <1>3, <2>1, <2>5
  <2> QED
    BY <1>5, <2>1, <2>5, <2>6, <2>7, <2>8 DEF P
<1> QED
  BY <1>4, <1>5

\* The numbers of EXPUNGE responses are positive.
LEMMA NumbersTyped ==
  ASSUME NEW old \in Seq(Uids), NEW kept
  PROVE  Numbers(Gone(old, kept)) \in Seq(Nat \ {0})
<1> DEFINE g == Gone(old, kept)
<1>1. g \in Seq(Nat \ {0}) /\ (~isQresync => Ascends(g))
  BY GoneIs
<1> HIDE DEF g
<1>2. CASE isQresync
  BY <1>1, <1>2 DEF Numbers, g
<1>3. CASE ~isQresync
  <2>1. \A i \in DOMAIN g : g[i] >= i /\ g[i] \in Nat /\ i \in Nat
    BY <1>1, <1>3, AscendingAbove
  <2>2. \A i \in DOMAIN g : g[i] - (i - 1) \in Nat \ {0}
    BY <2>1
  <2>3. DOMAIN g = 1..Len(g) /\ Len(g) \in Nat
    BY <1>1
  <2>4. [i \in DOMAIN g |-> g[i] - (i - 1)] \in [1..Len(g) -> Nat \ {0}]
    BY <2>2, <2>3
  <2>5. [i \in DOMAIN g |-> g[i] - (i - 1)] \in Seq(Nat \ {0})
    BY <2>3, <2>4
  <2> QED
    BY <1>3, <2>5 DEF Numbers, g
<1> QED
  BY <1>2, <1>3

LEMMA DropTyped ==
  ASSUME NEW v \in Seq(Uids), NEW n
  PROVE  Drop(v, n) \in Seq(Uids)
BY PickedMembers DEF Drop

LEMMA LocatedTyped ==
  ASSUME NEW us, NEW list \in Seq(Uids)
  PROVE  Located(us, list) \in SUBSET Items
<1>1. \A i \in DOMAIN list : list[i] \in Uids /\ i \in Nat
  OBVIOUS
<1> QED
  BY <1>1, Bounds DEF Located, Items

LEMMA ToldTyped ==
  ASSUME ClientTyped, NEW o \in Outs, o.exists <= Len(o.all)
  PROVE  Told(o) \in Seq(Uids)
<1> DEFINE v == IF isQresync THEN Only(view, Uids \ ToSet(o.gone)) ELSE view
<1>1. v \in Seq(Uids) /\ Len(v) \in Nat
  BY OnlyIs DEF ClientTyped
<1>2. o.all \in Seq(Uids) /\ o.exists \in Nat /\ Len(o.all) \in Nat
  BY DEF Outs
<1>3. Told(o) = IF o.tell /\ o.exists > Len(v) THEN v \o SubSeq(o.all, Len(v) + 1, o.exists) ELSE v
  BY DEF Told
<1> HIDE DEF v
<1>4. CASE o.exists > Len(v)
  <2>1. SubSeq(o.all, Len(v) + 1, o.exists) \in Seq(Uids)
    <3>1. \A i \in (Len(v) + 1)..o.exists : i \in 1..Len(o.all)
      BY <1>1, <1>2
    <3> QED
      BY <1>1, <1>2, <3>1
  <2> QED
    BY <1>1, <1>3, <2>1
<1> QED
  BY <1>1, <1>3, <1>4

-----------------------------------------------------------------------------
(* Every step keeps the types. *)

\* What is left to show of a step is what it changes.
LEMMA TypedFrom ==
  ASSUME Typed, ServerTyped', MailboxTyped', ClientTyped',
         task' \in [Tasks -> Records], \A k \in Tasks : task'[k].out.exists <= Len(task'[k].out.all),
         totalMessages' = Len(imapUids')
  PROVE  Typed'
BY DEF Typed

LEMMA ServerStays == ASSUME Typed, UNCHANGED server PROVE ServerTyped'
BY DEF Typed, ServerTyped, server

LEMMA MailboxStays ==
  ASSUME Typed, UNCHANGED mailbox PROVE MailboxTyped' /\ totalMessages' = Len(imapUids')
BY DEF Typed, MailboxTyped, mailbox

LEMMA ClientStays == ASSUME Typed, UNCHANGED client PROVE ClientTyped'
BY DEF Typed, ClientTyped, client

LEMMA TaskOnlyTyped ==
  ASSUME Typed, NEW t \in Tasks, NEW r \in Records, r.out.exists <= Len(r.out.all), Become(t, r),
         UNCHANGED <<server, mailbox, client>>
  PROVE  Typed'
BY BecomeTyped, ServerStays, MailboxStays, ClientStays, TypedFrom

LEMMA LocalTyped ==
  ASSUME Typed, NEW t \in Tasks
  PROVE  /\ task[t] \in Records /\ task[t].out \in Outs /\ task[t].out.exists <= Len(task[t].out.all)
         /\ task[t].list \in Seq(Uids) /\ task[t].ids \in SUBSET Uids /\ task[t].new \in States
         /\ task[t].since \in States /\ task[t].items \in SUBSET Items /\ task[t].prev \in SavedSearch
         /\ task[t].pc \in Labels
BY DEF Typed, Records

\* A change of the account.
LEMMA ChangedTyped ==
  ASSUME Typed, NEW now \in SUBSET Uids, NEW us, Changed(now, us)
  PROVE  /\ present' \in SUBSET Uids /\ changed' \in [Uids -> States] /\ jmapState' \in States
         /\ jmapState + 1 \in States /\ jmapState' = jmapState + 1
<1>1. jmapState \in Nat /\ jmapState + 1 \in States
  BY Bounds DEF Typed, ServerTyped, Changed, States
<1> QED
  BY <1>1 DEF Typed, ServerTyped, Changed

LEMMA OthersTyped == ASSUME Typed, Others PROVE Typed'
<1>1. ASSUME UNCHANGED <<mailbox, client>>, Notify, ServerTyped' PROVE Typed'
  BY <1>1, NotifyTyped, MailboxStays, ClientStays, TypedFrom
<1>2. CASE Deliver
  <2>1. nextUid \in Uids /\ nextUid' \in 1..(MaxUid + 1)
    BY <1>2, Bounds DEF Deliver, Typed, ServerTyped, Uids
  <2>2. present \cup {nextUid} \in SUBSET Uids
    BY <2>1 DEF Typed, ServerTyped
  <2> QED
    BY <1>1, <1>2, <2>1, <2>2, ChangedTyped DEF Deliver, ServerTyped
<1>3. ASSUME NEW u \in Uids, Vanish(u) PROVE Typed'
  <2>1. present \ {u} \in SUBSET Uids /\ nextUid \in 1..(MaxUid + 1)
    BY DEF Typed, ServerTyped
  <2> QED
    BY <1>1, <1>3, <2>1, ChangedTyped DEF Vanish, ServerTyped
<1>4. ASSUME NEW u \in Uids, SetFlags(u) PROVE Typed'
  <2>1. present \in SUBSET Uids /\ nextUid \in 1..(MaxUid + 1)
    BY DEF Typed, ServerTyped
  <2> QED
    BY <1>1, <1>4, <2>1, ChangedTyped DEF SetFlags, ServerTyped
<1> QED
  BY <1>2, <1>3, <1>4 DEF Others

LEMMA FirstLabels == \A c \in Commands : FirstLabel[c] \in Labels
BY SelectedViewAssumption DEF FirstLabel, Labels, Blocking, Spawned

LEMMA StartTyped == ASSUME Typed, NEW t \in Tasks, NEW c \in Commands, NEW us \in SUBSET Uids, Start(t, c, us) PROVE Typed'
<1> DEFINE r == [Idle EXCEPT !.pc = FirstLabel[c], !.cmd = c, !.ids = us, !.since = lastState,
                            !.items = Located(us, imapUids)]
<1>1. Located(us, imapUids) \in SUBSET Items /\ lastState \in States
  BY LocatedTyped DEF Typed, MailboxTyped
<1>2. r \in Records /\ r.out = Idle.out
  BY <1>1, IdleTyped, FirstLabels DEF Records
<1> HIDE DEF r
<1> QED
  BY <1>2, IdleTyped, TaskOnlyTyped DEF Start, r

LEMMA StartSaveTyped == ASSUME Typed, NEW t \in Tasks, StartSave(t) PROVE Typed'
<1> DEFINE r == [Idle EXCEPT !.pc = "query", !.cmd = "search", !.prev = saved, !.save = TRUE]
<1>1. r \in Records /\ r.out = Idle.out
  BY IdleTyped DEF Typed, MailboxTyped, StartSave, Records, Labels
<1>2. Become(t, r) /\ UNCHANGED <<server, client>>
  BY DEF StartSave
<1> HIDE DEF r
<1>3. MailboxTyped' /\ totalMessages' = Len(imapUids')
  BY NoSearchTyped DEF Typed, MailboxTyped, StartSave
<1> QED
  BY <1>1, <1>2, <1>3, IdleTyped, BecomeTyped, ServerStays, ClientStays, TypedFrom

LEMMA EndedTyped ==
  ASSUME Typed, NEW t \in Tasks
  PROVE  Ended(t) \in Records /\ Ended(t).out = Idle.out
<1>1. CASE task[t].cmd = "idle"
  <2>1. "idle" \in Commands \cup {"noop"} /\ task[t].event \in BOOLEAN
    BY <1>1 DEF Typed, Records
  <2> QED
    BY <1>1, <2>1, IdleTyped DEF Ended, Records, Labels
<1>2. CASE task[t].cmd # "idle"
  BY <1>2, IdleTyped DEF Ended
<1> QED
  BY <1>1, <1>2

LEMMA ClosingTyped ==
  ASSUME Typed, NEW t \in Tasks, task[t].cmd = "close"
  PROVE  LET r == [Idle EXCEPT !.cmd = "close", !.pc = "opened"] IN r \in Records /\ r.out = Idle.out
<1>1. "close" \in Commands \cup {"noop"}
  BY DEF Typed, Records
<1> QED
  BY <1>1, IdleTyped DEF Records, Labels

LEMMA FailTyped == ASSUME Typed, NEW t \in Tasks, Fail(t) PROVE Typed'
<1> DEFINE r == IF task[t].cmd = "close" THEN [Idle EXCEPT !.cmd = "close", !.pc = "opened"] ELSE Ended(t)
<1>1. r \in Records /\ r.out = Idle.out
  BY EndedTyped, ClosingTyped
<1>2. Become(t, r) /\ UNCHANGED <<server, client>>
  BY DEF Fail
<1> HIDE DEF r
<1>3. MailboxTyped' /\ totalMessages' = Len(imapUids')
  BY LocalTyped DEF Typed, MailboxTyped, Fail
<1> QED
  BY <1>1, <1>2, <1>3, IdleTyped, BecomeTyped, ServerStays, ClientStays, TypedFrom

LEMMA ListTyped == ASSUME Typed, NEW t \in Tasks, List(t) PROVE Typed'
<1> DEFINE all == [u \in Uids |-> u]
           pc == CASE task[t].cmd = "select" -> "state"
                   [] task[t].cmd = "expunge" -> "replace"
                   [] OTHER -> "apply"
           r == [Local(t) EXCEPT !.list = Only(all, present), !.pc = pc]
<1>1. Only(all, present) \in Seq(Uids)
  <2>1. all \in [1..MaxUid -> Uids] /\ MaxUid \in Nat
    BY Bounds DEF Uids
  <2>2. all \in Seq(Uids)
    BY <2>1
  <2> HIDE DEF all
  <2> QED
    BY <2>2, OnlyIs
<1>2. pc \in Labels
  BY DEF Labels
<1> HIDE DEF all, pc
<1>3. r \in Records /\ r.out = task[t].out
  BY <1>1, <1>2, LocalTyped DEF Local, Records
<1>4. Become(t, r) /\ UNCHANGED <<server, mailbox, client>>
  BY DEF List, all, pc
<1> QED
  BY <1>3, <1>4, LocalTyped, TaskOnlyTyped

LEMMA GetStateTyped == ASSUME Typed, NEW t \in Tasks, GetState(t) PROVE Typed'
<1> DEFINE r == [Local(t) EXCEPT !.new = jmapState, !.pc = "opened"]
<1>1. r \in Records /\ r.out = task[t].out
  BY ZenonT(60), LocalTyped DEF Local, Records, Labels, Typed, ServerTyped
<1> HIDE DEF r
<1> QED
  BY <1>1, LocalTyped, TaskOnlyTyped DEF GetState, r

LEMMA OpenedTyped == ASSUME Typed, NEW t \in Tasks, Opened(t) PROVE Typed'
<1>1. Become(t, Idle) /\ UNCHANGED server
  BY DEF Opened, server
<1>2. MailboxTyped' /\ totalMessages' = Len(imapUids')
  <2>1. /\ imapUids' = task[t].list /\ totalMessages' = Len(task[t].list) /\ lastState' = task[t].new
        /\ saved' = NoSearch /\ isQresync' = isQresync /\ selected' \in BOOLEAN
    BY DEF Opened
  <2> QED
    BY <2>1, LocalTyped, NoSearchTyped DEF Typed, MailboxTyped
<1>3. ClientTyped'
  BY LocalTyped, Bounds DEF Opened, ClientTyped
<1> QED
  BY <1>1, <1>2, <1>3, IdleTyped, BecomeTyped, ServerStays, TypedFrom

LEMMA ChangesTyped == ASSUME Typed, NEW t \in Tasks, Changes(t) PROVE Typed'
<1> DEFINE us == {u \in Uids : changed[u] > Since(t)}
           r == [Local(t) EXCEPT !.ids = us, !.new = jmapState, !.pc = "list"]
<1>1. us \in SUBSET Uids
  OBVIOUS
<1> HIDE DEF us
<1>2. r \in Records /\ r.out = task[t].out
  <2>1. jmapState \in States /\ "list" \in Labels
    BY DEF Typed, ServerTyped, Labels
  <2> QED
    BY <1>1, <2>1, LocalTyped DEF Local, Records
<1>3. Become(t, r) /\ UNCHANGED <<server, mailbox, client>>
  BY DEF Changes, us
<1> QED
  BY <1>2, <1>3, LocalTyped, TaskOnlyTyped

\* What is added to a list.
LEMMA ApplyIs ==
  ASSUME Typed, NEW t \in Tasks, Apply(t)
  PROVE  LET kept  == Only(imapUids, Kept(t))
             added == Only(task[t].list, Uids \ ToSet(kept))
             gone  == Gone(imapUids, Kept(t))
         IN /\ kept \in Seq(Uids) /\ added \in Seq(Uids) /\ gone \in Seq(Nat \ {0})
            /\ imapUids' = kept \o added /\ imapUids' \in Seq(Uids)
            /\ totalMessages' = Len(imapUids') /\ totalMessages' \in Nat
            /\ Become(t, [Local(t) EXCEPT
                   !.out = [gone |-> Numbers(gone), tell |-> gone # <<>> \/ added # <<>>,
                            exists |-> totalMessages', all |-> imapUids'],
                   !.items = Located(task[t].ids, imapUids'), !.pc = "write"])
<1> DEFINE kept  == Only(imapUids, Kept(t))
           added == Only(task[t].list, Uids \ ToSet(kept))
           gone  == Gone(imapUids, Kept(t))
           left  == IF totalMessages < Len(gone) THEN 0 ELSE totalMessages - Len(gone)
<1>1. kept \in Seq(Uids) /\ added \in Seq(Uids) /\ gone \in Seq(Nat \ {0})
  BY LocalTyped, OnlyIs, GoneIs DEF Typed, MailboxTyped
<1>2. Len(gone) + Len(kept) = Len(imapUids)
  BY GoneIs DEF Typed, MailboxTyped
<1>3. /\ imapUids' = kept \o added /\ totalMessages' = left + Len(added)
      /\ Become(t, [Local(t) EXCEPT
                   !.out = [gone |-> Numbers(gone), tell |-> gone # <<>> \/ added # <<>>,
                            exists |-> totalMessages', all |-> imapUids'],
                   !.items = Located(task[t].ids, imapUids'), !.pc = "write"])
  BY DEF Apply
<1> HIDE DEF kept, added, gone
<1>4. imapUids' \in Seq(Uids) /\ Len(imapUids') = Len(kept) + Len(added)
  BY <1>1, <1>3
<1>5. Len(gone) \in Nat /\ Len(kept) \in Nat /\ Len(added) \in Nat /\ totalMessages = Len(imapUids)
  BY <1>1 DEF Typed
<1>6. left = Len(kept)
  BY <1>2, <1>5
<1> HIDE DEF left
<1>7. totalMessages' = Len(imapUids') /\ totalMessages' \in Nat
  BY <1>3, <1>4, <1>5, <1>6
<1> QED
  BY <1>1, <1>3, <1>4, <1>7 DEF kept, added, gone, left

LEMMA ApplyTyped == ASSUME Typed, NEW t \in Tasks, Apply(t) PROVE Typed'
<1> DEFINE gone == Gone(imapUids, Kept(t))
           added == Only(task[t].list, Uids \ ToSet(Only(imapUids, Kept(t))))
           tell == gone # <<>> \/ added # <<>>
           out == [gone |-> Numbers(gone), tell |-> tell, exists |-> totalMessages', all |-> imapUids']
           r == [Local(t) EXCEPT !.out = out, !.items = Located(task[t].ids, imapUids'), !.pc = "write"]
<1>1. /\ imapUids' \in Seq(Uids) /\ totalMessages' = Len(imapUids') /\ totalMessages' \in Nat /\ Become(t, r)
  BY ApplyIs
<1>2. Numbers(gone) \in Seq(Nat \ {0}) /\ tell \in BOOLEAN
  BY NumbersTyped DEF Typed, MailboxTyped
<1>3. Located(task[t].ids, imapUids') \in SUBSET Items
  BY <1>1, LocatedTyped
<1> HIDE DEF gone, tell
<1>4. out \in Outs /\ out.exists <= Len(out.all)
  BY <1>1, <1>2 DEF Outs
<1> HIDE DEF out
<1>5. r \in Records /\ r.out = out
  BY ZenonT(60), <1>3, <1>4, LocalTyped DEF Local, Records, Labels
<1> HIDE DEF r
<1>6. UNCHANGED <<server, isQresync, selected, lastState, saved, client>>
  BY DEF Apply
<1>7. MailboxTyped'
  BY <1>1, <1>6 DEF Typed, MailboxTyped
<1> QED
  BY <1>1, <1>4, <1>5, <1>6, <1>7, BecomeTyped, ServerStays, ClientStays, TypedFrom

LEMMA ReadExpungeTyped == ASSUME Typed, NEW t \in Tasks, ReadExpunge(t) PROVE Typed'
<1> DEFINE out == [task[t].out EXCEPT !.gone = Tail(@)]
           r == [Local(t) EXCEPT !.out = out, !.pc = "reading"]
<1>1. task[t].out.gone \in Seq(Nat \ {0}) /\ task[t].out.gone # <<>>
  BY LocalTyped DEF ReadExpunge, Outs
<1>2. Tail(task[t].out.gone) \in Seq(Nat \ {0})
  BY <1>1
<1>3. out \in Outs /\ out.exists <= Len(out.all)
  BY <1>2, LocalTyped DEF Outs
<1> HIDE DEF out
<1>5. r \in Records /\ r.out = out
  BY ZenonT(60), <1>3, LocalTyped DEF Local, Records, Labels
<1>6. Become(t, r) /\ UNCHANGED <<server, mailbox, known>> /\ view' = Drop(view, Head(task[t].out.gone))
  BY DEF ReadExpunge, out
<1> HIDE DEF r
<1>7. ClientTyped'
  BY <1>6, DropTyped DEF Typed, ClientTyped
<1> QED
  BY <1>3, <1>5, <1>6, <1>7, BecomeTyped, ServerStays, MailboxStays, TypedFrom

LEMMA WriteTyped == ASSUME Typed, NEW t \in Tasks, Write(t) PROVE Typed'
<1> DEFINE r == CASE task[t].cmd \in {"noop", "idle"} -> [Local(t) EXCEPT !.out = NoOut, !.pc = "advance"]
                  [] task[t].cmd = "search" -> [Local(t) EXCEPT !.out = NoOut, !.pc = "save"]
                  [] OTHER -> Idle
<1>1. NoOut = Idle.out /\ NoOut \in Outs
  BY IdleTyped DEF Idle, NoOut, Outs
<1>2. /\ [Local(t) EXCEPT !.out = NoOut, !.pc = "advance"] \in Records
      /\ [Local(t) EXCEPT !.out = NoOut, !.pc = "save"] \in Records
  BY ZenonT(60), <1>1, LocalTyped DEF Local, Records, Labels
<1>3. /\ [Local(t) EXCEPT !.out = NoOut, !.pc = "advance"].out = NoOut
      /\ [Local(t) EXCEPT !.out = NoOut, !.pc = "save"].out = NoOut
  BY LocalTyped DEF Local, Records
<1>4. r \in Records /\ r.out = Idle.out
  BY <1>1, <1>2, <1>3, IdleTyped
<1>5. Become(t, r) /\ UNCHANGED <<server, mailbox, known>> /\ view' = Told(task[t].out)
  BY DEF Write
<1> HIDE DEF r
<1>6. ClientTyped'
  BY <1>5, LocalTyped, ToldTyped DEF Typed, ClientTyped
<1> QED
  BY <1>4, <1>5, <1>6, IdleTyped, BecomeTyped, ServerStays, MailboxStays, TypedFrom

LEMMA AdvanceTyped == ASSUME Typed, NEW t \in Tasks, Advance(t) PROVE Typed'
<1> DEFINE us == task[t].ids \cap ToSet(imapUids)
           more == task[t].new # task[t].since
           g == [Local(t) EXCEPT !.items = Located(us, imapUids), !.pc = "get"]
           r == IF more /\ us # {} THEN g ELSE Ended(t)
<1>1. Located(us, imapUids) \in SUBSET Items
  BY LocatedTyped DEF Typed, MailboxTyped
<1> HIDE DEF us, more
<1>2. g \in Records /\ g.out = task[t].out
  BY ZenonT(60), <1>1, LocalTyped DEF Local, Records, Labels
<1>3. Become(t, r) /\ UNCHANGED <<server, isQresync, selected, imapUids, totalMessages, saved, client>>
  BY DEF Advance, us, more
<1> HIDE DEF g
<1>4. r \in Records /\ r.out.exists <= Len(r.out.all)
  BY <1>2, LocalTyped, EndedTyped, IdleTyped
<1> HIDE DEF r
<1>5. MailboxTyped' /\ totalMessages' = Len(imapUids')
  BY <1>3, LocalTyped DEF Typed, MailboxTyped, Advance
<1> QED
  BY <1>3, <1>4, <1>5, BecomeTyped, ServerStays, ClientStays, TypedFrom

\* Items of which the states are replaced.
LEMMA StatedTyped ==
  ASSUME NEW items \in SUBSET Items, NEW s \in States
  PROVE  {[i EXCEPT !.state = s] : i \in items} \in SUBSET Items
BY DEF Items

LEMMA GetTyped == ASSUME Typed, NEW t \in Tasks, Get(t) PROVE Typed'
<1> DEFINE items == {[i EXCEPT !.state = jmapState] : i \in {k \in task[t].items : k.uid \in present}}
           r == [Local(t) EXCEPT !.items = items, !.pc = "fetch"]
<1>1. items \in SUBSET Items
  <2>1. {k \in task[t].items : k.uid \in present} \in SUBSET Items /\ jmapState \in States
    BY LocalTyped DEF Typed, ServerTyped
  <2> QED
    BY <2>1, StatedTyped
<1>2. Become(t, r) /\ UNCHANGED <<server, mailbox, client>>
  BY DEF Get, Local
<1> HIDE DEF items
<1>3. r \in Records /\ r.out = task[t].out
  BY ZenonT(60), <1>1, LocalTyped DEF Local, Records, Labels
<1> QED
  BY <1>2, <1>3, LocalTyped, TaskOnlyTyped

LEMMA FetchTyped == ASSUME Typed, NEW t \in Tasks, Fetch(t) PROVE Typed'
<1> DEFINE r == IF task[t].cmd = "fetch" THEN [Local(t) EXCEPT !.pc = "seen"] ELSE Ended(t)
           P(u, i) == i.seqnum \in DOMAIN view /\ view[i.seqnum] = u
<1>1. [Local(t) EXCEPT !.pc = "seen"] \in Records /\ [Local(t) EXCEPT !.pc = "seen"].out = task[t].out
  BY LocalTyped DEF Local, Records, Labels
<1>2. r \in Records /\ r.out.exists <= Len(r.out.all)
  BY <1>1, LocalTyped, EndedTyped, IdleTyped
<1>3. known' = [u \in Uids |-> IF \E i \in task[t].items : P(u, i)
                              THEN (CHOOSE i \in task[t].items : P(u, i)).state ELSE known[u]]
  BY DEF Fetch
<1> HIDE DEF P
<1>4. ASSUME NEW u \in Uids
      PROVE  (IF \E i \in task[t].items : P(u, i)
              THEN (CHOOSE i \in task[t].items : P(u, i)).state ELSE known[u]) \in States
  <2>1. CASE \E i \in task[t].items : P(u, i)
    <3>1. (CHOOSE i \in task[t].items : P(u, i)) \in task[t].items
      BY <2>1
    <3>2. (CHOOSE i \in task[t].items : P(u, i)) \in Items
      BY <3>1, LocalTyped
    <3> QED
      BY <2>1, <3>2 DEF Items
  <2>2. CASE ~\E i \in task[t].items : P(u, i)
    BY <2>2 DEF Typed, ClientTyped
  <2> QED
    BY <2>1, <2>2
<1>5. Become(t, r) /\ UNCHANGED <<server, mailbox, view>>
  BY DEF Fetch
<1>6. ClientTyped'
  <2>1. known' \in [Uids -> States]
    BY <1>3, <1>4
  <2> QED
    BY <1>5, <2>1 DEF Typed, ClientTyped
<1> HIDE DEF r
<1> QED
  BY <1>2, <1>5, <1>6, BecomeTyped, ServerStays, MailboxStays, TypedFrom

LEMMA SeenTyped == ASSUME Typed, NEW t \in Tasks, NEW us \in SUBSET present, Seen(t, us) PROVE Typed'
<1>1. BecomeAndNotify(t, Idle) /\ UNCHANGED <<nextUid, mailbox, client>>
  BY DEF Seen
<1>2. ServerTyped'
  <2>1. CASE us = {}
    BY <2>1 DEF Typed, ServerTyped, Seen
  <2>2. CASE us # {}
    <3>1. Changed(present, us) /\ present \in SUBSET Uids
      BY <2>2 DEF Seen, Typed, ServerTyped
    <3> QED
      BY <1>1, <3>1, ChangedTyped DEF Typed, ServerTyped
  <2> QED
    BY <2>1, <2>2
<1> QED
  BY <1>1, <1>2, IdleTyped, BecomeAndNotifyTyped, MailboxStays, ClientStays, TypedFrom

LEMMA SetTyped == ASSUME Typed, NEW t \in Tasks, Set(t) PROVE Typed'
<1> DEFINE us   == task[t].ids \cap present
           keep == IF task[t].cmd = "move" THEN present \ us ELSE present
           new  == IF us = {} THEN jmapState ELSE jmapState + 1
           g    == [Local(t) EXCEPT !.ids = us, !.new = new, !.pc = "drop"]
           r    == IF task[t].cmd = "move" /\ us = {} THEN Idle ELSE g
<1>1. /\ IF us = {} THEN UNCHANGED <<present, changed, jmapState>>
         ELSE Changed(keep, IF task[t].cmd = "move" THEN {} ELSE us)
      /\ lastState' = IF task[t].cmd = "move" THEN new ELSE lastState
      /\ BecomeAndNotify(t, r)
      /\ UNCHANGED <<nextUid, isQresync, selected, imapUids, totalMessages, saved, client>>
  BY DEF Set
<1>2. us \in SUBSET Uids /\ keep \in SUBSET Uids
  BY DEF Typed, ServerTyped
<1> HIDE DEF us, keep
<1>3. ServerTyped' /\ new \in States
  <2>1. CASE us = {}
    BY <1>1, <2>1 DEF Typed, ServerTyped
  <2>2. CASE us # {}
    BY <1>1, <1>2, <2>2, ChangedTyped DEF Typed, ServerTyped
  <2> QED
    BY <2>1, <2>2
<1> HIDE DEF new
<1>4. g \in Records /\ g.out = task[t].out
  BY ZenonT(60), <1>2, <1>3, LocalTyped DEF Local, Records, Labels
<1> HIDE DEF g
<1>5. r \in Records /\ r.out.exists <= Len(r.out.all)
  BY <1>4, LocalTyped, IdleTyped
<1> HIDE DEF r
<1>6. MailboxTyped' /\ totalMessages' = Len(imapUids')
  BY <1>1, <1>3 DEF Typed, MailboxTyped
<1> QED
  BY <1>1, <1>3, <1>5, <1>6, BecomeAndNotifyTyped, ClientStays, TypedFrom

\* What MOVE leaves.
LEMMA DropMovedIs ==
  ASSUME Typed, NEW t \in Tasks, DropMoved(t)
  PROVE  LET gone == Gone(imapUids, ToSet(imapUids) \ task[t].ids) IN
         /\ imapUids' = Only(imapUids, Uids \ task[t].ids) /\ imapUids' \in Seq(Uids)
         /\ imapUids' = Only(imapUids, ToSet(imapUids) \ task[t].ids)
         /\ totalMessages' = Len(imapUids') /\ totalMessages' \in Nat
         /\ Become(t, [Local(t) EXCEPT !.out = [NoOut EXCEPT !.gone = Numbers(gone)], !.pc = "write"])
<1> DEFINE kept == ToSet(imapUids) \ task[t].ids
           gone == Gone(imapUids, kept)
           left == Only(imapUids, Uids \ task[t].ids)
<1>1. /\ imapUids' = left
      /\ totalMessages' = IF totalMessages < Len(gone) THEN 0 ELSE totalMessages - Len(gone)
      /\ Become(t, [Local(t) EXCEPT !.out = [NoOut EXCEPT !.gone = Numbers(gone)], !.pc = "write"])
  BY DEF DropMoved
<1>2. imapUids \in Seq(Uids) /\ totalMessages = Len(imapUids)
  BY DEF Typed, MailboxTyped
<1>3. Where(imapUids, Uids \ task[t].ids) = Where(imapUids, kept)
  BY <1>2 DEF Where, ToSet
<1>4. left = Only(imapUids, kept) /\ left \in Seq(Uids)
  BY <1>2, <1>3, OnlyIs DEF Only
<1>5. Len(gone) + Len(Only(imapUids, kept)) = Len(imapUids) /\ gone \in Seq(Nat \ {0})
  BY <1>2, GoneIs
<1> HIDE DEF kept, gone, left
<1>6. Len(left) \in Nat /\ Len(gone) \in Nat
  BY <1>4, <1>5
<1>7. totalMessages' = Len(imapUids') /\ totalMessages' \in Nat
  BY <1>1, <1>2, <1>4, <1>5, <1>6
<1> QED
  BY <1>1, <1>4, <1>7 DEF kept, gone, left

LEMMA DropMovedTyped == ASSUME Typed, NEW t \in Tasks, DropMoved(t) PROVE Typed'
<1> DEFINE gone == Gone(imapUids, ToSet(imapUids) \ task[t].ids)
           out == [NoOut EXCEPT !.gone = Numbers(gone)]
           r == [Local(t) EXCEPT !.out = out, !.pc = "write"]
<1>1. imapUids' \in Seq(Uids) /\ totalMessages' = Len(imapUids') /\ totalMessages' \in Nat /\ Become(t, r)
  BY DropMovedIs
<1>2. Numbers(gone) \in Seq(Nat \ {0})
  BY NumbersTyped DEF Typed, MailboxTyped
<1> HIDE DEF gone
<1>3. out \in Outs /\ out.exists <= Len(out.all)
  <2>1. NoOut \in Outs /\ NoOut.exists <= Len(NoOut.all)
    BY DEF NoOut, Outs
  <2>2. out \in Outs /\ out.exists = NoOut.exists /\ out.all = NoOut.all
    BY <1>2, <2>1 DEF Outs
  <2> HIDE DEF out
  <2> QED
    BY <2>1, <2>2
<1> HIDE DEF out
<1>4. r \in Records /\ r.out = out
  BY ZenonT(60), <1>3, LocalTyped DEF Local, Records, Labels
<1> HIDE DEF r
<1>5. UNCHANGED <<server, isQresync, selected, lastState, saved, client>>
  BY DEF DropMoved
<1>6. MailboxTyped'
  BY <1>1, <1>5 DEF Typed, MailboxTyped
<1> QED
  BY <1>1, <1>3, <1>4, <1>5, <1>6, BecomeTyped, ServerStays, ClientStays, TypedFrom

LEMMA StoreAdvanceTyped == ASSUME Typed, NEW t \in Tasks, StoreAdvance(t) PROVE Typed'
<1> DEFINE items == {[i EXCEPT !.state = task[t].new] : i \in {k \in task[t].items : k.uid \in task[t].ids}}
           r == [Local(t) EXCEPT !.items = items, !.pc = "fetch"]
<1>1. items \in SUBSET Items
  <2>1. {k \in task[t].items : k.uid \in task[t].ids} \in SUBSET Items /\ task[t].new \in States
    BY LocalTyped
  <2> QED
    BY <2>1, StatedTyped
<1>2. /\ Become(t, r) /\ UNCHANGED <<server, isQresync, selected, imapUids, totalMessages, saved, client>>
      /\ lastState' = task[t].new
  BY DEF StoreAdvance, Local
<1> HIDE DEF items
<1>3. r \in Records /\ r.out = task[t].out
  BY ZenonT(60), <1>1, LocalTyped DEF Local, Records, Labels
<1> HIDE DEF r
<1>4. MailboxTyped' /\ totalMessages' = Len(imapUids')
  BY <1>2, LocalTyped DEF Typed, MailboxTyped
<1> QED
  BY <1>2, <1>3, <1>4, LocalTyped, BecomeTyped, ServerStays, ClientStays, TypedFrom

LEMMA DestroyTyped == ASSUME Typed, NEW t \in Tasks, NEW us \in SUBSET present, Destroy(t, us) PROVE Typed'
<1> DEFINE new == IF us = {} THEN jmapState ELSE jmapState + 1
           g == [Local(t) EXCEPT !.new = new, !.pc = "list"]
           c == [Idle EXCEPT !.cmd = "close", !.pc = "opened"]
<1>1. /\ IF us = {} THEN UNCHANGED <<present, changed, jmapState>> ELSE Changed(present \ us, {})
      /\ \/ task[t].cmd = "close" /\ Become(t, c) /\ UNCHANGED saved
         \/ saved' = NoSearch /\ Become(t, g)
      /\ UNCHANGED <<nextUid, isQresync, selected, imapUids, totalMessages, lastState, client>>
  BY DEF Destroy
<1>2. ServerTyped' /\ new \in States
  <2>1. CASE us = {}
    BY <1>1, <2>1 DEF Typed, ServerTyped
  <2>2. CASE us # {}
    <3>1. present \ us \in SUBSET Uids
      BY DEF Typed, ServerTyped
    <3> QED
      BY <1>1, <2>2, <3>1, ChangedTyped DEF Typed, ServerTyped
  <2> QED
    BY <2>1, <2>2
<1> HIDE DEF new
<1>3. g \in Records /\ g.out = task[t].out
  BY ZenonT(60), <1>2, LocalTyped DEF Local, Records, Labels
<1>4. task[t].cmd = "close" => c \in Records /\ c.out = Idle.out
  BY ClosingTyped
<1> HIDE DEF g, c
<1>5. task' \in [Tasks -> Records] /\ \A k \in Tasks : task'[k].out.exists <= Len(task'[k].out.all)
  <2>1. CASE task[t].cmd = "close" /\ Become(t, c)
    BY <1>4, <2>1, IdleTyped, BecomeTyped
  <2>2. CASE Become(t, g)
    BY <1>3, <2>2, LocalTyped, BecomeTyped
  <2> QED
    BY <1>1, <2>1, <2>2
<1>6. MailboxTyped' /\ totalMessages' = Len(imapUids')
  BY <1>1, NoSearchTyped DEF Typed, MailboxTyped
<1> QED
  BY <1>1, <1>2, <1>5, <1>6, ClientStays, TypedFrom

LEMMA ReplaceTyped == ASSUME Typed, NEW t \in Tasks, Replace(t) PROVE Typed'
<1> DEFINE list == task[t].list
           gone == Gone(imapUids, ToSet(list))
           tell == gone # <<>> \/ totalMessages # Len(list)
           out == [gone |-> Numbers(gone), tell |-> tell, exists |-> Len(list), all |-> list]
           r == [Local(t) EXCEPT !.out = out, !.pc = "write"]
<1>1. /\ imapUids' = list /\ totalMessages' = Len(list) /\ lastState' = task[t].new
      /\ Become(t, r) /\ UNCHANGED <<server, isQresync, selected, saved, client>>
  BY DEF Replace
<1>2. Numbers(gone) \in Seq(Nat \ {0}) /\ tell \in BOOLEAN /\ list \in Seq(Uids)
  BY LocalTyped, NumbersTyped DEF Typed, MailboxTyped
<1> HIDE DEF gone, tell, list
<1>3. out \in Outs /\ out.exists <= Len(out.all)
  BY <1>2 DEF Outs
<1> HIDE DEF out
<1>4. r \in Records /\ r.out = out
  BY ZenonT(60), <1>3, LocalTyped DEF Local, Records, Labels
<1> HIDE DEF r
<1>5. MailboxTyped' /\ totalMessages' = Len(imapUids')
  BY <1>1, <1>2, LocalTyped DEF Typed, MailboxTyped
<1> QED
  BY <1>1, <1>3, <1>4, <1>5, BecomeTyped, ServerStays, ClientStays, TypedFrom

LEMMA QueryTyped == ASSUME Typed, NEW t \in Tasks, NEW us \in SUBSET present, Query(t, us) PROVE Typed'
<1> DEFINE pc == IF us \subseteq ToSet(imapUids) THEN "save" ELSE "list"
           r == [Local(t) EXCEPT !.ids = us, !.items = Located(us, imapUids), !.pc = pc]
<1>1. Located(us, imapUids) \in SUBSET Items /\ us \in SUBSET Uids /\ pc \in Labels
  BY LocatedTyped DEF Typed, MailboxTyped, ServerTyped, Labels
<1>2. Become(t, r) /\ UNCHANGED <<server, mailbox, client>>
  BY DEF Query
<1> HIDE DEF pc
<1>3. r \in Records /\ r.out = task[t].out
  BY <1>1, LocalTyped DEF Local, Records
<1> QED
  BY <1>2, <1>3, LocalTyped, TaskOnlyTyped

LEMMA SaveTyped == ASSUME Typed, NEW t \in Tasks, Save(t) PROVE Typed'
<1> DEFINE found == {[uid |-> i.uid, seqnum |-> i.seqnum] : i \in task[t].items}
<1>1. found \in SUBSET ImapId
  BY LocalTyped DEF Items, ImapId
<1>2. /\ saved' = IF task[t].save THEN [kind |-> "results", items |-> found] ELSE saved
      /\ Become(t, Idle)
      /\ UNCHANGED <<server, isQresync, selected, imapUids, totalMessages, lastState, client>>
  BY DEF Save
<1> HIDE DEF found
<1>3. saved' \in SavedSearch
  BY <1>1, <1>2 DEF SavedSearch, Typed, MailboxTyped
<1>4. MailboxTyped' /\ totalMessages' = Len(imapUids')
  BY <1>2, <1>3 DEF Typed, MailboxTyped
<1> QED
  BY <1>2, <1>4, IdleTyped, BecomeTyped, ServerStays, ClientStays, TypedFrom

LEMMA ImportTyped == ASSUME Typed, NEW t \in Tasks, Import(t) PROVE Typed'
<1> DEFINE r == [Local(t) EXCEPT !.pc = "list"]
<1>1. r \in Records /\ r.out = task[t].out
  BY LocalTyped DEF Local, Records, Labels
<1>2. nextUid \in Uids /\ nextUid' \in 1..(MaxUid + 1)
  BY Bounds DEF Import, Typed, ServerTyped, Uids
<1>3. present \cup {nextUid} \in SUBSET Uids
  BY <1>2 DEF Typed, ServerTyped
<1>4. ServerTyped' /\ jmapState + 1 \in States
  BY <1>2, <1>3, ChangedTyped DEF Import, ServerTyped
<1>5. /\ BecomeAndNotify(t, r) /\ lastState' = jmapState + 1
      /\ UNCHANGED <<isQresync, selected, imapUids, totalMessages, saved, client>>
  BY DEF Import
<1> HIDE DEF r
<1>6. MailboxTyped' /\ totalMessages' = Len(imapUids')
  BY <1>4, <1>5 DEF Typed, MailboxTyped
<1> QED
  BY <1>1, <1>4, <1>5, <1>6, LocalTyped, BecomeAndNotifyTyped, ClientStays, TypedFrom

LEMMA WaitingTyped ==
  ASSUME Typed, NEW t \in Tasks, Event(t) \/ SourceClosed(t) \/ Done(t)
  PROVE  Typed'
<1>1. CASE Event(t)
  <2> DEFINE r == [Idle EXCEPT !.cmd = task[t].cmd, !.since = lastState, !.pc = "changes"]
  <2>1. r \in Records /\ r.out = Idle.out
    BY LocalTyped, IdleTyped DEF Records, Labels, Typed, MailboxTyped
  <2>2. Become(t, r) /\ UNCHANGED <<server, mailbox, client>>
    BY <1>1 DEF Event
  <2> HIDE DEF r
  <2> QED
    BY <2>1, <2>2, IdleTyped, TaskOnlyTyped
<1>2. CASE SourceClosed(t)
  <2>1. [Local(t) EXCEPT !.pc = "closed"] \in Records /\ [Local(t) EXCEPT !.pc = "closed"].out = task[t].out
    BY LocalTyped DEF Local, Records, Labels
  <2> QED
    BY <1>2, <2>1, LocalTyped, TaskOnlyTyped DEF SourceClosed
<1>3. CASE Done(t)
  BY <1>3, IdleTyped, TaskOnlyTyped DEF Done
<1> QED
  BY <1>1, <1>2, <1>3

LEMMA StepTyped == ASSUME Typed, NEW t \in Tasks, Step(t) PROVE Typed'
<1>1. CASE List(t) \/ GetState(t) \/ Opened(t) \/ Changes(t) \/ Apply(t) \/ ReadExpunge(t) \/ Write(t)
  BY <1>1, ListTyped, GetStateTyped, OpenedTyped, ChangesTyped, ApplyTyped, ReadExpungeTyped, WriteTyped
<1>2. CASE Advance(t) \/ Get(t) \/ Fetch(t) \/ (\E us \in SUBSET present : Seen(t, us)) \/ Set(t)
  BY <1>2, AdvanceTyped, GetTyped, FetchTyped, SeenTyped, SetTyped
<1>3. CASE \/ DropMoved(t) \/ StoreAdvance(t) \/ (\E us \in SUBSET present : Destroy(t, us)) \/ Replace(t)
  BY <1>3, DropMovedTyped, StoreAdvanceTyped, DestroyTyped, ReplaceTyped
<1>4. CASE (\E us \in SUBSET present : Query(t, us)) \/ Save(t) \/ Import(t) \/ Event(t)
  BY <1>4, QueryTyped, SaveTyped, ImportTyped, WaitingTyped
<1> QED
  BY <1>1, <1>2, <1>3, <1>4 DEF Step

LEMMA NextTyped == ASSUME Typed, [Next]_vars PROVE Typed'
<1>1. CASE UNCHANGED vars
  <2>1. UNCHANGED <<server, mailbox, client, task>>
    BY <1>1 DEF vars
  <2> QED
    BY <2>1, ServerStays, MailboxStays, ClientStays, TypedFrom DEF Typed
<1>2. CASE Others
  BY <1>2, OthersTyped
<1>3. ASSUME NEW t \in Tasks,
             \/ \E c \in Commands, us \in SUBSET Uids : Start(t, c, us)
             \/ StartSave(t) \/ Step(t) \/ Fail(t) \/ SourceClosed(t) \/ Done(t)
      PROVE  Typed'
  BY <1>3, StartTyped, StartSaveTyped, StepTyped, FailTyped, WaitingTyped
<1> QED
  BY <1>1, <1>2, <1>3 DEF Next

LEMMA InitTyped == Init => Typed
<1> SUFFICES ASSUME Init PROVE Typed
  OBVIOUS
<1>1. ServerTyped
  BY Bounds DEF Init, ServerTyped
<1>2. MailboxTyped /\ totalMessages = Len(imapUids)
  <2>1. imapUids = << >> /\ totalMessages = 0 /\ saved = NoSearch /\ lastState = 0
    BY DEF Init
  <2>2. imapUids \in Seq(Uids) /\ Len(imapUids) = 0
    BY <2>1
  <2>3. isQresync \in Qresync /\ selected \in BOOLEAN
    BY DEF Init
  <2> QED
    BY <2>1, <2>2, <2>3, Bounds, NoSearchTyped DEF MailboxTyped
<1>3. ClientTyped
  BY Bounds DEF Init, ClientTyped
<1>4. task \in [Tasks -> Records] /\ \A t \in Tasks : task[t].out.exists <= Len(task[t].out.all)
  BY IdleTyped DEF Init
<1> QED
  BY <1>1, <1>2, <1>3, <1>4 DEF Typed

THEOREM TypedAlways == Spec => []Typed
<1>1. Typed /\ [Next]_vars => Typed'
  BY NextTyped
<1> QED
  BY <1>1, InitTyped, PTL DEF Spec

\* Whatever commands are under way at once, the positions in EXPUNGE responses are
\* positive, the lists hold UIDs and every task is at one of its steps.
THEOREM SelectedViewTyped == Spec => []TypeOK
BY TypedAlways, TypedImplies, PTL

-----------------------------------------------------------------------------
(* One command at a time: the numbering. *)

\* The client waits for the answer to a command before it sends the next one.
Serial == \A s, t \in Tasks : s = t

\* A list in UID order, of messages that have arrived; what is in the mailbox and not in
\* the list has arrived after all of the list.
Newer(S, list) == \A u \in S \ ToSet(list), v \in ToSet(list) : v < u
Sound(list) ==
  /\ Ascends(list)
  /\ \A v \in ToSet(list) : v < nextUid
  /\ Newer(present, list)

Written(r) == r.pc \in {"write", "reading"}

\* The position, in the client's list as it is now, of what the i-th EXPUNGE is about.
Place(gone, i) == gone[i] + (i - 1)

\* The EXPUNGE responses that are still to be read name exactly what the session does
\* not list any more, in order.
Expunges(gone) ==
  /\ \A i \in DOMAIN gone : Place(gone, i) \in DOMAIN view
  /\ \A i, j \in DOMAIN gone : i < j => Place(gone, i) < Place(gone, j)
  /\ {view[Place(gone, i)] : i \in DOMAIN gone} = ToSet(view) \ ToSet(imapUids)

\* What a buffer still has to tell makes of the client's list that of the session.
Announces(o) ==
  /\ IF isQresync THEN ToSet(o.gone) = ToSet(view) \ ToSet(imapUids) ELSE Expunges(o.gone)
  /\ \A x \in ToSet(imapUids) \ ToSet(view), y \in ToSet(imapUids) \cap ToSet(view) : y < x
  /\ ToSet(imapUids) \ ToSet(view) # {} => o.tell
  /\ o.tell => o.exists = Len(imapUids) /\ o.all = imapUids

\* Messages that have been in the mailbox and are not in it any more.
Away(us) == us \cap present = {} /\ \A u \in us : u < nextUid

\* What holds of the locals of a command.
Tracks(r) ==
  /\ Sound(r.list)
  /\ r.pc = "drop" /\ r.cmd = "move" => Away(r.ids)
  /\ r.pc \in {"apply", "replace"} => Newer(ToSet(r.list), imapUids)
  /\ r.pc = "replace" => r.cmd = "expunge"
  /\ (Written(r) /\ r.cmd \in {"noop", "idle"}) \/ r.pc = "advance" => imapUids = r.list
  /\ Written(r) => Announces(r.out)

ViewInv ==
  /\ \A u \in present : u < nextUid
  /\ Sound(imapUids) /\ Ascends(view)
  /\ \A t \in Tasks : Tracks(task[t])
  /\ (\A t \in Tasks : ~Written(task[t])) => view = imapUids

LEMMA ViewImplies ==
  ASSUME Typed, Serial, ViewInv
  PROVE  InStep
<1>1. ASSUME Quiet PROVE view = imapUids /\ totalMessages = Len(imapUids)
  BY <1>1 DEF Quiet, At, ViewInv, Written, Typed
<1>2. ASSUME NEW t \in Tasks, At(t, "advance") PROVE view = task[t].list
  BY <1>2 DEF At, ViewInv, Tracks, Written, Serial
<1> QED
  BY <1>1, <1>2 DEF InStep

-----------------------------------------------------------------------------
(* Steps that leave both lists alone. *)

\* What happens to the messages on the server: some go, the next one comes.
Moves ==
  /\ present' \subseteq present \cup {nextUid}
  /\ nextUid' = nextUid \/ nextUid' = nextUid + 1
  /\ \A u \in present' : u < nextUid'

LEMMA SetOfSeq ==
  ASSUME NEW R, NEW s \in Seq(R)
  PROVE  ToSet(s) \subseteq R
BY DEF ToSet

LEMMA SoundStays ==
  ASSUME Typed, Moves, NEW l \in Seq(Uids), Sound(l)
  PROVE  /\ Ascends(l) /\ \A v \in ToSet(l) : v < nextUid'
         /\ \A u \in present' \ ToSet(l), v \in ToSet(l) : v < u
<1>1. nextUid \in Nat /\ \A v \in ToSet(l) : v \in Nat
  <2>1. ToSet(l) \subseteq Uids
    BY SetOfSeq
  <2>2. nextUid \in 1..(MaxUid + 1)
    BY DEF Typed, ServerTyped
  <2>3. ToSet(l) \subseteq Nat
    BY <2>1, Bounds, Zenon
  <2> QED
    BY <2>2, <2>3, Bounds
<1>2. \A v \in ToSet(l) : v < nextUid
  BY DEF Sound
<1>3. ASSUME NEW u \in present' \ ToSet(l), NEW v \in ToSet(l) PROVE v < u
  <2>1. CASE u = nextUid
    BY <1>2, <2>1
  <2>2. CASE u \in present
    BY <2>2 DEF Sound, Newer
  <2> QED
    BY <2>1, <2>2 DEF Moves
<1>4. \A v \in ToSet(l) : v < nextUid'
  BY <1>1, <1>2 DEF Moves
<1> QED
  BY <1>3, <1>4 DEF Sound

LEMMA NoMembers == ToSet(<< >>) = {}
BY DEF ToSet

LEMMA EmptySound == Sound(<< >>) /\ Sound(<< >>)'
BY NoMembers DEF Sound, Newer, Ascends

\* A command goes on, s after r, without writing and without coming to apply a list.
Follows(r, s) ==
  /\ s.list = r.list \/ s.list = << >>
  /\ \/ s.pc \notin {"apply", "replace", "write", "reading", "advance", "drop"} /\ ~Written(r)
     \/ /\ s.pc = "drop" /\ ~Written(r)
        /\ s.cmd = "move" => s.ids \cap present' = {} /\ \A u \in s.ids : u < nextUid'
     \/ s.pc = r.pc /\ s.cmd = r.cmd /\ s.out = r.out /\ s.list = r.list /\ s.ids = r.ids

LEMMA FollowsInv ==
  ASSUME Typed, Typed', ViewInv, Moves, UNCHANGED <<imapUids, view, isQresync>>,
         \A t \in Tasks : Follows(task[t], task'[t])
  PROVE  ViewInv'
<1>1. Sound(imapUids)'
  BY SoundStays DEF Typed, MailboxTyped, ViewInv, Sound, Newer
<1>2. ASSUME NEW t \in Tasks PROVE Tracks(task[t])'
  <2>1. Tracks(task[t]) /\ Follows(task[t], task'[t]) /\ task[t].list \in Seq(Uids)
    BY LocalTyped DEF ViewInv
  <2>2. Sound(task[t].list)'
    <3>1. CASE task'[t].list = task[t].list
      BY <2>1, <3>1, SoundStays DEF Tracks, Sound, Newer
    <3>2. CASE task'[t].list = << >>
      BY <3>2, EmptySound DEF Sound, Newer
    <3> QED
      BY <2>1, <3>1, <3>2 DEF Follows
  <2>3. CASE task'[t].pc \notin {"apply", "replace", "write", "reading", "advance", "drop"}
    BY <2>2, <2>3 DEF Tracks, Written
  <2>4. CASE /\ task'[t].pc = "drop"
             /\ task'[t].cmd = "move" => task'[t].ids \cap present' = {} /\ \A u \in task'[t].ids : u < nextUid'
    BY <2>2, <2>4 DEF Tracks, Written, Away
  <2>5. CASE /\ task'[t].pc = task[t].pc /\ task'[t].cmd = task[t].cmd /\ task'[t].out = task[t].out
             /\ task'[t].list = task[t].list /\ task'[t].ids = task[t].ids
    <3>1. Announces(task[t].out) => Announces(task[t].out)'
      BY <2>5 DEF Announces, Expunges, Place
    <3>2. Away(task[t].ids) => Away(task[t].ids)'
      <4>1. nextUid \in Nat /\ \A u \in task[t].ids : u \in Nat
        <5>1. task[t].ids \subseteq Uids /\ nextUid \in 1..(MaxUid + 1)
          BY LocalTyped DEF Typed, ServerTyped
        <5>2. task[t].ids \subseteq Nat
          BY <5>1, Bounds, Zenon
        <5> QED
          BY <5>1, <5>2, Bounds
      <4> QED
        BY <2>5, <4>1 DEF Away, Moves
    <3> QED
      BY <2>1, <2>2, <2>5, <3>1, <3>2 DEF Tracks, Written, Newer
  <2> QED
    BY <2>1, <2>3, <2>4, <2>5 DEF Follows
<1>3. ASSUME \A t \in Tasks : ~Written(task'[t]) PROVE view' = imapUids'
  <2>1. \A t \in Tasks : ~Written(task[t])
    BY <1>3 DEF Follows, Written
  <2> QED
    BY <2>1 DEF ViewInv
<1> QED
  BY <1>1, <1>2, <1>3 DEF ViewInv, Moves, Written

\* The same for what one task becomes, the others only hear of a change or nothing.
LEMMA BecomeFollows ==
  ASSUME Typed, NEW t \in Tasks, NEW r, Become(t, r) \/ BecomeAndNotify(t, r), Follows(task[t], r)
  PROVE  \A k \in Tasks : Follows(task[k], task'[k])
<1>1. \A k \in Tasks : Follows(task[k], Hears(k)) /\ Follows(task[k], task[k])
  <2>1. ASSUME NEW k \in Tasks
        PROVE  /\ Hears(k).pc = task[k].pc /\ Hears(k).cmd = task[k].cmd /\ Hears(k).out = task[k].out
               /\ Hears(k).list = task[k].list /\ Hears(k).ids = task[k].ids
    <3>1. task[k] \in Records
      BY DEF Typed
    <3> QED
      BY <3>1 DEF Hears, Records
  <2> QED
    BY <2>1 DEF Follows
<1>2. task \in [Tasks -> Records]
  BY DEF Typed
<1>3. CASE Become(t, r)
  BY <1>1, <1>2, <1>3 DEF Become
<1>4. CASE BecomeAndNotify(t, r)
  BY <1>1, <1>4 DEF BecomeAndNotify
<1> QED
  BY <1>3, <1>4

\* A step of one task that leaves the messages and both lists alone, and one after which
\* some of the messages are gone.
LEMMA FewerInv ==
  ASSUME Typed, Typed', ViewInv, NEW t \in Tasks, NEW r, Become(t, r) \/ BecomeAndNotify(t, r), Follows(task[t], r),
         present' \subseteq present, UNCHANGED <<nextUid, imapUids, view, isQresync>>
  PROVE  ViewInv'
<1>1. Moves
  BY DEF Moves, ViewInv
<1> QED
  BY <1>1, BecomeFollows, FollowsInv

LEMMA StaysInv ==
  ASSUME Typed, Typed', ViewInv, NEW t \in Tasks, NEW r, Become(t, r), Follows(task[t], r),
         UNCHANGED <<server, imapUids, view, isQresync>>
  PROVE  ViewInv'
BY FewerInv DEF server

LEMMA ArrivesMoves ==
  ASSUME Typed, ViewInv, present' = present \cup {nextUid}, nextUid' = nextUid + 1
  PROVE  Moves
<1>1. nextUid \in Nat /\ \A u \in present : u \in Nat
  BY Bounds DEF Typed, ServerTyped
<1> QED
  BY <1>1 DEF Moves, ViewInv

LEMMA OthersView == ASSUME Typed, Typed', ViewInv, Others PROVE ViewInv'
<1>1. \A k \in Tasks : Follows(task[k], Hears(k))
  <2>1. ASSUME NEW k \in Tasks
        PROVE  /\ Hears(k).pc = task[k].pc /\ Hears(k).cmd = task[k].cmd /\ Hears(k).out = task[k].out
               /\ Hears(k).list = task[k].list /\ Hears(k).ids = task[k].ids
    <3>1. task[k] \in Records
      BY DEF Typed
    <3> QED
      BY <3>1 DEF Hears, Records
  <2> QED
    BY <2>1 DEF Follows
<1>2. ASSUME Moves, Notify, UNCHANGED <<mailbox, client>> PROVE ViewInv'
  BY <1>1, <1>2, FollowsInv DEF Notify, mailbox, client
<1>3. CASE Deliver
  BY <1>2, <1>3, ArrivesMoves DEF Deliver, Changed
<1>4. ASSUME NEW u \in Uids, Vanish(u) \/ SetFlags(u) PROVE ViewInv'
  <2>1. Moves
    BY <1>4 DEF Moves, Vanish, SetFlags, Changed, ViewInv
  <2> QED
    BY <1>2, <1>4, <2>1 DEF Vanish, SetFlags
<1> QED
  BY <1>3, <1>4 DEF Others

LEMMA IdleFollows ==
  /\ Idle.pc = "idle" /\ Idle.list = << >> /\ Idle.cmd = "noop"
  /\ \A r : ~Written(r) => Follows(r, Idle)
BY DEF Idle, Follows

LEMMA EndedFollows ==
  ASSUME Typed, NEW t \in Tasks
  PROVE  ~Written(task[t]) => Follows(task[t], Ended(t))
BY DEF Ended, Idle, Follows

LEMMA ClosingFollows == \A r : ~Written(r) => Follows(r, [Idle EXCEPT !.cmd = "close", !.pc = "opened"])
BY DEF Idle, Follows

\* A command starts.
LEMMA StartView ==
  ASSUME Typed, Typed', ViewInv, NEW t \in Tasks,
         StartSave(t) \/ \E c \in Commands, us \in SUBSET Uids : Start(t, c, us)
  PROVE  ViewInv'
<1>1. ASSUME NEW c \in Commands, NEW us \in SUBSET Uids, Start(t, c, us) PROVE ViewInv'
  <2> DEFINE r == [Idle EXCEPT !.pc = FirstLabel[c], !.cmd = c, !.ids = us, !.since = lastState,
                              !.items = Located(us, imapUids)]
  <2>1. FirstLabel[c] \notin {"apply", "replace", "write", "reading", "advance", "drop"}
    BY SelectedViewAssumption DEF FirstLabel, Blocking, Spawned
  <2>2. r.pc = FirstLabel[c] /\ r.list = << >>
    BY DEF Idle
  <2>3. Become(t, r) /\ UNCHANGED <<server, imapUids, view, isQresync>> /\ task[t].pc = "idle"
    BY <1>1 DEF Start, At, mailbox, client
  <2> HIDE DEF r
  <2> QED
    BY <2>1, <2>2, <2>3, StaysInv DEF Follows, Written
<1>2. CASE StartSave(t)
  <2> DEFINE r == [Idle EXCEPT !.pc = "query", !.cmd = "search", !.prev = saved, !.save = TRUE]
  <2>1. r.pc = "query" /\ r.list = << >>
    BY DEF Idle
  <2>2. Become(t, r) /\ UNCHANGED <<server, imapUids, view, isQresync>> /\ task[t].pc = "idle"
    BY <1>2 DEF StartSave, At, client
  <2> HIDE DEF r
  <2> QED
    BY <2>1, <2>2, StaysInv DEF Follows, Written
<1> QED
  BY <1>1, <1>2

LEMMA FailView == ASSUME Typed, Typed', ViewInv, NEW t \in Tasks, Fail(t) PROVE ViewInv'
<1> DEFINE r == IF task[t].cmd = "close" THEN [Idle EXCEPT !.cmd = "close", !.pc = "opened"] ELSE Ended(t)
<1>1. ~Written(task[t])
  BY DEF Fail, Written
<1>2. Follows(task[t], r)
  BY <1>1, EndedFollows, ClosingFollows
<1>3. Become(t, r) /\ UNCHANGED <<server, imapUids, view, isQresync>>
  BY DEF Fail, client
<1> HIDE DEF r
<1> QED
  BY <1>2, <1>3, StaysInv

\* A command goes on to another step, with its list.
LEMMA GoesOn ==
  ASSUME Typed, NEW t \in Tasks, ~Written(task[t]), NEW r, r.list = task[t].list,
         r.pc \notin {"apply", "replace", "write", "reading", "advance", "drop"}
  PROVE  Follows(task[t], r)
BY DEF Follows

LEMMA WaitingView ==
  ASSUME Typed, Typed', ViewInv, NEW t \in Tasks,
         GetState(t) \/ Changes(t) \/ Advance(t) \/ Get(t) \/ Fetch(t) \/ Event(t) \/ SourceClosed(t) \/ Done(t)
  PROVE  ViewInv'
<1>0. task[t] \in Records
  BY DEF Typed
<1>1. CASE GetState(t)
  <2> DEFINE r == [Local(t) EXCEPT !.new = jmapState, !.pc = "opened"]
  <2>1. r.pc = "opened" /\ r.list = task[t].list
    BY <1>0 DEF Local, Records
  <2>2. Become(t, r) /\ UNCHANGED <<server, imapUids, view, isQresync>> /\ ~Written(task[t])
    BY <1>1 DEF GetState, At, Written, mailbox, client
  <2> HIDE DEF r
  <2> QED
    BY <2>1, <2>2, GoesOn, StaysInv
<1>2. CASE Changes(t)
  <2> DEFINE ids == {u \in Uids : changed[u] > Since(t)}
             r == [Local(t) EXCEPT !.ids = ids, !.new = jmapState, !.pc = "list"]
  <2>1. Become(t, r) /\ UNCHANGED <<server, imapUids, view, isQresync>> /\ ~Written(task[t])
    BY <1>2 DEF Changes, At, Written, mailbox, client
  <2> HIDE DEF ids
  <2>2. r.pc = "list" /\ r.list = task[t].list
    BY <1>0 DEF Local, Records
  <2> HIDE DEF r
  <2> QED
    BY <2>1, <2>2, GoesOn, StaysInv
<1>3. CASE Advance(t)
  <2> DEFINE us == task[t].ids \cap ToSet(imapUids)
             more == task[t].new # task[t].since
             g == [Local(t) EXCEPT !.items = Located(us, imapUids), !.pc = "get"]
             r == IF more /\ us # {} THEN g ELSE Ended(t)
  <2>1. Become(t, r) /\ UNCHANGED <<server, imapUids, view, isQresync>> /\ ~Written(task[t])
    BY <1>3 DEF Advance, At, Written, client
  <2>2. g.pc = "get" /\ g.list = task[t].list
    BY <1>0 DEF Local, Records
  <2> HIDE DEF us, more, g
  <2>3. Follows(task[t], r)
    BY <2>1, <2>2, GoesOn, EndedFollows
  <2> HIDE DEF r
  <2> QED
    BY <2>1, <2>3, StaysInv
<1>4. CASE Get(t)
  <2> DEFINE items == {[i EXCEPT !.state = jmapState] : i \in {k \in task[t].items : k.uid \in present}}
             r == [Local(t) EXCEPT !.items = items, !.pc = "fetch"]
  <2>1. Become(t, r) /\ UNCHANGED <<server, imapUids, view, isQresync>> /\ ~Written(task[t])
    BY <1>4 DEF Get, Local, At, Written, mailbox, client
  <2> HIDE DEF items
  <2>2. r.pc = "fetch" /\ r.list = task[t].list
    BY <1>0 DEF Local, Records
  <2> HIDE DEF r
  <2> QED
    BY <2>1, <2>2, GoesOn, StaysInv
<1>5. CASE Fetch(t)
  <2> DEFINE g == [Local(t) EXCEPT !.pc = "seen"]
             r == IF task[t].cmd = "fetch" THEN g ELSE Ended(t)
  <2>1. Become(t, r) /\ UNCHANGED <<server, imapUids, view, isQresync>> /\ ~Written(task[t])
    BY <1>5 DEF Fetch, At, Written, mailbox
  <2>2. g.pc = "seen" /\ g.list = task[t].list
    BY <1>0 DEF Local, Records
  <2> HIDE DEF g
  <2>3. Follows(task[t], r)
    BY <2>1, <2>2, GoesOn, EndedFollows
  <2> HIDE DEF r
  <2> QED
    BY <2>1, <2>3, StaysInv
<1>6. CASE Event(t)
  <2> DEFINE r == [Idle EXCEPT !.cmd = task[t].cmd, !.since = lastState, !.pc = "changes"]
  <2>1. Become(t, r) /\ UNCHANGED <<server, imapUids, view, isQresync>> /\ ~Written(task[t])
    BY <1>6 DEF Event, At, Written, mailbox, client
  <2>2. r.pc = "changes" /\ r.list = << >>
    BY DEF Idle
  <2> HIDE DEF r
  <2> QED
    BY <2>1, <2>2, StaysInv DEF Follows
<1>7. CASE SourceClosed(t)
  <2> DEFINE r == [Local(t) EXCEPT !.pc = "closed"]
  <2>1. Become(t, r) /\ UNCHANGED <<server, imapUids, view, isQresync>> /\ ~Written(task[t])
    BY <1>7 DEF SourceClosed, At, Written, mailbox, client
  <2>2. r.pc = "closed" /\ r.list = task[t].list
    BY <1>0 DEF Local, Records
  <2> HIDE DEF r
  <2> QED
    BY <2>1, <2>2, GoesOn, StaysInv
<1>8. CASE Done(t)
  <2>1. Become(t, Idle) /\ UNCHANGED <<server, imapUids, view, isQresync>> /\ ~Written(task[t])
    BY <1>8 DEF Done, Written, mailbox, client
  <2> QED
    BY <2>1, IdleFollows, StaysInv
<1> QED
  BY <1>1, <1>2, <1>3, <1>4, <1>5, <1>6, <1>7, <1>8

\* Steps that change the account.
LEMMA ServerView ==
  ASSUME Typed, Typed', ViewInv, NEW t \in Tasks,
         Set(t) \/ StoreAdvance(t) \/ Save(t) \/ Import(t)
           \/ \E us \in SUBSET present : Seen(t, us) \/ Destroy(t, us) \/ Query(t, us)
  PROVE  ViewInv'
<1>0. task[t] \in Records
  BY DEF Typed
<1>1. CASE Set(t)
  <2> DEFINE us   == task[t].ids \cap present
             new  == IF us = {} THEN jmapState ELSE jmapState + 1
             g    == [Local(t) EXCEPT !.ids = us, !.new = new, !.pc = "drop"]
             r    == IF task[t].cmd = "move" /\ us = {} THEN Idle ELSE g
  <2>1. /\ BecomeAndNotify(t, r) /\ UNCHANGED <<nextUid, imapUids, view, isQresync>> /\ ~Written(task[t])
        /\ present' \subseteq present
    BY <1>1 DEF Set, Changed, At, Written, client
  <2>2. us # {} /\ task[t].cmd = "move" => us \cap present' = {} /\ \A u \in us : u < nextUid'
    BY <1>1, <2>1 DEF Set, Changed, ViewInv
  <2> HIDE DEF us, new
  <2>4. g.pc = "drop" /\ g.list = task[t].list /\ g.ids = us /\ g.cmd = task[t].cmd
    BY <1>0 DEF Local, Records
  <2> HIDE DEF g
  <2>3. Follows(task[t], r)
    BY <2>1, <2>2, <2>4, IdleFollows DEF Follows
  <2> HIDE DEF r
  <2> QED
    BY <2>1, <2>3, FewerInv
<1>2. CASE StoreAdvance(t)
  <2> DEFINE items == {[i EXCEPT !.state = task[t].new] : i \in {k \in task[t].items : k.uid \in task[t].ids}}
             r == [Local(t) EXCEPT !.items = items, !.pc = "fetch"]
  <2>1. Become(t, r) /\ UNCHANGED <<server, imapUids, view, isQresync>> /\ ~Written(task[t])
    BY <1>2 DEF StoreAdvance, Local, At, Written, client
  <2> HIDE DEF items
  <2>2. r.pc = "fetch" /\ r.list = task[t].list
    BY <1>0 DEF Local, Records
  <2> HIDE DEF r
  <2> QED
    BY <2>1, <2>2, GoesOn, StaysInv
<1>3. CASE Save(t)
  <2>1. Become(t, Idle) /\ UNCHANGED <<server, imapUids, view, isQresync>> /\ ~Written(task[t])
    BY <1>3 DEF Save, At, Written, client
  <2> QED
    BY <2>1, IdleFollows, StaysInv
<1>4. CASE Import(t)
  <2> DEFINE r == [Local(t) EXCEPT !.pc = "list"]
  <2>1. BecomeAndNotify(t, r) /\ UNCHANGED <<imapUids, view, isQresync>> /\ ~Written(task[t])
    BY <1>4 DEF Import, At, Written, client
  <2>2. r.pc = "list" /\ r.list = task[t].list
    BY <1>0 DEF Local, Records
  <2> HIDE DEF r
  <2>3. Moves
    BY <1>4, ArrivesMoves DEF Import, Changed
  <2> QED
    BY <2>1, <2>2, <2>3, GoesOn, BecomeFollows, FollowsInv
<1>5. ASSUME NEW us \in SUBSET present, Seen(t, us) PROVE ViewInv'
  <2>1. /\ BecomeAndNotify(t, Idle) /\ UNCHANGED <<nextUid, imapUids, view, isQresync>> /\ ~Written(task[t])
        /\ present' \subseteq present
    BY <1>5 DEF Seen, Changed, At, Written, mailbox, client
  <2> QED
    BY <2>1, IdleFollows, FewerInv
<1>6. ASSUME NEW us \in SUBSET present, Destroy(t, us) PROVE ViewInv'
  <2> DEFINE new == IF us = {} THEN jmapState ELSE jmapState + 1
             g == [Local(t) EXCEPT !.new = new, !.pc = "list"]
             c == [Idle EXCEPT !.cmd = "close", !.pc = "opened"]
  <2>1. /\ Become(t, c) \/ Become(t, g)
        /\ UNCHANGED <<nextUid, imapUids, view, isQresync>> /\ ~Written(task[t])
        /\ present' \subseteq present
    BY <1>6 DEF Destroy, Changed, At, Written, client
  <2> HIDE DEF new
  <2>2. g.pc = "list" /\ g.list = task[t].list
    BY <1>0 DEF Local, Records
  <2> HIDE DEF g
  <2>3. Follows(task[t], g) /\ Follows(task[t], c)
    BY <2>1, <2>2, GoesOn, ClosingFollows
  <2> HIDE DEF c
  <2> QED
    BY <2>1, <2>3, FewerInv
<1>7. ASSUME NEW us \in SUBSET present, Query(t, us) PROVE ViewInv'
  <2> DEFINE pc == IF us \subseteq ToSet(imapUids) THEN "save" ELSE "list"
             r == [Local(t) EXCEPT !.ids = us, !.items = Located(us, imapUids), !.pc = pc]
  <2>1. Become(t, r) /\ UNCHANGED <<server, imapUids, view, isQresync>> /\ ~Written(task[t])
    BY <1>7 DEF Query, At, Written, mailbox, client
  <2>2. r.pc \in {"save", "list"} /\ r.list = task[t].list
    BY <1>0 DEF Local, Records
  <2> HIDE DEF r
  <2> QED
    BY <2>1, <2>2, GoesOn, StaysInv
<1> QED
  BY <1>1, <1>2, <1>3, <1>4, <1>5, <1>6, <1>7

-----------------------------------------------------------------------------
(* Steps that change one of the lists. *)

\* With one command at a time it is enough to look at its own.
LEMMA OneInv ==
  ASSUME Typed, ViewInv, Serial, NEW t \in Tasks, UNCHANGED server,
         Sound(imapUids)', Ascends(view)', Tracks(task[t])', ~Written(task'[t]) => view' = imapUids'
  PROVE  ViewInv'
<1>1. \A k \in Tasks : Tracks(task[k])'
  BY DEF Serial
<1>2. \A u \in present' : u < nextUid'
  BY DEF ViewInv, server
<1> QED
  BY <1>1, <1>2 DEF ViewInv, Written

LEMMA BecomeIs ==
  ASSUME Typed, NEW t \in Tasks, NEW r, Become(t, r)
  PROVE  task'[t] = r
BY DEF Typed, Become

LEMMA NotWriting ==
  ASSUME Typed, ViewInv, Serial, NEW t \in Tasks, ~Written(task[t])
  PROVE  view = imapUids
BY DEF ViewInv, Serial

\* Nothing of the list changes, the server does not either.
LEMMA SoundSame ==
  ASSUME NEW l, Sound(l), UNCHANGED server
  PROVE  /\ Ascends(l) /\ \A v \in ToSet(l) : v < nextUid'
         /\ \A u \in present' \ ToSet(l), v \in ToSet(l) : v < u
BY DEF Sound, Newer, server

\* synchronize_messages returns what is in the mailbox.
LEMMA ListIs ==
  ASSUME Typed
  PROVE  LET l == Only([u \in Uids |-> u], present) IN l \in Seq(Uids) /\ Ascends(l) /\ ToSet(l) = present
<1> DEFINE all == [u \in Uids |-> u]
<1>1. all \in [1..MaxUid -> Uids] /\ MaxUid \in Nat /\ all \in [1..MaxUid -> Int]
  BY Bounds DEF Uids
<1>2. all \in Seq(Uids) /\ all \in Seq(Int) /\ Ascends(all)
  BY <1>1 DEF Ascends
<1>3. ToSet(all) = Uids
  BY DEF ToSet
<1> HIDE DEF all
<1>4. /\ Only(all, present) \in Seq(Uids) /\ ToSet(Only(all, present)) = ToSet(all) \cap present
      /\ Where(all, present) \in SUBSET (DOMAIN all)
  BY <1>2, OnlyIs
<1>5. Ascends(Only(all, present))
  BY <1>2, <1>4, PickedAscends DEF Only
<1>6. ToSet(all) \cap present = present
  BY <1>3 DEF Typed, ServerTyped
<1> QED
  BY <1>4, <1>5, <1>6 DEF all

LEMMA ListView == ASSUME Typed, Typed', ViewInv, Serial, NEW t \in Tasks, List(t) PROVE ViewInv'
<1> DEFINE l == Only([u \in Uids |-> u], present)
           pc == CASE task[t].cmd = "select" -> "state"
                   [] task[t].cmd = "expunge" -> "replace"
                   [] OTHER -> "apply"
           r == [Local(t) EXCEPT !.list = l, !.pc = pc]
<1>1. Become(t, r) /\ UNCHANGED <<server, mailbox, client>> /\ ~Written(task[t])
  BY DEF List, At, Written
<1>2. l \in Seq(Uids) /\ Ascends(l) /\ ToSet(l) = present
  BY ListIs
<1>3. pc \in {"state", "replace", "apply"} /\ (pc = "replace" => task[t].cmd = "expunge")
  OBVIOUS
<1> HIDE DEF l, pc
<1>4. r.list = l /\ r.pc = pc /\ r.cmd = task[t].cmd
  BY LocalTyped DEF Local, Records
<1> HIDE DEF r
<1>5. task'[t].list = l /\ task'[t].pc = pc /\ task'[t].cmd = task[t].cmd
  BY <1>1, <1>4, BecomeIs
<1>6. Sound(imapUids)' /\ imapUids' = imapUids
  BY <1>1, SoundSame DEF ViewInv, Sound, Newer, mailbox
<1>7. Tracks(task[t])'
  <2>1. Sound(task[t].list)'
    BY <1>1, <1>2, <1>5 DEF Sound, Newer, ViewInv, server
  <2>2. Newer(ToSet(task[t].list), imapUids)'
    BY <1>2, <1>5, <1>6 DEF Newer, ViewInv, Sound
  <2> QED
    BY <1>3, <1>5, <2>1, <2>2 DEF Tracks, Written
<1>8. Ascends(view)' /\ view' = imapUids'
  BY <1>1, <1>6, NotWriting DEF ViewInv, client
<1> QED
  BY <1>1, <1>6, <1>7, <1>8, OneInv

LEMMA OpenedView == ASSUME Typed, Typed', ViewInv, Serial, NEW t \in Tasks, Opened(t) PROVE ViewInv'
<1>1. Become(t, Idle) /\ UNCHANGED server /\ imapUids' = task[t].list /\ view' = task[t].list
  BY DEF Opened, server
<1>2. Sound(task[t].list)
  BY DEF ViewInv, Tracks
<1>3. Sound(imapUids)' /\ Ascends(view)'
  BY <1>1, <1>2, SoundSame DEF Sound, Newer
<1>4. task'[t] = Idle
  BY <1>1, BecomeIs
<1>5. Tracks(task[t])'
  BY <1>4, IdleFollows, EmptySound DEF Tracks, Written, Sound, Newer
<1> QED
  BY <1>1, <1>3, <1>5, OneInv

\* The buffer that names what of a list is not kept.
LEMMA GoneAnnounced ==
  ASSUME NEW old \in Seq(Uids), NEW kept
  PROVE  LET g == Numbers(Gone(old, kept)) IN
         IF isQresync THEN ToSet(g) = ToSet(old) \ kept
         ELSE /\ \A i \in DOMAIN g : Place(g, i) \in DOMAIN old
              /\ \A i, j \in DOMAIN g : i < j => Place(g, i) < Place(g, j)
              /\ {old[Place(g, i)] : i \in DOMAIN g} = ToSet(old) \ kept
<1> DEFINE h == Gone(old, kept)
           P == DOMAIN old \ Where(old, kept)
<1>1. /\ h \in Seq(Nat \ {0})
      /\ ~isQresync => ToSet(h) = P /\ Ascends(h)
      /\ isQresync => ToSet(h) = ToSet(old) \ kept
  BY GoneIs
<1>2. {old[k] : k \in P} = ToSet(old) \ kept /\ P \subseteq DOMAIN old
  BY DEF Where, ToSet
<1> HIDE DEF h, P
<1> DEFINE g == Numbers(h)
<1>3. CASE isQresync
  BY <1>1, <1>3 DEF Numbers, h
<1>4. CASE ~isQresync
  <2>1. DOMAIN g = DOMAIN h /\ \A i \in DOMAIN h : g[i] = h[i] - (i - 1)
    BY <1>4 DEF Numbers
  <2>2. \A i \in DOMAIN h : h[i] \in Nat /\ i \in Nat
    BY <1>1
  <2> HIDE DEF g
  <2>3. \A i \in DOMAIN g : Place(g, i) = h[i]
    BY <2>1, <2>2 DEF Place
  <2>4. ToSet(h) = P /\ Ascends(h)
    BY <1>1, <1>4
  <2>5. {h[i] : i \in DOMAIN h} = P
    BY <2>4 DEF ToSet
  <2>6. {old[Place(g, i)] : i \in DOMAIN g} = {old[k] : k \in P}
    BY <2>1, <2>3, <2>5
  <2>7. \A i \in DOMAIN g : Place(g, i) \in DOMAIN old
    BY <1>2, <2>1, <2>3, <2>5
  <2>8. \A i, j \in DOMAIN g : i < j => Place(g, i) < Place(g, j)
    BY <2>1, <2>3, <2>4 DEF Ascends
  <2> QED
    BY <1>2, <1>4, <2>6, <2>7, <2>8 DEF g, h
<1> QED
  BY <1>3, <1>4

\* Members of a list of UIDs are numbers.
LEMMA UidSeq ==
  ASSUME NEW s \in Seq(Uids)
  PROVE  s \in Seq(Int) /\ ToSet(s) \subseteq Nat
<1>1. Uids \subseteq Int /\ Uids \subseteq Nat
  BY Bounds
<1> QED
  BY <1>1, Wider, SetOfSeq

LEMMA OnlyAscends ==
  ASSUME NEW s \in Seq(Uids), Ascends(s), NEW S
  PROVE  Ascends(Only(s, S))
BY UidSeq, PickedAscends DEF Only, Where

\* What synchronize_uids makes of the list: the messages that are kept, and those found.
LEMMA AppliedList ==
  ASSUME Typed, ViewInv, NEW t \in Tasks, Apply(t)
  PROVE  /\ Ascends(imapUids')
         /\ ToSet(imapUids') = (ToSet(imapUids) \cap Kept(t)) \cup ToSet(task[t].list)
         /\ Newer(ToSet(task[t].list), imapUids)
         /\ ToSet(imapUids') \ ToSet(imapUids) # {} =>
              Only(task[t].list, Uids \ ToSet(Only(imapUids, Kept(t)))) # << >>
<1> DEFINE kept  == Only(imapUids, Kept(t))
           added == Only(task[t].list, Uids \ ToSet(kept))
<1>1. imapUids \in Seq(Uids) /\ task[t].list \in Seq(Uids) /\ ToSet(task[t].list) \subseteq Uids
  BY LocalTyped, SetOfSeq DEF Typed, MailboxTyped
<1>2. Ascends(imapUids) /\ Ascends(task[t].list) /\ Newer(ToSet(task[t].list), imapUids)
  BY DEF ViewInv, Tracks, Sound, Apply, At
<1>3. imapUids' = kept \o added /\ kept \in Seq(Uids) /\ added \in Seq(Uids)
  BY ApplyIs
<1>4. /\ ToSet(kept) = ToSet(imapUids) \cap Kept(t)
      /\ ToSet(added) = ToSet(task[t].list) \cap (Uids \ ToSet(kept))
      /\ Ascends(kept) /\ Ascends(added)
  BY <1>1, <1>2, OnlyIs, OnlyAscends
<1>5. Kept(t) = ToSet(task[t].list) \/ Kept(t) = ToSet(imapUids)
  BY DEF Kept
<1> HIDE DEF kept, added
<1>6. ToSet(added) \cap ToSet(imapUids) = {} /\ ToSet(added) \subseteq ToSet(task[t].list)
  BY <1>4, <1>5
<1>7. \A x \in ToSet(kept), y \in ToSet(added) : x < y
  BY <1>2, <1>4, <1>6 DEF Newer
<1>8. Ascends(kept \o added) /\ ToSet(kept \o added) = ToSet(kept) \cup ToSet(added)
  BY <1>3, <1>4, <1>7, UidSeq, JoinAscends, MembersAre
<1>9. ToSet(imapUids') = (ToSet(imapUids) \cap Kept(t)) \cup ToSet(task[t].list)
  BY <1>1, <1>3, <1>4, <1>8
<1>10. ToSet(imapUids') \ ToSet(imapUids) # {} => added # << >>
  BY <1>3, <1>4, <1>8, NoMembers
<1> QED
  BY <1>2, <1>3, <1>8, <1>9, <1>10 DEF kept, added

LEMMA ApplyView == ASSUME Typed, Typed', ViewInv, Serial, NEW t \in Tasks, Apply(t) PROVE ViewInv'
<1> DEFINE gone == Gone(imapUids, Kept(t))
           added == Only(task[t].list, Uids \ ToSet(Only(imapUids, Kept(t))))
           tell == gone # <<>> \/ added # <<>>
           out == [gone |-> Numbers(gone), tell |-> tell, exists |-> totalMessages', all |-> imapUids']
           r == [Local(t) EXCEPT !.out = out, !.items = Located(task[t].ids, imapUids'), !.pc = "write"]
           list == task[t].list
<1>1. /\ imapUids' \in Seq(Uids) /\ totalMessages' = Len(imapUids') /\ Become(t, r)
      /\ UNCHANGED <<server, isQresync, view>> /\ ~Written(task[t]) /\ task[t].pc = "apply"
  BY ApplyIs DEF Apply, At, Written, client
<1>2. /\ imapUids \in Seq(Uids) /\ Sound(imapUids) /\ view = imapUids
      /\ list \in Seq(Uids) /\ Sound(list)
  BY <1>1, LocalTyped, NotWriting DEF Typed, MailboxTyped, ViewInv, Tracks
<1>3. /\ Ascends(imapUids')
      /\ ToSet(imapUids') = (ToSet(imapUids) \cap Kept(t)) \cup ToSet(list)
      /\ Newer(ToSet(list), imapUids)
      /\ ToSet(imapUids') \ ToSet(imapUids) # {} => tell
  BY AppliedList
<1>4. IF isQresync THEN ToSet(Numbers(gone)) = ToSet(imapUids) \ Kept(t)
      ELSE /\ \A i \in DOMAIN Numbers(gone) : Place(Numbers(gone), i) \in DOMAIN imapUids
           /\ \A i, j \in DOMAIN Numbers(gone) : i < j => Place(Numbers(gone), i) < Place(Numbers(gone), j)
           /\ {imapUids[Place(Numbers(gone), i)] : i \in DOMAIN Numbers(gone)} = ToSet(imapUids) \ Kept(t)
  BY <1>2, GoneAnnounced
<1> HIDE DEF gone, tell
<1>5. out.gone = Numbers(gone) /\ out.tell = tell /\ out.exists = totalMessages' /\ out.all = imapUids'
  OBVIOUS
<1> HIDE DEF out
<1>6. r.list = list /\ r.pc = "write" /\ r.cmd = task[t].cmd /\ r.out = out
  BY LocalTyped DEF Local, Records
<1> HIDE DEF r
<1>7. task'[t].list = list /\ task'[t].pc = "write" /\ task'[t].cmd = task[t].cmd /\ task'[t].out = out
  BY <1>1, <1>6, BecomeIs
<1>8. \/ task[t].cmd \in {"noop", "idle"} /\ Kept(t) = ToSet(list)
      \/ task[t].cmd \notin {"noop", "idle"} /\ Kept(t) = ToSet(imapUids)
  BY DEF Kept
<1> HIDE DEF list
<1>9. ToSet(imapUids) \ ToSet(imapUids') = ToSet(imapUids) \ Kept(t)
  BY <1>3, <1>8
<1>10. Announces(task[t].out)'
  <2>1. IF isQresync THEN ToSet(out.gone) = ToSet(imapUids) \ ToSet(imapUids')
        ELSE /\ \A i \in DOMAIN out.gone : Place(out.gone, i) \in DOMAIN imapUids
             /\ \A i, j \in DOMAIN out.gone : i < j => Place(out.gone, i) < Place(out.gone, j)
             /\ {imapUids[Place(out.gone, i)] : i \in DOMAIN out.gone} = ToSet(imapUids) \ ToSet(imapUids')
    BY <1>4, <1>5, <1>9
  <2>2. \A x \in ToSet(imapUids') \ ToSet(imapUids), y \in ToSet(imapUids') \cap ToSet(imapUids) : y < x
    BY <1>3 DEF Newer
  <2> QED
    BY <1>1, <1>2, <1>3, <1>5, <1>7, <2>1, <2>2 DEF Announces, Expunges, Place
<1>11. task[t].cmd \in {"noop", "idle"} => imapUids' = list
  BY <1>1, <1>2, <1>3, <1>8, UidSeq, AscendingUnique, MembersAre DEF Sound
<1>12. Sound(imapUids)'
  <2>1. \A v \in ToSet(imapUids') : v < nextUid
    BY <1>2, <1>3 DEF Sound
  <2>2. ASSUME NEW u \in present, u \notin ToSet(imapUids'), NEW v \in ToSet(imapUids') PROVE v < u
    <3>1. u \notin ToSet(list)
      BY <1>3, <2>2
    <3>2. CASE v \in ToSet(list)
      BY <1>2, <3>1, <3>2 DEF Sound, Newer
    <3>3. CASE v \notin ToSet(list)
      BY <1>2, <1>3, <1>8, <2>2, <3>3 DEF Sound, Newer
    <3> QED
      BY <3>2, <3>3
  <2> QED
    BY <1>1, <1>3, <2>1, <2>2 DEF Sound, Newer, server
<1>13. Sound(task[t].list)'
  BY <1>1, <1>2, <1>7, SoundSame DEF Sound, Newer
<1>14. Tracks(task[t])'
  BY <1>7, <1>10, <1>11, <1>13 DEF Tracks, Written
<1>15. Ascends(view)' /\ Written(task'[t])
  BY <1>1, <1>7 DEF ViewInv, Written
<1> QED
  BY <1>1, <1>12, <1>14, <1>15, OneInv

LEMMA ReplaceView == ASSUME Typed, Typed', ViewInv, Serial, NEW t \in Tasks, Replace(t) PROVE ViewInv'
<1> DEFINE list == task[t].list
           gone == Gone(imapUids, ToSet(list))
           tell == gone # <<>> \/ totalMessages # Len(list)
           out == [gone |-> Numbers(gone), tell |-> tell, exists |-> Len(list), all |-> list]
           r == [Local(t) EXCEPT !.out = out, !.pc = "write"]
<1>1. /\ imapUids' = list /\ Become(t, r) /\ UNCHANGED <<server, isQresync, view>>
      /\ ~Written(task[t]) /\ task[t].pc = "replace"
  BY DEF Replace, At, Written, client
<1>2. /\ imapUids \in Seq(Uids) /\ Sound(imapUids) /\ view = imapUids /\ totalMessages = Len(imapUids)
      /\ list \in Seq(Uids) /\ Sound(list) /\ Newer(ToSet(list), imapUids) /\ task[t].cmd = "expunge"
  BY <1>1, LocalTyped, NotWriting DEF Typed, MailboxTyped, ViewInv, Tracks
<1>3. IF isQresync THEN ToSet(Numbers(gone)) = ToSet(imapUids) \ ToSet(list)
      ELSE /\ \A i \in DOMAIN Numbers(gone) : Place(Numbers(gone), i) \in DOMAIN imapUids
           /\ \A i, j \in DOMAIN Numbers(gone) : i < j => Place(Numbers(gone), i) < Place(Numbers(gone), j)
           /\ {imapUids[Place(Numbers(gone), i)] : i \in DOMAIN Numbers(gone)} = ToSet(imapUids) \ ToSet(list)
  BY <1>2, GoneAnnounced
<1>4. ASSUME ~tell PROVE ToSet(list) = ToSet(imapUids)
  <2>1. Len(gone) = 0 /\ Len(list) = Len(imapUids)
    BY <1>2, <1>4
  <2>2. Len(gone) + Len(Only(imapUids, ToSet(list))) = Len(imapUids)
    BY <1>2, GoneIs
  <2> HIDE DEF gone
  <2>3. Members(imapUids) \subseteq Members(list)
    <3>1. ToSet(gone) = {}
      BY <1>4, NoMembers DEF tell
    <3>2. ToSet(imapUids) \ ToSet(list) = {}
      <4>1. CASE isQresync
        BY <1>2, <3>1, <4>1, GoneIs DEF gone
      <4>2. CASE ~isQresync
        <5>1. DOMAIN imapUids \ Where(imapUids, ToSet(list)) = {}
          BY <1>2, <3>1, <4>2, GoneIs DEF gone
        <5> QED
          BY <5>1 DEF Where, ToSet
      <4> QED
        BY <4>1, <4>2
    <3> QED
      BY <3>2, MembersAre
  <2>4. \A x \in Members(list) \ Members(imapUids), y \in Members(imapUids) : y < x
    BY <1>2, MembersAre DEF Newer
  <2>5. imapUids \in Seq(Int) /\ list \in Seq(Int) /\ Ascends(imapUids) /\ Ascends(list)
    BY <1>2, UidSeq DEF Sound
  <2>6. \A i \in DOMAIN imapUids : imapUids[i] = list[i]
    BY <2>3, <2>4, <2>5, AscendingPrefix
  <2> HIDE DEF list
  <2>7. DOMAIN imapUids = DOMAIN list
    BY <2>1, <2>5
  <2> QED
    BY <2>6, <2>7 DEF ToSet
<1> HIDE DEF gone, tell
<1>5. out.gone = Numbers(gone) /\ out.tell = tell /\ out.exists = Len(list) /\ out.all = list
  OBVIOUS
<1> HIDE DEF out
<1>6. r.list = list /\ r.pc = "write" /\ r.cmd = task[t].cmd /\ r.out = out
  BY LocalTyped DEF Local, Records
<1> HIDE DEF r
<1>7. task'[t].list = list /\ task'[t].pc = "write" /\ task'[t].cmd = task[t].cmd /\ task'[t].out = out
  BY <1>1, <1>6, BecomeIs
<1> HIDE DEF list
<1>8. Announces(task[t].out)'
  <2>1. IF isQresync THEN ToSet(out.gone) = ToSet(imapUids) \ ToSet(imapUids')
        ELSE /\ \A i \in DOMAIN out.gone : Place(out.gone, i) \in DOMAIN imapUids
             /\ \A i, j \in DOMAIN out.gone : i < j => Place(out.gone, i) < Place(out.gone, j)
             /\ {imapUids[Place(out.gone, i)] : i \in DOMAIN out.gone} = ToSet(imapUids) \ ToSet(imapUids')
    BY <1>1, <1>3, <1>5
  <2>2. \A x \in ToSet(imapUids') \ ToSet(imapUids), y \in ToSet(imapUids') \cap ToSet(imapUids) : y < x
    BY <1>1, <1>2 DEF Newer
  <2>3. ToSet(imapUids') \ ToSet(imapUids) # {} => tell
    BY <1>1, <1>4
  <2> QED
    BY <1>1, <1>2, <1>5, <1>7, <2>1, <2>2, <2>3 DEF Announces, Expunges, Place
<1>9. Sound(imapUids)' /\ Sound(task[t].list)'
  BY <1>1, <1>2, <1>7, SoundSame DEF Sound, Newer
<1>10. Tracks(task[t])'
  BY <1>1, <1>7, <1>8, <1>9 DEF Tracks, Written
<1>11. Ascends(view)' /\ Written(task'[t])
  BY <1>1, <1>7 DEF ViewInv, Written
<1> QED
  BY <1>1, <1>9, <1>10, <1>11, OneInv

LEMMA DropMovedView == ASSUME Typed, Typed', ViewInv, Serial, NEW t \in Tasks, DropMoved(t) PROVE ViewInv'
<1> DEFINE kept == ToSet(imapUids) \ task[t].ids
           gone == Gone(imapUids, kept)
           out == [NoOut EXCEPT !.gone = Numbers(gone)]
           r == [Local(t) EXCEPT !.out = out, !.pc = "write"]
<1>1. /\ imapUids' = Only(imapUids, kept) /\ Become(t, r) /\ UNCHANGED <<server, isQresync, view>>
      /\ ~Written(task[t]) /\ task[t].cmd = "move"
  BY DropMovedIs DEF DropMoved, At, Written, client
<1>2. imapUids \in Seq(Uids) /\ Sound(imapUids) /\ view = imapUids /\ Sound(task[t].list)
  BY <1>1, NotWriting DEF Typed, MailboxTyped, ViewInv, Tracks
<1>14. Away(task[t].ids)
  BY DEF DropMoved, At, ViewInv, Tracks
<1>3. IF isQresync THEN ToSet(Numbers(gone)) = ToSet(imapUids) \ kept
      ELSE /\ \A i \in DOMAIN Numbers(gone) : Place(Numbers(gone), i) \in DOMAIN imapUids
           /\ \A i, j \in DOMAIN Numbers(gone) : i < j => Place(Numbers(gone), i) < Place(Numbers(gone), j)
           /\ {imapUids[Place(Numbers(gone), i)] : i \in DOMAIN Numbers(gone)} = ToSet(imapUids) \ kept
  BY <1>2, GoneAnnounced
<1>4. ToSet(imapUids') = ToSet(imapUids) \cap kept /\ Ascends(imapUids')
  BY <1>1, <1>2, OnlyIs, OnlyAscends DEF Sound
<1> HIDE DEF gone
<1>5. out.gone = Numbers(gone) /\ out.tell = FALSE
  BY DEF NoOut
<1> HIDE DEF out
<1>6. r.list = task[t].list /\ r.pc = "write" /\ r.cmd = task[t].cmd /\ r.out = out
  BY LocalTyped DEF Local, Records
<1> HIDE DEF r
<1>7. task'[t].list = task[t].list /\ task'[t].pc = "write" /\ task'[t].cmd = task[t].cmd /\ task'[t].out = out
  BY <1>1, <1>6, BecomeIs
<1>8. ToSet(imapUids) \ ToSet(imapUids') = ToSet(imapUids) \ kept /\ ToSet(imapUids') \ ToSet(imapUids) = {}
  BY <1>4
<1> HIDE DEF kept
<1>9. Announces(task[t].out)'
  <2>1. IF isQresync THEN ToSet(out.gone) = ToSet(imapUids) \ ToSet(imapUids')
        ELSE /\ \A i \in DOMAIN out.gone : Place(out.gone, i) \in DOMAIN imapUids
             /\ \A i, j \in DOMAIN out.gone : i < j => Place(out.gone, i) < Place(out.gone, j)
             /\ {imapUids[Place(out.gone, i)] : i \in DOMAIN out.gone} = ToSet(imapUids) \ ToSet(imapUids')
    BY <1>3, <1>5, <1>8
  <2> QED
    BY <1>1, <1>2, <1>5, <1>7, <1>8, <2>1 DEF Announces, Expunges, Place
<1>10. Sound(task[t].list)'
  BY <1>1, <1>2, <1>7, SoundSame DEF Sound, Newer
<1>11. Sound(imapUids)'
  <2>1. \A v \in ToSet(imapUids') : v < nextUid
    BY <1>2, <1>4 DEF Sound
  <2>2. ASSUME NEW u \in present, u \notin ToSet(imapUids'), NEW v \in ToSet(imapUids') PROVE v < u
    <3>1. u \notin ToSet(imapUids)
      BY <1>2, <1>4, <1>14, <2>2 DEF kept, Away
    <3> QED
      BY <1>2, <1>4, <2>2, <3>1 DEF Sound, Newer
  <2> QED
    BY <1>1, <1>4, <2>1, <2>2 DEF Sound, Newer, server
<1>12. Tracks(task[t])'
  BY <1>1, <1>7, <1>9, <1>10 DEF Tracks, Written
<1>13. Ascends(view)' /\ Written(task'[t])
  BY <1>1, <1>7 DEF ViewInv, Written
<1> QED
  BY <1>1, <1>11, <1>12, <1>13, OneInv

\* An EXPUNGE that is read: the ones after it are about the list without the message.
LEMMA ReadExpungeView ==
  ASSUME Typed, Typed', ViewInv, Serial, NEW t \in Tasks, ReadExpunge(t)
  PROVE  ViewInv'
<1> DEFINE g == task[t].out.gone
           n == Head(g)
           d == Drop(view, n)
           out == [task[t].out EXCEPT !.gone = Tail(@)]
           r == [Local(t) EXCEPT !.out = out, !.pc = "reading"]
<1>1. /\ ~isQresync /\ g # << >> /\ view' = d /\ Become(t, r) /\ UNCHANGED <<server, mailbox>>
      /\ Written(task[t])
  BY DEF ReadExpunge, At, Written
<1>2. g \in Seq(Nat \ {0}) /\ view \in Seq(Uids) /\ view \in Seq(Int) /\ task[t].out \in Outs
  BY LocalTyped, UidSeq DEF Typed, ClientTyped, Outs
<1>3. Tracks(task[t]) /\ Announces(task[t].out) /\ Sound(task[t].list) /\ Ascends(view) /\ Sound(imapUids)
  BY <1>1 DEF ViewInv, Tracks
<1>4. Expunges(g)
  BY <1>1, <1>3 DEF Announces
<1>5. out.gone = Tail(g) /\ out.tell = task[t].out.tell /\ out.exists = task[t].out.exists /\ out.all = task[t].out.all
  BY <1>2 DEF Outs
<1> HIDE DEF out
<1>6. r.list = task[t].list /\ r.pc = "reading" /\ r.cmd = task[t].cmd /\ r.out = out
  BY LocalTyped DEF Local, Records
<1> HIDE DEF r
<1>7. task'[t].list = task[t].list /\ task'[t].pc = "reading" /\ task'[t].cmd = task[t].cmd /\ task'[t].out = out
  BY <1>1, <1>6, BecomeIs
<1> HIDE DEF g
<1>8. /\ 1 \in DOMAIN g /\ DOMAIN g = 1..Len(g) /\ Len(g) \in Nat /\ n = g[1]
      /\ \A i \in DOMAIN g : g[i] \in Nat
  BY <1>1, <1>2
<1>9. Place(g, 1) = n /\ n \in DOMAIN view
  BY <1>4, <1>8 DEF Expunges, Place
<1> HIDE DEF n
<1>10. /\ Ascends(d) /\ ToSet(d) = ToSet(view) \ {view[n]} /\ DOMAIN d = 1..(Len(view) - 1)
       /\ \A i \in 1..(Len(view) - 1) : d[i] = IF i < n THEN view[i] ELSE view[i + 1]
  BY <1>2, <1>3, <1>9, DroppedOne, MembersAre DEF Drop
<1>11. /\ Tail(g) \in Seq(Nat \ {0}) /\ DOMAIN Tail(g) = 1..(Len(g) - 1)
       /\ \A i \in 1..(Len(g) - 1) : Tail(g)[i] = g[i + 1]
  BY <1>1, <1>2, <1>8
<1> HIDE DEF d
<1>12. ASSUME NEW i \in DOMAIN Tail(g)
       PROVE  /\ i + 1 \in DOMAIN g /\ Place(Tail(g), i) = Place(g, i + 1) - 1
              /\ Place(Tail(g), i) \in DOMAIN d /\ d[Place(Tail(g), i)] = view[Place(g, i + 1)]
  <2>1. i + 1 \in DOMAIN g /\ i \in Nat /\ 1 < i + 1 /\ Tail(g)[i] = g[i + 1]
    BY <1>8, <1>11, <1>12
  <2>2. Place(g, i + 1) \in DOMAIN view /\ n < Place(g, i + 1)
    BY <1>4, <1>8, <1>9, <2>1 DEF Expunges
  <2>3. Place(g, i + 1) = g[i + 1] + i /\ Place(Tail(g), i) = g[i + 1] + (i - 1) /\ g[i + 1] \in Nat
    BY <1>8, <2>1 DEF Place
  <2>4. /\ Place(Tail(g), i) = Place(g, i + 1) - 1
        /\ Place(g, i + 1) \in 1..Len(view) /\ Len(view) \in Nat /\ n \in 1..Len(view)
    <3>1. Place(Tail(g), i) = Place(g, i + 1) - 1
      BY <2>1, <2>3
    <3>2. DOMAIN view = 1..Len(view) /\ Len(view) \in Nat
      BY <1>2
    <3> QED
      BY <1>9, <2>2, <3>1, <3>2
  <2>5. Place(Tail(g), i) \in 1..(Len(view) - 1) /\ ~(Place(Tail(g), i) < n) /\ Place(Tail(g), i) + 1 = Place(g, i + 1)
    BY <2>2, <2>4
  <2> QED
    BY <1>10, <2>1, <2>4, <2>5
<1>13. Expunges(task[t].out.gone)'
  <2>1. \A i, j \in DOMAIN Tail(g) : i < j => Place(Tail(g), i) < Place(Tail(g), j)
    <3> SUFFICES ASSUME NEW i \in DOMAIN Tail(g), NEW j \in DOMAIN Tail(g), i < j
                 PROVE  Place(Tail(g), i) < Place(Tail(g), j)
      OBVIOUS
    <3>1. i + 1 \in DOMAIN g /\ j + 1 \in DOMAIN g /\ i + 1 < j + 1
      BY <1>11, <1>12
    <3>2. Place(g, i + 1) < Place(g, j + 1) /\ Place(g, i + 1) \in Int /\ Place(g, j + 1) \in Int
      BY <1>4, <1>8, <3>1 DEF Expunges, Place
    <3> QED
      BY <1>12, <3>2
  <2>2. {d[Place(Tail(g), i)] : i \in DOMAIN Tail(g)} = ToSet(d) \ ToSet(imapUids)
    <3>1. {view[Place(g, i)] : i \in DOMAIN g} = ToSet(view) \ ToSet(imapUids)
      BY <1>4 DEF Expunges
    <3>2. ASSUME NEW i \in DOMAIN Tail(g)
          PROVE  d[Place(Tail(g), i)] \in ToSet(d) \ ToSet(imapUids)
      <4>1. d[Place(Tail(g), i)] \in ToSet(d)
        BY <1>12 DEF ToSet
      <4>2. d[Place(Tail(g), i)] \in ToSet(view) \ ToSet(imapUids)
        BY <1>12, <3>1
      <4> QED
        BY <4>1, <4>2
    <3>3. ASSUME NEW u \in ToSet(d) \ ToSet(imapUids)
          PROVE  \E i \in DOMAIN Tail(g) : u = d[Place(Tail(g), i)]
      <4>1. u \in ToSet(view) \ ToSet(imapUids) /\ u # view[n]
        BY <1>10
      <4>2. PICK k \in DOMAIN g : u = view[Place(g, k)]
        BY <3>1, <4>1
      <4>3. k # 1
        BY <1>9, <4>1, <4>2
      <4>4. k - 1 \in DOMAIN Tail(g) /\ (k - 1) + 1 = k
        BY <1>8, <1>11, <4>3
      <4>5. d[Place(Tail(g), k - 1)] = view[Place(g, k)]
        BY <1>12, <4>4
      <4> QED
        BY <4>2, <4>4, <4>5
    <3> QED
      BY <3>2, <3>3
  <2> QED
    BY ZenonT(60), <1>1, <1>5, <1>7, <1>12, <2>1, <2>2 DEF Expunges, Place, mailbox
<1>14. ToSet(imapUids) \ ToSet(d) = ToSet(imapUids) \ ToSet(view) /\ ToSet(imapUids) \cap ToSet(d) \subseteq ToSet(view)
  <2>1. view[n] \in ToSet(view) \ ToSet(imapUids)
    BY <1>4, <1>8, <1>9 DEF Expunges
  <2> QED
    BY <1>10, <2>1
<1>15. Announces(task[t].out)'
  <2>1. isQresync' = isQresync /\ imapUids' = imapUids
    BY <1>1 DEF mailbox
  <2>2. \A x \in ToSet(imapUids) \ ToSet(d), y \in ToSet(imapUids) \cap ToSet(d) : y < x
    BY <1>3, <1>14 DEF Announces
  <2>3. /\ ToSet(imapUids) \ ToSet(d) # {} => out.tell
        /\ out.tell => out.exists = Len(imapUids) /\ out.all = imapUids
    BY <1>3, <1>5, <1>14 DEF Announces
  <2> QED
    BY <1>1, <1>7, <1>13, <2>1, <2>2, <2>3 DEF Announces
<1>16. Sound(imapUids)' /\ Sound(task[t].list)' /\ imapUids' = imapUids
  BY <1>1, <1>3, <1>7, SoundSame DEF Sound, Newer, mailbox
<1>17. Tracks(task[t])'
  BY <1>1, <1>3, <1>7, <1>15, <1>16 DEF Tracks, Written
<1>18. Ascends(view)' /\ Written(task'[t])
  BY <1>1, <1>7, <1>10 DEF Written
<1> QED
  BY <1>1, <1>16, <1>17, <1>18, OneInv

\* The end of the buffer: EXISTS, and the client's list is the session's.
LEMMA ToldView ==
  ASSUME Typed, ViewInv, NEW t \in Tasks, Written(task[t]), isQresync \/ task[t].out.gone = << >>
  PROVE  Told(task[t].out) = imapUids
<1> DEFINE o == task[t].out
           v == IF isQresync THEN Only(view, Uids \ ToSet(o.gone)) ELSE view
<1>1. /\ view \in Seq(Uids) /\ imapUids \in Seq(Uids) /\ Ascends(view) /\ Ascends(imapUids)
      /\ ToSet(view) \subseteq Uids /\ Announces(o)
  BY SetOfSeq DEF Typed, ClientTyped, MailboxTyped, ViewInv, Sound, Tracks
<1>2. Told(o) = IF o.tell /\ o.exists > Len(v) THEN v \o SubSeq(o.all, Len(v) + 1, o.exists) ELSE v
  BY DEF Told
<1>3. v \in Seq(Uids) /\ Ascends(v) /\ ToSet(v) = ToSet(view) \cap ToSet(imapUids)
  <2>1. CASE isQresync
    <3>1. ToSet(o.gone) = ToSet(view) \ ToSet(imapUids)
      BY <1>1, <2>1 DEF Announces
    <3>2. ToSet(v) = ToSet(view) \cap (Uids \ ToSet(o.gone)) /\ v \in Seq(Uids) /\ Ascends(v)
      BY <1>1, <2>1, OnlyIs, OnlyAscends
    <3> QED
      BY <1>1, <3>1, <3>2
  <2>2. CASE ~isQresync
    <3>1. o.gone = << >> /\ Expunges(o.gone)
      BY <1>1, <2>2 DEF Announces
    <3>2. ToSet(view) \ ToSet(imapUids) = {}
      BY <3>1 DEF Expunges
    <3> QED
      BY <1>1, <2>2, <3>2
  <2> QED
    BY <2>1, <2>2
<1> HIDE DEF v, o
<1>4. v \in Seq(Int) /\ imapUids \in Seq(Int) /\ Len(v) \in Nat /\ Len(imapUids) \in Nat
  BY <1>1, <1>3, UidSeq
<1>5. Len(v) <= Len(imapUids) /\ \A i \in DOMAIN v : v[i] = imapUids[i]
  <2>1. \A x \in Members(imapUids) \ Members(v), y \in Members(v) : y < x
    BY <1>1, <1>3, MembersAre DEF Announces
  <2> QED
    BY <1>1, <1>3, <1>4, <2>1, AscendingPrefix, MembersAre
<1>6. CASE o.tell /\ o.exists > Len(v)
  <2> DEFINE e == SubSeq(imapUids, Len(v) + 1, Len(imapUids))
  <2>1. o.exists = Len(imapUids) /\ o.all = imapUids
    BY <1>1, <1>6 DEF Announces
  <2>2. /\ e \in Seq(Int) /\ Len(e) = Len(imapUids) - Len(v)
        /\ \A i \in 1..(Len(imapUids) - Len(v)) : e[i] = imapUids[Len(v) + i]
    BY <1>4, <1>5
  <2> HIDE DEF e
  <2>3. /\ v \o e \in Seq(Int) /\ Len(v \o e) = Len(imapUids)
        /\ \A i \in 1..Len(imapUids) : (v \o e)[i] = IF i <= Len(v) THEN v[i] ELSE e[i - Len(v)]
    BY <1>4, <1>5, <2>2
  <2>4. ASSUME NEW i \in 1..Len(imapUids) PROVE (v \o e)[i] = imapUids[i]
    <3>1. CASE i <= Len(v)
      <4>1. i \in DOMAIN v
        BY <1>4, <3>1
      <4> QED
        BY <1>5, <2>3, <3>1, <4>1
    <3>2. CASE ~(i <= Len(v))
      <4>1. i - Len(v) \in 1..(Len(imapUids) - Len(v)) /\ Len(v) + (i - Len(v)) = i
        BY <1>4, <3>2
      <4>2. e[i - Len(v)] = imapUids[i]
        BY <2>2, <4>1
      <4> QED
        BY <2>3, <3>2, <4>2
    <3> QED
      BY <3>1, <3>2
  <2>5. v \o e = imapUids
    <3> DEFINE w == v \o e
    <3>1. w \in Seq(Int) /\ Len(w) = Len(imapUids) /\ \A i \in 1..Len(imapUids) : w[i] = imapUids[i]
      BY <2>3, <2>4
    <3> HIDE DEF w
    <3>2. DOMAIN w = 1..Len(imapUids) /\ DOMAIN imapUids = 1..Len(imapUids)
      BY <1>4, <3>1
    <3>3. w = [i \in DOMAIN w |-> w[i]] /\ imapUids = [i \in DOMAIN imapUids |-> imapUids[i]]
      BY <1>4, <3>1
    <3>4. w = imapUids
      BY <3>1, <3>2, <3>3
    <3> QED
      BY <3>4 DEF w
  <2> QED
    BY <1>2, <1>6, <2>1, <2>5 DEF e, o
<1>7. CASE ~(o.tell /\ o.exists > Len(v))
  <2>1. v = imapUids
    <3>1. CASE o.tell
      <4>1. Len(v) = Len(imapUids)
        BY <1>1, <1>4, <1>5, <1>7, <3>1 DEF Announces
      <4> QED
        BY <1>4, <1>5, <4>1
    <3>2. CASE ~o.tell
      <4>1. ToSet(v) = ToSet(imapUids)
        BY <1>1, <1>3, <3>2 DEF Announces
      <4> QED
        BY <1>1, <1>3, <1>4, <4>1, AscendingUnique, MembersAre
    <3> QED
      BY <3>1, <3>2
  <2> QED
    BY <1>2, <1>7, <2>1 DEF o
<1> QED
  BY <1>6, <1>7

LEMMA WriteView == ASSUME Typed, Typed', ViewInv, Serial, NEW t \in Tasks, Write(t) PROVE ViewInv'
<1> DEFINE a == [Local(t) EXCEPT !.out = NoOut, !.pc = "advance"]
           s == [Local(t) EXCEPT !.out = NoOut, !.pc = "save"]
           r == CASE task[t].cmd \in {"noop", "idle"} -> a
                  [] task[t].cmd = "search" -> s
                  [] OTHER -> Idle
<1>1. /\ Become(t, r) /\ UNCHANGED <<server, mailbox>> /\ view' = Told(task[t].out) /\ Written(task[t])
      /\ isQresync \/ task[t].out.gone = << >>
  BY DEF Write, At, Written
<1>2. view' = imapUids' /\ imapUids' = imapUids
  BY <1>1, ToldView DEF mailbox
<1>3. a.list = task[t].list /\ a.pc = "advance" /\ s.list = task[t].list /\ s.pc = "save"
  BY LocalTyped DEF Local, Records
<1> HIDE DEF a, s
<1>4. \/ task[t].cmd \in {"noop", "idle"} /\ r.list = task[t].list /\ r.pc = "advance"
      \/ r.list = task[t].list /\ r.pc = "save"
      \/ r = Idle
  BY <1>3
<1> HIDE DEF r
<1>5. Sound(imapUids) /\ Sound(task[t].list) /\ (task[t].cmd \in {"noop", "idle"} => imapUids = task[t].list)
  BY <1>1 DEF ViewInv, Tracks
<1>6. Sound(imapUids)' /\ Ascends(view)'
  BY <1>1, <1>2, <1>5, SoundSame DEF Sound, Newer
<1>7. task'[t] = r
  BY <1>1, BecomeIs
<1>8. Tracks(task[t])'
  <2>1. CASE r = Idle
    BY <1>7, <2>1, IdleFollows, EmptySound DEF Tracks, Written, Sound, Newer
  <2>2. CASE r.list = task[t].list
    <3>1. Sound(task[t].list)'
      BY <1>1, <1>5, <1>7, <2>2, SoundSame DEF Sound, Newer
    <3> QED
      BY <1>2, <1>4, <1>5, <1>7, <2>1, <2>2, <3>1 DEF Tracks, Written
  <2> QED
    BY <1>4, <2>1, <2>2
<1> QED
  BY <1>1, <1>2, <1>6, <1>8, OneInv

-----------------------------------------------------------------------------
(* Client and session number the same messages. *)

LEMMA InitView == Init => ViewInv
<1> SUFFICES ASSUME Init PROVE ViewInv
  OBVIOUS
<1>1. Sound(imapUids) /\ Ascends(view) /\ view = imapUids /\ present = {}
  BY EmptySound DEF Init, Sound
<1>2. ASSUME NEW t \in Tasks PROVE Tracks(task[t])
  <2>1. task[t] = Idle
    BY DEF Init
  <2> QED
    BY <2>1, IdleFollows, EmptySound DEF Tracks, Written
<1> QED
  BY <1>1, <1>2 DEF ViewInv

LEMMA NextView == ASSUME Typed, Typed', Serial, ViewInv, [Next]_vars PROVE ViewInv'
<1>1. CASE UNCHANGED vars
  <2>1. UNCHANGED <<server, mailbox, client, task>>
    BY <1>1 DEF vars
  <2>2. Moves /\ \A t \in Tasks : Follows(task[t], task'[t])
    BY <2>1 DEF Moves, ViewInv, server, Follows
  <2> QED
    BY <2>1, <2>2, FollowsInv DEF mailbox, client
<1>2. CASE Others
  BY <1>2, OthersView
<1>3. ASSUME NEW t \in Tasks,
             \/ \E c \in Commands, us \in SUBSET Uids : Start(t, c, us)
             \/ StartSave(t) \/ Fail(t) \/ SourceClosed(t) \/ Done(t)
      PROVE  ViewInv'
  BY <1>3, StartView, FailView, WaitingView
<1>4. ASSUME NEW t \in Tasks, Step(t) PROVE ViewInv'
  <2>1. CASE List(t) \/ Opened(t) \/ Apply(t) \/ ReadExpunge(t) \/ Write(t) \/ DropMoved(t) \/ Replace(t)
    BY <2>1, ListView, OpenedView, ApplyView, ReadExpungeView, WriteView, DropMovedView, ReplaceView
  <2>2. CASE GetState(t) \/ Changes(t) \/ Advance(t) \/ Get(t) \/ Fetch(t) \/ Event(t)
    BY <2>2, WaitingView
  <2>3. CASE \/ Set(t) \/ StoreAdvance(t) \/ Save(t) \/ Import(t)
             \/ \E us \in SUBSET present : Seen(t, us) \/ Destroy(t, us) \/ Query(t, us)
    BY <2>3, ServerView
  <2> QED
    BY <1>4, <2>1, <2>2, <2>3 DEF Step
<1> QED
  BY <1>1, <1>2, <1>3, <1>4 DEF Next

\* A client that waits for its answers numbers the messages as the session does, for
\* every number of messages and changes, whatever it sends, whatever other clients do
\* meanwhile and wherever a call fails.
THEOREM InStepAlways == ASSUME Serial PROVE Spec => []InStep
<1>1. Typed /\ Typed' /\ ViewInv /\ [Next]_vars => ViewInv'
  BY NextView
<1>2. Typed /\ ViewInv => InStep
  BY ViewImplies
<1> QED
  BY <1>1, <1>2, InitView, TypedAlways, PTL DEF Spec

-----------------------------------------------------------------------------
(* One command at a time: the flags. *)

\* The client knows the flags of a message as they were in state s or later, if it
\* knows them at all.
Current(u, s) == known[u] # 0 /\ changed[u] <= s => known[u] >= changed[u]

\* The flags of the message are being fetched.
Asked(r, u) == r.pc \in {"get", "fetch"} /\ \E i \in r.items : i.uid = u

\* A refresh has asked for the changes and has not moved last_state on yet.
Collected(r) == r.pc = "advance" \/ (r.pc \in {"list", "apply", "write", "reading"} /\ r.cmd \in {"noop", "idle"})

\* The steps of the commands that leave last_state to the refresh.
Route(r) ==
  /\ r.pc \notin {"set", "drop", "import", "replace"}
  /\ r.pc = "destroy" => r.cmd = "close"
  /\ r.pc = "query" => r.cmd = "search"

\* What holds of the locals of a command.
Reports(r) ==
  /\ Route(r) /\ r.new <= jmapState
  /\ r.pc = "changes" => r.since = lastState
  /\ Collected(r) => \A u \in present : Current(u, r.new) \/ u \in r.ids
  /\ r.pc = "apply" => present \cap ToSet(imapUids) \subseteq ToSet(r.list)
  /\ r.pc \in {"get", "fetch"} =>
       \A i \in r.items : i.seqnum \in DOMAIN imapUids /\ imapUids[i.seqnum] = i.uid
  /\ r.pc = "fetch" => \A i \in r.items : i.state >= lastState

\* The messages whose flags the client knows are in the list as long as they are in the
\* mailbox.
KnownListed ==
  \A u \in Uids : known[u] # 0 => u < nextUid /\ (u \in present => u \in ToSet(imapUids))

Reported == \A u \in present : Current(u, lastState) \/ \E t \in Tasks : Asked(task[t], u)

FlagsInv ==
  /\ lastState <= jmapState
  /\ KnownListed /\ Reported
  /\ \A t \in Tasks : Reports(task[t])

\* One command at a time, no failures, and only the refresh moves last_state on: STORE,
\* MOVE, EXPUNGE and APPEND take the state after their own change for it and skip what
\* others changed before, as the run view_store_skips shows.
OnlyRefreshed ==
  /\ Serial /\ ~MayFail
  /\ Commands \cap {"store", "move", "expunge", "append"} = {}

LEMMA FlagsImply == FlagsInv => NoChangeSkipped
<1> SUFFICES ASSUME FlagsInv, \A t \in Tasks : task[t].pc \in {"idle", "idling"},
                    NEW u \in ToSet(view) \cap present, known[u] # 0 /\ changed[u] <= lastState
             PROVE  known[u] >= changed[u]
  BY DEF NoChangeSkipped
<1> QED
  BY DEF FlagsInv, Reported, Asked, Current

\* What others change: messages go, the next one comes, and changes are later than all
\* the states there have been.
Drifts ==
  /\ Moves /\ jmapState' \in States /\ jmapState <= jmapState'
  /\ \A u \in present' : (u \in present /\ changed'[u] = changed[u]) \/ changed'[u] > jmapState

LEMMA Numeric ==
  ASSUME Typed
  PROVE  /\ jmapState \in Nat /\ lastState \in Nat /\ nextUid \in Nat
         /\ \A u \in Uids : changed[u] \in Nat /\ known[u] \in Nat /\ u \in Nat
         /\ present \subseteq Uids
<1>1. /\ jmapState \in States /\ lastState \in States /\ nextUid \in 1..(MaxUid + 1) /\ present \subseteq Uids
      /\ changed \in [Uids -> States] /\ known \in [Uids -> States]
  BY DEF Typed, ServerTyped, MailboxTyped, ClientTyped
<1>2. \A u \in Uids : changed[u] \in States /\ known[u] \in States
  BY <1>1
<1>3. \A u \in Uids : changed[u] \in Nat /\ known[u] \in Nat /\ u \in Nat
  BY <1>2, Bounds
<1> QED
  BY <1>1, <1>3, Bounds

LEMMA DriftsServer ==
  ASSUME Typed, ViewInv, UNCHANGED server
  PROVE  Drifts
<1>1. jmapState \in States /\ jmapState \in Nat
  BY Numeric DEF Typed, ServerTyped
<1> QED
  BY <1>1 DEF Drifts, Moves, ViewInv, server

LEMMA DriftsChanged ==
  ASSUME Typed, ViewInv, NEW now \in SUBSET present, NEW us, Changed(now, us), UNCHANGED nextUid
  PROVE  Drifts
<1>0. now \in SUBSET Uids
  BY Numeric
<1>1. jmapState' \in States /\ jmapState <= jmapState' /\ jmapState + 1 > jmapState
  BY <1>0, Numeric, ChangedTyped
<1>2. Moves
  BY DEF Changed, Moves, ViewInv
<1>3. \A u \in present' : u \in present /\ u \in Uids
  BY Numeric DEF Changed
<1>4. \A u \in Uids : changed'[u] = changed[u] \/ changed'[u] = jmapState + 1
  BY DEF Changed
<1> QED
  BY <1>1, <1>2, <1>3, <1>4 DEF Drifts

LEMMA DriftsArrival ==
  ASSUME Typed, ViewInv, nextUid <= MaxUid, Changed(present \cup {nextUid}, {nextUid}), nextUid' = nextUid + 1
  PROVE  Drifts
<1>1. nextUid \in Uids /\ present \subseteq Uids
  BY Bounds DEF Typed, ServerTyped, Uids
<1>2. present \cup {nextUid} \in SUBSET Uids
  BY <1>1
<1>3. jmapState' \in States /\ jmapState <= jmapState' /\ jmapState + 1 > jmapState
  BY <1>2, Numeric, ChangedTyped
<1>4. Moves
  BY ArrivesMoves DEF Changed
<1>5. \A u \in Uids : changed'[u] = IF u = nextUid THEN jmapState + 1 ELSE changed[u]
  BY DEF Changed
<1>6. \A u \in present' : u \in Uids /\ (u = nextUid \/ u \in present)
  BY <1>1 DEF Changed
<1> QED
  BY <1>3, <1>4, <1>5, <1>6 DEF Drifts

\* Messages that drift by stay known up to a state of the past.
LEMMA CurrentStays ==
  ASSUME Typed, Typed', Drifts, known' = known, NEW s \in Nat, s <= jmapState, NEW u \in present',
         u \in present => Current(u, s)
  PROVE  known'[u] # 0 /\ changed'[u] <= s => known'[u] >= changed'[u]
<1>1. CASE u \in present /\ changed'[u] = changed[u]
  BY <1>1 DEF Current
<1>2. CASE changed'[u] > jmapState
  <2>1. ~(changed'[u] <= s)
    <3>1. changed'[u] \in States
      BY DEF Typed, ServerTyped
    <3>2. changed'[u] \in Nat
      BY <3>1, Bounds
    <3> QED
      BY <1>2, <3>2, Numeric
  <2> QED
    BY <2>1
<1> QED
  BY <1>1, <1>2 DEF Drifts

LEMMA ListedStays ==
  ASSUME Typed, Typed', ViewInv, FlagsInv, Drifts, UNCHANGED known,
         present \cap ToSet(imapUids) \subseteq ToSet(imapUids')
  PROVE  KnownListed'
<1> SUFFICES ASSUME NEW u \in Uids, known[u] # 0
             PROVE  u < nextUid' /\ (u \in present' => u \in ToSet(imapUids'))
  BY DEF KnownListed
<1>1. u < nextUid /\ (u \in present => u \in ToSet(imapUids)) /\ u \in Nat /\ nextUid \in Nat
  BY Numeric DEF FlagsInv, KnownListed
<1>2. u # nextUid /\ u < nextUid'
  BY <1>1 DEF Drifts, Moves
<1> QED
  BY <1>1, <1>2 DEF Drifts, Moves

LEMMA ReportedStays ==
  ASSUME Typed, Typed', ViewInv, FlagsInv, Drifts, UNCHANGED <<known, lastState>>,
         \A k \in Tasks, u \in present' : Asked(task[k], u) => Asked(task'[k], u)
  PROVE  Reported'
<1> SUFFICES ASSUME NEW u \in present', ~\E k \in Tasks : Asked(task'[k], u)
             PROVE  known'[u] # 0 /\ changed'[u] <= lastState' => known'[u] >= changed'[u]
  BY DEF Reported, Asked, Current
<1>1. ~\E k \in Tasks : Asked(task[k], u)
  OBVIOUS
<1>2. u \in present => Current(u, lastState)
  BY <1>1 DEF FlagsInv, Reported
<1>3. lastState \in Nat /\ lastState <= jmapState
  BY Numeric DEF FlagsInv
<1> QED
  BY <1>2, <1>3, CurrentStays

\* With one command it is enough to look at its own locals.
LEMMA OneFlags ==
  ASSUME Typed, Typed', ViewInv, FlagsInv, Serial, NEW t \in Tasks, Drifts, UNCHANGED <<known, lastState>>,
         present \cap ToSet(imapUids) \subseteq ToSet(imapUids'),
         \A u \in present' : Asked(task[t], u) => Asked(task'[t], u), Reports(task[t])'
  PROVE  FlagsInv'
<1>1. \A k \in Tasks, u \in present' : Asked(task[k], u) => Asked(task'[k], u)
  BY DEF Serial
<1>2. KnownListed' /\ Reported'
  BY <1>1, ListedStays, ReportedStays
<1>3. \A k \in Tasks : Reports(task[k])'
  BY DEF Serial
<1>4. lastState' <= jmapState'
  <2>1. jmapState' \in Nat
    BY Bounds DEF Drifts
  <2> QED
    BY <2>1, Numeric DEF FlagsInv, Drifts
<1> QED
  BY <1>2, <1>3, <1>4 DEF FlagsInv

\* What a command has found out stays true when messages drift by.
LEMMA CollectedStays ==
  ASSUME Typed, Typed', ViewInv, FlagsInv, Drifts, UNCHANGED known, NEW t \in Tasks, Collected(task[t])
  PROVE  \A u \in present' :
           \/ known'[u] # 0 /\ changed'[u] <= task[t].new => known'[u] >= changed'[u]
           \/ u \in task[t].ids
<1> SUFFICES ASSUME NEW u \in present', u \notin task[t].ids
             PROVE  known'[u] # 0 /\ changed'[u] <= task[t].new => known'[u] >= changed'[u]
  OBVIOUS
<1>1. task[t].new \in Nat /\ task[t].new <= jmapState
  BY LocalTyped, Bounds DEF FlagsInv, Reports
<1>2. u \in present => Current(u, task[t].new)
  BY DEF FlagsInv, Reports
<1> QED
  BY <1>1, <1>2, CurrentStays

LEMMA NewStays ==
  ASSUME Typed, FlagsInv, Drifts, NEW t \in Tasks
  PROVE  task[t].new <= jmapState'
<1>1. task[t].new \in Nat /\ task[t].new <= jmapState
  BY LocalTyped, Bounds DEF FlagsInv, Reports
<1>2. jmapState' \in Nat
  BY Bounds DEF Drifts
<1> QED
  BY <1>1, <1>2, Numeric DEF Drifts

\* Others change the account; a command only hears of it.
LEMMA OthersFlags == ASSUME Typed, Typed', ViewInv, FlagsInv, OnlyRefreshed, Others PROVE FlagsInv'
<1>1. Drifts /\ Notify /\ UNCHANGED <<mailbox, client>>
  <2>1. CASE Deliver
    BY <2>1, DriftsArrival DEF Deliver
  <2>2. ASSUME NEW u \in Uids, Vanish(u) PROVE Drifts /\ Notify /\ UNCHANGED <<mailbox, client>>
    BY <2>2, DriftsChanged DEF Vanish
  <2>3. ASSUME NEW u \in Uids, SetFlags(u) PROVE Drifts /\ Notify /\ UNCHANGED <<mailbox, client>>
    BY <2>3, DriftsChanged DEF SetFlags
  <2> QED
    BY <2>1, <2>2, <2>3 DEF Others
<1>2. UNCHANGED <<known, lastState, imapUids>>
  BY <1>1 DEF mailbox, client
<1>3. ASSUME NEW t \in Tasks
      PROVE  /\ task'[t].pc = task[t].pc /\ task'[t].cmd = task[t].cmd /\ task'[t].ids = task[t].ids
             /\ task'[t].since = task[t].since /\ task'[t].new = task[t].new
             /\ task'[t].list = task[t].list /\ task'[t].items = task[t].items
  <2>1. task[t] \in Records /\ task'[t] = Hears(t)
    BY <1>1 DEF Typed, Notify
  <2> QED
    BY <2>1 DEF Hears, Records
<1>4. \A k \in Tasks, u \in present' : Asked(task[k], u) => Asked(task'[k], u)
  BY <1>3 DEF Asked
<1>5. KnownListed' /\ Reported'
  BY <1>1, <1>2, <1>4, ListedStays, ReportedStays
<1>6. ASSUME NEW t \in Tasks PROVE Reports(task[t])'
  <2>1. Reports(task[t]) /\ task[t].new <= jmapState'
    BY <1>1, NewStays DEF FlagsInv
  <2>2. Collected(task[t]) =>
          \A u \in present' : \/ known'[u] # 0 /\ changed'[u] <= task[t].new => known'[u] >= changed'[u]
                              \/ u \in task[t].ids
    BY <1>1, <1>2, CollectedStays
  <2>3. present' \cap ToSet(imapUids) \subseteq present
    BY <1>1, Numeric DEF Drifts, Moves, ViewInv, Sound
  <2> QED
    BY <1>2, <1>3, <2>1, <2>2, <2>3 DEF Reports, Route, Collected, Current
<1>7. lastState' <= jmapState'
  <2>1. jmapState' \in Nat
    BY <1>1, Bounds DEF Drifts
  <2> QED
    BY <1>1, <1>2, <2>1, Numeric DEF FlagsInv, Drifts
<1> QED
  BY <1>5, <1>6, <1>7 DEF FlagsInv

\* A command goes on to a step that has nothing to remember.
LEMMA PlainFlags ==
  ASSUME Typed, Typed', ViewInv, FlagsInv, Serial, NEW t \in Tasks, NEW r,
         Become(t, r) \/ BecomeAndNotify(t, r), Drifts, UNCHANGED <<known, lastState, imapUids>>,
         task[t].pc \notin {"get", "fetch"}, Route(r), ~Collected(r), r.new <= jmapState',
         r.pc \notin {"apply", "get", "fetch"}, r.pc = "changes" => r.since = lastState
  PROVE  FlagsInv'
<1>1. task'[t] = r
  BY BecomeIs DEF BecomeAndNotify
<1>2. Reports(task[t])'
  BY <1>1 DEF Reports, Route, Collected
<1>3. \A u \in present' : Asked(task[t], u) => Asked(task'[t], u)
  BY DEF Asked
<1> QED
  BY <1>2, <1>3, OneFlags

LEMMA IdlePlain == Route(Idle) /\ ~Collected(Idle) /\ Idle.new = 0 /\ Idle.pc = "idle"
BY DEF Idle, Route, Collected

LEMMA PastStates ==
  ASSUME Drifts
  PROVE  0 <= jmapState'
<1>1. jmapState' \in Nat
  BY Bounds DEF Drifts
<1> QED
  BY <1>1

LEMMA StartFlags ==
  ASSUME Typed, Typed', ViewInv, FlagsInv, OnlyRefreshed, NEW t \in Tasks,
         StartSave(t) \/ \E c \in Commands, us \in SUBSET Uids : Start(t, c, us)
  PROVE  FlagsInv'
<1>1. ASSUME NEW c \in Commands, NEW us \in SUBSET Uids, Start(t, c, us) PROVE FlagsInv'
  <2> DEFINE r == [Idle EXCEPT !.pc = FirstLabel[c], !.cmd = c, !.ids = us, !.since = lastState,
                              !.items = Located(us, imapUids)]
  <2>1. r.pc = FirstLabel[c] /\ r.cmd = c /\ r.since = lastState /\ r.new = 0 /\ r.items = Located(us, imapUids)
    BY DEF Idle
  <2>2. Become(t, r) /\ UNCHANGED <<server, known, lastState, imapUids>> /\ task[t].pc = "idle"
    BY <1>1 DEF Start, At, mailbox, client
  <2> HIDE DEF r
  <2>3. Drifts
    BY <2>2, DriftsServer
  <2>4. c \in {"select", "unselect", "close", "noop", "fetch", "search", "idle"}
    BY SelectedViewAssumption DEF OnlyRefreshed, Blocking, Spawned
  <2>5. Route(r) /\ ~Collected(r)
    BY <2>1, <2>4 DEF FirstLabel, Route, Collected
  <2>6. CASE c # "fetch"
    <3>1. r.pc \notin {"apply", "get", "fetch"}
      BY <2>1, <2>4, <2>6 DEF FirstLabel
    <3> QED
      BY <2>1, <2>2, <2>3, <2>5, <3>1, PastStates, PlainFlags DEF OnlyRefreshed
  <2>7. CASE c = "fetch"
    <3>1. task'[t] = r /\ r.pc = "get"
      BY <2>1, <2>2, <2>7, BecomeIs DEF FirstLabel
    <3>2. \A i \in r.items : i.seqnum \in DOMAIN imapUids /\ imapUids[i.seqnum] = i.uid
      BY <2>1 DEF Located
    <3>3. Reports(task[t])'
      BY <2>1, <2>2, <2>3, <2>5, <3>1, <3>2, PastStates DEF Reports, Route, Collected
    <3>4. \A u \in present' : Asked(task[t], u) => Asked(task'[t], u)
      BY <2>2 DEF Asked
    <3> QED
      BY <2>2, <2>3, <3>3, <3>4, OneFlags DEF OnlyRefreshed
  <2> QED
    BY <2>6, <2>7
<1>2. CASE StartSave(t)
  <2> DEFINE r == [Idle EXCEPT !.pc = "query", !.cmd = "search", !.prev = saved, !.save = TRUE]
  <2>1. r.pc = "query" /\ r.cmd = "search" /\ r.new = 0
    BY DEF Idle
  <2>2. Become(t, r) /\ UNCHANGED <<server, known, lastState, imapUids>> /\ task[t].pc = "idle"
    BY <1>2 DEF StartSave, At, client
  <2> HIDE DEF r
  <2>3. Drifts
    BY <2>2, DriftsServer
  <2> QED
    BY <2>1, <2>2, <2>3, PastStates, PlainFlags DEF OnlyRefreshed, Route, Collected
<1> QED
  BY <1>1, <1>2

\* The steps that have nothing to do with flags.
LEMMA PlainStepFlags ==
  ASSUME Typed, Typed', ViewInv, FlagsInv, OnlyRefreshed, NEW t \in Tasks,
         \/ GetState(t) \/ Save(t) \/ SourceClosed(t) \/ Done(t) \/ Event(t)
         \/ \E us \in SUBSET present : Seen(t, us) \/ Destroy(t, us) \/ Query(t, us)
  PROVE  FlagsInv'
<1>0. task[t] \in Records /\ Route(task[t]) /\ Serial
  BY DEF Typed, FlagsInv, Reports, OnlyRefreshed
<1>1. CASE GetState(t)
  <2> DEFINE r == [Local(t) EXCEPT !.new = jmapState, !.pc = "opened"]
  <2>1. r.pc = "opened" /\ r.new = jmapState
    BY <1>0 DEF Local, Records
  <2>2. Become(t, r) /\ UNCHANGED <<server, known, lastState, imapUids>> /\ task[t].pc = "state"
    BY <1>1 DEF GetState, At, mailbox, client
  <2> HIDE DEF r
  <2>3. Drifts /\ r.new <= jmapState'
    BY <2>1, <2>2, DriftsServer DEF Drifts
  <2> QED
    BY <1>0, <2>1, <2>2, <2>3, PlainFlags DEF Route, Collected
<1>2. CASE Save(t) \/ Done(t)
  <2>1. Become(t, Idle) /\ UNCHANGED <<server, known, lastState, imapUids>> /\ task[t].pc \notin {"get", "fetch"}
    BY <1>2 DEF Save, Done, At, mailbox, client
  <2>2. Drifts
    BY <2>1, DriftsServer
  <2> QED
    BY <1>0, <2>1, <2>2, IdlePlain, PastStates, PlainFlags
<1>3. CASE SourceClosed(t)
  BY <1>3 DEF SourceClosed, OnlyRefreshed
<1>4. CASE Event(t)
  <2> DEFINE r == [Idle EXCEPT !.cmd = task[t].cmd, !.since = lastState, !.pc = "changes"]
  <2>1. Become(t, r) /\ UNCHANGED <<server, known, lastState, imapUids>> /\ task[t].pc = "idling"
    BY <1>4 DEF Event, At, mailbox, client
  <2>2. r.pc = "changes" /\ r.since = lastState /\ r.new = 0
    BY DEF Idle
  <2> HIDE DEF r
  <2>3. Drifts
    BY <2>1, DriftsServer
  <2> QED
    BY <1>0, <2>1, <2>2, <2>3, PastStates, PlainFlags DEF Route, Collected
<1>5. ASSUME NEW us \in SUBSET present, Seen(t, us) PROVE FlagsInv'
  <2>1. BecomeAndNotify(t, Idle) /\ UNCHANGED <<known, lastState, imapUids>> /\ task[t].pc = "seen"
    BY <1>5 DEF Seen, At, mailbox, client
  <2>2. Drifts
    <3>1. CASE us = {}
      BY <1>5, <3>1, DriftsServer DEF Seen, server
    <3>2. CASE us # {}
      BY <1>5, <3>2, DriftsChanged DEF Seen
    <3> QED
      BY <3>1, <3>2
  <2> QED
    BY <1>0, <2>1, <2>2, IdlePlain, PastStates, PlainFlags
<1>6. ASSUME NEW us \in SUBSET present, Destroy(t, us) PROVE FlagsInv'
  <2> DEFINE c == [Idle EXCEPT !.cmd = "close", !.pc = "opened"]
  <2>1. Become(t, c) /\ UNCHANGED <<known, lastState, imapUids>> /\ task[t].pc = "destroy"
    BY <1>0, <1>6 DEF Destroy, At, Route, client
  <2>2. Drifts
    <3>1. CASE us = {}
      BY <1>6, <3>1, DriftsServer DEF Destroy, server
    <3>2. CASE us # {}
      <4>1. present \ us \in SUBSET present
        OBVIOUS
      <4> QED
        BY <1>6, <3>2, <4>1, DriftsChanged DEF Destroy
    <3> QED
      BY <3>1, <3>2
  <2>3. c.pc = "opened" /\ c.new = 0
    BY DEF Idle
  <2> HIDE DEF c
  <2> QED
    BY <1>0, <2>1, <2>2, <2>3, PastStates, PlainFlags DEF Route, Collected
<1>7. ASSUME NEW us \in SUBSET present, Query(t, us) PROVE FlagsInv'
  <2> DEFINE pc == IF us \subseteq ToSet(imapUids) THEN "save" ELSE "list"
             r == [Local(t) EXCEPT !.ids = us, !.items = Located(us, imapUids), !.pc = pc]
  <2>1. Become(t, r) /\ UNCHANGED <<server, known, lastState, imapUids>> /\ task[t].pc = "query"
    BY <1>7 DEF Query, At, mailbox, client
  <2>2. r.pc \in {"save", "list"} /\ r.cmd = "search" /\ r.new = task[t].new
    BY <1>0, <2>1 DEF Local, Records, Route
  <2> HIDE DEF r
  <2>3. Drifts
    BY <2>1, DriftsServer
  <2>4. r.new <= jmapState'
    BY <2>2, <2>3, NewStays
  <2> QED
    BY <1>0, <2>1, <2>2, <2>3, <2>4, PlainFlags DEF Route, Collected
<1> QED
  BY <1>1, <1>2, <1>3, <1>4, <1>5, <1>6, <1>7

\* Without one of the flags in question nobody has asked for it.
LEMMA CurrentOf ==
  ASSUME FlagsInv, Serial, NEW t \in Tasks, task[t].pc \notin {"get", "fetch"}
  PROVE  \A u \in present : Current(u, lastState)
BY DEF FlagsInv, Reported, Asked, Serial

LEMMA ChangesFlags == ASSUME Typed, Typed', ViewInv, FlagsInv, OnlyRefreshed, NEW t \in Tasks, Changes(t) PROVE FlagsInv'
<1> DEFINE ids == {u \in Uids : changed[u] > Since(t)}
           r == [Local(t) EXCEPT !.ids = ids, !.new = jmapState, !.pc = "list"]
<1>0. Reports(task[t]) /\ Serial
  BY DEF FlagsInv, OnlyRefreshed
<1>1. Become(t, r) /\ UNCHANGED <<server, known, lastState, imapUids>> /\ task[t].pc = "changes"
  BY DEF Changes, At, mailbox, client
<1>2. ASSUME NEW u \in present, u \notin ids PROVE Current(u, jmapState)
  <2>1. u \in Uids /\ changed[u] \in Nat /\ lastState \in Nat
    BY Numeric
  <2>2. changed[u] <= lastState
    BY <1>0, <1>1, <1>2, <2>1 DEF Since, Reports
  <2> QED
    BY <1>0, <1>1, <2>2, CurrentOf DEF Current
<1> HIDE DEF ids
<1>3. r.pc = "list" /\ r.ids = ids /\ r.new = jmapState
  BY LocalTyped DEF Local, Records
<1> HIDE DEF r
<1>4. task'[t] = r /\ Drifts
  BY <1>1, BecomeIs, DriftsServer
<1>5. Reports(task[t])'
  <2>1. jmapState' = jmapState /\ present' = present /\ changed' = changed /\ known' = known
    BY <1>1 DEF server
  <2>2. \A u \in present' : Current(u, task[t].new)' \/ u \in task'[t].ids
    BY <1>2, <1>3, <1>4, <2>1 DEF Current
  <2>3. task'[t].new <= jmapState'
    BY <1>3, <1>4, <2>1, Numeric
  <2> QED
    BY <1>3, <1>4, <2>2, <2>3 DEF Reports, Route
<1>6. \A u \in present' : Asked(task[t], u) => Asked(task'[t], u)
  BY <1>1 DEF Asked
<1> QED
  BY <1>0, <1>1, <1>4, <1>5, <1>6, OneFlags

\* A refresh carries on with what it has collected.
LEMMA CarriesOn ==
  ASSUME Typed, Typed', ViewInv, FlagsInv, Serial, NEW t \in Tasks, NEW r, Become(t, r),
         UNCHANGED <<server, known, lastState>>, present \cap ToSet(imapUids) \subseteq ToSet(imapUids'),
         task[t].pc \notin {"get", "fetch"}, r.ids = task[t].ids, r.new = task[t].new,
         Collected(r) => Collected(task[t]),
         r.pc \notin {"changes", "get", "fetch"}, Route(r),
         r.pc = "apply" => present \cap ToSet(imapUids') \subseteq ToSet(r.list)
  PROVE  FlagsInv'
<1>1. task'[t] = r /\ Drifts
  BY BecomeIs, DriftsServer
<1>2. Reports(task[t])'
  <2>1. r.new <= jmapState' /\ present' = present
    BY <1>1, NewStays DEF server
  <2>2. Collected(r) => \A u \in present' : Current(u, task[t].new)' \/ u \in r.ids
    BY <1>1, CollectedStays DEF Current
  <2> QED
    BY <1>1, <2>1, <2>2 DEF Reports, Collected, Route
<1>3. \A u \in present' : Asked(task[t], u) => Asked(task'[t], u)
  BY DEF Asked
<1> QED
  BY <1>1, <1>2, <1>3, OneFlags

LEMMA ListFlags == ASSUME Typed, Typed', ViewInv, FlagsInv, OnlyRefreshed, NEW t \in Tasks, List(t) PROVE FlagsInv'
<1> DEFINE l == Only([u \in Uids |-> u], present)
           pc == CASE task[t].cmd = "select" -> "state"
                   [] task[t].cmd = "expunge" -> "replace"
                   [] OTHER -> "apply"
           r == [Local(t) EXCEPT !.list = l, !.pc = pc]
<1>1. Become(t, r) /\ UNCHANGED <<server, mailbox, client>> /\ task[t].pc = "list"
  BY DEF List, At
<1>2. ToSet(l) = present
  BY ListIs
<1>3. task[t].cmd # "expunge"
  BY LocalTyped DEF Records, OnlyRefreshed
<1>4. pc \in {"state", "apply"}
  BY <1>3
<1> HIDE DEF l, pc
<1>5. r.list = l /\ r.pc = pc /\ r.cmd = task[t].cmd /\ r.ids = task[t].ids /\ r.new = task[t].new
  BY LocalTyped DEF Local, Records
<1> HIDE DEF r
<1>6. Route(r) /\ (Collected(r) => Collected(task[t]))
  BY <1>1, <1>4, <1>5 DEF Route, Collected
<1>7. UNCHANGED <<server, known, lastState, imapUids>>
  BY <1>1 DEF mailbox, client
<1> QED
  BY <1>1, <1>2, <1>4, <1>5, <1>6, <1>7, CarriesOn DEF OnlyRefreshed

LEMMA ApplyFlags == ASSUME Typed, Typed', ViewInv, FlagsInv, OnlyRefreshed, NEW t \in Tasks, Apply(t) PROVE FlagsInv'
<1> DEFINE gone == Gone(imapUids, Kept(t))
           added == Only(task[t].list, Uids \ ToSet(Only(imapUids, Kept(t))))
           out == [gone |-> Numbers(gone), tell |-> gone # <<>> \/ added # <<>>, exists |-> totalMessages', all |-> imapUids']
           r == [Local(t) EXCEPT !.out = out, !.items = Located(task[t].ids, imapUids'), !.pc = "write"]
<1>1. Become(t, r) /\ UNCHANGED <<server, known, lastState>> /\ task[t].pc = "apply"
  BY DEF Apply, At, client
<1>2. present \cap ToSet(imapUids) \subseteq ToSet(imapUids')
  <2>1. present \cap ToSet(imapUids) \subseteq ToSet(task[t].list)
    BY <1>1 DEF FlagsInv, Reports
  <2> QED
    BY <2>1, AppliedList
<1> HIDE DEF out
<1>3. r.pc = "write" /\ r.cmd = task[t].cmd /\ r.ids = task[t].ids /\ r.new = task[t].new
  BY LocalTyped DEF Local, Records
<1> HIDE DEF r
<1>4. Route(r) /\ (Collected(r) => Collected(task[t]))
  BY <1>1, <1>3 DEF Route, Collected
<1> QED
  BY <1>1, <1>2, <1>3, <1>4, CarriesOn DEF OnlyRefreshed

LEMMA WriteFlags ==
  ASSUME Typed, Typed', ViewInv, FlagsInv, OnlyRefreshed, NEW t \in Tasks, ReadExpunge(t) \/ Write(t)
  PROVE  FlagsInv'
<1>0. task[t] \in Records /\ Route(task[t]) /\ Serial
  BY DEF Typed, FlagsInv, Reports, OnlyRefreshed
<1>1. CASE ReadExpunge(t)
  <2> DEFINE out == [task[t].out EXCEPT !.gone = Tail(@)]
             r == [Local(t) EXCEPT !.out = out, !.pc = "reading"]
  <2>1. Become(t, r) /\ UNCHANGED <<server, known, lastState, imapUids>> /\ task[t].pc \in {"write", "reading"}
    BY <1>1 DEF ReadExpunge, At, mailbox
  <2> HIDE DEF out
  <2>2. r.pc = "reading" /\ r.cmd = task[t].cmd /\ r.ids = task[t].ids /\ r.new = task[t].new
    BY <1>0 DEF Local, Records
  <2> HIDE DEF r
  <2>3. Route(r) /\ (Collected(r) => Collected(task[t]))
    BY <2>1, <2>2 DEF Route, Collected
  <2> QED
    BY <1>0, <2>1, <2>2, <2>3, CarriesOn
<1>2. CASE Write(t)
  <2> DEFINE a == [Local(t) EXCEPT !.out = NoOut, !.pc = "advance"]
             s == [Local(t) EXCEPT !.out = NoOut, !.pc = "save"]
             r == CASE task[t].cmd \in {"noop", "idle"} -> a
                    [] task[t].cmd = "search" -> s
                    [] OTHER -> Idle
  <2>1. Become(t, r) /\ UNCHANGED <<server, known, lastState, imapUids>> /\ task[t].pc \in {"write", "reading"}
    BY <1>2 DEF Write, At, mailbox
  <2>2. /\ a.pc = "advance" /\ a.ids = task[t].ids /\ a.new = task[t].new
        /\ s.pc = "save" /\ s.ids = task[t].ids /\ s.new = task[t].new
    BY <1>0 DEF Local, Records
  <2> HIDE DEF a, s
  <2>3. \/ task[t].cmd \in {"noop", "idle"} /\ r = a
        \/ r = s
        \/ r = Idle
    OBVIOUS
  <2> HIDE DEF r
  <2>4. CASE task[t].cmd \in {"noop", "idle"} /\ r = a
    <3>1. Route(r) /\ Collected(task[t])
      BY <2>1, <2>2, <2>4 DEF Route, Collected
    <3> QED
      BY <1>0, <2>1, <2>2, <2>4, <3>1, CarriesOn
  <2>5. CASE r = s
    <3>1. Route(r) /\ ~Collected(r)
      BY <2>2, <2>5 DEF Route, Collected
    <3> QED
      BY <1>0, <2>1, <2>2, <2>5, <3>1, CarriesOn
  <2>6. CASE r = Idle
    BY <1>0, <2>1, <2>6, IdlePlain, PastStates, DriftsServer, PlainFlags
  <2> QED
    BY <2>3, <2>4, <2>5, <2>6
<1> QED
  BY <1>1, <1>2

LEMMA EndedPlain ==
  ASSUME Typed, NEW t \in Tasks
  PROVE  Ended(t).pc \in {"idle", "idling"} /\ Ended(t).new = 0 /\ Route(Ended(t)) /\ ~Collected(Ended(t))
<1>1. Ended(t).pc \in {"idle", "idling"} /\ Ended(t).new = 0
  BY DEF Ended, Idle
<1> QED
  BY <1>1 DEF Route, Collected

\* last_state moves on: every change up to there is known or is fetched next.
LEMMA AdvanceFlags == ASSUME Typed, Typed', ViewInv, FlagsInv, OnlyRefreshed, NEW t \in Tasks, Advance(t) PROVE FlagsInv'
<1> DEFINE us == task[t].ids \cap ToSet(imapUids)
           more == task[t].new # task[t].since
           g == [Local(t) EXCEPT !.items = Located(us, imapUids), !.pc = "get"]
           r == IF more /\ us # {} THEN g ELSE Ended(t)
<1>0. Serial /\ Reports(task[t])
  BY DEF FlagsInv, OnlyRefreshed
<1>1. /\ Become(t, r) /\ UNCHANGED <<server, known, imapUids>> /\ task[t].pc = "advance"
      /\ lastState' = IF more THEN task[t].new ELSE lastState
  BY DEF Advance, At, client
<1>2. Drifts /\ task'[t] = r /\ jmapState' = jmapState /\ present' = present /\ changed' = changed /\ nextUid' = nextUid
  BY <1>1, DriftsServer, BecomeIs DEF server
<1>3. g.pc = "get" /\ g.items = Located(us, imapUids) /\ g.new = task[t].new /\ g.cmd = task[t].cmd
  BY LocalTyped DEF Local, Records
<1>4. ASSUME NEW u \in us PROVE \E i \in Located(us, imapUids) : i.uid = u
  <2>1. PICK k \in DOMAIN imapUids : imapUids[k] = u
    BY DEF ToSet
  <2>2. [uid |-> imapUids[k], seqnum |-> k, state |-> 0] \in Located(us, imapUids)
    BY <2>1 DEF Located
  <2>3. [uid |-> imapUids[k], seqnum |-> k, state |-> 0].uid = u
    BY <2>1
  <2> QED
    BY <2>2, <2>3
<1>5. \A i \in Located(us, imapUids) : i.seqnum \in DOMAIN imapUids /\ imapUids[i.seqnum] = i.uid
  BY DEF Located
<1>6. KnownListed'
  BY <1>1, <1>2, ListedStays
<1>7. lastState' <= jmapState'
  BY <1>0, <1>1, <1>2 DEF FlagsInv, Reports
<1>8. ASSUME NEW u \in present, more PROVE Current(u, task[t].new) \/ u \in us
  <2>1. Current(u, task[t].new) \/ u \in task[t].ids
    BY <1>0, <1>1 DEF Reports, Collected
  <2>2. u \in Uids /\ (known[u] # 0 => u \in ToSet(imapUids))
    BY Numeric DEF FlagsInv, KnownListed
  <2> QED
    BY <2>1, <2>2 DEF Current
<1> HIDE DEF us, more, g
<1>9. Reports(task[t])'
  <2>1. CASE more /\ us # {}
    <3>1. task'[t] = g
      BY <1>2, <2>1
    <3> QED
      BY <1>0, <1>1, <1>2, <1>3, <1>5, <3>1 DEF Reports, Route, Collected
  <2>2. CASE ~(more /\ us # {})
    <3>1. task'[t] = Ended(t)
      BY <1>2, <2>2
    <3> QED
      BY <1>2, <3>1, EndedPlain, PastStates DEF Reports, Route, Collected
  <2> QED
    BY <2>1, <2>2
<1>10. Reported'
  <2> SUFFICES ASSUME NEW u \in present
               PROVE  Current(u, lastState)' \/ Asked(task'[t], u)
    BY <1>2 DEF Reported, Asked
  <2>1. CASE ~more
    <3>1. Current(u, lastState) /\ lastState' = lastState
      BY <1>0, <1>1, <2>1, CurrentOf
    <3> QED
      BY <1>1, <1>2, <3>1 DEF Current
  <2>2. CASE more
    <3>1. CASE Current(u, task[t].new)
      BY <1>1, <1>2, <2>2, <3>1 DEF Current
    <3>2. CASE u \in us
      BY <1>2, <1>3, <1>4, <2>2, <3>2 DEF Asked
    <3> QED
      BY <1>8, <2>2, <3>1, <3>2
  <2> QED
    BY <2>1, <2>2
<1>11. \A k \in Tasks : Reports(task[k])'
  BY <1>0, <1>9 DEF Serial
<1> QED
  BY <1>6, <1>7, <1>10, <1>11 DEF FlagsInv

LEMMA GetFlags == ASSUME Typed, Typed', ViewInv, FlagsInv, OnlyRefreshed, NEW t \in Tasks, Get(t) PROVE FlagsInv'
<1> DEFINE items == {[i EXCEPT !.state = jmapState] : i \in {k \in task[t].items : k.uid \in present}}
           r == [Local(t) EXCEPT !.items = items, !.pc = "fetch"]
<1>0. Serial /\ Reports(task[t]) /\ task[t].items \subseteq Items
  BY LocalTyped DEF FlagsInv, OnlyRefreshed
<1>1. Become(t, r) /\ UNCHANGED <<server, known, lastState, imapUids>> /\ task[t].pc = "get"
  BY DEF Get, Local, At, mailbox, client
<1>2. \A i \in items : i.state = jmapState /\ \E k \in task[t].items : i.uid = k.uid /\ i.seqnum = k.seqnum
  BY <1>0 DEF Items
<1>3. \A k \in task[t].items : k.uid \in present => \E i \in items : i.uid = k.uid
  <2> SUFFICES ASSUME NEW k \in task[t].items, k.uid \in present PROVE \E i \in items : i.uid = k.uid
    OBVIOUS
  <2>1. [k EXCEPT !.state = jmapState] \in items /\ k \in Items
    BY <1>0
  <2>2. [k EXCEPT !.state = jmapState].uid = k.uid
    BY <2>1 DEF Items
  <2> QED
    BY <2>1, <2>2
<1> HIDE DEF items
<1>4. r.pc = "fetch" /\ r.items = items /\ r.new = task[t].new
  BY LocalTyped DEF Local, Records
<1> HIDE DEF r
<1>5. Drifts /\ task'[t] = r /\ jmapState' = jmapState /\ present' = present
  BY <1>1, DriftsServer, BecomeIs DEF server
<1>6. Reports(task[t])'
  <2>1. \A i \in items : i.seqnum \in DOMAIN imapUids /\ imapUids[i.seqnum] = i.uid
    BY <1>0, <1>1, <1>2 DEF Reports
  <2>2. \A i \in items : i.state >= lastState
    BY <1>2, Numeric DEF FlagsInv
  <2> QED
    BY <1>0, <1>1, <1>4, <1>5, <2>1, <2>2 DEF Reports, Route, Collected
<1>7. \A u \in present' : Asked(task[t], u) => Asked(task'[t], u)
  BY <1>3, <1>4, <1>5 DEF Asked
<1> QED
  BY <1>0, <1>1, <1>5, <1>6, <1>7, OneFlags

\* The flags arrive: those of the messages that were asked for, in the order the client
\* counts them.
LEMMA FetchFlags == ASSUME Typed, Typed', ViewInv, FlagsInv, OnlyRefreshed, NEW t \in Tasks, Fetch(t) PROVE FlagsInv'
<1> DEFINE P(u, i) == i.seqnum \in DOMAIN view /\ view[i.seqnum] = u
           g == [Local(t) EXCEPT !.pc = "seen"]
           r == IF task[t].cmd = "fetch" THEN g ELSE Ended(t)
<1>0. Serial /\ Reports(task[t])
  BY DEF FlagsInv, OnlyRefreshed
<1>1. /\ Become(t, r) /\ UNCHANGED <<server, imapUids, lastState>> /\ task[t].pc = "fetch"
      /\ known' = [u \in Uids |-> IF \E i \in task[t].items : P(u, i)
                                  THEN (CHOOSE i \in task[t].items : P(u, i)).state ELSE known[u]]
  BY DEF Fetch, At, mailbox
<1>2. view = imapUids
  BY <1>0, <1>1, NotWriting DEF Written
<1>3. ASSUME NEW u \in Uids, NEW i \in task[t].items, P(u, i)
      PROVE  known'[u] >= lastState /\ u \in ToSet(imapUids)
  <2> DEFINE c == CHOOSE k \in task[t].items : P(u, k)
  <2>1. c \in task[t].items /\ known'[u] = c.state
    <3>1. \E k \in task[t].items : P(u, k)
      BY <1>3
    <3> HIDE DEF P
    <3> QED
      BY <1>1, <3>1
  <2>2. c.state >= lastState
    BY <1>0, <1>1, <2>1 DEF Reports
  <2> QED
    BY <1>2, <1>3, <2>1, <2>2 DEF ToSet
<1>4. ASSUME NEW u \in Uids, ~\E i \in task[t].items : P(u, i) PROVE known'[u] = known[u]
  BY <1>1, <1>4
<1>5. Drifts /\ task'[t] = r /\ jmapState' = jmapState /\ present' = present /\ changed' = changed /\ nextUid' = nextUid
  BY <1>1, DriftsServer, BecomeIs DEF server
<1>6. g.pc = "seen" /\ g.new = task[t].new
  BY LocalTyped DEF Local, Records
<1> HIDE DEF g
<1>7. KnownListed'
  <2> SUFFICES ASSUME NEW u \in Uids, known'[u] # 0
               PROVE  u < nextUid /\ (u \in present => u \in ToSet(imapUids))
    BY <1>1, <1>5 DEF KnownListed
  <2>1. CASE \E i \in task[t].items : P(u, i)
    <3>1. u \in ToSet(imapUids)
      BY <1>3, <2>1
    <3> QED
      BY <3>1 DEF ViewInv, Sound
  <2>2. CASE ~\E i \in task[t].items : P(u, i)
    BY <1>4, <2>2 DEF FlagsInv, KnownListed
  <2> QED
    BY <2>1, <2>2
<1>8. Reported'
  <2> SUFFICES ASSUME NEW u \in present, changed[u] <= lastState, known'[u] # 0
               PROVE  known'[u] >= changed[u]
    BY <1>1, <1>5 DEF Reported, Current
  <2>1. u \in Uids /\ changed[u] \in Nat /\ lastState \in Nat
    BY Numeric
  <2>2. known'[u] \in Nat
    <3>1. known'[u] \in States
      BY <2>1 DEF Typed, ClientTyped
    <3> QED
      BY <3>1, Bounds
  <2>3. CASE \E i \in task[t].items : P(u, i)
    BY <1>3, <2>1, <2>2, <2>3
  <2>4. CASE ~\E i \in task[t].items : P(u, i)
    <3>1. ~Asked(task[t], u)
      BY <1>0, <1>1, <1>2, <2>4 DEF Asked, Reports
    <3>2. Current(u, lastState)
      BY <1>0, <3>1 DEF FlagsInv, Reported, Serial
    <3> QED
      BY <1>4, <2>1, <2>4, <3>2 DEF Current
  <2> QED
    BY <2>3, <2>4
<1>9. Reports(task[t])'
  <2>1. CASE task[t].cmd = "fetch"
    <3>1. task'[t] = g
      BY <1>5, <2>1
    <3> QED
      BY <1>0, <1>5, <1>6, <3>1 DEF Reports, Route, Collected
  <2>2. CASE task[t].cmd # "fetch"
    <3>1. task'[t] = Ended(t)
      BY <1>5, <2>2
    <3> QED
      BY <1>5, <3>1, EndedPlain, PastStates DEF Reports, Route, Collected
  <2> QED
    BY <2>1, <2>2
<1>10. \A k \in Tasks : Reports(task[k])'
  BY <1>0, <1>9 DEF Serial
<1>11. lastState' <= jmapState'
  BY <1>1, <1>5 DEF FlagsInv
<1> QED
  BY <1>7, <1>8, <1>10, <1>11 DEF FlagsInv

LEMMA OpenedFlags == ASSUME Typed, Typed', ViewInv, FlagsInv, OnlyRefreshed, NEW t \in Tasks, Opened(t) PROVE FlagsInv'
<1>1. Become(t, Idle) /\ UNCHANGED server /\ lastState' = task[t].new /\ known' = [u \in Uids |-> 0]
  BY DEF Opened, server
<1>2. Drifts /\ task'[t] = Idle /\ jmapState' = jmapState /\ present' = present
  BY <1>1, DriftsServer, BecomeIs DEF server
<1>3. KnownListed'
  BY <1>1 DEF KnownListed
<1>4. Reported'
  BY <1>1, <1>2, Numeric DEF Reported, Current
<1>5. Reports(task[t])'
  BY <1>2, IdlePlain, PastStates DEF Reports, Route, Collected
<1>6. \A k \in Tasks : Reports(task[k])'
  BY <1>5 DEF OnlyRefreshed, Serial
<1>7. lastState' <= jmapState'
  BY <1>1, <1>2 DEF FlagsInv, Reports
<1> QED
  BY <1>3, <1>4, <1>6, <1>7 DEF FlagsInv

\* The steps that do not happen.
LEMMA NotTaken ==
  ASSUME FlagsInv, OnlyRefreshed, NEW t \in Tasks
  PROVE  ~(Set(t) \/ DropMoved(t) \/ StoreAdvance(t) \/ Replace(t) \/ Import(t) \/ Fail(t))
<1>1. task[t].pc \notin {"set", "drop", "import", "replace"} /\ ~MayFail
  BY DEF FlagsInv, Reports, Route, OnlyRefreshed
<1> QED
  BY <1>1 DEF Set, DropMoved, StoreAdvance, Replace, Import, Fail, At

LEMMA InitFlags == Init => FlagsInv
<1> SUFFICES ASSUME Init PROVE FlagsInv
  OBVIOUS
<1>1. lastState = 0 /\ jmapState = 0 /\ present = {} /\ known = [u \in Uids |-> 0]
  BY DEF Init
<1>2. \A t \in Tasks : task[t] = Idle
  BY DEF Init
<1>3. Reports(Idle)
  BY <1>1, IdlePlain DEF Reports
<1> QED
  BY <1>1, <1>2, <1>3 DEF FlagsInv, KnownListed, Reported

LEMMA NextFlags == ASSUME Typed, Typed', ViewInv, FlagsInv, OnlyRefreshed, [Next]_vars PROVE FlagsInv'
<1>1. CASE UNCHANGED vars
  <2>1. UNCHANGED <<present, nextUid, changed, jmapState, imapUids, lastState, task, known>>
    BY <1>1 DEF vars, server, mailbox, client
  <2> QED
    BY <2>1 DEF FlagsInv, KnownListed, Reported, Reports, Route, Collected, Current, Asked
<1>2. CASE Others
  BY <1>2, OthersFlags
<1>3. ASSUME NEW t \in Tasks,
             \/ \E c \in Commands, us \in SUBSET Uids : Start(t, c, us)
             \/ StartSave(t) \/ Fail(t) \/ SourceClosed(t) \/ Done(t)
      PROVE  FlagsInv'
  BY <1>3, StartFlags, NotTaken, PlainStepFlags
<1>4. ASSUME NEW t \in Tasks, Step(t) PROVE FlagsInv'
  <2>1. CASE List(t) \/ Opened(t) \/ Changes(t) \/ Apply(t) \/ ReadExpunge(t) \/ Write(t)
    BY <2>1, ListFlags, OpenedFlags, ChangesFlags, ApplyFlags, WriteFlags
  <2>2. CASE Advance(t) \/ Get(t) \/ Fetch(t)
    BY <2>2, AdvanceFlags, GetFlags, FetchFlags
  <2>3. CASE \/ GetState(t) \/ Save(t) \/ Event(t)
             \/ \E us \in SUBSET present : Seen(t, us) \/ Destroy(t, us) \/ Query(t, us)
    BY <2>3, PlainStepFlags
  <2> QED
    BY <1>4, <2>1, <2>2, <2>3, NotTaken DEF Step
<1> QED
  BY <1>1, <1>2, <1>3, <1>4 DEF Next

\* A refresh never moves last_state past a change of flags that the client is not told
\* of, when the client sends one command at a time, of those that leave last_state to
\* the refresh, and no call fails.
THEOREM NoChangeSkippedAlways == ASSUME OnlyRefreshed PROVE Spec => []NoChangeSkipped
<1>1. Serial
  BY DEF OnlyRefreshed
<1>2. Typed /\ Typed' /\ ViewInv /\ [Next]_vars => ViewInv'
  BY <1>1, NextView
<1>3. Typed /\ Typed' /\ ViewInv /\ FlagsInv /\ [Next]_vars => FlagsInv'
  BY NextFlags
<1> QED
  BY <1>2, <1>3, InitView, InitFlags, TypedAlways, FlagsImply, PTL DEF Spec

=============================================================================
