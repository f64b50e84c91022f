--------------------------- MODULE MailboxProofs --------------------------
(***************************************************************************)
(* Proofs about Acl, MailboxStatus and MailboxList, for any number of       *)
(* commands, changes and errors, any texts of rights, any items, and any    *)
(* requests and trees of mailboxes.                                         *)
(***************************************************************************)
EXTENDS MCMailboxes, PositionsProofs

-----------------------------------------------------------------------------
(* Access control lists.  Rights::into_acl names the one JMAP right that      *)
(* Rights::from_acl lists an IMAP right for, Modify aside; so GETACL lists a  *)
(* right exactly when its JMAP right is granted.                              *)

AclSpec == AclInit /\ [][AclNext]_aclVars

JmapRights == DOMAIN FromAcl

Edits == {Resting, [pc |-> "delete"]} \cup [pc : {"set"}, text : RightsTexts]

\* What is known of the texts, and the property right by right.
AclInv ==
  /\ edit \in [Editors -> Edits]
  /\ acl \subseteq JmapRights /\ meant \subseteq Rights
  /\ \A t \in Editors : edit[t].pc = "set" => ParseRights(edit[t].text).ok
  /\ \A r \in Rights : ("Modify" \in acl /\ r = "k") \/ (r \in meant <=> IntoAcl(r) \in acl)

\* from_acl and into_acl are inverses, but for the right to modify the mailbox.
LEMMA Inverses ==
  \A a \in JmapRights, r \in Rights :
    r \in FromAcl[a] <=> a = IntoAcl(r) \/ (a = "Modify" /\ r = "k")
BY DEF JmapRights, FromAcl, Rights, Tied, IntoAcl

\* Every right has its JMAP right.
LEMMA IntoJmap == \A r \in Rights : IntoAcl(r) \in JmapRights \ {"Modify"}
BY DEF JmapRights, FromAcl, Rights, Tied, IntoAcl

\* Nothing but rights is listed.
LEMMA FromRights == \A a \in JmapRights : FromAcl[a] \subseteq Rights
BY DEF JmapRights, FromAcl, Rights, Tied

\* The rights that go together are those with the same JMAP right.
LEMMA TiedTogether ==
  \A q, r \in Rights : (\E g \in Tied : q \in g /\ r \in g) <=> IntoAcl(q) = IntoAcl(r)
BY DEF Rights, Tied, IntoAcl

\* What a SETACL means, right by right.
LEMMA MeansRight ==
  ASSUME NEW R \in SUBSET Rights, NEW r \in Rights
  PROVE  r \in UNION {g \in Tied : g \cap R # {}} <=> \E q \in R : IntoAcl(q) = IntoAcl(r)
<1>1. r \in UNION {g \in Tied : g \cap R # {}} <=> \E g \in Tied : r \in g /\ \E q \in R : q \in g
  OBVIOUS
<1> QED
  BY <1>1, TiedTogether

\* A text that parses holds rights only.
LEMMA ParsedRights ==
  ASSUME NEW text, ParseRights(text).ok
  PROVE  ParseRights(text).rights \subseteq Rights
<1>1. \A c \in Rights \cup DOMAIN Obsolete :
        (IF c \in DOMAIN Obsolete THEN Obsolete[c] ELSE c) \in Rights
  BY DEF Obsolete, Rights, Tied
<1> QED
  BY <1>1 DEF ParseRights

\* What GETACL lists, right by right.
LEMMA GetAclLists ==
  ASSUME NEW A \in SUBSET JmapRights
  PROVE  /\ GetAcl(A) \subseteq Rights
         /\ \A r \in Rights : r \in GetAcl(A) <=> IntoAcl(r) \in A \/ ("Modify" \in A /\ r = "k")
<1>1. \A r : r \in GetAcl(A) <=> \E a \in A : r \in FromAcl[a]
  BY DEF GetAcl
<1>2. GetAcl(A) \subseteq Rights
  BY <1>1, FromRights
<1>3. ASSUME NEW r \in Rights
      PROVE  r \in GetAcl(A) <=> IntoAcl(r) \in A \/ ("Modify" \in A /\ r = "k")
  BY <1>1, Inverses
<1> QED
  BY <1>2, <1>3

\* Nobody has a right, and none is meant, at the start.
LEMMA AclInitInv == AclInit => AclInv
BY DEF AclInit, AclInv, Resting, Edits

\* Granting, clearing and replacing treat the rights that are tied alike.
LEMMA AclStep == AclInv /\ [AclNext]_aclVars => AclInv'
<1> SUFFICES ASSUME AclInv, [AclNext]_aclVars PROVE AclInv'
  OBVIOUS
<1>a. acl \subseteq JmapRights /\ meant \subseteq Rights
  BY DEF AclInv
<1> DEFINE EditsOk == \A t \in Editors : edit[t].pc = "set" => ParseRights(edit[t].text).ok
           Matches == \A r \in Rights : ("Modify" \in acl /\ r = "k") \/ (r \in meant <=> IntoAcl(r) \in acl)
<1>b. EditsOk /\ Matches /\ edit \in [Editors -> Edits]
  BY DEF AclInv
<1>1. ASSUME NEW t \in Editors, NEW text \in RightsTexts, SetAcl(t, text) PROVE AclInv'
  BY <1>1 DEF AclInv, SetAcl, Resting, Edits
<1>2. ASSUME NEW t \in Editors, DeleteAcl(t) \/ AclFails(t) PROVE AclInv'
  BY <1>2 DEF AclInv, DeleteAcl, AclFails, Resting, Edits
<1>3. ASSUME NEW t \in Editors, SetsMailbox(t) PROVE AclInv'
  <2> DEFINE m == ParseRights(edit[t].text)
             new == {IntoAcl(r) : r \in m.rights}
             tied == UNION {g \in Tied : g \cap m.rights # {}}
  <2>1. /\ acl' = Modified(m.op, acl, new) /\ meant' = Modified(m.op, meant, tied)
        /\ edit' = [edit EXCEPT ![t] = Resting] /\ edit[t].pc = "set"
    BY <1>3 DEF SetsMailbox
  <2>2. m.rights \subseteq Rights
    <3>1. m.ok
      BY <1>b, <2>1
    <3> QED
      BY <3>1, ParsedRights
  <2>3. new \subseteq JmapRights \ {"Modify"} /\ tied \subseteq Rights
    BY <2>2, IntoJmap DEF Rights
  <2>4. \A r \in Rights : r \in tied <=> IntoAcl(r) \in new
    <3>1. \A r \in Rights : r \in tied <=> \E q \in m.rights : IntoAcl(q) = IntoAcl(r)
      <4> HIDE DEF m
      <4> QED
        BY <2>2, MeansRight
    <3> QED
      BY <3>1
  <2>5. EditsOk' /\ edit' \in [Editors -> Edits]
    BY <1>b, <2>1 DEF Resting, Edits
  <2> HIDE DEF m, new, tied
  <2>6. acl' \subseteq JmapRights /\ meant' \subseteq Rights
    BY <1>a, <2>1, <2>3 DEF Modified
  <2>7. Matches'
    BY <1>b, <2>1, <2>3, <2>4 DEF Modified
  <2> QED
    BY <2>5, <2>6, <2>7 DEF AclInv
<1>4. ASSUME NEW t \in Editors, ClearsMailbox(t) PROVE AclInv'
  BY <1>4 DEF AclInv, ClearsMailbox, Resting, Edits
<1>5. ASSUME NEW a \in Granted, JmapGrants(a) PROVE AclInv'
  <2>1. a \in JmapRights
    BY AclAssumption DEF JmapRights
  <2>2. /\ acl' = acl \cup {a} /\ meant' = meant \cup FromAcl[a] /\ edit' = edit
    BY <1>5 DEF JmapGrants
  <2>3. \A r \in Rights : r \in FromAcl[a] <=> a = IntoAcl(r) \/ (a = "Modify" /\ r = "k")
    BY <2>1, Inverses
  <2>4. Matches'
    BY <1>b, <2>2, <2>3
  <2> QED
    BY <1>a, <1>b, <2>1, <2>2, <2>4, FromRights DEF AclInv
<1>6. CASE UNCHANGED aclVars
  BY <1>6 DEF AclInv, aclVars
<1> QED
  BY <1>1, <1>2, <1>3, <1>4, <1>5, <1>6 DEF AclNext

\* GETACL lists the rights that the commands and the grants of JMAP clients mean.
THEOREM AclAsMeantAlways == AclSpec => []AclAsMeant
<1>1. AclInv => AclAsMeant
  <2> SUFFICES ASSUME AclInv PROVE AclAsMeant
    OBVIOUS
  <2>1. /\ GetAcl(acl) \subseteq Rights /\ meant \subseteq Rights
        /\ \A r \in Rights : r \in GetAcl(acl) <=> IntoAcl(r) \in acl \/ ("Modify" \in acl /\ r = "k")
        /\ \A r \in Rights : ("Modify" \in acl /\ r = "k") \/ (r \in meant <=> IntoAcl(r) \in acl)
    BY GetAclLists DEF AclInv
  <2>2. "k" \in Rights
    BY DEF Rights, Tied
  <2> QED
    BY <2>1, <2>2 DEF AclAsMeant
<1> QED
  BY <1>1, AclInitInv, AclStep, PTL DEF AclSpec

-----------------------------------------------------------------------------
(* STATUS.  While nothing has made the cache old (passed is empty) a counter   *)
(* that is cached has missed no change up to the state the session has seen;   *)
(* a command that has synchronized knows that nothing but keywords changed     *)
(* between that state and its own start.                                       *)

StatusSpec == StatusInit /\ [][StatusNext]_statusVars

Kinds == {"counts", "keyword", "list"}
Busy == [pc : {"sync", "look", "ask", "store", "done"}, start : {None} \cup Nat, items : SUBSET Items,
         todo : SUBSET Items, answer : SUBSET (Items \X Nat), value : Int]

\* None of the changes a, ..., b of the history e is one of item i.
Untouched(e, i, a, b) == \A k \in a .. b : k \in 1 .. Len(e) => i \notin Affected(e[k])

StatusTyped ==
  /\ events \in Seq(Kinds) /\ seen \in 0 .. Now /\ passed \subseteq {"counts", "list", "late"}
  /\ cache \in [Items -> None .. Now]
  /\ asker \in [Askers -> {Waiting} \cup Busy]

\* The cache.
CacheFresh ==
  passed = {} => \A i \in Followed : cache[i] # None => Untouched(events, i, cache[i] + 1, seen)

\* A command r under way, with the history e and the state s.
Fresh(r, e) ==
  r.start # None => \A x \in r.answer : x[1] \in Followed => Untouched(e, x[1], x[2] + 1, r.start)

Complete(r) ==
  "deleted" \notin r.items => /\ {x[1] : x \in r.answer} = r.items \ r.todo
                              /\ \A x, y \in r.answer : x[1] = y[1] => x = y

Proper(r, e, s) ==
  /\ r.todo \subseteq r.items /\ r.start <= Len(e)
  /\ r.pc = "store" => r.value \in Nat /\ r.start <= r.value /\ r.value <= Len(e)
  /\ r.pc = "look" /\ r.start # None => \A i \in Followed : Untouched(e, i, s + 1, r.start)
  /\ r.pc \in {"ask", "store", "done"} => Fresh(r, e) /\ Complete(r)
  /\ r.pc = "done" => r.todo = {}

AskerOk(t) == asker[t].pc # "idle" => Proper(asker[t], events, seen)

StatusInv == StatusTyped /\ CacheFresh /\ \A t \in Askers : AskerOk(t)

\* e is followed by more changes in f.
Extends(e, f) ==
  /\ e \in Seq(Kinds) /\ f \in Seq(Kinds) /\ Len(e) <= Len(f)
  /\ \A k \in 1 .. Len(e) : f[k] = e[k]

\* What was untouched up to a moment that has been remains so.
LEMMA UntouchedKept ==
  ASSUME NEW e, NEW f, Extends(e, f), NEW i, NEW a \in Int, NEW b \in Int, b <= Len(e),
         Untouched(e, i, a, b)
  PROVE  Untouched(f, i, a, b)
BY DEF Untouched, Extends

\* A range within another, and an empty one.
LEMMA UntouchedNarrow ==
  ASSUME NEW e, NEW i, NEW a \in Int, NEW b \in Int, NEW c \in Int
  PROVE  /\ Untouched(e, i, a, b) /\ a <= c => Untouched(e, i, c, b)
         /\ a > b => Untouched(e, i, a, b)
BY DEF Untouched

\* The types of a command's fields.
LEMMA BusyTyped ==
  ASSUME NEW r \in Busy
  PROVE  /\ r.start \in Int /\ r.value \in Int /\ r.items \subseteq Items /\ r.todo \subseteq Items
         /\ \A x \in r.answer : x[1] \in Items /\ x[2] \in Nat
BY DEF Busy, None

\* A command that the step does not concern.
LEMMA ProperKept ==
  ASSUME NEW r \in Busy, NEW e, NEW f, Extends(e, f), NEW s \in Nat, NEW z \in Nat, s <= z,
         Proper(r, e, s)
  PROVE  Proper(r, f, z)
<1>1. Len(e) \in Nat /\ Len(f) \in Nat /\ Len(e) <= Len(f)
  BY DEF Extends
<1>2. r.start \in Int /\ r.value \in Int /\ r.start <= Len(e)
  BY BusyTyped DEF Proper
<1>3. ASSUME r.pc = "look", r.start # None, NEW i \in Followed PROVE Untouched(f, i, z + 1, r.start)
  <2>1. Untouched(e, i, s + 1, r.start)
    BY <1>3 DEF Proper
  <2>2. Untouched(e, i, z + 1, r.start)
    BY <1>2, <2>1, UntouchedNarrow
  <2> QED
    BY <1>2, <2>2, UntouchedKept
<1>4. ASSUME Fresh(r, e) PROVE Fresh(r, f)
  <2> SUFFICES ASSUME r.start # None, NEW x \in r.answer, x[1] \in Followed
               PROVE  Untouched(f, x[1], x[2] + 1, r.start)
    BY DEF Fresh
  <2>1. Untouched(e, x[1], x[2] + 1, r.start) /\ x[2] \in Int
    BY <1>4, BusyTyped DEF Fresh
  <2> QED
    BY <1>2, <2>1, UntouchedKept
<1> QED
  BY <1>1, <1>2, <1>3, <1>4 DEF Proper

\* The other commands are kept by every step.
LEMMA OthersKept ==
  ASSUME StatusInv, Extends(events, events'), seen <= seen', seen' \in Nat,
         NEW t \in Askers, asker'[t] = asker[t]
  PROVE  AskerOk(t)'
<1> SUFFICES ASSUME asker[t].pc # "idle" PROVE Proper(asker[t], events', seen')
  BY DEF AskerOk
<1>1. asker[t] \in Busy /\ seen \in Nat /\ Proper(asker[t], events, seen)
  BY DEF StatusInv, StatusTyped, Waiting, AskerOk
<1> QED
  BY <1>1, ProperKept

\* Nothing has happened since the changes so far.
LEMMA SameHistory == StatusInv => Extends(events, events) /\ Now \in Nat /\ seen \in Nat /\ seen <= Now
BY DEF StatusInv, StatusTyped, Extends, Now

\* One more change.
LEMMA OneMore ==
  ASSUME StatusInv, NEW kind \in Kinds, events' = Append(events, kind)
  PROVE  /\ Extends(events, events') /\ Now' = Now + 1 /\ Now \in Nat
         /\ events' \in Seq(Kinds) /\ events'[Now + 1] = kind
BY DEF StatusInv, StatusTyped, Extends, Now

\* The session is up to date but for keywords, which no followed counter depends on.
LEMMA NothingNew ==
  ASSUME StatusInv, News = {}, NEW i \in Followed, NEW b \in Int
  PROVE  Untouched(events, i, seen + 1, b)
<1>1. events \in Seq(Kinds) /\ Now \in Nat /\ seen \in Nat /\ Now = Len(events)
  BY DEF StatusInv, StatusTyped, Now
<1> SUFFICES ASSUME NEW k \in seen + 1 .. b, k \in 1 .. Now PROVE i \notin Affected(events[k])
  BY <1>1 DEF Untouched
<1>2. k \in seen + 1 .. Now
  BY <1>1
<1>3. events[k] = "keyword"
  BY <1>2 DEF News
<1> QED
  BY <1>3 DEF Affected, Followed

\* A change on the server.
LEMMA EventStep ==
  ASSUME StatusInv, NEW kind \in Kinds, Event(kind)
  PROVE  StatusInv'
<1>1. /\ events' = Append(events, kind) /\ cache' = cache /\ seen' = seen /\ asker' = asker
      /\ passed' = passed
  BY DEF Event
<1>2. /\ Extends(events, events') /\ Now' = Now + 1 /\ Now \in Nat /\ events' \in Seq(Kinds)
      /\ seen \in Nat /\ seen <= Now
  BY <1>1, OneMore, SameHistory
<1>3. StatusTyped'
  BY <1>1, <1>2 DEF StatusInv, StatusTyped, None
<1>4. CacheFresh'
  <2> SUFFICES ASSUME passed = {}, NEW i \in Followed, cache[i] # None
               PROVE  Untouched(events', i, cache[i] + 1, seen)
    BY <1>1 DEF CacheFresh
  <2>1. Untouched(events, i, cache[i] + 1, seen) /\ cache[i] \in Int
    BY DEF StatusInv, StatusTyped, CacheFresh, None, Followed, Items, Synced, Queried
  <2> QED
    BY <1>2, <2>1, UntouchedKept DEF Now
<1>5. ASSUME NEW t \in Askers PROVE AskerOk(t)'
  BY <1>1, <1>2, OthersKept
<1> QED
  BY <1>3, <1>4, <1>5 DEF StatusInv

\* CREATE takes the state that follows its own change.
LEMMA CreateStep ==
  ASSUME StatusInv, CreateTakesState
  PROVE  StatusInv'
<1>1. /\ events' = Append(events, "list") /\ cache' = cache /\ seen' = Now + 1 /\ asker' = asker
      /\ passed' = passed \cup News
  BY DEF CreateTakesState
<1>2. /\ Extends(events, events') /\ Now' = Now + 1 /\ Now \in Nat /\ events' \in Seq(Kinds)
      /\ seen \in Nat /\ seen <= Now /\ events'[Now + 1] = "list"
  BY <1>1, OneMore, SameHistory DEF Kinds
<1>3. StatusTyped'
  <2>1. News \subseteq {"counts", "list"}
    <3>1. \A k \in seen + 1 .. Now : events[k] \in Kinds
      BY <1>2 DEF StatusInv, StatusTyped, Now
    <3> QED
      BY <3>1 DEF News, Kinds
  <2> QED
    BY <1>1, <1>2, <2>1 DEF StatusInv, StatusTyped, None
<1>4. CacheFresh'
  <2> SUFFICES ASSUME passed \cup News = {}, NEW i \in Followed, cache[i] # None
               PROVE  Untouched(events', i, cache[i] + 1, Now + 1)
    BY <1>1 DEF CacheFresh
  <2>1. Untouched(events, i, cache[i] + 1, seen) /\ cache[i] \in Int
    BY DEF StatusInv, StatusTyped, CacheFresh, None, Followed, Items, Synced, Queried
  <2>2. Untouched(events, i, seen + 1, Now)
    BY <1>2, NothingNew
  <2>3. Untouched(events', i, cache[i] + 1, seen) /\ Untouched(events', i, seen + 1, Now)
    BY <1>2, <2>1, <2>2, UntouchedKept DEF Now
  <2>4. i \notin Affected(events'[Now + 1])
    BY <1>2 DEF Affected
  <2> QED
    BY <1>2, <2>1, <2>3, <2>4 DEF Untouched
<1>5. ASSUME NEW t \in Askers PROVE AskerOk(t)'
  BY <1>1, <1>2, OthersKept
<1> QED
  BY <1>3, <1>4, <1>5 DEF StatusInv

\* A step of the command of t that leaves server and cache alone.
LEMMA OwnStep ==
  ASSUME StatusInv, NEW t \in Askers, NEW r \in {Waiting} \cup Busy,
         asker' = [asker EXCEPT ![t] = r], UNCHANGED <<events, cache, seen, passed>>,
         r.pc # "idle" => Proper(r, events, seen)
  PROVE  StatusInv'
<1>1. StatusTyped' /\ CacheFresh'
  BY DEF StatusInv, StatusTyped, CacheFresh, Now
<1>2. ASSUME NEW k \in Askers PROVE AskerOk(k)'
  <2>1. CASE k = t
    <3>1. asker'[k] = r
      BY <2>1 DEF StatusInv, StatusTyped
    <3> QED
      BY <3>1 DEF AskerOk
  <2>2. CASE k # t
    <3>1. asker'[k] = asker[k]
      BY <2>2 DEF StatusInv, StatusTyped
    <3> QED
      BY <3>1, SameHistory, OthersKept
  <2> QED
    BY <2>1, <2>2
<1> QED
  BY <1>1, <1>2 DEF StatusInv

\* A command begins, fails or has been answered.
LEMMA AskStep ==
  ASSUME StatusInv, NEW t \in Askers,
         (\E items \in AskedItems : Ask(t, items)) \/ StatusFails(t) \/ Answered(t)
  PROVE  StatusInv'
<1>1. CASE StatusFails(t) \/ Answered(t)
  BY <1>1, OwnStep DEF StatusFails, Answered, Waiting
<1>2. ASSUME NEW items \in AskedItems, Ask(t, items) PROVE StatusInv'
  <2> DEFINE r == [pc |-> "sync", start |-> Now, items |-> items, todo |-> {}, answer |-> {},
                   value |-> None]
  <2>1. r \in Busy
    BY StatusAssumption, SameHistory DEF Busy, None
  <2>2. Proper(r, events, seen)
    BY SameHistory DEF Proper, Now
  <2>3. asker' = [asker EXCEPT ![t] = r] /\ UNCHANGED <<events, cache, seen, passed>>
    BY <1>2 DEF Ask
  <2> HIDE DEF r
  <2> QED
    BY <2>1, <2>2, <2>3, OwnStep
<1> QED
  BY <1>1, <1>2

\* A command that runs.
LEMMA Running ==
  ASSUME StatusInv, NEW t \in Askers, asker[t].pc # "idle"
  PROVE  /\ asker[t] \in Busy /\ Proper(asker[t], events, seen)
         /\ asker \in [Askers -> {Waiting} \cup Busy]
BY DEF StatusInv, StatusTyped, AskerOk, Waiting

\* There are no news.
LEMMA NoNewsStep ==
  ASSUME StatusInv, NEW t \in Askers, NoNews(t)
  PROVE  StatusInv'
<1> DEFINE r == [asker[t] EXCEPT !.pc = "look"]
<1>1. asker[t].pc = "sync" /\ News = {} /\ UNCHANGED <<events, cache, seen, passed>>
  BY DEF NoNews
<1>2. asker[t] \in Busy /\ Proper(asker[t], events, seen) /\ asker \in [Askers -> {Waiting} \cup Busy]
  BY <1>1, Running
<1>3. asker' = [asker EXCEPT ![t] = r]
  BY <1>2 DEF NoNews
<1>4. r \in Busy
  BY <1>2 DEF Busy
<1>5. Proper(r, events, seen)
  <2>1. /\ r.pc = "look" /\ r.start = asker[t].start /\ r.todo = asker[t].todo
        /\ r.items = asker[t].items
    BY <1>2 DEF Busy
  <2>2. \A i \in Followed : Untouched(events, i, seen + 1, r.start)
    BY <1>1, <1>2, <2>1, NothingNew, BusyTyped
  <2> QED
    BY <1>2, <2>1, <2>2 DEF Proper
<1> HIDE DEF r
<1> QED
  BY <1>1, <1>3, <1>4, <1>5, OwnStep

\* The cache is reset or fetched again.
LEMMA ResetStep ==
  ASSUME StatusInv, NEW t \in Askers, ResetStats(t) \/ Refetch(t, TRUE)
  PROVE  StatusInv'
<1>1. /\ asker[t].pc = "sync" /\ seen' = Now /\ passed' = {} /\ events' = events
      /\ cache' \in {Reset, Refetched}
  BY DEF ResetStats, Refetch
<1>2. asker[t] \in Busy /\ Proper(asker[t], events, seen) /\ asker \in [Askers -> {Waiting} \cup Busy]
  BY <1>1, Running
<1>3. /\ asker' \in [Askers -> {Waiting} \cup Busy]
      /\ asker'[t].pc = "look" /\ asker'[t].start = asker[t].start
      /\ asker'[t].todo = asker[t].todo /\ asker'[t].items = asker[t].items
      /\ \A k \in Askers \ {t} : asker'[k] = asker[k]
  BY <1>2 DEF ResetStats, Refetch, Busy
<1>4. Now \in Nat /\ seen \in Nat /\ seen <= Now /\ Now' = Now
  BY <1>1, SameHistory DEF Now
<1>5. /\ cache' \in [Items -> None .. Now]
      /\ \A i \in Followed : cache'[i] \in {None, Now}
  BY <1>1, <1>4 DEF StatusInv, StatusTyped, Reset, Refetched, Followed, None, Items, Synced, Queried
<1>6. StatusTyped'
  BY <1>1, <1>3, <1>4, <1>5 DEF StatusInv, StatusTyped
<1>7. CacheFresh'
  BY <1>1, <1>4, <1>5, UntouchedNarrow DEF CacheFresh
<1>8. AskerOk(t)'
  <2>1. asker[t].start \in Int /\ asker[t].start <= Now
    BY <1>2, BusyTyped DEF Proper, Now
  <2>2. \A i \in Followed : Untouched(events, i, Now + 1, asker[t].start)
    BY <1>4, <2>1, UntouchedNarrow
  <2> QED
    BY <1>1, <1>2, <1>3, <2>2 DEF AskerOk, Proper
<1>9. ASSUME NEW k \in Askers \ {t} PROVE AskerOk(k)'
  BY <1>1, <1>3, <1>4, OthersKept, SameHistory
<1> QED
  BY <1>6, <1>7, <1>8, <1>9 DEF StatusInv

\* The account cannot be fetched.
LEMMA NotFetchedStep ==
  ASSUME StatusInv, NEW t \in Askers, Refetch(t, FALSE)
  PROVE  StatusInv'
<1> DEFINE r == [asker[t] EXCEPT !.pc = "look", !.start = None]
<1>1. asker[t].pc = "sync" /\ UNCHANGED <<events, cache, seen, passed>>
  BY DEF Refetch
<1>2. asker[t] \in Busy /\ Proper(asker[t], events, seen) /\ asker \in [Askers -> {Waiting} \cup Busy]
  BY <1>1, Running
<1>3. asker' = [asker EXCEPT ![t] = r]
  BY <1>2 DEF Refetch
<1>4. r \in Busy
  BY <1>2 DEF Busy
<1>5. Proper(r, events, seen)
  BY <1>2, SameHistory DEF Proper, Busy, None, Now
<1> HIDE DEF r
<1> QED
  BY <1>1, <1>3, <1>4, <1>5, OwnStep

\* What is cached is answered.
LEMMA LookStep ==
  ASSUME StatusInv, NEW t \in Askers, Look(t)
  PROVE  StatusInv'
<1> DEFINE q == asker[t]
           have == {i \in q.items : cache[i] # None}
           r == [q EXCEPT !.pc = "ask", !.todo = q.items \ have,
                          !.start = IF passed = {} THEN @ ELSE None,
                          !.answer = {<<i, cache[i]>> : i \in have}]
<1>1. q.pc = "look" /\ UNCHANGED <<events, cache, seen, passed>>
  BY DEF Look
<1>2. q \in Busy /\ Proper(q, events, seen) /\ asker \in [Askers -> {Waiting} \cup Busy]
  BY <1>1, Running
<1>3. asker' = [asker EXCEPT ![t] = r]
  BY <1>2 DEF Look
<1>4. \A i \in Items : cache[i] \in Int /\ (cache[i] # None => cache[i] \in Nat)
  BY SameHistory DEF StatusInv, StatusTyped, None
<1>5. q.items \subseteq Items /\ q.start \in {None} \cup Nat /\ q.start <= Len(events) /\ q.start \in Int
  BY <1>2 DEF Busy, Proper, None
<1>6. /\ r.pc = "ask" /\ r.todo = q.items \ have /\ r.items = q.items
      /\ r.start = (IF passed = {} THEN q.start ELSE None)
      /\ r.answer = {<<i, cache[i]>> : i \in have}
  BY <1>2 DEF Busy
<1>7. r \in Busy
  <2>1. r.answer \subseteq Items \X Nat
    BY <1>4, <1>5, <1>6
  <2> QED
    BY <1>2, <1>5, <1>6, <2>1 DEF Busy
<1>8. Fresh(r, events)
  <2> SUFFICES ASSUME passed = {}, q.start # None, NEW i \in have, i \in Followed
               PROVE  Untouched(events, i, cache[i] + 1, q.start)
    BY <1>6 DEF Fresh
  <2>1. Untouched(events, i, cache[i] + 1, seen) /\ cache[i] \in Int
    BY <1>4, <1>5 DEF StatusInv, CacheFresh
  <2>2. Untouched(events, i, seen + 1, q.start)
    BY <1>1, <1>2 DEF Proper
  <2> QED
    BY <1>5, <2>1, <2>2, SameHistory DEF Untouched
<1>9. Complete(r)
  <2>1. {x[1] : x \in {<<i, cache[i]>> : i \in have}} = have
    <3> DEFINE A == {<<i, cache[i]>> : i \in have}
    <3>1. \A x \in A : x[1] \in have
      OBVIOUS
    <3>2. \A i \in have : <<i, cache[i]>> \in A /\ <<i, cache[i]>>[1] = i
      OBVIOUS
    <3> HIDE DEF A, have
    <3>3. {x[1] : x \in A} = have
      BY <3>1, <3>2
    <3> QED
      BY <3>3 DEF A
  <2>2. \A x, y \in {<<i, cache[i]>> : i \in have} : x[1] = y[1] => x = y
    OBVIOUS
  <2>3. q.items \ (q.items \ have) = have
    OBVIOUS
  <2> HIDE DEF have, r
  <2> QED
    BY <1>6, <2>1, <2>2, <2>3 DEF Complete
<1>10. r.start <= Len(events)
  BY <1>5, <1>6, SameHistory DEF None, Now
<1>11. Proper(r, events, seen)
  BY <1>6, <1>8, <1>9, <1>10 DEF Proper
<1> HIDE DEF r
<1> QED
  BY <1>1, <1>3, <1>7, <1>11, OwnStep

\* The server computes, or there is nothing left to compute.
LEMMA ComputeStep ==
  ASSUME StatusInv, NEW t \in Askers, Compute(t) \/ Answer(t)
  PROVE  StatusInv'
<1> DEFINE q == asker[t]
           r == IF q.todo # {} THEN [q EXCEPT !.pc = "store", !.value = Now] ELSE [q EXCEPT !.pc = "done"]
<1>1. q.pc = "ask" /\ UNCHANGED <<events, cache, seen, passed>>
  BY DEF Compute, Answer
<1>2. q \in Busy /\ Proper(q, events, seen) /\ asker \in [Askers -> {Waiting} \cup Busy]
  BY <1>1, Running
<1>3. asker' = [asker EXCEPT ![t] = r]
  BY <1>2 DEF Compute, Answer
<1>4. Now \in Nat /\ Now = Len(events)
  BY SameHistory DEF Now
<1>5. r \in Busy
  <2> HIDE DEF q
  <2>1. [q EXCEPT !.pc = "store", !.value = Now] \in Busy
    <3>1. ASSUME NEW n \in Int PROVE [q EXCEPT !.pc = "store", !.value = n] \in Busy
      BY <1>2 DEF Busy
    <3>2. Now \in Int
      BY <1>4
    <3> QED
      BY <3>1, <3>2, Zenon
  <2>2. [q EXCEPT !.pc = "done"] \in Busy
    BY <1>2 DEF Busy
  <2> QED
    BY <2>1, <2>2
<1>6. /\ r.todo = q.todo /\ r.items = q.items /\ r.start = q.start /\ r.answer = q.answer
      /\ \/ r.pc = "store" /\ r.value = Now
         \/ r.pc = "done" /\ q.todo = {}
  BY <1>2 DEF Busy
<1>7. Fresh(q, events) /\ Complete(q) /\ q.todo \subseteq q.items /\ q.start <= Len(events)
  BY <1>1, <1>2 DEF Proper
<1> HIDE DEF r
<1>8. Proper(r, events, seen)
  BY <1>4, <1>6, <1>7 DEF Proper, Fresh, Complete
<1> QED
  BY <1>1, <1>3, <1>5, <1>8, OwnStep

\* What was computed is stored and answered.
LEMMA StoreStep ==
  ASSUME StatusInv, NEW t \in Askers, Store(t)
  PROVE  StatusInv'
<1> DEFINE q == asker[t]
           b == Batch(q.todo)
           r == [q EXCEPT !.pc = "ask", !.todo = @ \ b,
                          !.answer = @ \cup {<<Label(i), q.value>> : i \in b \cap q.todo}]
<1>1. /\ q.pc = "store" /\ UNCHANGED <<events, seen>>
      /\ cache' = [i \in Items |-> IF i \in b THEN q.value ELSE cache[i]]
      /\ passed' = IF q.value < seen THEN passed \cup {"late"} ELSE passed
  BY DEF Store
<1>2. q \in Busy /\ Proper(q, events, seen) /\ asker \in [Askers -> {Waiting} \cup Busy]
  BY <1>1, Running
<1>3. asker' = [asker EXCEPT ![t] = r]
  BY <1>2 DEF Store
<1>4. /\ Now \in Nat /\ Now = Len(events) /\ seen \in Nat /\ seen <= Now
      /\ q.value \in Nat /\ q.start \in Int /\ q.start <= q.value /\ q.value <= Now
      /\ q.todo \subseteq Items /\ q.items \subseteq Items /\ q.start \in {None} \cup Nat
  BY <1>1, <1>2, SameHistory DEF Proper, Now, Busy, None
<1>5. /\ r.pc = "ask" /\ r.todo = q.todo \ b /\ r.items = q.items /\ r.start = q.start
      /\ r.answer = q.answer \cup {<<Label(i), q.value>> : i \in b \cap q.todo}
  BY <1>2 DEF Busy
<1>6. \A i \in Items : Label(i) \in Items
  BY DEF Label, Items, Synced, Queried
<1>7. r \in Busy
  <2>1. r.answer \subseteq Items \X Nat
    BY <1>2, <1>4, <1>5, <1>6 DEF Busy
  <2> QED
    BY <1>2, <1>4, <1>5, <2>1 DEF Busy
<1>8. Fresh(r, events)
  <2> SUFFICES ASSUME q.start # None, NEW x \in r.answer, x[1] \in Followed
               PROVE  Untouched(events, x[1], x[2] + 1, q.start)
    BY <1>5 DEF Fresh
  <2>1. CASE x \in q.answer
    BY <1>1, <1>2, <2>1 DEF Proper, Fresh
  <2>2. CASE x[2] = q.value
    BY <1>4, <2>2, UntouchedNarrow
  <2> QED
    BY <1>5, <2>1, <2>2
<1>9. Complete(r)
  <2> SUFFICES ASSUME "deleted" \notin q.items
               PROVE  /\ {x[1] : x \in r.answer} = q.items \ r.todo
                      /\ \A x, y \in r.answer : x[1] = y[1] => x = y
    BY <1>5 DEF Complete
  <2>1. /\ {x[1] : x \in q.answer} = q.items \ q.todo /\ q.todo \subseteq q.items
        /\ \A x, y \in q.answer : x[1] = y[1] => x = y
    BY <1>1, <1>2 DEF Proper, Complete
  <2>2. r.answer = q.answer \cup {<<i, q.value>> : i \in b \cap q.todo}
    BY <1>5, <2>1 DEF Label
  <2>3. \A x \in q.answer : x[1] \notin q.todo
    BY <2>1
  <2>4. \A x \in r.answer : x \in q.answer \/ (x[1] \in b \cap q.todo /\ x = <<x[1], q.value>>)
    BY <2>2
  <2>5. \A x, y \in r.answer : x[1] = y[1] => x = y
    BY <2>1, <2>3, <2>4
  <2>6. {x[1] : x \in r.answer} = {x[1] : x \in q.answer} \cup (b \cap q.todo)
    <3>1. \A i \in b \cap q.todo : <<i, q.value>> \in r.answer /\ <<i, q.value>>[1] = i
      BY <2>2
    <3>2. q.answer \subseteq r.answer
      BY <2>2
    <3> HIDE DEF r, b, q
    <3> QED
      BY <2>4, <3>1, <3>2
  <2> QED
    BY <1>5, <2>1, <2>5, <2>6
<1>10. Proper(r, events, seen)
  BY <1>2, <1>4, <1>5, <1>8, <1>9 DEF Proper
<1> HIDE DEF r, q, b
<1>11. StatusTyped'
  <2>1. cache' \in [Items -> None .. Now]
    BY <1>1, <1>4 DEF StatusInv, StatusTyped, None
  <2>2. asker' \in [Askers -> {Waiting} \cup Busy]
    BY <1>2, <1>3, <1>7
  <2> QED
    BY <1>1, <2>1, <2>2 DEF StatusInv, StatusTyped, Now
<1>12. CacheFresh'
  <2> SUFFICES ASSUME passed' = {}, NEW i \in Followed, cache'[i] # None
               PROVE  Untouched(events, i, cache'[i] + 1, seen)
    BY <1>1 DEF CacheFresh
  <2>1. passed = {} /\ ~(q.value < seen) /\ i \in Items
    BY <1>1 DEF Followed, Items, Synced, Queried
  <2>2. CASE i \in b
    BY <1>1, <1>4, <2>1, <2>2, UntouchedNarrow
  <2>3. CASE i \notin b
    BY <1>1, <2>1, <2>3 DEF StatusInv, CacheFresh
  <2> QED
    BY <2>2, <2>3
<1>13. ASSUME NEW k \in Askers PROVE AskerOk(k)'
  <2>1. CASE k = t
    BY <1>1, <1>2, <1>3, <1>10, <2>1 DEF AskerOk
  <2>2. CASE k # t
    <3>1. asker'[k] = asker[k]
      BY <1>2, <1>3, <2>2
    <3> QED
      BY <1>1, <1>4, <3>1, OthersKept, SameHistory
  <2> QED
    BY <2>1, <2>2
<1> QED
  BY <1>11, <1>12, <1>13 DEF StatusInv

\* Nothing is asked and nothing old is cached at the start.
LEMMA StatusInitInv == StatusInit => StatusInv
<1> SUFFICES ASSUME StatusInit PROVE StatusInv
  OBVIOUS
<1>1. events = <<>> /\ seen = 0 /\ passed = {} /\ Now = 0
  BY DEF StatusInit, Now
<1>2. StatusTyped
  BY <1>1 DEF StatusInit, StatusTyped, None
<1>3. CacheFresh
  <2>1. Len(events) = 0
    BY <1>1
  <2> QED
    BY <2>1 DEF CacheFresh, Untouched
<1>4. \A t \in Askers : AskerOk(t)
  BY DEF StatusInit, AskerOk, Waiting
<1> QED
  BY <1>2, <1>3, <1>4 DEF StatusInv

\* Every step keeps the invariant.
LEMMA StatusStep == StatusInv /\ [StatusNext]_statusVars => StatusInv'
<1> SUFFICES ASSUME StatusInv, [StatusNext]_statusVars PROVE StatusInv'
  OBVIOUS
<1>1. ASSUME NEW kind \in {"counts", "keyword", "list"}, Event(kind) PROVE StatusInv'
  BY <1>1, EventStep DEF Kinds
<1>2. CASE CreateTakesState
  BY <1>2, CreateStep
<1>3. ASSUME NEW t \in Askers,
             \/ \E items \in AskedItems : Ask(t, items)
             \/ ResetStats(t) \/ NoNews(t) \/ \E ok \in BOOLEAN : Refetch(t, ok)
             \/ Look(t) \/ Compute(t) \/ Store(t) \/ Answer(t) \/ Answered(t) \/ StatusFails(t)
      PROVE  StatusInv'
  <2>1. (\E items \in AskedItems : Ask(t, items)) \/ Answered(t) \/ StatusFails(t) => StatusInv'
    BY AskStep
  <2>2. ResetStats(t) \/ NoNews(t) => StatusInv'
    BY ResetStep, NoNewsStep
  <2>3. (\E ok \in BOOLEAN : Refetch(t, ok)) => StatusInv'
    BY ResetStep, NotFetchedStep
  <2>4. Look(t) \/ Compute(t) \/ Store(t) \/ Answer(t) => StatusInv'
    BY LookStep, ComputeStep, StoreStep
  <2> QED
    BY <1>3, <2>1, <2>2, <2>3, <2>4
<1>4. CASE UNCHANGED statusVars
  <2>1. UNCHANGED <<events, cache, seen, asker, passed>>
    BY <1>4 DEF statusVars
  <2> QED
    BY <2>1 DEF StatusInv, StatusTyped, CacheFresh, AskerOk, Now
<1> QED
  BY <1>1, <1>2, <1>3, <1>4 DEF StatusNext

\* There are finitely many items.
LEMMA ItemsFinite == IsFiniteSet(Items)
<1>1. IsFiniteSet({})
  BY FS_EmptySet
<1>2. IsFiniteSet({} \cup {"messages"} \cup {"uidnext"} \cup {"validity"} \cup {"unseen"})
  BY <1>1, FS_AddElement
<1>3. IsFiniteSet({} \cup {"messages"} \cup {"uidnext"} \cup {"validity"} \cup {"unseen"}
                  \cup {"deleted"} \cup {"size"} \cup {"modseq"})
  BY <1>2, FS_AddElement, ZenonT(40)
<1>4. Items = {} \cup {"messages"} \cup {"uidnext"} \cup {"validity"} \cup {"unseen"}
              \cup {"deleted"} \cup {"size"} \cup {"modseq"}
  BY DEF Items, Synced, Queried
<1> QED
  BY <1>3, <1>4

\* Pairs with different first parts are as many as these.
LEMMA PairsCounted ==
  ASSUME NEW A, NEW S, IsFiniteSet(S), {x[1] : x \in A} = S, \A x, y \in A : x[1] = y[1] => x = y
  PROVE  Cardinality(A) = Cardinality(S)
<1> DEFINE f == [i \in S |-> CHOOSE x \in A : x[1] = i]
<1>1. \A i \in S : f[i] \in A /\ f[i][1] = i
  OBVIOUS
<1>2. f \in [S -> A]
  BY <1>1
<1>3. \A x \in A : x[1] \in S /\ f[x[1]] = x
  BY <1>1
<1> HIDE DEF f
<1>4. f \in Bijection(S, A)
  <2>1. \A i, k \in S : f[i] = f[k] => i = k
    BY <1>1
  <2> QED
    BY <1>2, <1>3, <2>1 DEF Bijection, Injection, Surjection, IsInjective
<1> QED
  BY <1>4, FS_Bijection DEF ExistsBijection

\* STATUS answers each item it was asked for, once, and no counter that had missed a
\* change when the command began.
THEOREM StatusAnswersAlways == StatusSpec => []StatusAnswers
<1>1. StatusInv => StatusAnswers
  <2> SUFFICES ASSUME StatusInv, NEW t \in Askers, asker[t].pc = "done"
               PROVE  /\ asker[t].start # None =>
                           \A x \in asker[t].answer : x[1] \in Followed =>
                             \A k \in x[2] + 1 .. asker[t].start : x[1] \notin Affected(events[k])
                      /\ "deleted" \notin asker[t].items =>
                           /\ {x[1] : x \in asker[t].answer} = asker[t].items
                           /\ Cardinality(asker[t].answer) = Cardinality(asker[t].items)
    BY DEF StatusAnswers, StatusFresh, StatusComplete
  <2>1. asker[t] \in Busy /\ Proper(asker[t], events, seen)
    BY Running
  <2>2. /\ Fresh(asker[t], events) /\ Complete(asker[t]) /\ asker[t].todo = {}
        /\ asker[t].start <= Now
    BY <2>1 DEF Proper, Now
  <2>3. ASSUME asker[t].start # None, NEW x \in asker[t].answer, x[1] \in Followed,
               NEW k \in x[2] + 1 .. asker[t].start
        PROVE  x[1] \notin Affected(events[k])
    <3>1. x[2] \in Nat /\ asker[t].start \in Int
      BY <2>1, BusyTyped
    <3>2. k \in 1 .. Now
      BY <2>2, <3>1, SameHistory
    <3> QED
      BY <2>2, <2>3, <3>2 DEF Fresh, Untouched, Now
  <2>4. ASSUME "deleted" \notin asker[t].items
        PROVE  /\ {x[1] : x \in asker[t].answer} = asker[t].items
               /\ Cardinality(asker[t].answer) = Cardinality(asker[t].items)
    <3>1. /\ {x[1] : x \in asker[t].answer} = asker[t].items
          /\ \A x, y \in asker[t].answer : x[1] = y[1] => x = y
      BY <2>2, <2>4 DEF Complete
    <3>2. IsFiniteSet(asker[t].items)
      BY <2>1, BusyTyped, ItemsFinite, FS_Subset
    <3> QED
      BY <3>1, <3>2, PairsCounted
  <2> QED
    BY <2>3, <2>4
<1> QED
  BY <1>1, StatusInitInv, StatusStep, PTL DEF StatusSpec

-----------------------------------------------------------------------------
(* Mailbox lists.  Names are sequences: what a prefix is, and what renaming a  *)
(* name below another one gives.                                              *)

Names == Seq(NameParts)

\* Sequences are equal if their members are.
LEMMA SameSequence ==
  ASSUME NEW s \in Names, NEW t \in Names, Len(s) = Len(t), \A x \in 1 .. Len(s) : s[x] = t[x]
  PROVE  s = t
BY DEF Names

\* IsPrefix, part by part.
LEMMA PrefixParts ==
  ASSUME NEW s \in Names, NEW t \in Names
  PROVE  IsPrefix(s, t) <=> Len(s) <= Len(t) /\ \A x \in 1 .. Len(s) : s[x] = t[x]
<1>1. CASE Len(s) <= Len(t)
  <2>1. /\ SubSeq(s, 1, Len(s)) \in Names /\ SubSeq(t, 1, Len(s)) \in Names
        /\ Len(SubSeq(s, 1, Len(s))) = Len(s) /\ Len(SubSeq(t, 1, Len(s))) = Len(s)
        /\ \A x \in 1 .. Len(s) : SubSeq(s, 1, Len(s))[x] = s[x] /\ SubSeq(t, 1, Len(s))[x] = t[x]
    BY <1>1 DEF Names
  <2>2. SubSeq(s, 1, Len(s)) = SubSeq(t, 1, Len(s)) <=> \A x \in 1 .. Len(s) : s[x] = t[x]
    BY <2>1, SameSequence
  <2> QED
    BY <1>1, <2>2 DEF IsPrefix
<1> QED
  BY <1>1 DEF IsPrefix

\* A name with one more part.
LEMMA Longer ==
  ASSUME NEW s \in Names, NEW e \in NameParts
  PROVE  /\ Append(s, e) \in Names /\ Len(Append(s, e)) = Len(s) + 1 /\ Len(s) \in Nat
         /\ \A x \in 1 .. Len(s) : Append(s, e)[x] = s[x]
         /\ Append(s, e)[Len(s) + 1] = e
BY DEF Names

\* What precedes a name with one more part.
LEMMA PrefixOfAppend ==
  ASSUME NEW s \in Names, NEW t \in Names, NEW e \in NameParts
  PROVE  IsPrefix(s, Append(t, e)) <=> IsPrefix(s, t) \/ s = Append(t, e)
<1>1. /\ Append(t, e) \in Names /\ Len(Append(t, e)) = Len(t) + 1 /\ Len(s) \in Nat /\ Len(t) \in Nat
      /\ \A x \in 1 .. Len(t) : Append(t, e)[x] = t[x]
  BY DEF Names
<1>2. ASSUME IsPrefix(s, t) PROVE IsPrefix(s, Append(t, e))
  <2>1. Len(s) <= Len(t) /\ \A x \in 1 .. Len(s) : s[x] = t[x]
    BY <1>2, PrefixParts
  <2>2. Len(s) <= Len(Append(t, e)) /\ \A x \in 1 .. Len(s) : s[x] = Append(t, e)[x]
    BY <2>1, <1>1
  <2> QED
    BY <1>1, <2>2, PrefixParts
<1>3. s = Append(t, e) => IsPrefix(s, Append(t, e))
  <2>1. s = Append(t, e) => Len(s) <= Len(Append(t, e)) /\ \A x \in 1 .. Len(s) : s[x] = Append(t, e)[x]
    BY <1>1
  <2> QED
    BY <1>1, <2>1, PrefixParts
<1>4. ASSUME IsPrefix(s, Append(t, e)), s # Append(t, e) PROVE IsPrefix(s, t)
  <2>1. Len(s) <= Len(t) + 1 /\ \A x \in 1 .. Len(s) : s[x] = Append(t, e)[x]
    BY <1>1, <1>4, PrefixParts
  <2>2. Len(s) # Len(t) + 1
    BY <2>1, <1>1, <1>4, SameSequence
  <2> QED
    BY <2>1, <2>2, <1>1, PrefixParts
<1> QED
  BY <1>2, <1>3, <1>4

\* Appending a part loses nothing.
LEMMA AppendSame ==
  ASSUME NEW s \in Names, NEW t \in Names, NEW e \in NameParts, NEW f \in NameParts, Append(s, e) = Append(t, f)
  PROVE  s = t /\ e = f
<1>1. /\ Len(Append(s, e)) = Len(s) + 1 /\ Len(Append(t, f)) = Len(t) + 1
      /\ \A x \in 1 .. Len(s) : Append(s, e)[x] = s[x]
      /\ \A x \in 1 .. Len(t) : Append(t, f)[x] = t[x]
      /\ Append(s, e)[Len(s) + 1] = e /\ Append(t, f)[Len(t) + 1] = f /\ Len(s) \in Nat /\ Len(t) \in Nat
  BY DEF Names
<1>2. Len(s) = Len(t)
  BY <1>1
<1> QED
  BY <1>1, <1>2, SameSequence

\* One name after another.
LEMMA Joined ==
  ASSUME NEW s \in Names, NEW t \in Names
  PROVE  /\ s \o t \in Names /\ Len(s \o t) = Len(s) + Len(t) /\ Len(s) \in Nat /\ Len(t) \in Nat
         /\ \A x \in 1 .. Len(s) : (s \o t)[x] = s[x]
         /\ \A x \in 1 .. Len(t) : (s \o t)[Len(s) + x] = t[x]
BY DEF Names

\* Joining and appending commute.
LEMMA JoinedAppend ==
  ASSUME NEW s \in Names, NEW t \in Names, NEW e \in NameParts
  PROVE  s \o Append(t, e) = Append(s \o t, e)
<1>1. /\ Append(t, e) \in Names /\ Len(Append(t, e)) = Len(t) + 1
      /\ \A x \in 1 .. Len(t) : Append(t, e)[x] = t[x] /\ Append(t, e)[Len(t) + 1] = e
  BY DEF Names
<1>2. /\ Append(s \o t, e) \in Names /\ Len(Append(s \o t, e)) = Len(s \o t) + 1
      /\ \A x \in 1 .. Len(s \o t) : Append(s \o t, e)[x] = (s \o t)[x]
      /\ Append(s \o t, e)[Len(s \o t) + 1] = e
  BY Joined DEF Names
<1>3. /\ s \o Append(t, e) \in Names /\ Len(s \o Append(t, e)) = Len(s) + Len(t) + 1
      /\ Len(s) \in Nat /\ Len(t) \in Nat /\ Len(s \o t) = Len(s) + Len(t)
  BY <1>1, Joined
<1>4. ASSUME NEW x \in 1 .. Len(s) + Len(t) + 1 PROVE (s \o Append(t, e))[x] = Append(s \o t, e)[x]
  <2>1. CASE x <= Len(s)
    BY <2>1, <1>1, <1>2, <1>3, Joined
  <2>2. CASE x > Len(s) /\ x <= Len(s) + Len(t)
    <3>1. x - Len(s) \in 1 .. Len(t) /\ x = Len(s) + (x - Len(s))
      BY <2>2, <1>3
    <3>2. (s \o Append(t, e))[x] = t[x - Len(s)]
      BY <3>1, <1>1, <1>3, Joined
    <3>3. (s \o t)[x] = t[x - Len(s)]
      BY <3>1, Joined
    <3> QED
      BY <2>2, <3>2, <3>3, <1>2, <1>3
  <2>3. CASE x = Len(s) + Len(t) + 1
    <3>1. x = Len(s) + (Len(t) + 1) /\ Len(t) + 1 \in 1 .. Len(Append(t, e))
      BY <2>3, <1>1, <1>3
    <3> QED
      BY <3>1, <1>1, <1>2, <1>3, Joined
  <2> QED
    BY <2>1, <2>2, <2>3, <1>3
<1> QED
  BY <1>2, <1>3, <1>4, SameSequence

\* A common beginning does not matter to which name is a prefix of which.
LEMMA JoinedPrefix ==
  ASSUME NEW q \in Names, NEW s \in Names, NEW t \in Names
  PROVE  IsPrefix(q \o s, q \o t) <=> IsPrefix(s, t)
<1>1. /\ q \o s \in Names /\ q \o t \in Names /\ Len(q \o s) = Len(q) + Len(s) /\ Len(q \o t) = Len(q) + Len(t)
      /\ Len(q) \in Nat /\ Len(s) \in Nat /\ Len(t) \in Nat
  BY Joined
<1>2. ASSUME IsPrefix(q \o s, q \o t) PROVE IsPrefix(s, t)
  <2>0. Len(q \o s) <= Len(q \o t) /\ \A x \in 1 .. Len(q \o s) : (q \o s)[x] = (q \o t)[x]
    BY <1>1, <1>2, PrefixParts
  <2>1. Len(s) <= Len(t) /\ \A x \in 1 .. Len(q) + Len(s) : (q \o s)[x] = (q \o t)[x]
    BY <1>1, <2>0
  <2>2. \A x \in 1 .. Len(s) : Len(q) + x \in 1 .. Len(q) + Len(s) /\ x \in 1 .. Len(t)
    BY <1>1, <2>1
  <2>3. ASSUME NEW x \in 1 .. Len(s) PROVE s[x] = t[x]
    <3>1. (q \o s)[Len(q) + x] = s[x] /\ (q \o t)[Len(q) + x] = t[x]
      BY <2>2, Joined
    <3> QED
      BY <3>1, <2>1, <2>2
  <2> QED
    BY <2>1, <2>3, PrefixParts
<1>3. ASSUME IsPrefix(s, t) PROVE IsPrefix(q \o s, q \o t)
  <2>1. Len(s) <= Len(t) /\ \A x \in 1 .. Len(s) : s[x] = t[x]
    BY <1>3, PrefixParts
  <2>2. ASSUME NEW x \in 1 .. Len(q) + Len(s) PROVE (q \o s)[x] = (q \o t)[x]
    <3>0. x \in Nat /\ x >= 1 /\ x <= Len(q) + Len(s)
      BY <1>1
    <3>1. CASE x <= Len(q)
      BY <3>1, <1>1, <3>0, Joined
    <3>2. CASE x > Len(q)
      <4>1. x - Len(q) \in 1 .. Len(s) /\ x - Len(q) \in 1 .. Len(t) /\ x = Len(q) + (x - Len(q))
        BY <3>2, <1>1, <2>1
      <4> QED
        BY <4>1, <2>1, Joined
    <3>3. x <= Len(q) \/ x > Len(q)
      BY <3>0, <1>1
    <3> QED
      BY <3>1, <3>2, <3>3
  <2>3. Len(q \o s) <= Len(q \o t) /\ \A x \in 1 .. Len(q \o s) : (q \o s)[x] = (q \o t)[x]
    BY <1>1, <2>1, <2>2
  <2> QED
    BY <1>1, <2>3, PrefixParts
<1> QED
  BY <1>2, <1>3

\* A piece of a name.
LEMMA Piece ==
  ASSUME NEW s \in Names, NEW m \in Nat, NEW n \in Nat, 1 <= m, m <= n + 1, n <= Len(s)
  PROVE  /\ SubSeq(s, m, n) \in Names /\ Len(SubSeq(s, m, n)) = n - m + 1
         /\ \A x \in 1 .. n - m + 1 : SubSeq(s, m, n)[x] = s[m + x - 1]
BY DEF Names

\* A name is its beginning and its end.
LEMMA CutInTwo ==
  ASSUME NEW n \in Names, NEW k \in 0 .. Len(n)
  PROVE  n = SubSeq(n, 1, k) \o SubSeq(n, k + 1, Len(n))
<1>1. Len(n) \in Nat
  BY DEF Names
<1>2. /\ SubSeq(n, 1, k) \in Names /\ Len(SubSeq(n, 1, k)) = k
      /\ \A x \in 1 .. k : SubSeq(n, 1, k)[x] = n[x]
  <2>1. k \in Nat /\ k <= Len(n) /\ 1 <= k + 1
    BY <1>1
  <2>2. /\ SubSeq(n, 1, k) \in Names /\ Len(SubSeq(n, 1, k)) = k - 1 + 1
        /\ \A x \in 1 .. k - 1 + 1 : SubSeq(n, 1, k)[x] = n[1 + x - 1]
    BY <2>1, Piece
  <2> QED
    BY <2>1, <2>2
<1>3. /\ SubSeq(n, k + 1, Len(n)) \in Names /\ Len(SubSeq(n, k + 1, Len(n))) = Len(n) - k
      /\ \A x \in 1 .. Len(n) - k : SubSeq(n, k + 1, Len(n))[x] = n[k + x]
  <2>1. k + 1 \in Nat /\ 1 <= k + 1 /\ k + 1 <= Len(n) + 1
    BY <1>1
  <2> QED
    BY <1>1, <2>1, Piece
<1> DEFINE b == SubSeq(n, 1, k)
           c == SubSeq(n, k + 1, Len(n))
<1> HIDE DEF b, c
<1>4. /\ b \o c \in Names /\ Len(b \o c) = Len(n)
      /\ \A x \in 1 .. k : (b \o c)[x] = n[x]
      /\ \A x \in 1 .. Len(n) - k : (b \o c)[k + x] = n[k + x]
  <2>1. b \in Names /\ Len(b) = k /\ \A x \in 1 .. k : b[x] = n[x]
    BY <1>2 DEF b
  <2>2. c \in Names /\ Len(c) = Len(n) - k /\ \A x \in 1 .. Len(n) - k : c[x] = n[k + x]
    BY <1>3 DEF c
  <2>3. /\ b \o c \in Names /\ Len(b \o c) = Len(b) + Len(c)
        /\ \A x \in 1 .. Len(b) : (b \o c)[x] = b[x]
        /\ \A x \in 1 .. Len(c) : (b \o c)[Len(b) + x] = c[x]
    BY <2>1, <2>2, Joined
  <2> QED
    BY <1>1, <2>1, <2>2, <2>3
<1>5. ASSUME NEW x \in 1 .. Len(n) PROVE n[x] = (b \o c)[x]
  <2>0. x \in Nat /\ x >= 1 /\ x <= Len(n) /\ k \in Nat
    BY <1>1
  <2>1. CASE x <= k
    BY <2>1, <1>4, <1>1
  <2>2. CASE x > k
    <3>1. x - k \in 1 .. Len(n) - k /\ x = k + (x - k)
      BY <2>2, <1>1
    <3> QED
      BY <3>1, <1>4
  <2>3. x <= k \/ x > k
    BY <2>0
  <2> QED
    BY <2>1, <2>2, <2>3
<1>6. n = b \o c
  BY <1>4, <1>5, SameSequence
<1> QED
  BY <1>6 DEF b, c

\* One part more of a piece.
LEMMA PieceMore ==
  ASSUME NEW s \in Names, NEW m \in Nat, NEW n \in Nat, 1 <= m, m <= n, n <= Len(s)
  PROVE  SubSeq(s, m, n) = Append(SubSeq(s, m, n - 1), s[n]) /\ s[n] \in NameParts
<1>1. Len(s) \in Nat /\ n - 1 \in Nat /\ m <= (n - 1) + 1 /\ s[n] \in NameParts
  BY DEF Names
<1>2. /\ SubSeq(s, m, n) \in Names /\ Len(SubSeq(s, m, n)) = n - m + 1
      /\ \A x \in 1 .. n - m + 1 : SubSeq(s, m, n)[x] = s[m + x - 1]
  BY <1>1, Piece
<1>3. /\ SubSeq(s, m, n - 1) \in Names /\ Len(SubSeq(s, m, n - 1)) = n - m
      /\ \A x \in 1 .. n - m : SubSeq(s, m, n - 1)[x] = s[m + x - 1]
  BY <1>1, Piece
<1> DEFINE u == SubSeq(s, m, n - 1)
<1>4. u \in Names /\ Len(u) = n - m /\ \A x \in 1 .. n - m : u[x] = s[m + x - 1]
  BY <1>3
<1> HIDE DEF u
<1>5. /\ Append(u, s[n]) \in Names /\ Len(Append(u, s[n])) = n - m + 1
      /\ \A x \in 1 .. n - m : Append(u, s[n])[x] = u[x]
      /\ Append(u, s[n])[n - m + 1] = s[n]
  <2>1. /\ Append(u, s[n]) \in Names /\ Len(Append(u, s[n])) = Len(u) + 1
        /\ \A x \in 1 .. Len(u) : Append(u, s[n])[x] = u[x]
        /\ Append(u, s[n])[Len(u) + 1] = s[n]
    BY <1>1, <1>4, Longer
  <2> QED
    BY <2>1, <1>4
<1>6. \A x \in 1 .. n - m + 1 : SubSeq(s, m, n)[x] = Append(u, s[n])[x]
  <2> TAKE x \in 1 .. n - m + 1
  <2>1. CASE x = n - m + 1
    BY <2>1, <1>2, <1>5
  <2>2. CASE x # n - m + 1
    BY <2>2, <1>2, <1>4, <1>5
  <2> QED
    BY <2>1, <2>2
<1>7. SubSeq(s, m, n) = Append(u, s[n])
  BY <1>2, <1>5, <1>6, SameSequence
<1> QED
  BY <1>7, <1>1 DEF u

-----------------------------------------------------------------------------
(* The paths of a tree of mailboxes.  They are what Paths defines by recursion *)
(* if they satisfy its equation: along a path, names get longer.               *)

Solves(a, tree, p) ==
  /\ DOMAIN p = DOMAIN tree
  /\ \A i \in DOMAIN tree :
       /\ p[i] \in Names
       /\ p[i] = Append(IF tree[i].parent = NoParent THEN Prefix(a) ELSE p[tree[i].parent], tree[i].name)

\* The nodes of a tree have names and parents, and differ from their siblings.
Nodes(tree) ==
  /\ tree \in [DOMAIN tree -> Node(tree)]
  /\ DOMAIN tree \subseteq Nat \ {NoParent}
  /\ \A i, j \in DOMAIN tree : tree[i].parent = tree[j].parent /\ tree[i].name = tree[j].name => i = j

\* The names of an account begin with a name: none, or `Shared/<account>'.
LEMMA PrefixTyped == \A a \in Accounts : Prefix(a) \in Names /\ Len(Prefix(a)) \in Nat
<1>1. Prefix(Own) = <<>> /\ Prefix(Jane) = <<FolderShared, Jane>>
  BY DEF Prefix, Own, Jane
<1>2. FolderShared \in NameParts /\ Jane \in NameParts
  BY ListAssumption
<1>3. Prefix(Own) \in Names /\ Prefix(Jane) \in Names
  BY <1>1, <1>2 DEF Names
<1> QED
  BY <1>3 DEF Accounts, Names

\* Paths is the only solution of its recursion: names that satisfy it are the paths.
LEMMA PathsAre ==
  ASSUME NEW a \in Accounts, NEW tree, Nodes(tree), NEW w, w = [i \in DOMAIN tree |-> w[i]], Solves(a, tree, w)
  PROVE  Paths(a, tree) = w
<1> DEFINE F(p) == [i \in DOMAIN tree |-> IF tree[i].parent = NoParent THEN Append(Prefix(a), tree[i].name)
                                          ELSE Append(p[tree[i].parent], tree[i].name)]
           q == Paths(a, tree)
<1>1. w = F(w)
  BY DEF Solves
<1>2. q = CHOOSE p : p = F(p)
  BY DEF Paths
<1>3. q = F(q)
  BY <1>1, <1>2
<1> HIDE DEF q
<1> DEFINE Bad == {i \in DOMAIN tree : q[i] # w[i]}
<1>4. ASSUME Bad # {} PROVE FALSE
  <2> DEFINE T == {Len(w[i]) : i \in Bad}
  <2>1. T \in SUBSET Nat /\ T # {}
    <3>1. \A i \in Bad : w[i] \in Names
      BY DEF Solves
    <3>2. \A i \in Bad : Len(w[i]) \in Nat
      BY <3>1 DEF Names
    <3> QED
      BY <1>4, <3>2
  <2>2. PICK n \in T : \A m \in T : n <= m
    BY <2>1, LeastNat
  <2>3. PICK i \in Bad : n = Len(w[i])
    BY <2>2
  <2>4. tree[i].parent # NoParent
    BY <1>1, <1>3, <2>3
  <2>5. tree[i].parent \in DOMAIN tree /\ tree[i].name \in NameParts
    BY <2>3, <2>4 DEF Nodes, Node
  <2>6. w[tree[i].parent] \in Names /\ w[i] = Append(w[tree[i].parent], tree[i].name)
    BY <2>3, <2>4, <2>5 DEF Solves
  <2>7. Len(w[tree[i].parent]) < Len(w[i]) /\ Len(w[tree[i].parent]) \in Nat /\ Len(w[i]) \in Nat
    BY <2>5, <2>6 DEF Names
  <2>8. tree[i].parent \notin Bad
    BY <2>2, <2>3, <2>7
  <2> QED
    BY <1>1, <1>3, <2>3, <2>4, <2>5, <2>8, ZenonT(60)
<1>5. q = w
  BY <1>3, <1>4
<1> QED
  BY <1>5 DEF q

\* The parts of a tree: every mailbox has a name, a flag and a parent in the tree or none.
LEMMA TreeParts ==
  ASSUME NEW tree, IsTree(tree)
  PROVE  /\ Nodes(tree) /\ NoParent \notin DOMAIN tree
         /\ \A i \in DOMAIN tree : /\ i \in Nat /\ tree[i].name \in NameParts /\ tree[i].sub \in BOOLEAN
                                   /\ tree[i].parent \in DOMAIN tree \cup {NoParent}
<1>1. Nodes(tree)
  BY DEF IsTree, Nodes
<1> QED
  BY <1>1 DEF Nodes, Node

\* Nodes whose names solve the recursion form a tree, without a cycle of parents.
LEMMA MakesTree ==
  ASSUME NEW tree, Nodes(tree), NEW w, w = [i \in DOMAIN tree |-> w[i]], Solves(Own, tree, w)
  PROVE  IsTree(tree)
<1>1. Paths(Own, tree) = w
  BY PathsAre DEF Accounts
<1>2. Prefix(Own) = <<>>
  BY DEF Prefix
<1>3. \A i \in DOMAIN tree :
         /\ w[i] \in Seq(NameParts)
         /\ w[i] = Append(IF tree[i].parent = NoParent THEN <<>> ELSE w[tree[i].parent], tree[i].name)
  <2> TAKE i \in DOMAIN tree
  <2>1. w[i] \in Seq(NameParts)
    BY DEF Solves, Names
  <2>2. w[i] = Append(IF tree[i].parent = NoParent THEN Prefix(Own) ELSE w[tree[i].parent], tree[i].name)
    BY DEF Solves
  <2> QED
    BY <2>1, <2>2, <1>2, Zenon
<1>4. LET p == Paths(Own, tree) IN
      \A i \in DOMAIN tree :
         /\ p[i] \in Seq(NameParts)
         /\ p[i] = Append(IF tree[i].parent = NoParent THEN <<>> ELSE p[tree[i].parent], tree[i].name)
  BY <1>1, <1>3, Zenon
<1> QED
  BY <1>4, Zenon DEF IsTree, Nodes

\* The paths in an account begin with its prefix.
LEMMA HasPaths ==
  ASSUME NEW tree, IsTree(tree), NEW a \in Accounts
  PROVE  /\ Solves(a, tree, Paths(a, tree))
         /\ Paths(a, tree) = [i \in DOMAIN tree |-> Paths(a, tree)[i]]
         /\ \A i \in DOMAIN tree : /\ Paths(a, tree)[i] = Prefix(a) \o Paths(Own, tree)[i]
                                   /\ Paths(Own, tree)[i] \in Names
                                   /\ Len(Paths(Own, tree)[i]) \in Nat \ {0}
<1> DEFINE p == Paths(Own, tree)
<1>1. Nodes(tree) /\ NoParent \notin DOMAIN tree
  BY TreeParts
<1>2. \A i \in DOMAIN tree :
         /\ p[i] \in Names
         /\ p[i] = Append(IF tree[i].parent = NoParent THEN <<>> ELSE p[tree[i].parent], tree[i].name)
  BY DEF IsTree, Names
<1> HIDE DEF p
<1> DEFINE w == [i \in DOMAIN tree |-> Prefix(a) \o p[i]]
<1>3. \A i \in DOMAIN tree : w[i] \in Names
  BY <1>2, Joined, PrefixTyped
<1>4. ASSUME NEW i \in DOMAIN tree
      PROVE  w[i] = Append(IF tree[i].parent = NoParent THEN Prefix(a) ELSE w[tree[i].parent], tree[i].name)
  <2>1. tree[i].name \in NameParts /\ tree[i].parent \in DOMAIN tree \cup {NoParent} /\ Prefix(a) \in Names
    BY <1>1, PrefixTyped DEF Nodes, Node
  <2>2. CASE tree[i].parent = NoParent
    <3>1. p[i] = Append(<<>>, tree[i].name) /\ <<>> \in Names
      BY <2>2, <1>2 DEF Names
    <3>2. Prefix(a) \o Append(<<>>, tree[i].name) = Append(Prefix(a) \o <<>>, tree[i].name)
      BY <3>1, <2>1, JoinedAppend
    <3>3. Prefix(a) \o <<>> = Prefix(a)
      BY <2>1 DEF Names
    <3> QED
      BY <2>2, <3>1, <3>2, <3>3
  <2>3. CASE tree[i].parent # NoParent
    <3>1. p[i] = Append(p[tree[i].parent], tree[i].name) /\ tree[i].parent \in DOMAIN tree
      BY <2>1, <2>3, <1>2
    <3>2. p[tree[i].parent] \in Names
      BY <3>1, <1>2
    <3>3. Prefix(a) \o Append(p[tree[i].parent], tree[i].name) = Append(Prefix(a) \o p[tree[i].parent], tree[i].name)
      BY <2>1, <3>2, JoinedAppend
    <3> QED
      BY <2>3, <3>1, <3>3
  <2> QED
    BY <2>2, <2>3
<1>5. Solves(a, tree, w)
  BY <1>3, <1>4 DEF Solves
<1>6. w = [i \in DOMAIN tree |-> w[i]]
  OBVIOUS
<1>7. Paths(a, tree) = w
  BY <1>1, <1>5, <1>6, PathsAre
<1>8. ASSUME NEW i \in DOMAIN tree PROVE Len(p[i]) \in Nat \ {0}
  <2>1. tree[i].name \in NameParts /\ tree[i].parent \in DOMAIN tree \cup {NoParent}
    BY <1>1 DEF Nodes, Node
  <2>2. PICK s \in Names : p[i] = Append(s, tree[i].name)
    <3>1. <<>> \in Names
      BY DEF Names
    <3> QED
      BY <2>1, <3>1, <1>2
  <2> QED
    BY <2>1, <2>2 DEF Names
<1> QED
  BY <1>2, <1>5, <1>7, <1>8 DEF p

\* The name of a mailbox is that of its parent and one part more, or one part below the account.
LEMMA PathFacts ==
  ASSUME NEW tree, IsTree(tree), NEW a \in Accounts, NEW i \in DOMAIN tree
  PROVE  LET p == Paths(a, tree) IN
         /\ p[i] \in Names /\ Len(p[i]) \in Nat /\ Len(p[i]) > Len(Prefix(a))
         /\ IsStrictPrefix(Prefix(a), p[i]) /\ tree[i].name \in NameParts
         /\ tree[i].parent = NoParent => p[i] = Append(Prefix(a), tree[i].name)
         /\ tree[i].parent # NoParent => /\ tree[i].parent \in DOMAIN tree
                                         /\ p[tree[i].parent] \in Names
                                         /\ p[i] = Append(p[tree[i].parent], tree[i].name)
                                         /\ Len(p[i]) = Len(p[tree[i].parent]) + 1
<1> DEFINE p == Paths(a, tree)
           o == Paths(Own, tree)
<1>1. /\ Solves(a, tree, p) /\ p[i] = Prefix(a) \o o[i] /\ o[i] \in Names /\ Len(o[i]) \in Nat \ {0}
  BY HasPaths
<1>2. Prefix(a) \in Names /\ Len(Prefix(a)) \in Nat
  BY PrefixTyped
<1>3. tree[i].name \in NameParts /\ tree[i].parent \in DOMAIN tree \cup {NoParent}
  BY TreeParts
<1> HIDE DEF p, o
<1>4. p[i] \in Names /\ Len(p[i]) \in Nat
  <2>1. p[i] \in Names
    BY <1>1 DEF Solves
  <2> QED
    BY <2>1 DEF Names
<1>5. Len(p[i]) = Len(Prefix(a)) + Len(o[i]) /\ \A x \in 1 .. Len(Prefix(a)) : p[i][x] = Prefix(a)[x]
  BY <1>1, <1>2, Joined
<1>6. Len(p[i]) > Len(Prefix(a)) /\ p[i] # Prefix(a)
  BY <1>5, <1>2, <1>1
<1>7. IsStrictPrefix(Prefix(a), p[i])
  <2>1. IsPrefix(Prefix(a), p[i])
    BY <1>2, <1>4, <1>5, <1>6, PrefixParts
  <2> QED
    BY <2>1, <1>6 DEF IsStrictPrefix
<1>8. tree[i].parent = NoParent => p[i] = Append(Prefix(a), tree[i].name)
  BY <1>1 DEF Solves
<1>9. ASSUME tree[i].parent # NoParent
      PROVE  /\ tree[i].parent \in DOMAIN tree /\ p[tree[i].parent] \in Names
             /\ p[i] = Append(p[tree[i].parent], tree[i].name)
             /\ Len(p[i]) = Len(p[tree[i].parent]) + 1
  <2>1. tree[i].parent \in DOMAIN tree
    BY <1>3, <1>9
  <2>2. p[tree[i].parent] \in Names /\ p[i] = Append(p[tree[i].parent], tree[i].name)
    BY <1>1, <1>9, <2>1 DEF Solves
  <2> QED
    BY <2>1, <2>2, <1>3, Longer
<1> QED
  BY <1>3, <1>4, <1>6, <1>7, <1>8, <1>9 DEF p

\* No two mailboxes have the same path.
LEMMA DistinctPaths ==
  ASSUME NEW tree, IsTree(tree), NEW a \in Accounts
  PROVE  \A i, j \in DOMAIN tree : Paths(a, tree)[i] = Paths(a, tree)[j] => i = j
<1> DEFINE p == Paths(a, tree)
           Bad == {i \in DOMAIN tree : \E j \in DOMAIN tree : j # i /\ p[i] = p[j]}
           T == {Len(p[i]) : i \in Bad}
<1>1. SUFFICES ASSUME Bad # {} PROVE FALSE
  OBVIOUS
<1>2. \A i \in Bad : Len(p[i]) \in Nat
  BY PathFacts
<1>3. T \in SUBSET Nat /\ T # {}
  BY <1>1, <1>2
<1>4. PICK n \in T : \A m \in T : n <= m
  BY <1>3, LeastNat
<1>5. PICK i \in Bad : n = Len(p[i])
  BY <1>4
<1>6. PICK j \in DOMAIN tree : j # i /\ p[i] = p[j]
  BY <1>5
<1>7. i \in DOMAIN tree
  BY <1>5
<1>8. tree[i].parent = tree[j].parent => tree[i].name # tree[j].name
  BY <1>6, <1>7, TreeParts DEF Nodes
<1>9. Prefix(a) \in Names /\ Len(Prefix(a)) \in Nat
  BY PrefixTyped
<1>10. CASE tree[i].parent = NoParent /\ tree[j].parent = NoParent
  <2>1. Append(Prefix(a), tree[i].name) = Append(Prefix(a), tree[j].name)
    BY <1>6, <1>7, <1>10, PathFacts
  <2>2. tree[i].name \in NameParts /\ tree[j].name \in NameParts
    BY <1>6, <1>7, PathFacts
  <2> QED
    BY <2>1, <2>2, <1>8, <1>9, <1>10, AppendSame
<1>11. ASSUME NEW x \in {i, j}, NEW y \in {i, j}, x # y, tree[x].parent = NoParent, tree[y].parent # NoParent
       PROVE  FALSE
  <2>1. x \in DOMAIN tree /\ y \in DOMAIN tree /\ p[x] = p[y]
    BY <1>6, <1>7, <1>11
  <2>2. p[x] = Append(Prefix(a), tree[x].name) /\ tree[x].name \in NameParts
    BY <2>1, <1>11, PathFacts
  <2>3. /\ p[y] = Append(p[tree[y].parent], tree[y].name) /\ tree[y].name \in NameParts
        /\ p[tree[y].parent] \in Names /\ tree[y].parent \in DOMAIN tree
    BY <2>1, <1>11, PathFacts
  <2>4. p[tree[y].parent] = Prefix(a)
    <3>1. Append(p[tree[y].parent], tree[y].name) = Append(Prefix(a), tree[x].name)
      BY <2>1, <2>2, <2>3
    <3> HIDE DEF p
    <3> QED
      BY <3>1, <2>2, <2>3, <1>9, AppendSame
  <2>5. Len(p[tree[y].parent]) > Len(Prefix(a)) /\ Len(p[tree[y].parent]) \in Nat
    BY <2>3, PathFacts
  <2> QED
    BY <2>4, <2>5, <1>9
<1>12. CASE tree[i].parent # NoParent /\ tree[j].parent # NoParent
  <2>1. /\ p[i] = Append(p[tree[i].parent], tree[i].name) /\ tree[i].name \in NameParts
        /\ p[tree[i].parent] \in Names /\ tree[i].parent \in DOMAIN tree
        /\ Len(p[i]) = Len(p[tree[i].parent]) + 1
    BY <1>7, <1>12, PathFacts
  <2>2. /\ p[j] = Append(p[tree[j].parent], tree[j].name) /\ tree[j].name \in NameParts
        /\ p[tree[j].parent] \in Names /\ tree[j].parent \in DOMAIN tree
    BY <1>6, <1>12, PathFacts
  <2>3. p[tree[i].parent] = p[tree[j].parent] /\ tree[i].name = tree[j].name
    <3>1. Append(p[tree[i].parent], tree[i].name) = Append(p[tree[j].parent], tree[j].name)
      BY <2>1, <2>2, <1>6
    <3> DEFINE u == p[tree[i].parent]
               v == p[tree[j].parent]
               e == tree[i].name
               f == tree[j].name
    <3>2. Append(u, e) = Append(v, f) /\ u \in Names /\ v \in Names /\ e \in NameParts /\ f \in NameParts
      BY <3>1, <2>1, <2>2
    <3>3. u = v /\ e = f
      <4> HIDE DEF u, v, e, f
      <4> QED
        BY <3>2, AppendSame
    <3> QED
      BY <3>3
  <2>4. tree[i].parent \in Bad
    BY <2>1, <2>2, <2>3, <1>8
  <2>5. Len(p[tree[i].parent]) \in Nat
    BY <2>4, <1>2
  <2>6. n <= Len(p[tree[i].parent])
    BY <2>4, <1>4
  <2> QED
    BY <2>1, <2>5, <2>6, <1>5
<1> QED
  BY <1>6, <1>10, <1>11, <1>12

\* A mailbox whose path goes on from another one's has a parent of which that is true,
\* or which is that other one.
LEMMA PathAbove ==
  ASSUME NEW tree, IsTree(tree), NEW a \in Accounts, NEW i \in DOMAIN tree, NEW j \in DOMAIN tree, i # j,
         IsPrefix(Paths(a, tree)[i], Paths(a, tree)[j])
  PROVE  /\ tree[j].parent \in DOMAIN tree /\ tree[j].parent # NoParent
         /\ IsPrefix(Paths(a, tree)[i], Paths(a, tree)[tree[j].parent])
<1> DEFINE p == Paths(a, tree)
<1>1. p[i] # p[j] /\ p[i] \in Names
  BY DistinctPaths, PathFacts
<1>2. Prefix(a) \in Names /\ Len(Prefix(a)) \in Nat /\ Len(p[i]) > Len(Prefix(a)) /\ Len(p[i]) \in Nat
  BY PrefixTyped, PathFacts
<1>3. tree[j].parent # NoParent
  <2>1. SUFFICES ASSUME tree[j].parent = NoParent PROVE FALSE
    OBVIOUS
  <2>2. p[j] = Append(Prefix(a), tree[j].name) /\ tree[j].name \in NameParts
    BY <2>1, PathFacts
  <2>3. IsPrefix(p[i], Prefix(a))
    BY <2>2, <1>1, <1>2, PrefixOfAppend
  <2>4. Len(p[i]) <= Len(Prefix(a))
    BY <2>3, <1>1, <1>2, PrefixParts
  <2> QED
    BY <2>4, <1>2
<1>4. /\ p[j] = Append(p[tree[j].parent], tree[j].name) /\ tree[j].name \in NameParts
      /\ p[tree[j].parent] \in Names /\ tree[j].parent \in DOMAIN tree
  BY <1>3, PathFacts
<1>5. IsPrefix(p[i], p[tree[j].parent])
  BY <1>1, <1>4, PrefixOfAppend
<1> QED
  BY <1>3, <1>4, <1>5

\* A mailbox has a child if there is a path that goes on from its own.
LEMMA HasChild ==
  ASSUME NEW tree, IsTree(tree), NEW a \in Accounts, NEW i \in DOMAIN tree
  PROVE  \A j \in DOMAIN tree : j # i /\ IsPrefix(Paths(a, tree)[i], Paths(a, tree)[j]) => Children(tree, i) # {}
<1> DEFINE p == Paths(a, tree)
           Bad == {j \in DOMAIN tree : j # i /\ IsPrefix(p[i], p[j])}
           T == {Len(p[j]) : j \in Bad}
<1>1. SUFFICES ASSUME Bad # {} PROVE Children(tree, i) # {}
  OBVIOUS
<1>2. \A j \in Bad : Len(p[j]) \in Nat
  BY PathFacts
<1>3. T \in SUBSET Nat /\ T # {}
  BY <1>1, <1>2
<1>4. PICK n \in T : \A m \in T : n <= m
  BY <1>3, LeastNat
<1>5. PICK j \in Bad : n = Len(p[j])
  BY <1>4
<1>6. tree[j].parent \in DOMAIN tree /\ tree[j].parent # NoParent /\ IsPrefix(p[i], p[tree[j].parent])
  BY <1>5, PathAbove
<1>7. Len(p[j]) = Len(p[tree[j].parent]) + 1 /\ Len(p[tree[j].parent]) \in Nat
  BY <1>5, <1>6, PathFacts
<1>8. tree[j].parent \notin Bad
  BY <1>4, <1>5, <1>7
<1>9. tree[j].parent = i
  BY <1>6, <1>8
<1> QED
  BY <1>5, <1>9 DEF Children

\* What replacing a prefix of a name gives.
LEMMA RenamedTyped ==
  ASSUME NEW n \in Names, NEW from \in Names, NEW to \in Names
  PROVE  /\ Renamed(n, from, to) \in Names
         /\ IsPrefix(from, n) => /\ Len(from) <= Len(n) /\ Len(from) \in Nat /\ Len(n) \in Nat
                                 /\ SubSeq(n, Len(from) + 1, Len(n)) \in Names
                                 /\ Renamed(n, from, to) = to \o SubSeq(n, Len(from) + 1, Len(n))
                                 /\ IsPrefix(to, Renamed(n, from, to))
<1>1. CASE IsPrefix(from, n)
  <2>1. Len(from) <= Len(n) /\ Len(from) \in Nat /\ Len(n) \in Nat
    BY <1>1, PrefixParts DEF Names
  <2>2. SubSeq(n, Len(from) + 1, Len(n)) \in Names
    BY <2>1, Piece
  <2>3. Renamed(n, from, to) = to \o SubSeq(n, Len(from) + 1, Len(n))
    BY <1>1 DEF Renamed
  <2> DEFINE r == SubSeq(n, Len(from) + 1, Len(n))
  <2>4. r \in Names
    BY <2>2
  <2> HIDE DEF r
  <2>5. to \o r \in Names /\ Len(to) <= Len(to \o r) /\ \A x \in 1 .. Len(to) : to[x] = (to \o r)[x]
    BY <2>4, Joined
  <2>6. IsPrefix(to, to \o r)
    BY <2>5, PrefixParts
  <2> QED
    BY <2>1, <2>2, <2>3, <2>5, <2>6 DEF r
<1>2. CASE ~IsPrefix(from, n)
  BY <1>2 DEF Renamed
<1> QED
  BY <1>1, <1>2

\* Renaming a name itself gives the new name.
LEMMA RenamedSelf ==
  ASSUME NEW from \in Names, NEW to \in Names
  PROVE  IsPrefix(from, from) /\ Renamed(from, from, to) = to
<1>1. IsPrefix(from, from)
  BY DEF IsPrefix, Names
<1>2. SubSeq(from, Len(from) + 1, Len(from)) = <<>>
  BY DEF Names
<1>3. to \o <<>> = to
  BY DEF Names
<1> QED
  BY <1>1, <1>2, <1>3 DEF Renamed

\* Renaming keeps the last part of a name below the renamed one.
LEMMA RenamedAppend ==
  ASSUME NEW n \in Names, NEW from \in Names, NEW to \in Names, NEW e \in NameParts, IsPrefix(from, n)
  PROVE  Renamed(Append(n, e), from, to) = Append(Renamed(n, from, to), e)
<1> DEFINE m == Append(n, e)
           k == Len(from)
<1>1. /\ m \in Names /\ Len(m) = Len(n) + 1 /\ Len(n) \in Nat /\ m[Len(n) + 1] = e
      /\ \A x \in 1 .. Len(n) : m[x] = n[x]
  BY Longer
<1>2. k <= Len(n) /\ k \in Nat
  BY RenamedTyped
<1>3. IsPrefix(from, m)
  BY PrefixOfAppend
<1> HIDE DEF m, k
<1>4. SubSeq(m, k + 1, Len(m)) = Append(SubSeq(m, k + 1, Len(n)), e)
  <2>1. /\ k + 1 \in Nat /\ Len(n) + 1 \in Nat /\ 1 <= k + 1 /\ k + 1 <= Len(n) + 1 /\ Len(n) + 1 <= Len(m)
        /\ (Len(n) + 1) - 1 = Len(n)
    BY <1>1, <1>2
  <2> QED
    BY <2>1, <1>1, PieceMore
<1>5. SubSeq(m, k + 1, Len(n)) = SubSeq(n, k + 1, Len(n)) /\ SubSeq(n, k + 1, Len(n)) \in Names
  <2>1. k + 1 \in Nat /\ 1 <= k + 1 /\ k + 1 <= Len(n) + 1 /\ Len(n) <= Len(m)
    BY <1>1, <1>2
  <2>2. /\ SubSeq(n, k + 1, Len(n)) \in Names /\ Len(SubSeq(n, k + 1, Len(n))) = Len(n) - (k + 1) + 1
        /\ \A x \in 1 .. Len(n) - (k + 1) + 1 : SubSeq(n, k + 1, Len(n))[x] = n[(k + 1) + x - 1]
    BY <2>1, <1>1, Piece
  <2>3. /\ SubSeq(m, k + 1, Len(n)) \in Names /\ Len(SubSeq(m, k + 1, Len(n))) = Len(n) - (k + 1) + 1
        /\ \A x \in 1 .. Len(n) - (k + 1) + 1 : SubSeq(m, k + 1, Len(n))[x] = m[(k + 1) + x - 1]
    BY <2>1, <1>1, Piece
  <2>4. \A x \in 1 .. Len(n) - (k + 1) + 1 : m[(k + 1) + x - 1] = n[(k + 1) + x - 1]
    BY <2>1, <1>1, <1>2
  <2> DEFINE u == SubSeq(n, k + 1, Len(n))
             v == SubSeq(m, k + 1, Len(n))
  <2>5. u \in Names /\ v \in Names /\ Len(v) = Len(u) /\ \A x \in 1 .. Len(v) : v[x] = u[x]
    BY <2>2, <2>3, <2>4
  <2>6. v = u
    <3> HIDE DEF u, v
    <3> QED
      BY <2>5, SameSequence
  <2> QED
    BY <2>6, <2>2
<1>6. to \o Append(SubSeq(n, k + 1, Len(n)), e) = Append(to \o SubSeq(n, k + 1, Len(n)), e)
  BY <1>5, JoinedAppend
<1>7. Renamed(m, from, to) = to \o SubSeq(m, k + 1, Len(m))
  BY <1>3 DEF Renamed, k
<1>8. Renamed(n, from, to) = to \o SubSeq(n, k + 1, Len(n))
  BY DEF Renamed, k
<1> QED
  BY <1>4, <1>5, <1>6, <1>7, <1>8 DEF m

\* Moving a mailbox changes its parent and its name, and no other mailbox.
LEMMA PlacedIs ==
  ASSUME NEW tree, IsTree(tree), NEW i \in DOMAIN tree, NEW parent \in DOMAIN tree \cup {NoParent},
         NEW name \in NameParts
  PROVE  /\ DOMAIN Placed(tree, i, parent, name) = DOMAIN tree
         /\ Placed(tree, i, parent, name) \in [DOMAIN tree -> Node(tree)]
         /\ Placed(tree, i, parent, name)[i] = [parent |-> parent, name |-> name, sub |-> tree[i].sub]
         /\ \A j \in DOMAIN tree \ {i} : Placed(tree, i, parent, name)[j] = tree[j]
<1>1. tree \in [DOMAIN tree -> Node(tree)]
  BY DEF IsTree
<1>2. Placed(tree, i, parent, name) = [tree EXCEPT ![i].parent = parent, ![i].name = name]
  BY DEF Placed
<1>3. tree[i] = [parent |-> tree[i].parent, name |-> tree[i].name, sub |-> tree[i].sub] /\ tree[i].sub \in BOOLEAN
  BY <1>1 DEF Node
<1>4. [parent |-> parent, name |-> name, sub |-> tree[i].sub] \in Node(tree)
  BY <1>3 DEF Node
<1>5. Placed(tree, i, parent, name)
       = [tree EXCEPT ![i] = [parent |-> parent, name |-> name, sub |-> tree[i].sub]]
  BY <1>1, <1>2, <1>3
<1> QED
  BY <1>1, <1>4, <1>5

\* A mailbox is moved: its path and those that go on from it begin with the new one.
MovedTo(a, tree, parent, name) ==
  Append(IF parent = NoParent THEN Prefix(a) ELSE Paths(a, tree)[parent], name)

MovedPaths(a, tree, i, parent, name) ==
  [j \in DOMAIN tree |-> Renamed(Paths(a, tree)[j], Paths(a, tree)[i], MovedTo(a, tree, parent, name))]

\* The names after a move solve the recursion of the moved tree.
LEMMA MoveSolves ==
  ASSUME NEW tree, IsTree(tree), NEW a \in Accounts, NEW i, NEW parent, NEW name \in NameParts,
         MayMove(tree, i, parent, name)
  PROVE  /\ Solves(a, Placed(tree, i, parent, name), MovedPaths(a, tree, i, parent, name))
         /\ MovedPaths(a, tree, i, parent, name)[i] = MovedTo(a, tree, parent, name)
         /\ MovedTo(a, tree, parent, name) \in Names
<1> DEFINE p == Paths(a, tree)
           o == Paths(Own, tree)
           base == IF parent = NoParent THEN Prefix(a) ELSE p[parent]
           to == Append(base, name)
           w == [j \in DOMAIN tree |-> Renamed(p[j], p[i], to)]
           new == Placed(tree, i, parent, name)
<1>1. /\ i \in DOMAIN tree /\ parent \in DOMAIN tree \cup {NoParent} /\ ~Exists(tree, parent, name)
      /\ parent # NoParent => ~IsPrefix(o[i], o[parent])
  BY DEF MayMove
<1>2. /\ DOMAIN new = DOMAIN tree /\ new[i].parent = parent /\ new[i].name = name
      /\ \A j \in DOMAIN tree \ {i} : new[j] = tree[j]
  <2>1. /\ DOMAIN new = DOMAIN tree /\ new[i] = [parent |-> parent, name |-> name, sub |-> tree[i].sub]
        /\ \A j \in DOMAIN tree \ {i} : new[j] = tree[j]
    BY <1>1, PlacedIs
  <2> HIDE DEF new
  <2> QED
    BY <2>1
<1>3. parent # NoParent => ~IsPrefix(p[i], p[parent])
  <2>1. Prefix(a) \in Names
    BY PrefixTyped
  <2>2. parent # NoParent => /\ parent \in DOMAIN tree /\ p[parent] = Prefix(a) \o o[parent] /\ o[parent] \in Names
                             /\ p[i] = Prefix(a) \o o[i] /\ o[i] \in Names
    BY <1>1, HasPaths
  <2> HIDE DEF p, o
  <2> QED
    BY <1>1, <2>1, <2>2, JoinedPrefix
<1>4. base \in Names /\ to \in Names /\ \A j \in DOMAIN tree : p[j] \in Names
  <2>1. base \in Names
    BY <1>1, PrefixTyped, PathFacts
  <2>2. \A j \in DOMAIN tree : p[j] \in Names
    BY PathFacts
  <2> QED
    BY <2>1, <2>2, Longer
<1>5. \A j \in DOMAIN tree : w[j] \in Names
  BY <1>1, <1>4, RenamedTyped
<1>6. w[i] = to
  BY <1>1, <1>4, RenamedSelf
<1>7. parent # NoParent => w[parent] = p[parent]
  BY <1>1, <1>3 DEF Renamed
<1>8. w[i] = Append(IF new[i].parent = NoParent THEN Prefix(a) ELSE w[new[i].parent], new[i].name)
  BY <1>2, <1>6, <1>7
<1>9. ASSUME NEW j \in DOMAIN tree, j # i
      PROVE  w[j] = Append(IF tree[j].parent = NoParent THEN Prefix(a) ELSE w[tree[j].parent], tree[j].name)
  <2>1. CASE IsPrefix(p[i], p[j])
    <3>1. tree[j].parent \in DOMAIN tree /\ tree[j].parent # NoParent /\ IsPrefix(p[i], p[tree[j].parent])
      BY <1>1, <1>9, <2>1, PathAbove
    <3>2. p[j] = Append(p[tree[j].parent], tree[j].name) /\ tree[j].name \in NameParts
      BY <3>1, PathFacts
    <3>3. p[tree[j].parent] \in Names /\ p[i] \in Names
      BY <3>1, <1>1, <1>4
    <3>4. Renamed(p[j], p[i], to) = Append(Renamed(p[tree[j].parent], p[i], to), tree[j].name)
      <4> HIDE DEF p, to
      <4> QED
        BY <3>1, <3>2, <3>3, <1>4, RenamedAppend
    <3> QED
      BY <3>1, <3>4
  <2>2. CASE ~IsPrefix(p[i], p[j])
    <3>1. w[j] = p[j]
      BY <2>2 DEF Renamed
    <3>2. CASE tree[j].parent = NoParent
      BY <3>1, <3>2, PathFacts
    <3>3. CASE tree[j].parent # NoParent
      <4>1. /\ p[j] = Append(p[tree[j].parent], tree[j].name) /\ tree[j].name \in NameParts
            /\ tree[j].parent \in DOMAIN tree /\ p[tree[j].parent] \in Names
        BY <3>3, PathFacts
      <4>2. ~IsPrefix(p[i], p[tree[j].parent])
        <5>1. p[i] \in Names
          BY <1>1, <1>4
        <5> HIDE DEF p
        <5> QED
          BY <5>1, <4>1, <2>2, PrefixOfAppend
      <4>3. w[tree[j].parent] = p[tree[j].parent]
        BY <4>1, <4>2 DEF Renamed
      <4> QED
        BY <3>1, <3>3, <4>1, <4>3
    <3> QED
      BY <3>2, <3>3
  <2> QED
    BY <2>1, <2>2
<1>10. Solves(a, new, w)
  <2>1. ASSUME NEW j \in DOMAIN tree
        PROVE  w[j] = Append(IF new[j].parent = NoParent THEN Prefix(a) ELSE w[new[j].parent], new[j].name)
    <3>1. CASE j = i
      BY <3>1, <1>8
    <3>2. CASE j # i
      BY <3>2, <1>9, <1>2
    <3> QED
      BY <3>1, <3>2
  <2>2. DOMAIN w = DOMAIN tree
    OBVIOUS
  <2> HIDE DEF w, new
  <2> QED
    BY <2>1, <2>2, <1>2, <1>5 DEF Solves
<1>11. w = MovedPaths(a, tree, i, parent, name) /\ to = MovedTo(a, tree, parent, name)
  BY DEF MovedPaths, MovedTo
<1> HIDE DEF w, to
<1> QED
  BY <1>4, <1>6, <1>10, <1>11

\* A move that the server allows gives a tree, with the names below the mailbox renamed and the others kept.
LEMMA Moved ==
  ASSUME NEW tree, IsTree(tree), NEW a \in Accounts, NEW i, NEW parent, NEW name \in NameParts,
         MayMove(tree, i, parent, name)
  PROVE  LET p == Paths(a, tree)
             to == MovedTo(a, tree, parent, name)
             new == Placed(tree, i, parent, name)
         IN /\ IsTree(new) /\ DOMAIN new = DOMAIN tree
            /\ new[i] = [parent |-> parent, name |-> name, sub |-> tree[i].sub]
            /\ \A j \in DOMAIN tree \ {i} : new[j] = tree[j]
            /\ \A j \in DOMAIN tree : Paths(a, new)[j] = Renamed(p[j], p[i], to)
            /\ Paths(a, new)[i] = to /\ to \in Names
<1> DEFINE new == Placed(tree, i, parent, name)
           w(b) == MovedPaths(b, tree, i, parent, name)
<1>1. /\ i \in DOMAIN tree /\ parent \in DOMAIN tree \cup {NoParent} /\ ~Exists(tree, parent, name)
  BY DEF MayMove
<1>2. /\ DOMAIN new = DOMAIN tree /\ new \in [DOMAIN tree -> Node(tree)]
      /\ new[i] = [parent |-> parent, name |-> name, sub |-> tree[i].sub]
      /\ \A j \in DOMAIN tree \ {i} : new[j] = tree[j]
  BY <1>1, PlacedIs
<1>3. Nodes(tree)
  BY TreeParts
<1> HIDE DEF new
<1>4. Nodes(new)
  <2>1. Node(new) = Node(tree)
    BY <1>2 DEF Node
  <2>2. ASSUME NEW j \in DOMAIN tree, NEW k \in DOMAIN tree, j # k,
               new[j].parent = new[k].parent, new[j].name = new[k].name
        PROVE  FALSE
    <3>1. CASE j # i /\ k # i
      BY <3>1, <2>2, <1>2, <1>3 DEF Nodes
    <3>2. ASSUME NEW x \in {j, k}, x # i, new[x].parent = new[i].parent, new[x].name = new[i].name PROVE FALSE
      <4>1. x \in DOMAIN tree /\ new[x] = tree[x]
        BY <1>2, <3>2
      <4>2. tree[x].parent = parent /\ tree[x].name = name
        BY <4>1, <3>2, <1>2
      <4> QED
        BY <4>1, <4>2, <1>1 DEF Exists, Children
    <3> QED
      BY <3>1, <3>2, <2>2
  <2> QED
    BY <2>1, <2>2, <1>2, <1>3 DEF Nodes
<1>5. \A b \in Accounts : Solves(b, new, w(b)) /\ w(b) = [j \in DOMAIN new |-> w(b)[j]]
  BY <1>2, MoveSolves DEF new, MovedPaths
<1>6. w(a)[i] = MovedTo(a, tree, parent, name) /\ MovedTo(a, tree, parent, name) \in Names
  BY MoveSolves
<1>7. \A j \in DOMAIN tree :
        w(a)[j] = Renamed(Paths(a, tree)[j], Paths(a, tree)[i], MovedTo(a, tree, parent, name))
  BY DEF MovedPaths
<1> HIDE DEF w
<1>8. IsTree(new)
  BY <1>4, <1>5, MakesTree DEF Accounts
<1>9. Paths(a, new) = w(a)
  BY <1>4, <1>5, PathsAre
<1> QED
  BY <1>1, <1>2, <1>6, <1>7, <1>8, <1>9 DEF new

\* A mailbox without children goes.
LEMMA MovedIsTree ==
  ASSUME NEW tree, IsTree(tree), NEW i, NEW parent, NEW name \in NameParts, MayMove(tree, i, parent, name)
  PROVE  IsTree(Placed(tree, i, parent, name)) /\ DOMAIN Placed(tree, i, parent, name) = DOMAIN tree
<1>1. Own \in Accounts
  BY DEF Accounts
<1> DEFINE p == Paths(Own, tree)
           to == MovedTo(Own, tree, parent, name)
           new == Placed(tree, i, parent, name)
<1>2. /\ IsTree(new) /\ DOMAIN new = DOMAIN tree
      /\ new[i] = [parent |-> parent, name |-> name, sub |-> tree[i].sub]
      /\ \A j \in DOMAIN tree \ {i} : new[j] = tree[j]
      /\ \A j \in DOMAIN tree : Paths(Own, new)[j] = Renamed(p[j], p[i], to)
      /\ Paths(Own, new)[i] = to /\ to \in Names
  BY <1>1, Moved
<1> QED
  BY <1>2

\* Destroying a mailbox without children keeps the rest of the tree and its names.
LEMMA Dropped ==
  ASSUME NEW tree, IsTree(tree), NEW i \in DOMAIN tree, Children(tree, i) = {}
  PROVE  LET new == Without(tree, {i})
         IN /\ IsTree(new) /\ DOMAIN new = DOMAIN tree \ {i}
            /\ \A j \in DOMAIN new : new[j] = tree[j]
            /\ \A a \in Accounts : \A j \in DOMAIN new : Paths(a, new)[j] = Paths(a, tree)[j]
<1> DEFINE new == Without(tree, {i})
           w(b) == [j \in DOMAIN tree \ {i} |-> Paths(b, tree)[j]]
<1>1. DOMAIN new = DOMAIN tree \ {i} /\ new = [j \in DOMAIN tree \ {i} |-> tree[j]]
      /\ \A j \in DOMAIN new : new[j] = tree[j]
  BY DEF Without
<1>2. Nodes(tree) /\ \A j \in DOMAIN tree : /\ j \in Nat /\ tree[j].name \in NameParts /\ tree[j].sub \in BOOLEAN
                                            /\ tree[j].parent \in DOMAIN tree \cup {NoParent}
  BY TreeParts
<1> HIDE DEF new
<1>3. \A j \in DOMAIN new : tree[j].parent \in DOMAIN new \cup {NoParent}
  BY <1>1, <1>2 DEF Children
<1>4. Nodes(new)
  <2>1. ASSUME NEW j \in DOMAIN new PROVE new[j] \in Node(new)
    <3>1. tree[j] \in Node(tree) /\ tree[j].parent \in DOMAIN new \cup {NoParent} /\ new[j] = tree[j]
      BY <1>1, <1>2, <1>3 DEF Nodes
    <3> QED
      BY <3>1 DEF Node
  <2>2. new \in [DOMAIN new -> Node(new)]
    BY <1>1, <2>1
  <2> QED
    BY <1>1, <1>2, <2>2 DEF Nodes
<1>5. ASSUME NEW b \in Accounts
      PROVE  Solves(b, new, w(b)) /\ w(b) = [j \in DOMAIN new |-> w(b)[j]]
  <2>1. Solves(b, tree, Paths(b, tree))
    BY HasPaths
  <2>2. NoParent \notin DOMAIN tree
    BY TreeParts
  <2> QED
    BY <2>1, <2>2, <1>1, <1>3 DEF Solves
<1>6. \A b \in Accounts : \A j \in DOMAIN new : w(b)[j] = Paths(b, tree)[j]
  BY <1>1
<1> HIDE DEF w
<1>7. IsTree(new)
  BY <1>4, <1>5, MakesTree DEF Accounts
<1>8. \A b \in Accounts : Paths(b, new) = w(b)
  BY <1>4, <1>5, PathsAre
<1> QED
  BY <1>1, <1>6, <1>7, <1>8 DEF new

\* A subscription changes no path.
LEMMA Resubscribed ==
  ASSUME NEW tree, IsTree(tree), NEW i \in DOMAIN tree, NEW sub \in BOOLEAN
  PROVE  LET new == [tree EXCEPT ![i].sub = sub]
         IN /\ IsTree(new) /\ DOMAIN new = DOMAIN tree
            /\ \A j \in DOMAIN tree : /\ new[j].parent = tree[j].parent /\ new[j].name = tree[j].name
                                      /\ j # i => new[j] = tree[j]
            /\ \A a \in Accounts : Paths(a, new) = Paths(a, tree)
<1> DEFINE new == [tree EXCEPT ![i].sub = sub]
<1>1. Nodes(tree) /\ tree \in [DOMAIN tree -> Node(tree)]
  BY TreeParts DEF Nodes
<1>2. tree[i] = [parent |-> tree[i].parent, name |-> tree[i].name, sub |-> tree[i].sub]
  BY <1>1 DEF Node
<1>3. [parent |-> tree[i].parent, name |-> tree[i].name, sub |-> sub] \in Node(tree)
  BY <1>1 DEF Node
<1>4. new = [tree EXCEPT ![i] = [parent |-> tree[i].parent, name |-> tree[i].name, sub |-> sub]]
  <2>1. new = [tree EXCEPT ![i] = [tree[i] EXCEPT !.sub = sub]]
    OBVIOUS
  <2>2. [tree[i] EXCEPT !.sub = sub] = [parent |-> tree[i].parent, name |-> tree[i].name, sub |-> sub]
    BY <1>2
  <2> QED
    BY <2>1, <2>2
<1>5. /\ DOMAIN new = DOMAIN tree /\ new \in [DOMAIN tree -> Node(tree)]
      /\ \A j \in DOMAIN tree : /\ new[j].parent = tree[j].parent /\ new[j].name = tree[j].name
                                /\ j # i => new[j] = tree[j]
  BY <1>1, <1>3, <1>4, ZenonT(60)
<1> HIDE DEF new
<1>6. Nodes(new)
  <2>1. Node(new) = Node(tree)
    BY <1>5 DEF Node
  <2> QED
    BY <2>1, <1>1, <1>5 DEF Nodes
<1>7. ASSUME NEW b \in Accounts
      PROVE  Solves(b, new, Paths(b, tree)) /\ Paths(b, tree) = [j \in DOMAIN new |-> Paths(b, tree)[j]]
  <2>1. Solves(b, tree, Paths(b, tree)) /\ Paths(b, tree) = [j \in DOMAIN tree |-> Paths(b, tree)[j]]
    BY HasPaths
  <2> QED
    BY <2>1, <1>5 DEF Solves
<1>8. IsTree(new)
  BY <1>6, <1>7, MakesTree DEF Accounts
<1>9. \A b \in Accounts : Paths(b, new) = Paths(b, tree)
  BY <1>6, <1>7, PathsAre
<1> QED
  BY <1>5, <1>8, <1>9 DEF new

\* The ids of new mailboxes, each below the one before.
ChainIds(first, path) == first .. first + Len(path) - 1

ChainBase(a, tree, parent) == IF parent = NoParent THEN Prefix(a) ELSE Paths(a, tree)[parent]

ChainPaths(a, tree, first, parent, path) ==
  [x \in DOMAIN tree \cup ChainIds(first, path) |->
     IF x < first THEN Paths(a, tree)[x] ELSE ChainBase(a, tree, parent) \o SubSeq(path, 1, x - first + 1)]

MayChain(tree, first, parent, path) ==
  /\ first \in Nat \ {0} /\ \A i \in DOMAIN tree : i < first
  /\ parent \in DOMAIN tree \cup {NoParent} /\ path \in Names
  /\ path # <<>> => ~Exists(tree, parent, path[1])

\* The ids of the mailboxes that one Mailbox/set creates are consecutive.
LEMMA ChainParts ==
  ASSUME NEW tree, IsTree(tree), NEW first, NEW parent, NEW path, MayChain(tree, first, parent, path)
  PROVE  /\ first \in Nat /\ first > 0 /\ Len(path) \in Nat /\ DOMAIN path = 1 .. Len(path) /\ path \in Names
         /\ {first + k - 1 : k \in DOMAIN path} = ChainIds(first, path)
<1>1. first \in Nat /\ first > 0 /\ Len(path) \in Nat /\ DOMAIN path = 1 .. Len(path) /\ path \in Names
  BY DEF MayChain, Names
<1>2. \A k \in 1 .. Len(path) : first + k - 1 \in ChainIds(first, path)
  BY <1>1 DEF ChainIds
<1>3. \A x \in ChainIds(first, path) : x - first + 1 \in 1 .. Len(path) /\ x = first + (x - first + 1) - 1
  BY <1>1 DEF ChainIds
<1> QED
  BY <1>1, <1>2, <1>3

\* The place of an id among the created ones.
LEMMA ChainPlace ==
  ASSUME NEW tree, IsTree(tree), NEW first, NEW parent, NEW path, MayChain(tree, first, parent, path),
         NEW x \in ChainIds(first, path)
  PROVE  /\ x \in Nat /\ x >= first /\ x - first + 1 \in 1 .. Len(path)
         /\ path[x - first + 1] \in NameParts
<1>1. first \in Nat /\ Len(path) \in Nat /\ path \in Names
  BY ChainParts
<1>2. x \in Nat /\ x >= first /\ x - first + 1 \in 1 .. Len(path)
  BY <1>1 DEF ChainIds
<1>3. \A k \in 1 .. Len(path) : path[k] \in NameParts
  BY <1>1 DEF Names
<1> QED
  BY <1>2, <1>3

\* The tree with the new mailboxes.
IsChained(new, tree, first, parent, path) ==
  new = [x \in DOMAIN tree \cup ChainIds(first, path) |->
           IF x \in ChainIds(first, path) THEN ChainNode(first, parent, path, x) ELSE tree[x]]

\* The nodes of the tree after the creation of a chain of mailboxes.
LEMMA ChainIs ==
  ASSUME NEW tree, IsTree(tree), NEW first, NEW parent, NEW path, MayChain(tree, first, parent, path)
  PROVE  IsChained(ChainTree(tree, first, parent, path), tree, first, parent, path)
<1> DEFINE ids == ChainIds(first, path)
           c == [x \in ids |-> ChainNode(first, parent, path, x)]
<1>1. {first + k - 1 : k \in DOMAIN path} = ids
  BY ChainParts
<1>2. ChainTree(tree, first, parent, path) = Over(c, tree)
  BY <1>1 DEF ChainTree
<1>3. DOMAIN c = ids /\ \A x \in ids : c[x] = ChainNode(first, parent, path, x)
  OBVIOUS
<1> HIDE DEF c, ids
<1>4. Over(c, tree) = [x \in DOMAIN tree \cup ids |-> IF x \in ids THEN c[x] ELSE tree[x]]
  BY <1>3 DEF Over
<1>5. Over(c, tree) = [x \in DOMAIN tree \cup ids |->
                         IF x \in ids THEN ChainNode(first, parent, path, x) ELSE tree[x]]
  BY <1>3, <1>4
<1> QED
  BY <1>2, <1>5 DEF ids, IsChained

\* What is known of it.
ChainFacts(new, tree, first, parent, path) ==
  /\ new = [x \in DOMAIN new |-> new[x]] /\ DOMAIN new = DOMAIN tree \cup ChainIds(first, path)
  /\ \A x \in DOMAIN tree : x \notin ChainIds(first, path) /\ x < first /\ x \in Nat /\ new[x] = tree[x]
  /\ \A x \in ChainIds(first, path) :
       /\ x \in Nat /\ x >= first /\ x - first + 1 \in 1 .. Len(path) /\ path[x - first + 1] \in NameParts
       /\ new[x] = ChainNode(first, parent, path, x)
       /\ new[x].parent = (IF x = first THEN parent ELSE x - 1)
       /\ new[x].name = path[x - first + 1] /\ new[x].sub = FALSE

\* The facts about those nodes that the proofs use.
LEMMA ChainKnown ==
  ASSUME NEW tree, IsTree(tree), NEW first, NEW parent, NEW path, MayChain(tree, first, parent, path)
  PROVE  ChainFacts(ChainTree(tree, first, parent, path), tree, first, parent, path)
<1> DEFINE new == ChainTree(tree, first, parent, path)
           ids == ChainIds(first, path)
<1>1. IsChained(new, tree, first, parent, path)
  BY ChainIs
<1>2. ASSUME NEW x \in ids
      PROVE  x \in Nat /\ x >= first /\ x - first + 1 \in 1 .. Len(path) /\ path[x - first + 1] \in NameParts
  BY ChainPlace
<1>3. first \in Nat /\ Len(path) \in Nat
  BY ChainParts
<1>4. ASSUME NEW x \in DOMAIN tree PROVE x < first /\ x \in Nat
  BY TreeParts DEF MayChain
<1>5. \A x \in DOMAIN tree : x \notin ids
  BY <1>3, <1>4 DEF ChainIds
<1> HIDE DEF new
<1>6. /\ new = [x \in DOMAIN new |-> new[x]] /\ DOMAIN new = DOMAIN tree \cup ids
      /\ \A x \in DOMAIN tree : new[x] = tree[x]
      /\ \A x \in ids : new[x] = ChainNode(first, parent, path, x)
  <2> HIDE DEF ids
  <2> QED
    BY <1>1, <1>5 DEF IsChained, ids
<1>7. ASSUME NEW x \in ids
      PROVE  /\ ChainNode(first, parent, path, x).parent = (IF x = first THEN parent ELSE x - 1)
             /\ ChainNode(first, parent, path, x).name = path[x - first + 1]
             /\ ChainNode(first, parent, path, x).sub = FALSE
  BY DEF ChainNode
<1> HIDE DEF ids
<1> QED
  BY <1>2, <1>4, <1>5, <1>6, <1>7 DEF ChainFacts, new, ids

\* Every one of them has its parent in the new tree.
LEMMA ChainNodes ==
  ASSUME NEW tree, IsTree(tree), NEW first, NEW parent, NEW path, MayChain(tree, first, parent, path)
  PROVE  Nodes(ChainTree(tree, first, parent, path))
<1> DEFINE new == ChainTree(tree, first, parent, path)
           ids == ChainIds(first, path)
<1>1. /\ DOMAIN new = DOMAIN tree \cup ids
      /\ \A x \in DOMAIN tree : x \notin ids /\ x < first /\ x \in Nat /\ new[x] = tree[x]
      /\ \A x \in ids : /\ x \in Nat /\ x >= first /\ x - first + 1 \in 1 .. Len(path)
                        /\ path[x - first + 1] \in NameParts
                        /\ new[x] = ChainNode(first, parent, path, x)
                        /\ new[x].parent = (IF x = first THEN parent ELSE x - 1)
                        /\ new[x].name = path[x - first + 1] /\ new[x].sub = FALSE
  <2>1. ChainFacts(new, tree, first, parent, path)
    BY ChainKnown
  <2> HIDE DEF new
  <2> QED
    BY <2>1 DEF ChainFacts
<1>2. /\ first \in Nat \ {0} /\ parent \in DOMAIN tree \cup {NoParent} /\ Len(path) \in Nat
      /\ path # <<>> => ~Exists(tree, parent, path[1])
  BY DEF MayChain, Names
<1>3. Nodes(tree) /\ \A x \in DOMAIN tree : tree[x].parent \in DOMAIN tree \cup {NoParent}
  BY TreeParts
<1>4. \A x \in ids : x # first => x - 1 \in ids
  BY <1>2 DEF ChainIds
<1>5. ids # {} => path # <<>>
  BY <1>2, <1>1 DEF Names, ChainIds
<1> HIDE DEF new, ids
<1>6. ASSUME NEW x \in DOMAIN new PROVE new[x] \in Node(new)
  <2>1. CASE x \in DOMAIN tree
    <3>1. tree[x] \in Node(tree)
      BY <2>1, <1>3 DEF Nodes
    <3> QED
      BY <2>1, <3>1, <1>1 DEF Node
  <2>2. CASE x \in ids
    <3>1. (IF x = first THEN parent ELSE x - 1) \in DOMAIN new \cup {NoParent}
      BY <2>2, <1>1, <1>2, <1>4
    <3> DEFINE above == IF x = first THEN parent ELSE x - 1
    <3>2. new[x] = [parent |-> above, name |-> path[x - first + 1], sub |-> FALSE]
      BY <2>2, <1>1 DEF ChainNode
    <3> HIDE DEF above
    <3>3. path[x - first + 1] \in NameParts
      BY <2>2, <1>1
    <3> QED
      BY <3>1, <3>2, <3>3 DEF Node, above
  <2> QED
    BY <2>1, <2>2, <1>1
<1>7. new \in [DOMAIN new -> Node(new)]
  <2>1. new = [x \in DOMAIN new |-> new[x]]
    <3>1. ChainFacts(new, tree, first, parent, path)
      BY ChainKnown DEF new
    <3> QED
      BY <3>1 DEF ChainFacts
  <2> QED
    BY <1>6, <2>1
<1>8. DOMAIN new \subseteq Nat \ {NoParent}
  BY <1>1, <1>2, <1>3 DEF Nodes, NoParent
<1>9. ASSUME NEW x \in DOMAIN new, NEW y \in DOMAIN new, x # y,
             new[x].parent = new[y].parent, new[x].name = new[y].name
      PROVE  FALSE
  <2>1. CASE x \in DOMAIN tree /\ y \in DOMAIN tree
    BY <2>1, <1>9, <1>1, <1>3 DEF Nodes
  <2>2. CASE x \in ids /\ y \in ids
    <3>1. x \in Nat /\ y \in Nat /\ first \in Nat /\ x >= first /\ y >= first
      BY <2>2, <1>1, <1>2
    <3>2. /\ new[x].parent = IF x = first THEN parent ELSE x - 1
          /\ new[y].parent = IF y = first THEN parent ELSE y - 1
      BY <2>2, <1>1
    <3>3. parent < first /\ parent \in Nat
      BY <1>1, <1>2 DEF NoParent
    <3> QED
      BY <3>1, <3>2, <3>3, <1>9
  <2>3. ASSUME NEW u \in DOMAIN tree, NEW v \in ids, new[u].parent = new[v].parent, new[u].name = new[v].name
        PROVE  FALSE
    <3>1. /\ new[u] = tree[u] /\ new[v].parent = (IF v = first THEN parent ELSE v - 1)
          /\ new[v].name = path[v - first + 1]
      BY <2>3, <1>1
    <3>2. v = first
      <4>1. SUFFICES ASSUME v # first PROVE FALSE
        OBVIOUS
      <4>2. v - 1 \in ids /\ tree[u].parent = v - 1
        BY <2>3, <3>1, <4>1, <1>4
      <4>3. v - 1 \in DOMAIN tree \/ v - 1 = NoParent
        BY <4>2, <1>3
      <4> QED
        BY <4>2, <4>3, <1>1, <1>2 DEF NoParent
    <3>3. v - first + 1 = 1 /\ path # <<>>
      BY <3>2, <1>2, <1>5
    <3>4. tree[u].parent = parent /\ tree[u].name = path[1]
      BY <2>3, <3>1, <3>2, <3>3
    <3> QED
      BY <3>3, <3>4, <1>2 DEF Exists, Children
  <2> QED
    BY <2>1, <2>2, <2>3, <1>1, <1>9
<1> QED
  BY <1>7, <1>8, <1>9 DEF Nodes, new

\* The names after the creation solve the recursion of the new tree.
LEMMA ChainSolves ==
  ASSUME NEW tree, IsTree(tree), NEW a \in Accounts, NEW first, NEW parent, NEW path,
         MayChain(tree, first, parent, path)
  PROVE  Solves(a, ChainTree(tree, first, parent, path), ChainPaths(a, tree, first, parent, path))
<1> DEFINE new == ChainTree(tree, first, parent, path)
           ids == ChainIds(first, path)
           p == Paths(a, tree)
           base == ChainBase(a, tree, parent)
           w == ChainPaths(a, tree, first, parent, path)
<1>1. /\ DOMAIN new = DOMAIN tree \cup ids
      /\ \A x \in DOMAIN tree : x \notin ids /\ x < first /\ x \in Nat /\ new[x] = tree[x]
      /\ \A x \in ids : /\ x \in Nat /\ x >= first /\ x - first + 1 \in 1 .. Len(path)
                        /\ path[x - first + 1] \in NameParts
                        /\ new[x] = ChainNode(first, parent, path, x)
                        /\ new[x].parent = (IF x = first THEN parent ELSE x - 1)
                        /\ new[x].name = path[x - first + 1] /\ new[x].sub = FALSE
  <2>1. ChainFacts(new, tree, first, parent, path)
    BY ChainKnown
  <2> HIDE DEF new
  <2> QED
    BY <2>1 DEF ChainFacts
<1>2. /\ first \in Nat \ {0} /\ parent \in DOMAIN tree \cup {NoParent} /\ Len(path) \in Nat /\ path \in Names
  BY DEF MayChain, Names
<1>3. /\ DOMAIN w = DOMAIN tree \cup ids
      /\ \A x \in DOMAIN tree : w[x] = p[x]
      /\ \A x \in ids : w[x] = base \o SubSeq(path, 1, x - first + 1)
  <2>1. \A x \in ids : ~(x < first)
    BY <1>1, <1>2
  <2>2. \A x \in DOMAIN tree : x < first
    BY <1>1
  <2> HIDE DEF ids, p, base
  <2> QED
    BY <2>1, <2>2 DEF ChainPaths, ids, p, base
<1>4. base \in Names
  BY <1>2, PrefixTyped, PathFacts DEF ChainBase
<1>5. \A x \in DOMAIN tree : p[x] \in Names
  BY PathFacts
<1>6. parent # NoParent => w[parent] = base
  BY <1>2, <1>3 DEF ChainBase
<1>7. parent = NoParent => base = Prefix(a)
  BY DEF ChainBase
<1>8. NoParent \notin DOMAIN tree
  BY TreeParts
<1> HIDE DEF new, ids, p, base, w
<1>9. \A k \in 1 .. Len(path) : base \o SubSeq(path, 1, k) \in Names
  <2> TAKE k \in 1 .. Len(path)
  <2>0. k \in Nat /\ 1 <= k + 1 /\ k <= Len(path)
    BY <1>2
  <2>1. SubSeq(path, 1, k) \in Names
    BY <2>0, <1>2, Piece
  <2> QED
    BY <2>1, <1>4, Joined
<1>10. ASSUME NEW x \in DOMAIN tree
       PROVE  w[x] = Append(IF tree[x].parent = NoParent THEN Prefix(a) ELSE w[tree[x].parent], tree[x].name)
  <2>1. CASE tree[x].parent = NoParent
    BY <2>1, <1>3, PathFacts DEF p
  <2>2. CASE tree[x].parent # NoParent
    <3>1. tree[x].parent \in DOMAIN tree /\ p[x] = Append(p[tree[x].parent], tree[x].name)
      BY <2>2, PathFacts DEF p
    <3> QED
      BY <2>2, <3>1, <1>3
  <2> QED
    BY <2>1, <2>2
<1>11. ASSUME NEW x \in ids
       PROVE  w[x] = Append(IF new[x].parent = NoParent THEN Prefix(a) ELSE w[new[x].parent], new[x].name)
  <2> DEFINE k == x - first + 1
  <2>1. k \in 1 .. Len(path) /\ w[x] = base \o SubSeq(path, 1, k) /\ new[x].name = path[k] /\ path[k] \in NameParts
    BY <1>1, <1>3
  <2>2. SubSeq(path, 1, k) = Append(SubSeq(path, 1, k - 1), path[k])
    <3>1. k \in Nat /\ 1 <= k /\ k <= Len(path)
      BY <2>1, <1>2
    <3> HIDE DEF k
    <3> QED
      BY <3>1, <1>2, PieceMore
  <2>3. SubSeq(path, 1, k - 1) \in Names
    <3>1. k - 1 \in Nat /\ 1 <= (k - 1) + 1 /\ k - 1 <= Len(path)
      BY <2>1, <1>2
    <3> HIDE DEF k
    <3> QED
      BY <3>1, <1>2, Piece
  <2>4. w[x] = Append(base \o SubSeq(path, 1, k - 1), path[k])
    BY <2>1, <2>2, <2>3, <1>4, JoinedAppend
  <2>5. CASE x = first
    <3>1. k - 1 = 0 /\ new[x].parent = parent
      BY <2>5, <1>1, <1>2
    <3>2. SubSeq(path, 1, k - 1) = <<>>
      BY <3>1, <1>2 DEF Names
    <3>3. base \o SubSeq(path, 1, k - 1) = base
      <4>1. base \o <<>> = base
        BY <1>4 DEF Names
      <4> QED
        BY <3>2, <4>1
    <3> QED
      BY <2>1, <2>4, <3>1, <3>3, <1>6, <1>7
  <2>6. CASE x # first
    <3>1. x - 1 \in ids /\ (x - 1) - first + 1 = k - 1 /\ new[x].parent = x - 1
      <4>1. x \in Nat /\ x >= first /\ x <= first + Len(path) - 1
        BY <1>1, <1>2 DEF ids, ChainIds
      <4>2. x - 1 \in first .. first + Len(path) - 1
        BY <4>1, <2>6, <1>2
      <4>3. (x - 1) - first + 1 = k - 1
        BY <4>1, <1>2
      <4> QED
        BY <4>2, <4>3, <2>6, <1>1 DEF ids, ChainIds
    <3>2. w[x - 1] = base \o SubSeq(path, 1, k - 1)
      BY <3>1, <1>3
    <3>3. x - 1 # NoParent
      BY <3>1, <1>1, <1>2 DEF NoParent
    <3> QED
      BY <2>1, <2>4, <3>1, <3>2, <3>3
  <2> QED
    BY <2>5, <2>6
<1>12. Solves(a, new, w)
  <2>1. \A x \in DOMAIN new : w[x] \in Names
    BY <1>1, <1>3, <1>5, <1>9
  <2>2. \A x \in DOMAIN new :
          w[x] = Append(IF new[x].parent = NoParent THEN Prefix(a) ELSE w[new[x].parent], new[x].name)
    BY <1>1, <1>10, <1>11
  <2> QED
    BY <2>1, <2>2, <1>1, <1>3 DEF Solves
<1> QED
  BY <1>12 DEF new, w

\* The paths after mailboxes have been created.
ChainedTo(new, tree, first, parent, path) ==
  /\ IsTree(new)
  /\ \A a \in Accounts :
       /\ \A x \in DOMAIN tree : Paths(a, new)[x] = Paths(a, tree)[x]
       /\ \A k \in 1 .. Len(path) :
            /\ Paths(a, new)[first + k - 1] = ChainBase(a, tree, parent) \o SubSeq(path, 1, k)
            /\ SubSeq(path, 1, k) \in Names
       /\ ChainBase(a, tree, parent) \in Names

\* Creating a chain of mailboxes gives a tree, with the old names kept and the path's prefixes added.
LEMMA Chained ==
  ASSUME NEW tree, IsTree(tree), NEW first, NEW parent, NEW path, MayChain(tree, first, parent, path)
  PROVE  ChainedTo(ChainTree(tree, first, parent, path), tree, first, parent, path)
<1> DEFINE new == ChainTree(tree, first, parent, path)
           ids == ChainIds(first, path)
           w(b) == ChainPaths(b, tree, first, parent, path)
<1>1. DOMAIN new = DOMAIN tree \cup ids /\ \A x \in DOMAIN tree : x < first /\ x \in Nat
  <2>1. ChainFacts(new, tree, first, parent, path)
    BY ChainKnown
  <2> HIDE DEF new
  <2> QED
    BY <2>1 DEF ChainFacts
<1>2. first \in Nat /\ Len(path) \in Nat /\ path \in Names /\ parent \in DOMAIN tree \cup {NoParent}
  BY DEF MayChain, Names
<1>3. Nodes(new)
  BY ChainNodes
<1>4. \A b \in Accounts : Solves(b, new, w(b)) /\ w(b) = [x \in DOMAIN new |-> w(b)[x]]
  BY <1>1, ChainSolves DEF ChainPaths
<1>5. IsTree(new)
  <2> HIDE DEF new, w
  <2> QED
    BY <1>3, <1>4, MakesTree DEF Accounts
<1>6. \A b \in Accounts : Paths(b, new) = w(b)
  <2> HIDE DEF new, w
  <2> QED
    BY <1>3, <1>4, PathsAre
<1>7. \A b \in Accounts : \A x \in DOMAIN tree : w(b)[x] = Paths(b, tree)[x]
  BY <1>1, <1>2 DEF ChainPaths
<1>8. \A b \in Accounts, k \in 1 .. Len(path) :
        w(b)[first + k - 1] = ChainBase(b, tree, parent) \o SubSeq(path, 1, k)
  <2> TAKE b \in Accounts, k \in 1 .. Len(path)
  <2>1. first + k - 1 \in ids /\ ~(first + k - 1 < first) /\ first + k - 1 - first + 1 = k
    BY <1>2 DEF ChainIds
  <2> DEFINE y == first + k - 1
  <2>2. w(b)[y] = ChainBase(b, tree, parent) \o SubSeq(path, 1, y - first + 1)
    <3>1. y \in ids /\ ~(y < first)
      BY <2>1
    <3> HIDE DEF y
    <3> QED
      BY <3>1 DEF ChainPaths
  <2>3. y - first + 1 = k
    BY <1>2
  <2>4. w(b)[y] = ChainBase(b, tree, parent) \o SubSeq(path, 1, k)
    <3> HIDE DEF w, y
    <3> QED
      BY <2>2, <2>3
  <2> QED
    BY <2>4, Zenon
<1>9. \A k \in 1 .. Len(path) : SubSeq(path, 1, k) \in Names
  BY <1>2, Piece
<1>10. \A b \in Accounts : ChainBase(b, tree, parent) \in Names
  BY <1>2, PrefixTyped, PathFacts DEF ChainBase
<1> HIDE DEF new, w
<1> QED
  BY <1>5, <1>6, <1>7, <1>8, <1>9, <1>10 DEF ChainedTo, new

-----------------------------------------------------------------------------
(* The history of an account: the trees it had, oldest first.  Ids are given   *)
(* out in order, and what is not a change of the list leaves the tree alone.   *)

AllTrees == UNION {[D -> [parent : Nat, name : NameParts, sub : BOOLEAN]] : D \in SUBSET Nat}

Entry == {e \in [tree : AllTrees, list : BOOLEAN] : IsTree(e.tree)}

UsedIn(h) == UNION {DOMAIN h[k].tree : k \in DOMAIN h}

NextId(h) == 1 + Cardinality(UsedIn(h))

IsHistory(h) ==
  /\ h \in Seq(Entry) /\ Len(h) >= 1
  /\ NextId(h) \in Nat \ {0} /\ UsedIn(h) = 1 .. NextId(h) - 1
  /\ \A k \in 2 .. Len(h) : ~h[k].list => h[k].tree = h[k - 1].tree

\* A history that has gone on for at most one step.
Later(h, g) ==
  /\ Len(h) \in Nat \ {0} /\ Len(g) \in {Len(h), Len(h) + 1}
  /\ NextId(h) \in Nat /\ NextId(g) \in Nat /\ NextId(h) <= NextId(g)
  /\ \A k \in 1 .. Len(h) : g[k] = h[k]

\* No change of the list after one state and up to another.
Quiet(h, j, k) == \A x \in j + 1 .. k : ~h[x].list

\* A tree, with whether the list of mailboxes changed, is an entry of a history.
LEMMA EntryIs ==
  ASSUME NEW tree, IsTree(tree), NEW list \in BOOLEAN
  PROVE  [tree |-> tree, list |-> list] \in Entry
<1>1. tree \in [DOMAIN tree -> Node(tree)] /\ DOMAIN tree \in SUBSET Nat
  BY DEF IsTree
<1>2. DOMAIN tree \cup {NoParent} \subseteq Nat
  BY <1>1 DEF NoParent
<1>3. Node(tree) \subseteq [parent : Nat, name : NameParts, sub : BOOLEAN]
  BY <1>2 DEF Node
<1>4. tree \in [DOMAIN tree -> [parent : Nat, name : NameParts, sub : BOOLEAN]]
  BY <1>1, <1>3
<1>5. tree \in AllTrees
  BY <1>1, <1>4 DEF AllTrees
<1> QED
  BY <1>5 DEF Entry

\* The parts of an account's history: states from 1, a tree in each, ids given out in order.
LEMMA HistoryParts ==
  ASSUME NEW h, IsHistory(h)
  PROVE  /\ Len(h) \in Nat \ {0} /\ DOMAIN h = 1 .. Len(h) /\ NextId(h) \in Nat \ {0}
         /\ Last(h) = h[Len(h)] /\ Len(h) \in 1 .. Len(h)
         /\ \A k \in 1 .. Len(h) : /\ IsTree(h[k].tree) /\ h[k].list \in BOOLEAN
                                   /\ \A i \in DOMAIN h[k].tree : i \in 1 .. NextId(h) - 1
<1>1. Len(h) \in Nat \ {0} /\ DOMAIN h = 1 .. Len(h) /\ NextId(h) \in Nat \ {0}
  BY DEF IsHistory
<1>2. \A k \in 1 .. Len(h) : h[k] \in Entry
  BY <1>1 DEF IsHistory
<1>3. \A k \in 1 .. Len(h) : IsTree(h[k].tree) /\ h[k].list \in BOOLEAN
  BY <1>2 DEF Entry
<1>4. \A k \in 1 .. Len(h) : \A i \in DOMAIN h[k].tree : i \in 1 .. NextId(h) - 1
  BY <1>1 DEF IsHistory, UsedIn
<1> QED
  BY <1>1, <1>3, <1>4 DEF Last

\* A tree that uses ids in use, or the next ones too.
LEMMA HistoryGrows ==
  ASSUME NEW h, IsHistory(h), NEW tree, IsTree(tree), NEW list \in BOOLEAN, NEW n \in Nat,
         DOMAIN tree \subseteq 1 .. NextId(h) - 1 + n,
         \A i \in NextId(h) .. NextId(h) - 1 + n : i \in DOMAIN tree,
         ~list => tree = Last(h).tree
  PROVE  LET g == Append(h, [tree |-> tree, list |-> list]) IN
         /\ IsHistory(g) /\ Later(h, g) /\ Len(g) = Len(h) + 1 /\ g[Len(g)].tree = tree /\ g[Len(g)].list = list
         /\ Last(g).tree = tree /\ NextId(g) = NextId(h) + n
<1> DEFINE e == [tree |-> tree, list |-> list]
           g == Append(h, e)
<1>1. /\ Len(h) \in Nat \ {0} /\ DOMAIN h = 1 .. Len(h) /\ NextId(h) \in Nat \ {0}
      /\ Last(h) = h[Len(h)]
  BY HistoryParts
<1>2. e \in Entry /\ h \in Seq(Entry) /\ e.tree = tree /\ e.list = list
  BY EntryIs DEF IsHistory
<1>e. e.tree = tree /\ e.list = list
  OBVIOUS
<1> HIDE DEF e
<1>3. /\ g \in Seq(Entry) /\ Len(g) = Len(h) + 1 /\ g[Len(h) + 1] = e
      /\ \A k \in 1 .. Len(h) : g[k] = h[k]
  BY <1>1, <1>2
<1>4. DOMAIN g = 1 .. Len(h) + 1
  BY <1>1, <1>3
<1> HIDE DEF g
<1>5. UsedIn(g) = UsedIn(h) \cup DOMAIN tree
  <2>1. \A k \in 1 .. Len(h) : k \in 1 .. Len(h) + 1
    BY <1>1
  <2>2. \A k \in 1 .. Len(h) + 1 : k \in 1 .. Len(h) \/ k = Len(h) + 1
    BY <1>1
  <2>3. Len(h) + 1 \in 1 .. Len(h) + 1
    BY <1>1
  <2>4. \A i \in UsedIn(g) : i \in UsedIn(h) \cup DOMAIN tree
    BY <1>1, <1>3, <1>4, <1>e, <2>2 DEF UsedIn
  <2>5. \A i \in UsedIn(h) : i \in UsedIn(g)
    BY <1>1, <1>3, <1>4, <2>1 DEF UsedIn
  <2>6. \A i \in DOMAIN tree : i \in UsedIn(g)
    BY <1>3, <1>4, <1>e, <2>3 DEF UsedIn
  <2> QED
    BY <2>4, <2>5, <2>6
<1>6. UsedIn(h) = 1 .. NextId(h) - 1
  BY DEF IsHistory
<1>7. UsedIn(g) = 1 .. NextId(h) - 1 + n
  BY <1>1, <1>5, <1>6
<1>8. Cardinality(1 .. NextId(h) - 1 + n) = NextId(h) - 1 + n
  <2>1. NextId(h) - 1 + n \in Nat
    BY <1>1
  <2> HIDE DEF e
  <2>2. \A m \in Nat : Cardinality(1 .. m) = m
    BY FS_Interval
  <2> QED
    BY <2>1, <2>2
<1>9. NextId(g) = NextId(h) + n /\ NextId(g) \in Nat \ {0} /\ UsedIn(g) = 1 .. NextId(g) - 1
  BY <1>1, <1>7, <1>8 DEF NextId
<1>10. \A k \in 2 .. Len(g) : ~g[k].list => g[k].tree = g[k - 1].tree
  <2>1. SUFFICES ASSUME NEW k \in 2 .. Len(h) + 1, ~g[k].list PROVE g[k].tree = g[k - 1].tree
    BY <1>3
  <2>2. CASE k = Len(h) + 1
    <3>1. g[k] = e /\ k - 1 = Len(h) /\ g[k - 1] = h[Len(h)]
      BY <1>1, <1>3, <2>2
    <3> QED
      BY <1>1, <1>e, <2>1, <3>1
  <2>3. CASE k # Len(h) + 1
    <3>1. k \in 2 .. Len(h) /\ k \in 1 .. Len(h) /\ k - 1 \in 1 .. Len(h)
      BY <1>1, <2>3
    <3>2. g[k] = h[k] /\ g[k - 1] = h[k - 1]
      BY <1>3, <3>1
    <3> QED
      BY <2>1, <3>1, <3>2 DEF IsHistory
  <2> QED
    BY <2>2, <2>3
<1>11. IsHistory(g)
  BY <1>1, <1>3, <1>9, <1>10 DEF IsHistory
<1>12. Later(h, g)
  BY <1>1, <1>3, <1>9 DEF Later
<1>13. Last(g) = g[Len(g)] /\ g[Len(g)] = e
  BY <1>3 DEF Last
<1> QED
  BY <1>3, <1>9, <1>11, <1>12, <1>13, <1>e DEF g, e

\* A history is an extension of itself.
LEMMA LaterSame ==
  ASSUME NEW h, IsHistory(h) PROVE Later(h, h)
BY HistoryParts DEF Later

\* As long as the list does not change, the tree does not.
LEMMA QuietSame ==
  ASSUME NEW h, IsHistory(h), NEW j \in 1 .. Len(h), NEW k \in j .. Len(h), Quiet(h, j, k)
  PROVE  h[k].tree = h[j].tree
<1> DEFINE Bad == {x \in j .. k : h[x].tree # h[j].tree}
<1>1. Len(h) \in Nat
  BY HistoryParts
<1>2. SUFFICES ASSUME Bad # {} PROVE FALSE
  BY <1>1
<1>3. Bad \in SUBSET Nat
  BY <1>1
<1>4. PICK x \in Bad : \A y \in Bad : x <= y
  BY <1>2, <1>3, LeastNat
<1>5. x \in j + 1 .. k /\ x - 1 \in j .. k /\ x \in 2 .. Len(h) /\ x - 1 \notin Bad
  BY <1>1, <1>4
<1>6. ~h[x].list
  BY <1>5 DEF Quiet
<1>7. h[x].tree = h[x - 1].tree
  BY <1>5, <1>6 DEF IsHistory
<1> QED
  BY <1>4, <1>5, <1>7

-----------------------------------------------------------------------------
(* The list that a session has of an account.                                 *)

\* It names mailboxes, each by one name and with its data.
IsList(l) ==
  /\ DOMAIN l = {"state", "names", "data"}
  /\ DOMAIN l.names \subseteq Names
  /\ \A i \in DOMAIN l.data : DOMAIN l.data[i] = {"children", "sub"}

ListOK(a, l, h) ==
  /\ IsList(l)
  /\ l.state \in 0 .. Len(h)
  /\ \A n \in DOMAIN l.names : /\ l.names[n] \in 1 .. NextId(h) - 1 /\ l.names[n] \in DOMAIN l.data
                               /\ IsStrictPrefix(Prefix(a), n)
  /\ \A m, n \in DOMAIN l.names : l.names[m] = l.names[n] => m = n

\* It shows a tree.
Match(a, l, tree) ==
  /\ \A n \in DOMAIN l.names : l.names[n] \in DOMAIN tree /\ n = Paths(a, tree)[l.names[n]]
  /\ \A i \in DOMAIN tree : /\ Paths(a, tree)[i] \in DOMAIN l.names /\ l.names[Paths(a, tree)[i]] = i
                            /\ i \in DOMAIN l.data /\ l.data[i].sub = tree[i].sub
                            /\ Children(tree, i) # {} => l.data[i].children

\* It is right, if there is no news since its state.
Fits(a, l, h) ==
  /\ l.state > 0
  /\ Quiet(h, l.state, Len(h)) => Match(a, l, Last(h).tree)

\* A list matches a tree if it has the tree's names and no other, with the data of each mailbox.
LEMMA MatchFrom ==
  ASSUME NEW a, NEW l, NEW tree, NEW p, p = Paths(a, tree),
         \A n \in DOMAIN l.names : l.names[n] \in DOMAIN tree /\ n = p[l.names[n]],
         \A i \in DOMAIN tree : /\ p[i] \in DOMAIN l.names /\ l.names[p[i]] = i
                                /\ i \in DOMAIN l.data /\ l.data[i].sub = tree[i].sub
                                /\ Children(tree, i) # {} => l.data[i].children
  PROVE  Match(a, l, tree)
BY DEF Match

\* A list that is sound for a history is sound for any extension of it.
LEMMA ListOKLater ==
  ASSUME NEW a, NEW l, NEW h, NEW g, ListOK(a, l, h), Later(h, g) PROVE ListOK(a, l, g)
<1>1. l.state \in 0 .. Len(g)
  BY DEF ListOK, Later
<1>2. 1 .. NextId(h) - 1 \subseteq 1 .. NextId(g) - 1
  BY DEF Later
<1> QED
  BY <1>1, <1>2 DEF ListOK

\* A list that is right as long as there is no news stays so while the account goes on.
LEMMA FitsLater ==
  ASSUME NEW a, NEW l, NEW h, NEW g, IsHistory(h), IsHistory(g), Later(h, g), ListOK(a, l, h), Fits(a, l, h)
  PROVE  Fits(a, l, g)
<1>1. SUFFICES ASSUME Quiet(g, l.state, Len(g)) PROVE Match(a, l, Last(g).tree)
  BY DEF Fits
<1>2. /\ Len(h) \in Nat \ {0} /\ Len(g) \in {Len(h), Len(h) + 1} /\ l.state \in 0 .. Len(h)
      /\ \A k \in 1 .. Len(h) : g[k] = h[k]
  BY DEF Later, ListOK
<1>3. Last(g) = g[Len(g)] /\ Last(h) = h[Len(h)]
  BY HistoryParts
<1>4. Quiet(h, l.state, Len(h))
  <2>1. SUFFICES ASSUME NEW x \in l.state + 1 .. Len(h) PROVE ~h[x].list
    BY DEF Quiet
  <2>2. x \in l.state + 1 .. Len(g) /\ x \in 1 .. Len(h)
    BY <1>2
  <2> QED
    BY <1>1, <1>2, <2>2 DEF Quiet
<1>5. Match(a, l, Last(h).tree)
  BY <1>4 DEF Fits
<1>6. Last(g).tree = Last(h).tree
  <2>1. CASE Len(g) = Len(h)
    BY <1>2, <1>3, <2>1
  <2>2. CASE Len(g) = Len(h) + 1
    <3>1. Len(g) \in l.state + 1 .. Len(g) /\ Len(g) \in 2 .. Len(g) /\ Len(g) - 1 = Len(h) /\ Len(h) \in 1 .. Len(h)
      BY <1>2, <2>2
    <3>2. ~g[Len(g)].list
      BY <1>1, <3>1 DEF Quiet
    <3>3. g[Len(g)].tree = g[Len(g) - 1].tree
      BY <3>1, <3>2 DEF IsHistory
    <3> QED
      BY <1>2, <1>3, <3>1, <3>3
  <2> QED
    BY <1>2, <2>1, <2>2
<1> QED
  BY <1>5, <1>6

IsListing(a, m, tree) ==
  /\ Match(a, m, tree) /\ DOMAIN m.names \subseteq Names
  /\ DOMAIN m.data = DOMAIN tree /\ \A i \in DOMAIN tree : DOMAIN m.data[i] = {"children", "sub"}
  /\ \A n \in DOMAIN m.names : m.names[n] \in DOMAIN tree /\ n = Paths(a, tree)[m.names[n]]

\* What fetch_account_mailboxes builds from the server's answer matches the tree it was built from.
LEMMA ListingMatch ==
  ASSUME NEW a \in Accounts, NEW tree, IsTree(tree) PROVE IsListing(a, Listing(a, tree), tree)
<1> DEFINE p == Paths(a, tree)
           N == {p[i] : i \in DOMAIN p}
           f == [n \in N |-> CHOOSE i \in DOMAIN p : p[i] = n]
           d == [i \in DOMAIN tree |-> [children |-> Children(tree, i) # {}, sub |-> tree[i].sub]]
<1>1. DOMAIN p = DOMAIN tree /\ \A i \in DOMAIN tree : p[i] \in Names
  BY HasPaths DEF Solves
<1>2. Listing(a, tree) = [names |-> f, data |-> d]
  BY DEF Listing
<1>3. \A i, j \in DOMAIN p : p[i] = p[j] => i = j
  BY <1>1, DistinctPaths
<1> HIDE DEF p
<1>4. \A n \in N : f[n] \in DOMAIN p /\ p[f[n]] = n
  OBVIOUS
<1>5. \A i \in DOMAIN p : f[p[i]] = i
  BY <1>3
<1>6. DOMAIN f = N /\ N \subseteq Names
  BY <1>1
<1>7. \A i \in DOMAIN tree : d[i].sub = tree[i].sub /\ (Children(tree, i) # {} => d[i].children)
  OBVIOUS
<1>8. DOMAIN d = DOMAIN tree /\ \A i \in DOMAIN tree : DOMAIN d[i] = {"children", "sub"}
  OBVIOUS
<1> HIDE DEF f, d
<1>9. Listing(a, tree).names = f /\ Listing(a, tree).data = d
  BY <1>2
<1>10. Match(a, Listing(a, tree), tree)
  BY <1>1, <1>5, <1>6, <1>7, <1>8, <1>9 DEF Match, p
<1> QED
  BY <1>1, <1>4, <1>6, <1>8, <1>9, <1>10 DEF IsListing, p

\* What fetch_account_mailboxes makes of the server's answer.
LEMMA FetchedIs ==
  ASSUME NEW a \in Accounts, NEW h, IsHistory(h), NEW l,
         l = [state |-> Len(h), names |-> Listing(a, Last(h).tree).names, data |-> Listing(a, Last(h).tree).data]
  PROVE  ListOK(a, l, h) /\ l.state = Len(h) /\ Match(a, l, h[Len(h)].tree) /\ Fits(a, l, h)
<1> DEFINE tree == h[Len(h)].tree
           m == Listing(a, tree)
<1>1. Len(h) \in Nat \ {0} /\ Last(h) = h[Len(h)] /\ IsTree(tree) /\ \A i \in DOMAIN tree : i \in 1 .. NextId(h) - 1
  BY HistoryParts
<1> HIDE DEF tree
<1>i. IsListing(a, m, tree)
  BY <1>1, ListingMatch
<1>2. /\ Match(a, m, tree) /\ DOMAIN m.names \subseteq Names
      /\ DOMAIN m.data = DOMAIN tree /\ \A i \in DOMAIN tree : DOMAIN m.data[i] = {"children", "sub"}
      /\ \A n \in DOMAIN m.names : m.names[n] \in DOMAIN tree /\ n = Paths(a, tree)[m.names[n]]
  BY <1>i DEF IsListing
<1> HIDE DEF m
<1>3. l = [state |-> Len(h), names |-> m.names, data |-> m.data]
  BY <1>1 DEF m, tree
<1>4. l.state = Len(h) /\ l.names = m.names /\ l.data = m.data
  BY <1>3
<1>5. Match(a, l, tree)
  BY <1>2, <1>4 DEF Match
<1>6. DOMAIN l = {"state", "names", "data"}
  BY <1>3
<1>7. IsList(l)
  BY <1>2, <1>3, <1>4, <1>6 DEF IsList
<1>8. \A n \in DOMAIN l.names : /\ l.names[n] \in 1 .. NextId(h) - 1 /\ l.names[n] \in DOMAIN l.data
                                /\ IsStrictPrefix(Prefix(a), n)
  <2>1. SUFFICES ASSUME NEW n \in DOMAIN m.names
                 PROVE  m.names[n] \in 1 .. NextId(h) - 1 /\ m.names[n] \in DOMAIN tree /\ IsStrictPrefix(Prefix(a), n)
    BY <1>2, <1>4
  <2>2. m.names[n] \in DOMAIN tree /\ n = Paths(a, tree)[m.names[n]]
    BY <1>2
  <2>3. IsStrictPrefix(Prefix(a), Paths(a, tree)[m.names[n]])
    BY <1>1, <2>2, PathFacts
  <2> QED
    BY <1>1, <2>2, <2>3
<1>9. \A x, n \in DOMAIN l.names : l.names[x] = l.names[n] => x = n
  BY <1>2, <1>4
<1>10. ListOK(a, l, h)
  BY <1>1, <1>4, <1>7, <1>8, <1>9, SMTT(60) DEF ListOK
<1>11. Fits(a, l, h)
  BY <1>1, <1>4, <1>5 DEF Fits, tree
<1> QED
  BY <1>4, <1>5, <1>10, <1>11 DEF tree

\* What is known of a name in a list that shows a tree.
LEMMA MatchName ==
  ASSUME NEW a \in Accounts, NEW l, NEW tree, Match(a, l, tree), NEW n \in DOMAIN l.names
  PROVE  l.names[n] \in DOMAIN tree /\ n = Paths(a, tree)[l.names[n]]
BY DEF Match

\* Two lists that show a tree select the same names of it.
LEMMA SameSelected ==
  ASSUME NEW a \in Accounts, NEW l, NEW m, NEW tree, Match(a, l, tree), Match(a, m, tree), NEW cmd,
         NEW n \in DOMAIN l.names
  PROVE  n \in DOMAIN m.names /\ (Selected(l, n, cmd) => Selected(m, n, cmd))
<1>1. DOMAIN l.names = DOMAIN m.names
  <2>1. \A k \in DOMAIN l.names : k \in DOMAIN m.names
    BY DEF Match
  <2>2. \A k \in DOMAIN m.names : k \in DOMAIN l.names
    BY DEF Match
  <2> QED
    BY <2>1, <2>2
<1>2. \A k \in DOMAIN l.names : l.data[l.names[k]].sub = m.data[m.names[k]].sub
  BY SMTT(60) DEF Match
<1> QED
  BY <1>1, <1>2 DEF Selected

\* LIST shows the tree that the list shows, and no mailbox without its children.
LEMMA ListedRight ==
  ASSUME NEW a \in Accounts, NEW l, NEW tree, IsTree(tree), Match(a, l, tree), NEW cmd
  PROVE  /\ {x[1] : x \in Listed(l, cmd)} = Expected(a, tree, cmd)
         /\ \A x, y \in Listed(l, cmd) : IsStrictPrefix(x[1], y[1]) => x[2]
<1> DEFINE m == Listing(a, tree)
<1>1. Match(a, m, tree)
  BY ListingMatch DEF IsListing
<1> HIDE DEF m
<1> DEFINE N(k) == {n \in DOMAIN k.names : Selected(k, n, cmd)}
<1>2. N(l) \subseteq N(m) /\ N(m) \subseteq N(l)
  BY <1>1, SameSelected
<1>3. ASSUME NEW k PROVE {x[1] : x \in Listed(k, cmd)} = N(k)
  <2>1. \A n \in N(k) : <<n, k.data[k.names[n]].children>> \in Listed(k, cmd)
    BY DEF Listed
  <2>2. \A x \in Listed(k, cmd) : x[1] \in N(k)
    BY DEF Listed
  <2>3. \A n \in N(k) : <<n, k.data[k.names[n]].children>>[1] = n
    OBVIOUS
  <2> QED
    BY <2>1, <2>2, <2>3
<1>4. Expected(a, tree, cmd) = N(m)
  BY <1>3 DEF Expected, m
<1>5. ASSUME NEW x \in Listed(l, cmd), NEW y \in Listed(l, cmd), IsStrictPrefix(x[1], y[1]) PROVE x[2]
  <2>1. PICK n \in DOMAIN l.names : x = <<n, l.data[l.names[n]].children>>
    BY DEF Listed
  <2>2. PICK k \in DOMAIN l.names : y = <<k, l.data[l.names[k]].children>>
    BY DEF Listed
  <2>3. /\ l.names[n] \in DOMAIN tree /\ n = Paths(a, tree)[l.names[n]]
        /\ l.names[k] \in DOMAIN tree /\ k = Paths(a, tree)[l.names[k]]
    BY MatchName
  <2>4. IsPrefix(n, k) /\ n # k
    BY <1>5, <2>1, <2>2 DEF IsStrictPrefix
  <2>5. Children(tree, l.names[n]) # {}
    BY <2>3, <2>4, HasChild
  <2>6. l.data[l.names[n]].children
    BY <2>3, <2>5 DEF Match
  <2> QED
    BY <2>1, <2>6
<1> QED
  BY <1>2, <1>3, <1>4, <1>5

-----------------------------------------------------------------------------
(* add_created_mailboxes.                                                     *)

AddBase(p) == IF p.above # <<>> THEN p.above ELSE Prefix(p.account)

NewNames(base, path) == {base \o SubSeq(path, 1, k) : k \in 1 .. Len(path)}

\* The new names come before the old ones, each with its id, and the parent of the first
\* has children now.
Added(m, l, base, path, first, parent, updated, new) ==
  /\ IsList(m) /\ m.state = new
  /\ DOMAIN m.names = NewNames(base, path) \cup DOMAIN l.names
  /\ \A k \in 1 .. Len(path) : m.names[base \o SubSeq(path, 1, k)] = first + k - 1
  /\ \A n \in DOMAIN l.names \ NewNames(base, path) : m.names[n] = l.names[n]
  /\ DOMAIN m.data = ChainIds(first, path) \cup DOMAIN l.data
  /\ \A i \in ChainIds(first, path) :
       /\ m.data[i].sub = FALSE
       /\ i # first + Len(path) - 1 \/ updated => m.data[i].children
  /\ \A i \in DOMAIN l.data \ ChainIds(first, path) :
       /\ m.data[i].sub = l.data[i].sub
       /\ m.data[i].children = (IF i = parent THEN TRUE ELSE l.data[i].children)

\* A map that is one function where it is defined and another elsewhere.
LEMMA OverIs ==
  ASSUME NEW f, NEW g
  PROVE  /\ DOMAIN Over(f, g) = DOMAIN f \cup DOMAIN g
         /\ \A x \in DOMAIN f : Over(f, g)[x] = f[x]
         /\ \A x \in DOMAIN g \ DOMAIN f : Over(f, g)[x] = g[x]
BY DEF Over

\* Names that begin alike and go on with the first parts of a path differ in length.
LEMMA NewNameLength ==
  ASSUME NEW base \in Names, NEW path \in Names, NEW k \in 1 .. Len(path)
  PROVE  /\ base \o SubSeq(path, 1, k) \in Names
         /\ Len(base \o SubSeq(path, 1, k)) = Len(base) + k /\ Len(base) \in Nat
<1>1. Len(path) \in Nat /\ Len(base) \in Nat
  BY DEF Names
<1>2. SubSeq(path, 1, k) \in Names /\ Len(SubSeq(path, 1, k)) = k
  <2>1. k \in Nat /\ 1 <= k + 1 /\ k <= Len(path)
    BY <1>1
  <2> QED
    BY <2>1, Piece
<1> QED
  BY <1>1, <1>2, Joined

\* What add_created_mailboxes adds to a list.
LEMMA AddedIs ==
  ASSUME NEW l, IsList(l), NEW p, AddBase(p) \in Names, p.path \in Names, p.path # <<>>, NEW first \in Nat \ {0},
         NEW ids, ids = [k \in DOMAIN p.path |-> first + k - 1], NEW updated, NEW new
  PROVE  Added(AddCreated(l, p, ids, updated, new), l, AddBase(p), p.path, first, p.parent, updated, new)
<1> DEFINE base == AddBase(p)
           path == p.path
           f == [n \in {base \o SubSeq(path, 1, k) : k \in DOMAIN ids} |-> ids[Len(n) - Len(base)]]
           d == IF p.parent \in DOMAIN l.data THEN [l.data EXCEPT ![p.parent].children = TRUE] ELSE l.data
           e == [i \in Range(ids) |-> [children |-> i # Last(ids) \/ updated, sub |-> FALSE]]
           m == AddCreated(l, p, ids, updated, new)
<1>1. m = [state |-> new, names |-> Over(f, l.names), data |-> Over(e, d)]
  BY DEF AddCreated, AddBase
<1> HIDE DEF m
<1>2. m.state = new /\ m.names = Over(f, l.names) /\ m.data = Over(e, d)
  BY <1>1
<1> HIDE DEF base, path
<1>3. base \in Names /\ path \in Names /\ Len(path) \in Nat \ {0} /\ DOMAIN path = 1 .. Len(path)
  BY DEF base, path, Names
<1>4. DOMAIN ids = 1 .. Len(path) /\ \A k \in 1 .. Len(path) : ids[k] = first + k - 1
  BY <1>3 DEF path
<1>5. Range(ids) = ChainIds(first, path)
  <2>1. \A x : x \in Range(ids) <=> \E k \in DOMAIN ids : ids[k] = x
    BY DEF Range
  <2>2. \A i \in ChainIds(first, path) : i - first + 1 \in 1 .. Len(path) /\ ids[i - first + 1] = i
    BY <1>3, <1>4 DEF ChainIds
  <2>3. \A k \in 1 .. Len(path) : ids[k] \in ChainIds(first, path)
    BY <1>3, <1>4 DEF ChainIds
  <2> QED
    <3>1. ASSUME NEW x \in Range(ids) PROVE x \in ChainIds(first, path)
      <4>1. PICK k \in DOMAIN ids : ids[k] = x
        BY <2>1
      <4> QED
        BY <1>4, <2>3, <4>1
    <3>2. \A x \in ChainIds(first, path) : x \in Range(ids)
      BY <1>4, <2>1, <2>2
    <3> QED
      BY <3>1, <3>2
<1>6. Last(ids) = first + Len(path) - 1
  <2>1. Len(ids) = Len(path)
    BY <1>3, <1>4
  <2> QED
    BY <1>3, <1>4, <2>1 DEF Last
<1>7. DOMAIN f = NewNames(base, path)
  BY <1>4 DEF NewNames
<1>8. \A k \in 1 .. Len(path) : base \o SubSeq(path, 1, k) \in NewNames(base, path)
  BY DEF NewNames
<1>9. \A k \in 1 .. Len(path) : f[base \o SubSeq(path, 1, k)] = first + k - 1
  <2>1. SUFFICES ASSUME NEW k \in 1 .. Len(path) PROVE f[base \o SubSeq(path, 1, k)] = first + k - 1
    OBVIOUS
  <2>2. Len(base \o SubSeq(path, 1, k)) = Len(base) + k /\ Len(base) \in Nat
    BY <1>3, NewNameLength
  <2>3. Len(base \o SubSeq(path, 1, k)) - Len(base) = k
    BY <1>3, <2>2
  <2>4. f[base \o SubSeq(path, 1, k)] = ids[Len(base \o SubSeq(path, 1, k)) - Len(base)]
    BY <1>7, <1>8
  <2> QED
    BY <1>4, <2>3, <2>4
<1>10. NewNames(base, path) \subseteq Names
  BY <1>3, NewNameLength DEF NewNames
<1>11. DOMAIN e = ChainIds(first, path)
  BY <1>5
<1>12. \A i \in ChainIds(first, path) :
         /\ e[i].sub = FALSE /\ DOMAIN e[i] = {"children", "sub"}
         /\ i # first + Len(path) - 1 \/ updated => e[i].children
  BY <1>5, <1>6
<1>13. \A i \in DOMAIN l.data : DOMAIN l.data[i] = {"children", "sub"}
  BY DEF IsList
<1>14. /\ DOMAIN d = DOMAIN l.data
       /\ \A i \in DOMAIN l.data : /\ DOMAIN d[i] = {"children", "sub"} /\ d[i].sub = l.data[i].sub
                                   /\ d[i].children = (IF i = p.parent THEN TRUE ELSE l.data[i].children)
  <2>1. CASE p.parent \in DOMAIN l.data
    BY <1>13, <2>1
  <2>2. CASE p.parent \notin DOMAIN l.data
    BY <1>13, <2>2
  <2> QED
    BY <2>1, <2>2
<1> HIDE DEF f, d, e
<1>15. /\ DOMAIN m.names = NewNames(base, path) \cup DOMAIN l.names
       /\ \A k \in 1 .. Len(path) : m.names[base \o SubSeq(path, 1, k)] = first + k - 1
       /\ \A n \in DOMAIN l.names \ NewNames(base, path) : m.names[n] = l.names[n]
  <2>1. /\ DOMAIN Over(f, l.names) = DOMAIN f \cup DOMAIN l.names
        /\ \A x \in DOMAIN f : Over(f, l.names)[x] = f[x]
        /\ \A x \in DOMAIN l.names \ DOMAIN f : Over(f, l.names)[x] = l.names[x]
    BY OverIs
  <2> QED
    BY <1>2, <1>7, <1>8, <1>9, <2>1
<1>16. /\ DOMAIN m.data = ChainIds(first, path) \cup DOMAIN l.data
       /\ \A i \in ChainIds(first, path) : m.data[i] = e[i]
       /\ \A i \in DOMAIN l.data \ ChainIds(first, path) : m.data[i] = d[i]
  <2>1. /\ DOMAIN Over(e, d) = DOMAIN e \cup DOMAIN d
        /\ \A x \in DOMAIN e : Over(e, d)[x] = e[x]
        /\ \A x \in DOMAIN d \ DOMAIN e : Over(e, d)[x] = d[x]
    BY OverIs
  <2> QED
    BY <1>2, <1>11, <1>14, <2>1
<1>17. IsList(m)
  <2>1. \A i \in DOMAIN m.data : DOMAIN m.data[i] = {"children", "sub"}
    BY <1>12, <1>14, <1>16, ZenonT(60)
  <2>2. DOMAIN m.names \subseteq Names
    BY <1>10, <1>15 DEF IsList
  <2>3. DOMAIN m = {"state", "names", "data"}
    BY <1>1
  <2> QED
    BY <2>1, <2>2, <2>3 DEF IsList
<1>18. \A i \in ChainIds(first, path) :
         m.data[i].sub = FALSE /\ (i # first + Len(path) - 1 \/ updated => m.data[i].children)
  BY <1>12, <1>16
<1>19. \A i \in DOMAIN l.data \ ChainIds(first, path) :
         m.data[i].sub = l.data[i].sub /\ m.data[i].children = (IF i = p.parent THEN TRUE ELSE l.data[i].children)
  BY <1>14, <1>16
<1>20. Added(m, l, base, path, first, p.parent, updated, new)
  BY <1>2, <1>15, <1>16, <1>17, <1>18, <1>19 DEF Added
<1> QED
  BY <1>20 DEF base, path, m

\* If the list showed the tree, it shows it with the new mailboxes.
LEMMA AddedMatch ==
  ASSUME NEW a \in Accounts, NEW m, NEW l, NEW tree, IsTree(tree), Match(a, l, tree), NEW first, NEW parent, NEW path,
         MayChain(tree, first, parent, path), path # <<>>, NEW base, base = ChainBase(a, tree, parent), NEW updated, NEW new,
         Added(m, l, base, path, first, parent, updated, new)
  PROVE  Match(a, m, ChainTree(tree, first, parent, path))
<1> DEFINE t == ChainTree(tree, first, parent, path)
           p == Paths(a, tree)
           q == Paths(a, t)
           c == ChainIds(first, path)
<1>1. /\ first \in Nat /\ first > 0 /\ Len(path) \in Nat
  BY ChainParts
<1>2. ChainFacts(t, tree, first, parent, path)
  BY ChainKnown
<1>3. /\ IsTree(t) /\ \A x \in DOMAIN tree : q[x] = p[x]
      /\ \A k \in 1 .. Len(path) : q[first + k - 1] = base \o SubSeq(path, 1, k)
  <2>1. ChainedTo(t, tree, first, parent, path)
    BY Chained
  <2> HIDE DEF t
  <2> QED
    BY <2>1 DEF ChainedTo
<1>4. \A i, j \in DOMAIN t : q[i] = q[j] => i = j
  BY <1>3, DistinctPaths
<1> HIDE DEF t, p, q
<1>5. /\ DOMAIN t = DOMAIN tree \cup c
      /\ \A x \in DOMAIN tree : x \notin c /\ x < first /\ x \in Nat /\ t[x] = tree[x]
      /\ \A x \in c : /\ x \in Nat /\ x >= first /\ x - first + 1 \in 1 .. Len(path)
                      /\ t[x].parent = (IF x = first THEN parent ELSE x - 1) /\ t[x].sub = FALSE
  BY <1>2 DEF ChainFacts
<1>6. \A x \in c : /\ q[x] = base \o SubSeq(path, 1, x - first + 1) /\ q[x] \in NewNames(base, path)
                   /\ m.names[q[x]] = x
  <2>1. SUFFICES ASSUME NEW x \in c
                 PROVE  /\ q[x] = base \o SubSeq(path, 1, x - first + 1) /\ q[x] \in NewNames(base, path)
                        /\ m.names[q[x]] = x
    OBVIOUS
  <2>2. PICK k \in 1 .. Len(path) : k = x - first + 1
    BY <1>5
  <2>3. x = first + k - 1 /\ x \in Nat
    BY <1>1, <1>5, <2>2
  <2>4. q[x] = base \o SubSeq(path, 1, k)
    BY <1>3, <2>3
  <2> QED
    BY <2>2, <2>3, <2>4, ZenonT(60) DEF NewNames, Added
<1>7. \A k \in 1 .. Len(path) : first + k - 1 \in c
  BY <1>1 DEF ChainIds
<1>8. NewNames(base, path) = {q[x] : x \in c}
  <2>1. \A n \in NewNames(base, path) : \E x \in c : n = q[x]
    BY <1>3, <1>7 DEF NewNames
  <2> QED
    BY <1>6, <2>1
<1>9. DOMAIN l.names = {p[i] : i \in DOMAIN tree}
  BY DEF Match, p
<1>10. DOMAIN m.names = {q[i] : i \in DOMAIN t}
  <2>1. DOMAIN m.names = NewNames(base, path) \cup DOMAIN l.names
    BY DEF Added
  <2> QED
    BY <1>3, <1>5, <1>8, <1>9, <2>1, ZenonT(60)
<1>11. ASSUME NEW i \in DOMAIN tree
       PROVE  /\ m.names[q[i]] = i /\ i \in DOMAIN m.data /\ m.data[i].sub = t[i].sub
              /\ Children(t, i) # {} => m.data[i].children
  <2>1. q[i] = p[i] /\ l.names[p[i]] = i /\ p[i] \in DOMAIN l.names
    BY <1>3 DEF Match, p
  <2>2. q[i] \notin NewNames(base, path)
    BY <1>4, <1>5, <1>8
  <2>3. m.names[q[i]] = i
    BY <2>1, <2>2 DEF Added
  <2>4. i \in DOMAIN l.data /\ i \notin c /\ l.data[i].sub = tree[i].sub /\ (Children(tree, i) # {} => l.data[i].children)
    BY <1>5 DEF Match
  <2>5. /\ i \in DOMAIN m.data /\ m.data[i].sub = l.data[i].sub
        /\ m.data[i].children = (IF i = parent THEN TRUE ELSE l.data[i].children)
    BY <2>4 DEF Added
  <2>6. ASSUME NEW j \in Children(t, i), i # parent PROVE Children(tree, i) # {}
    <3>1. j \in DOMAIN t /\ t[j].parent = i
      BY <2>6 DEF Children
    <3>2. CASE j \in DOMAIN tree
      BY <1>5, <3>1, <3>2 DEF Children
    <3>3. CASE j \in c
      <4>1. i = (IF j = first THEN parent ELSE j - 1) /\ j >= first /\ j \in Nat /\ i < first /\ i \in Nat
        BY <1>5, <3>1, <3>3
      <4> QED
        BY <1>1, <2>6, <4>1
    <3> QED
      BY <1>5, <3>1, <3>2, <3>3
  <2>7. t[i] = tree[i]
    BY <1>5
  <2> QED
    BY <2>3, <2>4, <2>5, <2>6, <2>7
<1>12. ASSUME NEW i \in c
       PROVE  /\ m.names[q[i]] = i /\ i \in DOMAIN m.data /\ m.data[i].sub = t[i].sub
              /\ Children(t, i) # {} => m.data[i].children
  <2>1. i \in DOMAIN m.data /\ m.data[i].sub = FALSE /\ (i # first + Len(path) - 1 => m.data[i].children)
    BY DEF Added
  <2>2. ASSUME NEW j \in Children(t, i) PROVE i # first + Len(path) - 1
    <3>1. j \in DOMAIN t /\ t[j].parent = i
      BY <2>2 DEF Children
    <3>2. CASE j \in DOMAIN tree
      <4>1. t[j] = tree[j] /\ tree[j].parent \in DOMAIN tree \cup {NoParent}
        BY <1>5, <3>2, TreeParts
      <4>2. i < first
        BY <1>1, <1>5, <3>1, <4>1 DEF NoParent
      <4> QED
        BY <1>1, <1>5, <4>2
    <3>3. CASE j \in c
      <4>1. i = (IF j = first THEN parent ELSE j - 1) /\ j >= first /\ j \in Nat /\ j - first + 1 \in 1 .. Len(path)
        BY <1>5, <3>1, <3>3
      <4>2. parent \in DOMAIN tree \cup {NoParent}
        BY DEF MayChain
      <4>3. j # first
        <5>1. parent \notin c
          BY <1>1, <1>5, <4>2 DEF NoParent
        <5> QED
          BY <4>1, <5>1
      <4> QED
        BY <1>1, <4>1, <4>3
    <3> QED
      BY <1>5, <3>1, <3>2, <3>3
  <2>3. m.names[q[i]] = i /\ t[i].sub = FALSE
    BY <1>5, <1>6
  <2> QED
    BY <2>1, <2>2, <2>3
<1>13. Match(a, m, t)
  <2>1. \A n \in DOMAIN m.names : m.names[n] \in DOMAIN t /\ n = q[m.names[n]]
    BY <1>5, <1>10, <1>11, <1>12
  <2>2. \A i \in DOMAIN t :
          /\ q[i] \in DOMAIN m.names /\ m.names[q[i]] = i
          /\ i \in DOMAIN m.data /\ m.data[i].sub = t[i].sub
          /\ Children(t, i) # {} => m.data[i].children
    BY <1>5, <1>10, <1>11, <1>12
  <2>3. q = Paths(a, t)
    BY DEF q
  <2> QED
    BY <2>1, <2>2, <2>3, MatchFrom
<1> QED
  BY <1>13 DEF t

\* The names are still unique, and of mailboxes that have been created.
LEMMA AddedOK ==
  ASSUME NEW a \in Accounts, NEW m, NEW l, NEW h, ListOK(a, l, h), NextId(h) \in Nat, NEW first \in Nat \ {0}, NEW path \in Names,
         NEW base \in Names, base = Prefix(a) \/ IsStrictPrefix(Prefix(a), base),
         first + Len(path) <= NextId(h), \A n \in DOMAIN l.names : l.names[n] < first,
         NEW parent, NEW updated, NEW new \in 0 .. Len(h),
         Added(m, l, base, path, first, parent, updated, new)
  PROVE  ListOK(a, m, h)
<1>1. Len(path) \in Nat
  BY DEF Names
<1>2. IsList(m) /\ m.state \in 0 .. Len(h)
  BY DEF Added
<1> DEFINE name(k) == base \o SubSeq(path, 1, k)
<1>3. ASSUME NEW k \in 1 .. Len(path)
      PROVE  /\ m.names[name(k)] = first + k - 1 /\ first + k - 1 \in 1 .. NextId(h) - 1
             /\ first + k - 1 \in DOMAIN m.data /\ IsStrictPrefix(Prefix(a), name(k))
  <2>1. m.names[name(k)] = first + k - 1 /\ DOMAIN m.data = ChainIds(first, path) \cup DOMAIN l.data
    BY DEF Added
  <2>2. first + k - 1 \in 1 .. NextId(h) - 1 /\ first + k - 1 \in ChainIds(first, path)
    BY <1>1 DEF ChainIds
  <2>3. Prefix(a) \in Names /\ Len(Prefix(a)) \in Nat
    BY PrefixTyped
  <2>4. /\ name(k) \in Names /\ Len(name(k)) = Len(base) + k /\ Len(base) \in Nat
        /\ \A x \in 1 .. Len(base) : name(k)[x] = base[x]
    <3>1. k \in Nat /\ 1 <= k + 1 /\ k <= Len(path)
      BY <1>1
    <3>2. SubSeq(path, 1, k) \in Names
      BY <3>1, Piece
    <3> QED
      BY <3>2, NewNameLength, Joined
  <2>5. IsPrefix(Prefix(a), base)
    <3>1. IsPrefix(Prefix(a), Prefix(a))
      BY <2>3, PrefixParts
    <3> QED
      BY <3>1 DEF IsStrictPrefix
  <2>6. Len(Prefix(a)) <= Len(base) /\ \A x \in 1 .. Len(Prefix(a)) : Prefix(a)[x] = base[x]
    BY <2>3, <2>5, PrefixParts
  <2> HIDE DEF name
  <2>7. IsPrefix(Prefix(a), name(k))
    <3>1. \A x \in 1 .. Len(Prefix(a)) : x \in 1 .. Len(base)
      BY <2>3, <2>4, <2>6
    <3>2. Len(Prefix(a)) <= Len(name(k))
      BY <2>3, <2>4, <2>6, <1>1
    <3> QED
      BY <2>3, <2>4, <2>6, <3>1, <3>2, PrefixParts
  <2>8. Prefix(a) # name(k)
    BY <2>3, <2>4, <2>6, <1>1
  <2> QED
    BY <2>1, <2>2, <2>7, <2>8 DEF IsStrictPrefix, name
<1>4. ASSUME NEW n \in DOMAIN l.names \ NewNames(base, path)
      PROVE  /\ m.names[n] = l.names[n] /\ m.names[n] \in 1 .. NextId(h) - 1 /\ m.names[n] \in DOMAIN m.data
             /\ IsStrictPrefix(Prefix(a), n) /\ m.names[n] < first
  BY <1>4 DEF ListOK, Added
<1>5. \A n \in DOMAIN m.names : n \in DOMAIN l.names \ NewNames(base, path) \/ \E k \in 1 .. Len(path) : n = name(k)
  BY DEF Added, NewNames
<1> HIDE DEF name
<1>6. \A n \in DOMAIN m.names : /\ m.names[n] \in 1 .. NextId(h) - 1 /\ m.names[n] \in DOMAIN m.data
                                /\ IsStrictPrefix(Prefix(a), n)
  BY <1>3, <1>4, <1>5
<1>7. \A x, n \in DOMAIN m.names : m.names[x] = m.names[n] => x = n
  <2>1. SUFFICES ASSUME NEW x \in DOMAIN m.names, NEW n \in DOMAIN m.names, m.names[x] = m.names[n] PROVE x = n
    OBVIOUS
  <2>2. CASE x \in DOMAIN l.names \ NewNames(base, path) /\ n \in DOMAIN l.names \ NewNames(base, path)
    BY <1>4, <2>1, <2>2 DEF ListOK
  <2>3. CASE x \in DOMAIN l.names \ NewNames(base, path) /\ \E k \in 1 .. Len(path) : n = name(k)
    <3>1. PICK k \in 1 .. Len(path) : n = name(k)
      BY <2>3
    <3>2. m.names[x] < first /\ m.names[n] = first + k - 1
      BY <1>3, <1>4, <2>3, <3>1
    <3> QED
      BY <1>1, <2>1, <3>2
  <2>4. CASE (\E k \in 1 .. Len(path) : x = name(k)) /\ n \in DOMAIN l.names \ NewNames(base, path)
    <3>1. PICK k \in 1 .. Len(path) : x = name(k)
      BY <2>4
    <3>2. m.names[n] < first /\ m.names[x] = first + k - 1
      BY <1>3, <1>4, <2>4, <3>1
    <3> QED
      BY <1>1, <2>1, <3>2
  <2>5. CASE (\E k \in 1 .. Len(path) : x = name(k)) /\ \E k \in 1 .. Len(path) : n = name(k)
    <3>1. PICK j \in 1 .. Len(path) : x = name(j)
      BY <2>5
    <3>2. PICK k \in 1 .. Len(path) : n = name(k)
      BY <2>5
    <3>3. m.names[x] = first + j - 1 /\ m.names[n] = first + k - 1
      BY <1>3, <3>1, <3>2
    <3>4. j = k
      <4>1. first + j - 1 = first + k - 1
        BY <2>1, <3>3
      <4> QED
        BY <1>1, <4>1
    <3> QED
      BY <3>1, <3>2, <3>4
  <2> QED
    BY <1>5, <2>2, <2>3, <2>4, <2>5
<1> QED
  BY <1>2, <1>6, <1>7 DEF ListOK

-----------------------------------------------------------------------------
(* rename_mailbox: the names and the data.                                    *)

\* A name is its front and its last part.
LEMMA FrontLast ==
  ASSUME NEW s \in Names, s # <<>>
  PROVE  /\ Front(s) \in Names /\ Len(Front(s)) = Len(s) - 1 /\ Last(s) \in NameParts /\ Len(s) \in Nat \ {0}
         /\ s = Append(Front(s), Last(s)) /\ Front(s) = SubSeq(s, 1, Len(s) - 1)
<1>1. Len(s) \in Nat \ {0}
  BY DEF Names
<1>2. Front(s) = SubSeq(s, 1, Len(s) - 1) /\ Last(s) = s[Len(s)]
  BY DEF Front, Last
<1>3. Len(s) - 1 \in Nat /\ 1 <= Len(s) - 1 + 1 /\ Len(s) - 1 <= Len(s) /\ 1 <= Len(s) /\ 1 \in Nat /\ 1 <= 1 /\ Len(s) <= Len(s)
  BY <1>1
<1>4. SubSeq(s, 1, Len(s) - 1) \in Names /\ Len(SubSeq(s, 1, Len(s) - 1)) = Len(s) - 1 - 1 + 1
  <2> DEFINE k == Len(s) - 1
  <2>1. k \in Nat /\ 1 <= k + 1 /\ k <= Len(s) /\ 1 \in Nat /\ 1 <= 1
    BY <1>3
  <2> HIDE DEF k
  <2>2. SubSeq(s, 1, k) \in Names /\ Len(SubSeq(s, 1, k)) = k - 1 + 1
    BY <2>1, Piece
  <2> QED
    BY <2>2 DEF k
<1>5. SubSeq(s, 1, Len(s)) = Append(SubSeq(s, 1, Len(s) - 1), s[Len(s)]) /\ s[Len(s)] \in NameParts
  <2> DEFINE k == Len(s)
  <2>1. k \in Nat /\ 1 <= k /\ k <= Len(s) /\ 1 \in Nat /\ 1 <= 1
    BY <1>1, <1>3
  <2> HIDE DEF k
  <2>2. SubSeq(s, 1, k) = Append(SubSeq(s, 1, k - 1), s[k]) /\ s[k] \in NameParts
    BY <2>1, PieceMore
  <2> QED
    BY <2>2 DEF k
<1>6. SubSeq(s, 1, Len(s)) = s
  <2>1. /\ SubSeq(s, 1, Len(s)) \in Names /\ Len(SubSeq(s, 1, Len(s))) = Len(s) - 1 + 1
        /\ \A x \in 1 .. Len(s) - 1 + 1 : SubSeq(s, 1, Len(s))[x] = s[1 + x - 1]
    BY <1>1, <1>3, Piece
  <2>2. Len(s) - 1 + 1 = Len(s) /\ \A x \in 1 .. Len(s) : 1 + x - 1 = x
    BY <1>1
  <2>3. Len(SubSeq(s, 1, Len(s))) = Len(s) /\ \A x \in 1 .. Len(s) : SubSeq(s, 1, Len(s))[x] = s[x]
    BY <2>1, <2>2
  <2> QED
    BY <2>1, <2>3, SameSequence
<1>7. Len(s) - 1 - 1 + 1 = Len(s) - 1
  BY <1>1
<1> QED
  BY <1>1, <1>2, <1>4, <1>5, <1>6, <1>7

\* The front and the last part of a name with one part appended.
LEMMA FrontAppend ==
  ASSUME NEW s \in Names, NEW e \in NameParts
  PROVE  Append(s, e) # <<>> /\ Front(Append(s, e)) = s /\ Last(Append(s, e)) = e
<1>1. Append(s, e) \in Names /\ Len(Append(s, e)) = Len(s) + 1 /\ Len(s) \in Nat
  BY Longer
<1>2. Append(s, e) # <<>>
  BY <1>1
<1> DEFINE t == Append(s, e)
<1>3. Front(t) \in Names /\ Last(t) \in NameParts /\ t = Append(Front(t), Last(t))
  BY <1>1, <1>2, FrontLast
<1>4. Append(Front(t), Last(t)) = Append(s, e)
  BY <1>3
<1>5. Front(t) = s /\ Last(t) = e
  <2> HIDE DEF t
  <2> QED
    BY <1>3, <1>4, AppendSame
<1> QED
  BY <1>2, <1>5

\* A name below a name that is below another is below the other.
LEMMA PrefixTrans ==
  ASSUME NEW r \in Names, NEW s \in Names, NEW t \in Names, IsStrictPrefix(r, s), IsPrefix(s, t)
  PROVE  IsStrictPrefix(r, t)
<1>1. Len(r) \in Nat /\ Len(s) \in Nat /\ Len(t) \in Nat
  BY DEF Names
<1>2. IsPrefix(r, s) /\ r # s
  BY DEF IsStrictPrefix
<1>3. Len(r) <= Len(s) /\ \A x \in 1 .. Len(r) : r[x] = s[x]
  BY <1>2, PrefixParts
<1>4. Len(s) <= Len(t) /\ \A x \in 1 .. Len(s) : s[x] = t[x]
  BY PrefixParts
<1>5. Len(r) # Len(s)
  BY <1>2, <1>3, SameSequence
<1>6. Len(r) <= Len(t) /\ \A x \in 1 .. Len(r) : r[x] = t[x]
  BY <1>1, <1>3, <1>4
<1>7. IsPrefix(r, t)
  BY <1>6, PrefixParts
<1>8. r # t
  BY <1>1, <1>3, <1>4, <1>5
<1> QED
  BY <1>7, <1>8 DEF IsStrictPrefix

\* Each name but the old one is there under its new form, before them the new one.
NamesRenamed(N, l, from, to, id) ==
  /\ DOMAIN N = {to} \cup {Renamed(k, from, to) : k \in DOMAIN l.names \ {from}} /\ N[to] = id
  /\ \A n \in DOMAIN N \ {to} : \E k \in DOMAIN l.names \ {from} : n = Renamed(k, from, to) /\ N[n] = l.names[k]

\* What rename_folder leaves in the names of a list.
LEMMA RenameNamesAre ==
  ASSUME NEW l, NEW from, NEW to, NEW id PROVE NamesRenamed(RenameNames(l, from, to, id), l, from, to, id)
<1> DEFINE K == DOMAIN l.names \ {from}
           f == [n \in {to} |-> id]
           g == [n \in {Renamed(k, from, to) : k \in K} |-> l.names[CHOOSE k \in K : Renamed(k, from, to) = n]]
           m == RenameNames(l, from, to, id)
<1>1. m = Over(f, g)
  BY DEF RenameNames
<1>2. DOMAIN f = {to} /\ f[to] = id /\ DOMAIN g = {Renamed(k, from, to) : k \in K}
  OBVIOUS
<1>3. \A n \in DOMAIN g : \E k \in K : n = Renamed(k, from, to) /\ g[n] = l.names[k]
  <2>1. SUFFICES ASSUME NEW n \in {Renamed(k, from, to) : k \in K}
                 PROVE  \E k \in K : n = Renamed(k, from, to) /\ g[n] = l.names[k]
    BY <1>2
  <2> DEFINE c == CHOOSE k \in K : Renamed(k, from, to) = n
  <2>2. c \in K /\ Renamed(c, from, to) = n
    OBVIOUS
  <2>3. g[n] = l.names[c]
    OBVIOUS
  <2> HIDE DEF c, g, K
  <2> QED
    BY <2>2, <2>3
<1> HIDE DEF m, f, g
<1>4. /\ DOMAIN m = DOMAIN f \cup DOMAIN g /\ \A x \in DOMAIN f : m[x] = f[x]
      /\ \A x \in DOMAIN g \ DOMAIN f : m[x] = g[x]
  <2>1. /\ DOMAIN Over(f, g) = DOMAIN f \cup DOMAIN g /\ \A x \in DOMAIN f : Over(f, g)[x] = f[x]
        /\ \A x \in DOMAIN g \ DOMAIN f : Over(f, g)[x] = g[x]
    BY OverIs
  <2> QED
    BY <1>1, <2>1
<1>5. DOMAIN m = {to} \cup {Renamed(k, from, to) : k \in K} /\ m[to] = id
  BY <1>2, <1>4
<1> HIDE DEF K
<1>6. \A n \in DOMAIN m \ {to} : \E k \in K : n = Renamed(k, from, to) /\ m[n] = l.names[k]
  BY <1>2, <1>3, <1>4
<1> QED
  BY <1>5, <1>6 DEF NamesRenamed, m, K

OldParent(l, from) == IF Len(from) > 1 /\ Front(from) \in DOMAIN l.names THEN l.names[Front(from)] ELSE NoParent

DataRenamed(d, l, from, mark) ==
  /\ DOMAIN d = DOMAIN l.data
  /\ \A i \in DOMAIN l.data :
       /\ DOMAIN d[i] = {"children", "sub"} /\ d[i].sub = l.data[i].sub
       /\ i = mark => d[i].children
       /\ i # mark /\ i = OldParent(l, from) =>
            d[i].children = (\E n \in DOMAIN l.names : n # from /\ IsStrictPrefix(Front(from), n))
       /\ i # mark /\ i # OldParent(l, from) => d[i].children = l.data[i].children

\* What rename_folder leaves in the data of a list.
LEMMA RenameDataIs ==
  ASSUME NEW l, IsList(l), NEW from, NEW mark PROVE DataRenamed(RenameData(l, from, mark), l, from, mark)
<1>1. \A i \in DOMAIN l.data : DOMAIN l.data[i] = {"children", "sub"}
  BY DEF IsList
<1> QED
  BY <1>1 DEF DataRenamed, RenameData, OldParent

\* A list stays sound when a name and the names below it are renamed.
LEMMA RenamedOK ==
  ASSUME NEW a \in Accounts, NEW l, NEW h, ListOK(a, l, h), NEW from \in DOMAIN l.names, NEW to \in Names,
         IsStrictPrefix(Prefix(a), to), NEW mark, NEW state \in 0 .. Len(h), NEW id \in 1 .. NextId(h) - 1, id \in DOMAIN l.data,
         \A n \in DOMAIN l.names \ {from} : l.names[n] # id, NEW m,
         m = [state |-> state, names |-> RenameNames(l, from, to, id), data |-> RenameData(l, from, mark)]
  PROVE  ListOK(a, m, h)
<1> DEFINE N == RenameNames(l, from, to, id)
           D == RenameData(l, from, mark)
<1>1. m = [state |-> state, names |-> N, data |-> D]
  OBVIOUS
<1>2. IsList(l) /\ DOMAIN l.names \subseteq Names /\ from \in Names /\ Prefix(a) \in Names
  BY PrefixTyped DEF ListOK, IsList
<1>3. /\ DOMAIN N = {to} \cup {Renamed(k, from, to) : k \in DOMAIN l.names \ {from}} /\ N[to] = id
      /\ \A n \in DOMAIN N \ {to} : \E k \in DOMAIN l.names \ {from} : n = Renamed(k, from, to) /\ N[n] = l.names[k]
  <2>1. NamesRenamed(N, l, from, to, id)
    BY RenameNamesAre
  <2> HIDE DEF N
  <2> QED
    BY <2>1 DEF NamesRenamed
<1>4. DOMAIN D = DOMAIN l.data /\ \A i \in DOMAIN D : DOMAIN D[i] = {"children", "sub"}
  <2>1. DataRenamed(D, l, from, mark)
    BY <1>2, RenameDataIs
  <2> HIDE DEF D
  <2> QED
    BY <2>1 DEF DataRenamed
<1> HIDE DEF N, D
<1>5. /\ m.state = state /\ m.names = N /\ m.data = D /\ DOMAIN m = {"state", "names", "data"}
  BY <1>1
<1>6. \A k \in DOMAIN l.names : Renamed(k, from, to) \in Names /\ IsStrictPrefix(Prefix(a), Renamed(k, from, to))
  <2>1. SUFFICES ASSUME NEW k \in DOMAIN l.names
                 PROVE  Renamed(k, from, to) \in Names /\ IsStrictPrefix(Prefix(a), Renamed(k, from, to))
    OBVIOUS
  <2>2. k \in Names /\ IsStrictPrefix(Prefix(a), k)
    BY <1>2 DEF ListOK
  <2>3. Renamed(k, from, to) \in Names /\ (IsPrefix(from, k) => IsPrefix(to, Renamed(k, from, to)))
    BY <1>2, <2>2, RenamedTyped
  <2>4. CASE IsPrefix(from, k)
    BY <1>2, <2>3, <2>4, PrefixTrans
  <2>5. CASE ~IsPrefix(from, k)
    BY <2>2, <2>3, <2>5 DEF Renamed
  <2> QED
    BY <2>3, <2>4, <2>5
<1>7. \A n \in DOMAIN N : n \in Names /\ IsStrictPrefix(Prefix(a), n)
  BY <1>3, <1>6
<1>8. \A n \in DOMAIN N \ {to} : N[n] \in 1 .. NextId(h) - 1 /\ N[n] \in DOMAIN D /\ N[n] # id
  BY <1>3, <1>4 DEF ListOK
<1>9. \A n \in DOMAIN N : N[n] \in 1 .. NextId(h) - 1 /\ N[n] \in DOMAIN D
  BY <1>3, <1>4, <1>8
<1>10. ASSUME NEW x \in DOMAIN N, NEW n \in DOMAIN N, N[x] = N[n] PROVE x = n
  <2>1. CASE x = to \/ n = to
    BY <1>3, <1>8, <1>10, <2>1
  <2>2. CASE x # to /\ n # to
    <3>1. PICK j \in DOMAIN l.names : x = Renamed(j, from, to) /\ N[x] = l.names[j]
      BY <1>3, <2>2
    <3>2. PICK k \in DOMAIN l.names : n = Renamed(k, from, to) /\ N[n] = l.names[k]
      BY <1>3, <2>2
    <3>3. j = k
      BY <1>10, <3>1, <3>2 DEF ListOK
    <3> QED
      BY <3>1, <3>2, <3>3
  <2> QED
    BY <2>1, <2>2
<1>11. IsList(m)
  BY <1>4, <1>5, <1>7 DEF IsList
<1> QED
  BY <1>5, <1>7, <1>9, <1>10, <1>11 DEF ListOK

\* A list that matched the tree before the server's move matches the moved tree after rename_folder.
LEMMA RenamedMatch ==
  ASSUME NEW a \in Accounts, NEW l, IsList(l), NEW tree, IsTree(tree), Match(a, l, tree), NEW i, NEW parent, NEW name \in NameParts,
         MayMove(tree, i, parent, name), NEW from, from = Paths(a, tree)[i], NEW to, to = MovedTo(a, tree, parent, name),
         NEW mark, parent # NoParent /\ parent # mark => l.data[parent].children /\ Children(tree, parent) = {},
         NEW m, m.names = RenameNames(l, from, to, i), m.data = RenameData(l, from, mark)
  PROVE  Match(a, m, Placed(tree, i, parent, name))
<1> DEFINE new == Placed(tree, i, parent, name)
           p == Paths(a, tree)
           q == Paths(a, new)
           N == RenameNames(l, from, to, i)
           D == RenameData(l, from, mark)
<1>10. m.names = N /\ m.data = D
  OBVIOUS
<1>2. /\ IsTree(new) /\ DOMAIN new = DOMAIN tree
      /\ new[i] = [parent |-> parent, name |-> name, sub |-> tree[i].sub]
      /\ \A j \in DOMAIN tree \ {i} : new[j] = tree[j]
      /\ \A j \in DOMAIN tree : q[j] = Renamed(p[j], from, to)
      /\ q[i] = to /\ to \in Names
  BY Moved
<1>3. i \in DOMAIN tree /\ parent \in DOMAIN tree \cup {NoParent}
  BY DEF MayMove
<1>4. \A j, k \in DOMAIN tree : q[j] = q[k] => j = k
  BY <1>2, DistinctPaths
<1>5. \A j, k \in DOMAIN tree : p[j] = p[k] => j = k
  BY DistinctPaths
<1>6. DOMAIN l.names = {p[j] : j \in DOMAIN tree} /\ \A j \in DOMAIN tree : l.names[p[j]] = j
  BY DEF Match
<1>7. /\ DOMAIN N = {to} \cup {Renamed(k, from, to) : k \in DOMAIN l.names \ {from}} /\ N[to] = i
      /\ \A n \in DOMAIN N \ {to} : \E k \in DOMAIN l.names \ {from} : n = Renamed(k, from, to) /\ N[n] = l.names[k]
  <2>1. NamesRenamed(N, l, from, to, i)
    BY RenameNamesAre
  <2> HIDE DEF N
  <2> QED
    BY <2>1 DEF NamesRenamed
<1>8. /\ DOMAIN D = DOMAIN l.data
      /\ \A j \in DOMAIN l.data :
           /\ D[j].sub = l.data[j].sub
           /\ j = mark => D[j].children
           /\ j # mark /\ j = OldParent(l, from) =>
                D[j].children = (\E n \in DOMAIN l.names : n # from /\ IsStrictPrefix(Front(from), n))
           /\ j # mark /\ j # OldParent(l, from) => D[j].children = l.data[j].children
  <2>1. DataRenamed(D, l, from, mark)
    BY RenameDataIs
  <2> HIDE DEF D
  <2> QED
    BY <2>1 DEF DataRenamed
<1>9. from = p[i]
  OBVIOUS
<1>p. \A j \in DOMAIN tree : /\ p[j] \in Names /\ Len(p[j]) \in Nat /\ Len(p[j]) > Len(Prefix(a)) /\ tree[j].name \in NameParts
                             /\ tree[j].parent = NoParent => p[j] = Append(Prefix(a), tree[j].name)
                             /\ tree[j].parent # NoParent => /\ tree[j].parent \in DOMAIN tree /\ p[tree[j].parent] \in Names
                                                             /\ p[j] = Append(p[tree[j].parent], tree[j].name)
  BY PathFacts
<1> HIDE DEF N, D, new, p, q
<1>11. DOMAIN N = {q[j] : j \in DOMAIN tree}
  <2>1. \A n \in DOMAIN N : \E j \in DOMAIN tree : n = q[j]
    BY <1>2, <1>3, <1>6, <1>7
  <2>2. ASSUME NEW j \in DOMAIN tree PROVE q[j] \in DOMAIN N
    <3>1. CASE j = i
      BY <1>2, <1>7, <3>1
    <3>2. CASE j # i
      <4>1. p[j] \in DOMAIN l.names \ {from}
        BY <1>3, <1>5, <1>6, <1>9, <3>2
      <4> QED
        BY <1>2, <1>7, <4>1
    <3> QED
      BY <3>1, <3>2
  <2> QED
    BY <2>1, <2>2
<1>12. ASSUME NEW j \in DOMAIN tree PROVE N[q[j]] = j
  <2>1. CASE j = i
    BY <1>2, <1>7, <2>1
  <2>2. CASE j # i
    <3>1. q[j] \in DOMAIN N \ {to}
      BY <1>2, <1>3, <1>4, <1>11, <2>2
    <3>2. PICK k \in DOMAIN l.names \ {from} : q[j] = Renamed(k, from, to) /\ N[q[j]] = l.names[k]
      BY <1>7, <3>1
    <3>3. PICK x \in DOMAIN tree : k = p[x]
      BY <1>6, <3>2
    <3>4. q[x] = q[j]
      BY <1>2, <3>2, <3>3
    <3>5. x = j
      BY <1>4, <3>4
    <3> QED
      BY <1>6, <3>2, <3>3, <3>5
  <2> QED
    BY <2>1, <2>2
<1>13. \A j \in DOMAIN tree : j \in DOMAIN l.data /\ l.data[j].sub = tree[j].sub /\ (Children(tree, j) # {} => l.data[j].children)
  BY DEF Match
<1>14. \A j \in DOMAIN tree : new[j].sub = tree[j].sub
  BY <1>2, <1>3
\* The old parent is the one that the mailbox had.
<1>15. ASSUME NEW j \in DOMAIN tree, j = OldParent(l, from) PROVE p[j] = Front(from) /\ i \in Children(tree, j)
  <2>1. j # NoParent
    BY TreeParts
  <2>2. Front(from) \in DOMAIN l.names /\ l.names[Front(from)] = j
    BY <1>15, <2>1 DEF OldParent
  <2>3. p[j] = Front(from)
    BY <1>6, <2>2
  <2>4. tree[i].parent # NoParent
    <3>1. SUFFICES ASSUME tree[i].parent = NoParent PROVE FALSE
      OBVIOUS
    <3>2. from = Append(Prefix(a), tree[i].name) /\ tree[i].name \in NameParts
      BY <1>3, <1>9, <1>p, <3>1
    <3>3. Prefix(a) \in Names /\ Len(Prefix(a)) \in Nat
      BY PrefixTyped
    <3>4. Front(from) = Prefix(a)
      BY <3>2, <3>3, FrontAppend
    <3>5. Len(p[j]) > Len(Prefix(a))
      BY <1>p
    <3> QED
      BY <2>3, <3>3, <3>4, <3>5
  <2>5. /\ tree[i].parent \in DOMAIN tree /\ p[tree[i].parent] \in Names /\ tree[i].name \in NameParts
        /\ from = Append(p[tree[i].parent], tree[i].name)
    BY <1>3, <1>9, <1>p, <2>4
  <2>6. Front(from) = p[tree[i].parent]
    BY <2>5, FrontAppend
  <2>7. tree[i].parent = j
    BY <1>5, <2>3, <2>5, <2>6
  <2> QED
    BY <1>3, <2>3, <2>7 DEF Children
<1>16. ASSUME NEW j \in DOMAIN tree, Children(new, j) # {} PROVE D[j].children
  <2>1. CASE j = mark
    BY <1>8, <1>13, <2>1
  <2>2. CASE j # mark /\ j = parent
    <3>1. l.data[j].children /\ Children(tree, j) = {}
      BY <2>2, TreeParts
    <3>2. j # OldParent(l, from)
      BY <1>15, <3>1
    <3> QED
      BY <1>8, <1>13, <2>2, <3>1, <3>2
  <2>3. CASE j # mark /\ j # parent
    <3>1. PICK x \in DOMAIN new : new[x].parent = j
      BY <1>16 DEF Children
    <3>2. x # i
      BY <1>2, <2>3, <3>1
    <3>3. x \in DOMAIN tree /\ tree[x].parent = j
      BY <1>2, <3>1, <3>2
    <3>4. l.data[j].children
      BY <1>13, <3>3 DEF Children
    <3>5. CASE j # OldParent(l, from)
      BY <1>8, <1>13, <2>3, <3>4, <3>5
    <3>6. CASE j = OldParent(l, from)
      <4>1. p[j] = Front(from) /\ j # NoParent
        BY <1>15, <3>6, TreeParts
      <4>2. p[x] \in DOMAIN l.names /\ p[x] # from
        BY <1>3, <1>5, <1>6, <1>9, <3>2, <3>3
      <4>3. p[x] = Append(p[j], tree[x].name) /\ p[j] \in Names /\ tree[x].name \in NameParts
        BY <1>p, <3>3, <4>1
      <4>4. IsPrefix(p[j], p[j])
        BY <4>3, PrefixParts
      <4>5. IsPrefix(p[j], p[x])
        BY <4>3, <4>4, PrefixOfAppend
      <4>6. p[j] # p[x]
        <5>1. Len(Append(p[j], tree[x].name)) = Len(p[j]) + 1 /\ Len(p[j]) \in Nat
          BY <4>3, Longer
        <5> QED
          BY <4>3, <5>1
      <4>7. IsStrictPrefix(Front(from), p[x])
        BY <4>1, <4>5, <4>6 DEF IsStrictPrefix
      <4>8. D[j].children = (\E n \in DOMAIN l.names : n # from /\ IsStrictPrefix(Front(from), n))
        BY <1>8, <1>13, <2>3, <3>6
      <4> QED
        BY <4>2, <4>7, <4>8
    <3> QED
      BY <3>5, <3>6
  <2> QED
    BY <2>1, <2>2, <2>3
<1>17. Match(a, m, new)
  <2>1. \A n \in DOMAIN m.names : m.names[n] \in DOMAIN new /\ n = q[m.names[n]]
    BY <1>2, <1>10, <1>11, <1>12
  <2>2. \A j \in DOMAIN new :
          /\ q[j] \in DOMAIN m.names /\ m.names[q[j]] = j
          /\ j \in DOMAIN m.data /\ m.data[j].sub = new[j].sub
          /\ Children(new, j) # {} => m.data[j].children
    BY <1>2, <1>8, <1>10, <1>11, <1>12, <1>13, <1>14, <1>16, ZenonT(60)
  <2>3. q = Paths(a, new)
    BY DEF q
  <2> QED
    BY <2>1, <2>2, <2>3, MatchFrom
<1> QED
  BY <1>17 DEF new

-----------------------------------------------------------------------------
(* What is known between two steps of a session that runs one command at a     *)
(* time: of its lists M, the accounts L whose changes it has skipped, and the  *)
(* histories H of the accounts.                                               *)

OneCommand == \A s, t \in Tasks : s = t

Histories(H) == \A a \in Accounts : IsHistory(H[a])

ListsOK(H, M, L) == \A a \in DOMAIN M : ListOK(a, M[a], H[a]) /\ (a \notin L => Fits(a, M[a], H[a]))

Stages == {"sync", "added", "reply", "changed", "act", "set", "update"}

Fields == {"pc", "cmd", "start", "todo", "failed", "got", "reply", "params", "ids", "updated", "new"}

Shape(r, H) ==
  /\ DOMAIN r = Fields
  /\ r.pc \in Stages /\ r.cmd \in Requests
  /\ \A a \in Accounts : r.start[a] \in 1 .. Len(H[a])
  /\ r.todo \subseteq Accounts /\ r.failed \subseteq Accounts

\* What has been fetched is a state since the command began.
GotOK(r, H) ==
  /\ DOMAIN r.got \subseteq Accounts
  /\ \A a \in DOMAIN r.got : /\ ListOK(a, r.got[a], H[a]) /\ Fits(a, r.got[a], H[a])
                             /\ r.got[a].state \in r.start[a] .. Len(H[a])
                             /\ Match(a, r.got[a], H[a][r.got[a].state].tree)
  /\ r.pc = "sync" => DOMAIN r.got = {}

\* The list of an account is one it had since the command began.
Current(a, l, r, h) == \E k \in r.start[a] .. Len(h) : Match(a, l, h[k].tree)

\* An answer that there is no news speaks of the state it brings.
ReplyOK(r, H, M, L) ==
  /\ DOMAIN r.reply = DOMAIN M
  /\ \A a \in DOMAIN M :
       /\ r.reply[a][2] \in r.start[a] .. Len(H[a])
       /\ r.reply[a][1] \in {"error", "none", "list", "counts"}
       /\ a \notin L /\ r.reply[a][1] \in {"none", "counts"} => Match(a, M[a], H[a][r.reply[a][2]].tree)

SyncOK(r, H, M, L) ==
  /\ r.pc = "reply" => ReplyOK(r, H, M, L)
  /\ r.pc = "changed" =>
       \A a \in DOMAIN M : a \notin L \cup r.failed \cup r.todo \cup DOMAIN r.got => Current(a, M[a], r, H[a])
  /\ r.pc \in {"act", "set"} => \A a \in DOMAIN M : a \notin L \cup r.failed => Current(a, M[a], r, H[a])
  /\ r.pc \in {"act", "set", "update"} => r.cmd.op # "idle"

\* The name to be created.
Target(c) == IF c.op = "rename" THEN c.to ELSE c.name

\* The parameters of CREATE, and of the parents that RENAME creates.
PathOK(r, M) ==
  LET p == r.params
      l == M[p.account]
  IN /\ p.path \in Names /\ p.path # <<>> /\ p.above \in Names
     /\ Target(r.cmd) = p.above \o p.path /\ IsStrictPrefix(Prefix(p.account), Target(r.cmd))
     /\ p.above = <<>> => p.parent = NoParent
     /\ p.above # <<>> => p.above \in DOMAIN l.names /\ l.names[p.above] = p.parent

ParamsOK(r, M) ==
  LET p == r.params
      l == M[p.account]
  IN /\ DOMAIN p = {"account", "id", "path", "above", "parent"}
     /\ r.cmd.op \in {"create", "delete", "rename", "subscribe"}
     /\ p.account \in DOMAIN M
     /\ r.cmd.op # "create" => r.cmd.name \in DOMAIN l.names /\ l.names[r.cmd.name] = p.id
     /\ r.cmd.op \in {"create", "rename"} => PathOK(r, M)

\* The mailboxes that are created on the way, and what is below them.
ChainOf(r) == IF r.cmd.op = "rename" THEN Front(r.params.path) ELSE r.params.path

ParentOf(r) == IF ChainOf(r) = <<>> THEN r.params.parent ELSE Last(r.ids)

\* The change that CREATE or RENAME has made to a tree, and its answer.
Outcome(r, old, new, l, next) ==
  \E first \in Nat :
    LET chain == ChainTree(old, first, r.params.parent, ChainOf(r)) IN
    /\ MayChain(old, first, r.params.parent, ChainOf(r))
    /\ r.ids = [k \in DOMAIN ChainOf(r) |-> first + k - 1]
    /\ first + Len(ChainOf(r)) <= next
    /\ \A n \in DOMAIN l.names : l.names[n] < first
    /\ r.updated => /\ r.cmd.op = "rename" /\ MayMove(chain, r.params.id, ParentOf(r), Last(r.params.path))
                    /\ new = Placed(chain, r.params.id, ParentOf(r), Last(r.params.path))
    /\ ~r.updated => new = chain

\* The answer to CREATE or RENAME.
SetOK(r, H, M, L) ==
  LET a == r.params.account
      l == M[a]
      h == H[a]
  IN /\ r.new \in 2 .. Len(h) /\ l.state < r.new /\ r.updated \in BOOLEAN
     /\ Outcome(r, h[r.new - 1].tree, h[r.new].tree, l, NextId(h))
     /\ a \notin L /\ Quiet(h, l.state, r.new - 1) => Match(a, l, h[r.new - 1].tree)

\* After DELETE and SUBSCRIBE, the account's own changes are still to be asked for.
UpdateOK(r, H, M, L) ==
  /\ r.cmd.op \in {"create", "rename"} => SetOK(r, H, M, L)
  /\ r.cmd.op \in {"delete", "subscribe"} /\ r.params.account = Own => ~Quiet(H[Own], M[Own].state, Len(H[Own]))

RunOK(r, H, M, L) ==
  /\ Shape(r, H) /\ GotOK(r, H) /\ SyncOK(r, H, M, L)
  /\ r.pc \in {"set", "update"} => ParamsOK(r, M)
  /\ r.pc = "update" => UpdateOK(r, H, M, L)

\* A list that is as new as the command's start stays so while the account goes on.
LEMMA CurrentLater ==
  ASSUME NEW a, NEW l, NEW r, NEW h, NEW g, Later(h, g), r.start[a] \in 1 .. Len(h), Current(a, l, r, h)
  PROVE  Current(a, l, r, g)
<1>1. PICK k \in r.start[a] .. Len(h) : Match(a, l, h[k].tree)
  BY DEF Current
<1>2. k \in 1 .. Len(h) /\ k \in r.start[a] .. Len(g)
  BY DEF Later
<1>3. g[k] = h[k]
  BY <1>2 DEF Later
<1> QED
  BY <1>1, <1>2, <1>3 DEF Current

\* What was quiet in the longer history was quiet in the shorter one.
LEMMA QuietLater ==
  ASSUME NEW h, NEW g, Later(h, g), NEW j \in Nat, NEW k \in Nat, k <= Len(h), Quiet(g, j, k)
  PROVE  Quiet(h, j, k)
<1>1. SUFFICES ASSUME NEW x \in j + 1 .. k PROVE ~h[x].list
  BY DEF Quiet
<1>2. x \in 1 .. Len(h)
  BY DEF Later
<1> QED
  BY <1>1, <1>2 DEF Quiet, Later

\* What the command knows of its synchronization stays true while the accounts change.
LEMMA ReplyLater ==
  ASSUME NEW r, NEW H, NEW G, NEW M, NEW L, DOMAIN M \subseteq Accounts, \A a \in Accounts : Later(H[a], G[a]),
         \A a \in Accounts : r.start[a] \in 1 .. Len(H[a]), ReplyOK(r, H, M, L)
  PROVE  ReplyOK(r, G, M, L)
<1>1. ASSUME NEW a \in DOMAIN M
      PROVE  /\ r.reply[a][2] \in r.start[a] .. Len(G[a])
             /\ G[a][r.reply[a][2]] = H[a][r.reply[a][2]]
  <2>1. Later(H[a], G[a]) /\ r.start[a] \in 1 .. Len(H[a]) /\ r.reply[a][2] \in r.start[a] .. Len(H[a])
    BY DEF ReplyOK
  <2> DEFINE k == r.reply[a][2]
  <2>2. k \in 1 .. Len(H[a]) /\ k \in r.start[a] .. Len(G[a])
    BY <2>1 DEF Later
  <2> QED
    BY <2>1, <2>2 DEF Later
<1> QED
  BY <1>1 DEF ReplyOK

\* What the answers to Mailbox/changes say stays true while the accounts change.
LEMMA GotLater ==
  ASSUME NEW r, NEW H, NEW G, Histories(H), Histories(G), \A a \in Accounts : Later(H[a], G[a]),
         \A a \in Accounts : r.start[a] \in 1 .. Len(H[a]), GotOK(r, H)
  PROVE  GotOK(r, G)
<1>1. ASSUME NEW a \in DOMAIN r.got
      PROVE  /\ ListOK(a, r.got[a], G[a]) /\ Fits(a, r.got[a], G[a])
             /\ r.got[a].state \in r.start[a] .. Len(G[a])
             /\ Match(a, r.got[a], G[a][r.got[a].state].tree)
  <2>1. a \in Accounts
    BY DEF GotOK
  <2> DEFINE h == H[a]
             g == G[a]
             l == r.got[a]
             s == r.start[a]
  <2>2. /\ IsHistory(h) /\ IsHistory(g) /\ Later(h, g) /\ ListOK(a, l, h) /\ Fits(a, l, h) /\ s \in 1 .. Len(h)
        /\ l.state \in s .. Len(h) /\ Match(a, l, h[l.state].tree)
    BY <2>1 DEF GotOK, Histories
  <2> HIDE DEF h, g, l, s
  <2>3. ListOK(a, l, g) /\ Fits(a, l, g)
    BY <2>2, ListOKLater, FitsLater
  <2>4. l.state \in 1 .. Len(h) /\ l.state \in s .. Len(g)
    BY <2>2 DEF Later
  <2>5. g[l.state] = h[l.state]
    BY <2>2, <2>4 DEF Later
  <2> QED
    BY <2>2, <2>3, <2>4, <2>5 DEF h, g, l, s
<1> QED
  BY <1>1 DEF GotOK

\* What the command knows of its Mailbox/set stays true while the account changes.
LEMMA SetLater ==
  ASSUME NEW r, NEW H, NEW G, NEW M, NEW L, NEW a, a = r.params.account, IsHistory(H[a]), Later(H[a], G[a]),
         ListOK(a, M[a], H[a]), SetOK(r, H, M, L)
  PROVE  SetOK(r, G, M, L)
<1> DEFINE h == H[a]
           g == G[a]
           l == M[a]
<1>1. /\ r.new \in 2 .. Len(h) /\ l.state < r.new /\ r.updated \in BOOLEAN
      /\ Outcome(r, h[r.new - 1].tree, h[r.new].tree, l, NextId(h))
      /\ a \notin L /\ Quiet(h, l.state, r.new - 1) => Match(a, l, h[r.new - 1].tree)
  BY DEF SetOK
<1>2. Later(h, g) /\ IsHistory(h) /\ l.state \in 0 .. Len(h)
  BY DEF ListOK
<1> HIDE DEF h, g, l
<1>3. r.new - 1 \in 1 .. Len(h) /\ r.new \in 1 .. Len(h) /\ r.new \in 2 .. Len(g) /\ r.new - 1 \in Nat /\ r.new - 1 <= Len(h)
  BY <1>1, <1>2, SMTT(60) DEF Later
<1>4. g[r.new - 1] = h[r.new - 1] /\ g[r.new] = h[r.new]
  BY <1>2, <1>3 DEF Later
<1>5. Quiet(g, l.state, r.new - 1) => Quiet(h, l.state, r.new - 1)
  <2> DEFINE k == r.new - 1
  <2>1. k \in Nat /\ k <= Len(h) /\ l.state \in Nat
    BY <1>2, <1>3
  <2> HIDE DEF k
  <2>2. Quiet(g, l.state, k) => Quiet(h, l.state, k)
    BY <1>2, <2>1, QuietLater
  <2> QED
    BY <2>2 DEF k
<1>6. NextId(h) <= NextId(g) /\ NextId(h) \in Nat /\ NextId(g) \in Nat
  BY <1>2 DEF Later
<1>7. ASSUME NEW old, NEW new, Outcome(r, old, new, l, NextId(h)) PROVE Outcome(r, old, new, l, NextId(g))
  <2> DEFINE C(first) ==
        LET chain == ChainTree(old, first, r.params.parent, ChainOf(r)) IN
        /\ MayChain(old, first, r.params.parent, ChainOf(r))
        /\ r.ids = [k \in DOMAIN ChainOf(r) |-> first + k - 1]
        /\ \A n \in DOMAIN l.names : l.names[n] < first
        /\ r.updated => /\ r.cmd.op = "rename" /\ MayMove(chain, r.params.id, ParentOf(r), Last(r.params.path))
                        /\ new = Placed(chain, r.params.id, ParentOf(r), Last(r.params.path))
        /\ ~r.updated => new = chain
  <2>1. PICK first \in Nat : C(first) /\ first + Len(ChainOf(r)) <= NextId(h)
    BY <1>7, Zenon DEF Outcome
  <2>2. Len(ChainOf(r)) \in Nat
    BY <2>1 DEF MayChain, Names
  <2>3. first + Len(ChainOf(r)) <= NextId(g)
    <3> HIDE DEF C
    <3> QED
      BY <1>6, <2>1, <2>2
  <2> QED
    BY <2>1, <2>3, Zenon DEF Outcome
<1>8. Outcome(r, g[r.new - 1].tree, g[r.new].tree, l, NextId(g))
  BY <1>1, <1>4, <1>7
<1>9. a \notin L /\ Quiet(g, l.state, r.new - 1) => Match(a, l, g[r.new - 1].tree)
  BY <1>1, <1>4, <1>5
<1>10. r.new \in 2 .. Len(g) /\ l.state < r.new /\ r.updated \in BOOLEAN
  BY <1>1, <1>3
<1> QED
  BY <1>8, <1>9, <1>10 DEF SetOK, g, l

\* What is known of a command stays so when an account goes on.
LEMMA RunLater ==
  ASSUME NEW r, NEW H, NEW G, NEW M, NEW L, Histories(H), Histories(G), \A a \in Accounts : Later(H[a], G[a]),
         Own \in DOMAIN M, DOMAIN M \subseteq Accounts, ListsOK(H, M, L), RunOK(r, H, M, L)
  PROVE  RunOK(r, G, M, L)
<1>1. \A a \in Accounts : r.start[a] \in 1 .. Len(H[a])
  BY DEF RunOK, Shape
<1>2. Shape(r, G)
  <2>1. \A a \in Accounts : r.start[a] \in 1 .. Len(G[a])
    BY <1>1, SMTT(60) DEF Later
  <2> QED
    BY <2>1 DEF RunOK, Shape
<1>3. GotOK(r, G)
  BY <1>1, GotLater DEF RunOK
<1>4. r.pc = "reply" => ReplyOK(r, G, M, L)
  BY <1>1, ReplyLater DEF RunOK, SyncOK
<1>5. \A a \in DOMAIN M : Current(a, M[a], r, H[a]) => Current(a, M[a], r, G[a])
  BY <1>1, CurrentLater
<1>6. SyncOK(r, G, M, L)
  BY <1>4, <1>5 DEF RunOK, SyncOK
<1>7. ASSUME r.pc = "update" PROVE UpdateOK(r, G, M, L)
  <2>1. UpdateOK(r, H, M, L) /\ ParamsOK(r, M)
    BY <1>7 DEF RunOK
  <2>2. r.params.account \in DOMAIN M
    BY <2>1 DEF ParamsOK
  <2>3. ASSUME r.cmd.op \in {"create", "rename"} PROVE SetOK(r, G, M, L)
    <3>1. SetOK(r, H, M, L)
      BY <2>1, <2>3 DEF UpdateOK
    <3> DEFINE a == r.params.account
    <3>2. IsHistory(H[a]) /\ Later(H[a], G[a]) /\ ListOK(a, M[a], H[a])
      BY <2>2 DEF Histories, ListsOK
    <3> QED
      BY <3>1, <3>2, SetLater
  <2>4. ASSUME ~Quiet(H[Own], M[Own].state, Len(H[Own])) PROVE ~Quiet(G[Own], M[Own].state, Len(G[Own]))
    <3> DEFINE h == H[Own]
               g == G[Own]
    <3>1. Later(h, g) /\ M[Own].state \in 0 .. Len(h) /\ IsHistory(h)
      BY DEF ListsOK, ListOK, Accounts, Histories
    <3> HIDE DEF h, g
    <3>2. Len(h) \in Nat /\ Len(h) <= Len(g) /\ Len(g) \in Nat /\ Len(h) <= Len(h) /\ M[Own].state \in Nat
      BY <3>1 DEF Later
    <3>3. ASSUME Quiet(g, M[Own].state, Len(g)) PROVE Quiet(h, M[Own].state, Len(h))
      <4>1. Quiet(g, M[Own].state, Len(h))
        BY <3>2, <3>3 DEF Quiet
      <4> QED
        BY <3>1, <3>2, <4>1, QuietLater
    <3> QED
      BY <2>4, <3>3 DEF h, g
  <2> QED
    BY <2>1, <2>3, <2>4 DEF UpdateOK
<1> QED
  BY <1>2, <1>3, <1>6, <1>7 DEF RunOK

-----------------------------------------------------------------------------
(* The invariant of the lists, and the steps of the server.                   *)

LogOK == DOMAIN log = Accounts /\ Histories(log)

SetsOK ==
  /\ Own \in DOMAIN mailboxes /\ DOMAIN mailboxes \subseteq Accounts
  /\ lost \subseteq Accounts /\ known \subseteq {Jane} /\ linked \subseteq {Jane}

TasksOK ==
  /\ DOMAIN task = Tasks
  /\ \A t \in Tasks : task[t] = Idle \/ RunOK(task[t], log, mailboxes, lost)

\* The accounts that are about to be taken in.
Pending(r) ==
  IF r.pc = "added" THEN r.todo \cup DOMAIN r.got
  ELSE IF r.pc \in {"reply", "changed"} THEN DOMAIN r.got
  ELSE {}

KnownOK == \A a \in known : a \in DOMAIN mailboxes \cup lost \/ \E t \in Tasks : a \in Pending(task[t])

ListedOK ==
  listed # NoList => /\ DOMAIN listed.items \subseteq Accounts
                     /\ \A a \in Accounts : listed.start[a] \in 1 .. State(a)

ListInv == /\ LogOK /\ SetsOK /\ ListsOK(log, mailboxes, lost) /\ TasksOK /\ KnownOK /\ ListedOK
           /\ ListsTheServer /\ NamesHaveData

\* An idle task has nothing to fetch.
LEMMA IdleIs == Idle.pc = "idle" /\ Pending(Idle) = {}
BY DEF Idle, Pending

\* A running command's record.
LEMMA RunParts ==
  ASSUME TasksOK, NEW t \in Tasks, task[t].pc # "idle"
  PROVE  RunOK(task[t], log, mailboxes, lost) /\ DOMAIN task[t] = Fields /\ DOMAIN task = Tasks
BY IdleIs DEF TasksOK, RunOK, Shape

\* With one command at a time only its own record is to be shown right.
LEMMA TaskStep ==
  ASSUME OneCommand, NEW t \in Tasks, DOMAIN task' = Tasks,
         task'[t] = Idle \/ RunOK(task'[t], log', mailboxes', lost')
  PROVE  TasksOK'
<1>1. \A s \in Tasks : s = t
  BY DEF OneCommand
<1>2. Idle' = Idle
  BY DEF Idle
<1> QED
  BY <1>1, <1>2 DEF TasksOK

\* A command that ends leaves no record.
LEMMA TaskEnds ==
  ASSUME OneCommand, NEW t \in Tasks, DOMAIN task = Tasks, Ends(t)
  PROVE  TasksOK' /\ task'[t] = Idle
<1>1. DOMAIN task' = Tasks /\ task'[t] = Idle
  BY DEF Ends
<1> QED
  BY <1>1, TaskStep

\* The last response stays right.
LEMMA ListedLater ==
  ASSUME LogOK, ListedOK, ListsTheServer, listed' = listed, \A a \in Accounts : Later(log[a], log'[a])
  PROVE  ListedOK' /\ ListsTheServer'
<1>n. NoList' = NoList
  BY DEF NoList
<1>1. SUFFICES ASSUME listed # NoList PROVE ListedOK' /\ ListsTheServer'
  BY <1>n DEF ListedOK, ListsTheServer
<1>2. DOMAIN listed.items \subseteq Accounts /\ \A a \in Accounts : listed.start[a] \in 1 .. Len(log[a])
  BY <1>1 DEF ListedOK, State
<1>3. \A a \in Accounts : Len(log[a]) \in Nat /\ Len(log'[a]) \in Nat /\ Len(log[a]) <= Len(log'[a])
  BY DEF Later
<1>4. ListedOK'
  BY <1>2, <1>3 DEF ListedOK, State
<1>5. ASSUME NEW a \in DOMAIN listed.items \ listed.stale
      PROVE  \E k \in listed.start[a] .. Len(log'[a]) :
               {x[1] : x \in listed.items[a]} = Expected(a, log'[a][k].tree, listed.cmd)
  <2>1. PICK k \in listed.start[a] .. Len(log[a]) :
          {x[1] : x \in listed.items[a]} = Expected(a, log[a][k].tree, listed.cmd)
    BY <1>1, <1>5 DEF ListsTheServer, State
  <2>2. a \in Accounts /\ Later(log[a], log'[a])
    BY <1>2
  <2>3. k \in 1 .. Len(log[a]) /\ k \in listed.start[a] .. Len(log'[a])
    BY <1>2, <1>3, <2>2
  <2>4. log'[a][k] = log[a][k]
    BY <2>2, <2>3 DEF Later
  <2> QED
    BY <2>1, <2>3, <2>4
<1>6. /\ listed.known \subseteq DOMAIN listed.items \cup listed.stale
      /\ \A a \in DOMAIN listed.items \ listed.stale : \A x, y \in listed.items[a] : IsStrictPrefix(x[1], y[1]) => x[2]
  BY <1>1 DEF ListsTheServer
<1>7. ListsTheServer'
  BY <1>5, <1>6 DEF ListsTheServer, State
<1> QED
  BY <1>4, <1>7

\* An answer of LIST is judged by the histories it was given with.
LEMMA ListedSame ==
  ASSUME ListedOK, ListsTheServer, listed' = listed, log' = log PROVE ListedOK' /\ ListsTheServer'
BY DEF ListedOK, ListsTheServer, State

GrownTo(g, h, tree, list, n) ==
  /\ IsHistory(g) /\ Later(h, g) /\ Len(g) = Len(h) + 1 /\ g[Len(g)].tree = tree /\ g[Len(g)].list = list
  /\ Last(g).tree = tree /\ NextId(g) = NextId(h) + n

\* A change on the server extends the history of its account and of no other.
LEMMA LoggedIs ==
  ASSUME LogOK, NEW a \in Accounts, NEW tree, IsTree(tree), NEW list \in BOOLEAN, NEW n \in Nat,
         DOMAIN tree \subseteq 1 .. NextId(log[a]) - 1 + n,
         \A i \in NextId(log[a]) .. NextId(log[a]) - 1 + n : i \in DOMAIN tree,
         ~list => tree = Last(log[a]).tree, log' = Logged(a, tree, list)
  PROVE  /\ LogOK' /\ \A x \in Accounts : Later(log[x], log'[x])
         /\ GrownTo(log'[a], log[a], tree, list, n)
         /\ \A x \in Accounts : x # a => log'[x] = log[x]
<1> DEFINE h == log[a]
           g == Append(h, [tree |-> tree, list |-> list])
<1>1. IsHistory(h) /\ DOMAIN log = Accounts /\ \A x \in Accounts : IsHistory(log[x])
  BY DEF LogOK, Histories
<1>2. DOMAIN log' = Accounts /\ log'[a] = g /\ \A x \in Accounts : x # a => log'[x] = log[x]
  BY <1>1 DEF Logged
<1>3. GrownTo(g, h, tree, list, n)
  <2> HIDE DEF h
  <2>1. /\ DOMAIN tree \subseteq 1 .. NextId(h) - 1 + n
        /\ \A i \in NextId(h) .. NextId(h) - 1 + n : i \in DOMAIN tree
        /\ ~list => tree = Last(h).tree
    BY DEF h
  <2> QED
    BY <1>1, <2>1, HistoryGrows DEF GrownTo
<1> HIDE DEF g
<1>4. IsHistory(g) /\ Later(h, g)
  BY <1>3 DEF GrownTo
<1>5. \A x \in Accounts : IsHistory(log'[x]) /\ Later(log[x], log'[x])
  <2>1. \A x \in Accounts : Later(log[x], log[x])
    BY <1>1, LaterSame
  <2> QED
    BY <1>1, <1>2, <1>4, <2>1
<1> QED
  BY <1>2, <1>3, <1>5 DEF LogOK, Histories

\* The lists stay right when an account goes on.
LEMMA ListsLater ==
  ASSUME NEW H, NEW G, NEW M, NEW L, Histories(H), Histories(G), \A a \in Accounts : Later(H[a], G[a]),
         DOMAIN M \subseteq Accounts, ListsOK(H, M, L)
  PROVE  ListsOK(G, M, L)
<1>1. SUFFICES ASSUME NEW a \in DOMAIN M PROVE ListOK(a, M[a], G[a]) /\ (a \notin L => Fits(a, M[a], G[a]))
  BY DEF ListsOK
<1>2. /\ IsHistory(H[a]) /\ IsHistory(G[a]) /\ Later(H[a], G[a]) /\ ListOK(a, M[a], H[a])
      /\ a \notin L => Fits(a, M[a], H[a])
  BY DEF ListsOK, Histories
<1> QED
  BY <1>2, ListOKLater, FitsLater

\* A step of an account alone.
LEMMA ServerStep ==
  ASSUME ListInv, LogOK', \A a \in Accounts : Later(log[a], log'[a]),
         UNCHANGED <<linked, known, mailboxes, task, listed, lost, listPanicked>>
  PROVE  ListInv'
<1>1. /\ LogOK /\ SetsOK /\ ListsOK(log, mailboxes, lost) /\ TasksOK /\ KnownOK /\ ListedOK
      /\ ListsTheServer /\ NamesHaveData
  BY DEF ListInv
<1>2. Histories(log) /\ Histories(log') /\ Own \in DOMAIN mailboxes /\ DOMAIN mailboxes \subseteq Accounts
  BY <1>1 DEF LogOK, SetsOK
<1>3. ListsOK(log', mailboxes, lost)
  BY <1>1, <1>2, ListsLater
<1>4. \A t \in Tasks : RunOK(task[t], log, mailboxes, lost) => RunOK(task[t], log', mailboxes, lost)
  BY <1>1, <1>2, RunLater
<1>5. TasksOK'
  <2>1. Idle' = Idle
    BY DEF Idle
  <2> QED
    BY <1>1, <1>4, <2>1 DEF TasksOK
<1>6. SetsOK' /\ KnownOK' /\ NamesHaveData'
  BY <1>1 DEF SetsOK, KnownOK, NamesHaveData, Pending
<1>7. ListedOK' /\ ListsTheServer'
  BY <1>1, ListedLater
<1> QED
  BY <1>3, <1>5, <1>6, <1>7 DEF ListInv

\* Another client changes the mailboxes of an account.
LEMMA OtherClientKeeps ==
  ASSUME ListInv, NEW a \in Accounts, OtherClient(a) PROVE ListInv'
<1>1. LogOK
  BY DEF ListInv
<1>2. UNCHANGED <<linked, known, mailboxes, task, listed, lost, listPanicked>>
  BY DEF OtherClient
<1> DEFINE tree == Tree(a)
           h == log[a]
<1>3. IsHistory(h) /\ Last(h) = h[Len(h)] /\ Len(h) \in 1 .. Len(h) /\ NextId(h) \in Nat \ {0}
  BY <1>1, HistoryParts DEF LogOK, Histories
<1>4. tree = Last(h).tree /\ IsTree(tree) /\ DOMAIN tree \subseteq 1 .. NextId(h) - 1
  <2>1. \A k \in 1 .. Len(h) : IsTree(h[k].tree) /\ \A i \in DOMAIN h[k].tree : i \in 1 .. NextId(h) - 1
    BY <1>3, HistoryParts
  <2>2. tree = h[Len(h)].tree /\ tree = Last(h).tree
    BY <1>3 DEF Tree
  <2> QED
    BY <1>3, <2>1, <2>2
<1>5. \/ \E i \in DOMAIN tree : Children(tree, i) = {} /\ log' = Logged(a, Without(tree, {i}), TRUE)
      \/ \E i \in DOMAIN tree : ~Exists(tree, NoParent, "c") /\ log' = Logged(a, Placed(tree, i, NoParent, "c"), TRUE)
      \/ log' = Logged(a, tree, FALSE)
  BY DEF OtherClient
<1> HIDE DEF tree, h
<1>6. \E new : \E list \in BOOLEAN :
        /\ IsTree(new) /\ DOMAIN new \subseteq DOMAIN tree /\ (~list => new = tree) /\ log' = Logged(a, new, list)
  <2>1. CASE log' = Logged(a, tree, FALSE)
    BY <1>4, <2>1
  <2>2. ASSUME NEW i \in DOMAIN tree, Children(tree, i) = {}, log' = Logged(a, Without(tree, {i}), TRUE)
        PROVE  \E new : \E list \in BOOLEAN : /\ IsTree(new) /\ DOMAIN new \subseteq DOMAIN tree
                                              /\ ~list => new = tree
                                              /\ log' = Logged(a, new, list)
    <3>1. IsTree(Without(tree, {i})) /\ DOMAIN Without(tree, {i}) = DOMAIN tree \ {i}
      BY <1>4, <2>2, Dropped
    <3> QED
      BY <2>2, <3>1
  <2>3. ASSUME NEW i \in DOMAIN tree, ~Exists(tree, NoParent, "c"), log' = Logged(a, Placed(tree, i, NoParent, "c"), TRUE)
        PROVE  \E new : \E list \in BOOLEAN : /\ IsTree(new) /\ DOMAIN new \subseteq DOMAIN tree
                                              /\ ~list => new = tree
                                              /\ log' = Logged(a, new, list)
    <3>1. MayMove(tree, i, NoParent, "c") /\ "c" \in NameParts
      BY <2>3, ListAssumption DEF MayMove
    <3>2. IsTree(Placed(tree, i, NoParent, "c")) /\ DOMAIN Placed(tree, i, NoParent, "c") = DOMAIN tree
      <4> DEFINE name == "c"
      <4>1. MayMove(tree, i, NoParent, name) /\ name \in NameParts
        BY <3>1
      <4> HIDE DEF name
      <4>2. IsTree(Placed(tree, i, NoParent, name)) /\ DOMAIN Placed(tree, i, NoParent, name) = DOMAIN tree
        BY <1>4, <4>1, MovedIsTree
      <4> QED
        BY <4>2 DEF name
    <3> QED
      BY <2>3, <3>2
  <2> QED
    BY <1>5, <2>1, <2>2, <2>3
<1>7. PICK new : \E list \in BOOLEAN :
        /\ IsTree(new) /\ DOMAIN new \subseteq DOMAIN tree /\ (~list => new = tree) /\ log' = Logged(a, new, list)
  BY <1>6
<1>8. PICK list \in BOOLEAN :
        /\ IsTree(new) /\ DOMAIN new \subseteq DOMAIN tree /\ (~list => new = tree) /\ log' = Logged(a, new, list)
  BY <1>7
<1>9. /\ DOMAIN new \subseteq 1 .. NextId(h) - 1 + 0 /\ \A i \in NextId(h) .. NextId(h) - 1 + 0 : i \in DOMAIN new
      /\ 0 \in Nat
  BY <1>3, <1>4, <1>8
<1>10. LogOK' /\ \A x \in Accounts : Later(log[x], log'[x])
  BY <1>1, <1>4, <1>8, <1>9, LoggedIs DEF h
<1> QED
  BY <1>2, <1>10, ServerStep

\* An account is shared with the user.
LEMMA ShareKeeps ==
  ASSUME ListInv, Share PROVE ListInv'
<1>1. /\ LogOK /\ SetsOK /\ ListsOK(log, mailboxes, lost) /\ TasksOK /\ KnownOK /\ ListedOK
      /\ ListsTheServer /\ NamesHaveData
  BY DEF ListInv
<1>2. linked' \subseteq {Jane} /\ UNCHANGED <<log, known, mailboxes, task, listed, lost, listPanicked>>
  BY DEF Share
<1>3. LogOK' /\ SetsOK' /\ ListsOK(log', mailboxes', lost') /\ NamesHaveData'
  BY <1>1, <1>2 DEF LogOK, SetsOK, NamesHaveData
<1>4. TasksOK'
  BY <1>1, <1>2 DEF TasksOK, Idle
<1>5. KnownOK'
  BY <1>1, <1>2 DEF KnownOK, Pending
<1>6. ListedOK' /\ ListsTheServer'
  BY <1>1, <1>2, ListedSame
<1> QED
  BY <1>3, <1>4, <1>5, <1>6 DEF ListInv

-----------------------------------------------------------------------------
(* synchronize_mailboxes keeps the invariant.                                 *)

\* An account of the session has its list, was lost, or is being fetched by the command.
LEMMA KnownNow ==
  ASSUME OneCommand, KnownOK, NEW t \in Tasks, NEW a \in known
  PROVE  a \in DOMAIN mailboxes \cup lost \/ a \in Pending(task[t])
BY DEF OneCommand, KnownOK

\* The same after a step, from what the command's task has to fetch.
LEMMA KnownThen ==
  ASSUME NEW t \in Tasks, \A a \in known' : a \in DOMAIN mailboxes' \cup lost' \/ a \in Pending(task'[t])
  PROVE  KnownOK'
BY DEF KnownOK

\* A step of the session.
LEMMA SessionStep ==
  ASSUME ListInv, UNCHANGED <<log, linked, listed, listPanicked>>, SetsOK', ListsOK(log, mailboxes', lost'), TasksOK', KnownOK'
  PROVE  ListInv'
<1>1. LogOK /\ ListedOK /\ ListsTheServer /\ NamesHaveData
  BY DEF ListInv
<1>2. LogOK' /\ NamesHaveData'
  BY <1>1 DEF LogOK, NamesHaveData
<1>3. ListedOK' /\ ListsTheServer'
  BY <1>1, ListedSame
<1> QED
  BY <1>2, <1>3 DEF ListInv

\* A command arrives.
LEMMA BeginKeeps ==
  ASSUME ListInv, OneCommand, NEW t \in Tasks, NEW c \in Requests, Begin(t, c) PROVE ListInv'
<1>1. /\ LogOK /\ SetsOK /\ ListsOK(log, mailboxes, lost) /\ TasksOK /\ KnownOK /\ ListedOK
      /\ ListsTheServer /\ NamesHaveData
  BY DEF ListInv
<1>2. UNCHANGED <<log, linked, known, mailboxes, lost, listPanicked>> /\ listed' = NoList /\ task[t].pc = "idle"
  BY DEF Begin, server
<1> DEFINE s == [a \in Accounts |-> State(a)]
           r == [pc |-> "sync", cmd |-> c, start |-> s, todo |-> {}, failed |-> {}, got |-> <<>>, reply |-> <<>>,
                 params |-> NoParams, ids |-> <<>>, updated |-> FALSE, new |-> 0]
<1>3. task' = [task EXCEPT ![t] = r]
  BY DEF Begin
<1>4. \A a \in Accounts : s[a] \in 1 .. Len(log[a])
  BY <1>1, HistoryParts DEF LogOK, Histories, State
<1> HIDE DEF s
<1>5. /\ DOMAIN r = Fields /\ r.pc = "sync" /\ r.cmd = c /\ r.start = s /\ r.todo = {} /\ r.failed = {} /\ r.got = <<>>
  BY DEF Fields
<1>6. DOMAIN task' = Tasks /\ task'[t] = r
  BY <1>1, <1>3 DEF TasksOK
<1> HIDE DEF r
<1>7. RunOK(r, log, mailboxes, lost)
  <2>1. Shape(r, log)
    BY <1>4, <1>5 DEF Shape, Stages
  <2>2. DOMAIN r.got = {}
    BY <1>5
  <2>3. GotOK(r, log)
    BY <2>2 DEF GotOK
  <2>4. SyncOK(r, log, mailboxes, lost)
    BY <1>5 DEF SyncOK
  <2> QED
    BY <1>5, <2>1, <2>3, <2>4 DEF RunOK
<1>8. TasksOK'
  BY <1>2, <1>6, <1>7, TaskStep
<1>9. KnownOK'
  <2>1. Pending(task[t]) = {}
    BY <1>2 DEF Pending
  <2> QED
    BY <1>1, <1>2, <2>1, KnownNow, KnownThen
<1>10. ListedOK' /\ ListsTheServer'
  BY <1>2 DEF ListedOK, ListsTheServer, NoList
<1>11. LogOK' /\ SetsOK' /\ ListsOK(log', mailboxes', lost') /\ NamesHaveData'
  BY <1>1, <1>2 DEF LogOK, SetsOK, NamesHaveData
<1> QED
  BY <1>8, <1>9, <1>10, <1>11 DEF ListInv

\* A command that ends leaves the lists as they are.
LEMMA EndKeeps ==
  ASSUME ListInv, OneCommand, NEW t \in Tasks, Ends(t), UNCHANGED <<log, linked, known, mailboxes, listed, listPanicked>>,
         lost' \subseteq Accounts, lost \cup Pending(task[t]) \subseteq lost' \cup DOMAIN mailboxes, lost \subseteq lost'
  PROVE  ListInv'
<1>1. SetsOK /\ ListsOK(log, mailboxes, lost) /\ TasksOK /\ KnownOK
  BY DEF ListInv
<1>2. TasksOK'
  BY <1>1, TaskEnds DEF TasksOK
<1>3. KnownOK'
  BY <1>1, KnownNow, KnownThen
<1>4. SetsOK' /\ ListsOK(log, mailboxes', lost')
  BY <1>1 DEF SetsOK, ListsOK
<1> QED
  BY <1>2, <1>3, <1>4, SessionStep

\* The command asks for a new session (synchronize_mailboxes).
LEMMA RefreshKeeps ==
  ASSUME ListInv, OneCommand, NEW t \in Tasks, NEW ok \in BOOLEAN, RefreshSession(t, ok) PROVE ListInv'
<1>1. /\ SetsOK /\ ListsOK(log, mailboxes, lost) /\ TasksOK /\ KnownOK
  BY DEF ListInv
<1>2. task[t].pc = "sync" /\ UNCHANGED <<log, linked, listed, listPanicked>>
  BY DEF RefreshSession, server
<1>3. RunOK(task[t], log, mailboxes, lost) /\ DOMAIN task[t] = Fields /\ DOMAIN task = Tasks
  BY <1>1, <1>2, RunParts
<1>4. CASE ok
  <2>1. /\ known' = linked /\ mailboxes' = Without(mailboxes, {Jane} \ linked) /\ lost' = lost \cap ({Own} \cup linked)
        /\ task' = [task EXCEPT ![t].pc = "added", ![t].todo = linked \ DOMAIN mailboxes]
    BY <1>4 DEF RefreshSession
  <2> DEFINE r == task[t]
             s == task'[t]
  <2>2. /\ DOMAIN task' = Tasks /\ DOMAIN s = Fields /\ s.pc = "added" /\ s.todo = linked \ DOMAIN mailboxes /\ s.cmd = r.cmd
        /\ s.start = r.start /\ s.failed = r.failed /\ s.got = r.got
    BY <1>3, <2>1 DEF Fields
  <2>3. /\ DOMAIN mailboxes' = DOMAIN mailboxes \ ({Jane} \ linked) /\ \A a \in DOMAIN mailboxes' : mailboxes'[a] = mailboxes[a]
    BY <2>1 DEF Without
  <2>4. SetsOK'
    BY <1>1, <1>2, <2>1, <2>3 DEF SetsOK, Own, Jane
  <2>5. \A a \in DOMAIN mailboxes' : a \in lost => a \in lost'
    BY <1>1, <2>1, <2>3 DEF SetsOK, Accounts
  <2>6. ListsOK(log, mailboxes', lost')
    BY <1>1, <2>3, <2>5 DEF ListsOK
  <2> HIDE DEF r, s
  <2>r. RunOK(r, log, mailboxes, lost) /\ r.pc = "sync"
    BY <1>2, <1>3 DEF r
  <2>7. RunOK(s, log, mailboxes', lost')
    <3>1. Shape(s, log)
      BY <1>1, <2>2, <2>r DEF RunOK, Shape, Stages, SetsOK, Accounts
    <3>2. GotOK(s, log)
      BY <2>2, <2>r DEF RunOK, GotOK
    <3>3. SyncOK(s, log, mailboxes', lost')
      BY <2>2 DEF SyncOK
    <3> QED
      BY <2>2, <3>1, <3>2, <3>3 DEF RunOK
  <2>8. TasksOK'
    BY <1>2, <2>2, <2>7, TaskStep DEF s
  <2>9. KnownOK'
    <3>1. \A a \in linked : a \in DOMAIN mailboxes' \/ a \in s.todo
      BY <1>1, <2>2, <2>3
    <3>2. \A a \in known' : a \in DOMAIN mailboxes' \cup lost' \/ a \in Pending(s)
      BY <2>1, <2>2, <3>1 DEF Pending
    <3> QED
      BY <3>2, KnownThen DEF s
  <2> QED
    BY <1>2, <2>4, <2>6, <2>8, <2>9, SessionStep
<1>5. CASE ~ok
  <2>1. Ends(t) /\ UNCHANGED <<known, mailboxes, lost>>
    BY <1>5 DEF RefreshSession
  <2>2. Pending(task[t]) = {}
    BY <1>2 DEF Pending
  <2> QED
    BY <1>1, <1>2, <2>1, <2>2, EndKeeps DEF SetsOK
<1> QED
  BY <1>4, <1>5

\* The session is not refreshed.
LEMMA NoRefreshKeeps ==
  ASSUME ListInv, OneCommand, NEW t \in Tasks, NoRefresh(t) PROVE ListInv'
<1>1. /\ SetsOK /\ ListsOK(log, mailboxes, lost) /\ TasksOK /\ KnownOK
  BY DEF ListInv
<1>2. /\ task[t].pc = "sync" /\ task' = [task EXCEPT ![t].pc = "added"]
      /\ UNCHANGED <<log, linked, known, mailboxes, listed, lost, listPanicked>>
  BY DEF NoRefresh, Goto, server
<1> DEFINE r == task[t]
           s == task'[t]
<1>3. RunOK(r, log, mailboxes, lost) /\ DOMAIN r = Fields /\ DOMAIN task = Tasks
  BY <1>1, <1>2, RunParts
<1>4. /\ DOMAIN task' = Tasks /\ DOMAIN s = Fields /\ s.pc = "added" /\ s.cmd = r.cmd
      /\ s.start = r.start /\ s.failed = r.failed /\ s.got = r.got /\ s.todo = r.todo
  BY <1>2, <1>3 DEF Fields
<1>5. Pending(r) = {}
  BY <1>2 DEF Pending
<1>p. r.pc = "sync"
  BY <1>2
<1> HIDE DEF r, s
<1>6. RunOK(s, log, mailboxes, lost)
  <2>1. Shape(s, log)
    BY <1>3, <1>4 DEF RunOK, Shape, Stages
  <2>2. GotOK(s, log)
    BY <1>3, <1>4, <1>p DEF RunOK, GotOK
  <2>3. SyncOK(s, log, mailboxes, lost)
    BY <1>4 DEF SyncOK
  <2> QED
    BY <1>4, <2>1, <2>2, <2>3 DEF RunOK
<1>7. TasksOK'
  BY <1>2, <1>4, <1>6, TaskStep DEF s
<1>8. KnownOK'
  BY <1>1, <1>2, <1>5, KnownNow, KnownThen DEF r
<1>9. SetsOK' /\ ListsOK(log, mailboxes', lost')
  BY <1>1, <1>2 DEF SetsOK
<1> QED
  BY <1>2, <1>7, <1>8, <1>9, SessionStep

\* The command fetches the mailboxes of an account, or fails to.
LEMMA FetchKeeps ==
  ASSUME ListInv, OneCommand, NEW t \in Tasks, NEW a \in Accounts, NEW ok \in BOOLEAN, FetchAccount(t, a, ok) PROVE ListInv'
<1>1. LogOK /\ SetsOK /\ ListsOK(log, mailboxes, lost) /\ TasksOK /\ KnownOK
  BY DEF ListInv
<1> DEFINE r == task[t]
           s == task'[t]
           F == FetchAccountMailboxes(a)
<1>2. /\ r.pc \in {"added", "changed"} /\ a \in r.todo /\ UNCHANGED <<log, linked, known, mailboxes, listed, listPanicked>>
      /\ lost' = IF ~ok /\ r.pc = "added" THEN lost \cup {a} ELSE lost
      /\ task' = [task EXCEPT ![t].todo = @ \ {a}, ![t].failed = IF ok THEN @ ELSE @ \cup {a},
                              ![t].got = IF ok THEN Over([x \in {a} |-> F], @) ELSE @]
  BY DEF FetchAccount, server
<1>3. RunOK(r, log, mailboxes, lost) /\ DOMAIN r = Fields /\ DOMAIN task = Tasks
  BY <1>1, <1>2, RunParts
<1>4. /\ DOMAIN task' = Tasks /\ DOMAIN s = Fields /\ s.pc = r.pc /\ s.cmd = r.cmd /\ s.start = r.start /\ s.todo = r.todo \ {a}
      /\ s.failed = (IF ok THEN r.failed ELSE r.failed \cup {a}) /\ s.got = (IF ok THEN Over([x \in {a} |-> F], r.got) ELSE r.got)
  <2> HIDE DEF F
  <2> QED
    BY <1>2, <1>3 DEF Fields
<1>5. LET h == log[a] IN
      /\ ListOK(a, F, h) /\ F.state = Len(h) /\ Match(a, F, h[Len(h)].tree) /\ Fits(a, F, h)
  <2>1. IsHistory(log[a])
    BY <1>1 DEF LogOK, Histories
  <2>2. F = [state |-> Len(log[a]), names |-> Listing(a, Last(log[a]).tree).names, data |-> Listing(a, Last(log[a]).tree).data]
    BY DEF FetchAccountMailboxes, Tree, State
  <2> HIDE DEF F
  <2> QED
    BY <2>1, <2>2, FetchedIs
<1>p. Pending(r) \subseteq Pending(s) \cup lost'
  <2>1. DOMAIN r.got \subseteq DOMAIN s.got /\ (ok => a \in DOMAIN s.got)
    <3>1. CASE ok
      <4>1. s.got = Over([x \in {a} |-> F], r.got)
        BY <1>4, <3>1
      <4> HIDE DEF s, r, F
      <4>2. DOMAIN s.got = {a} \cup DOMAIN r.got
        BY <4>1 DEF Over
      <4> QED
        BY <4>2
    <3>2. CASE ~ok
      BY <1>4, <3>2
    <3> QED
      BY <3>1, <3>2
  <2>2. r.pc = "added" /\ ~ok => a \in lost'
    BY <1>2
  <2> HIDE DEF r, s, F
  <2>4. CASE r.pc = "added"
    BY <1>2, <1>4, <2>1, <2>2, <2>4 DEF Pending
  <2>5. CASE r.pc = "changed"
    BY <1>2, <1>4, <2>1, <2>5 DEF Pending
  <2> QED
    BY <1>2, <2>4, <2>5
<1> HIDE DEF r, s, F
<1>6. Shape(s, log)
  BY <1>3, <1>4 DEF RunOK, Shape
<1>7. ASSUME ok
      PROVE  /\ DOMAIN s.got = {a} \cup DOMAIN r.got /\ s.got[a] = F
             /\ \A b \in DOMAIN r.got : b # a => s.got[b] = r.got[b]
  BY <1>4, <1>7 DEF Over
<1>8. GotOK(s, log)
  <2>g. GotOK(r, log) /\ r.start[a] \in 1 .. Len(log[a])
    BY <1>3 DEF RunOK, Shape
  <2>1. CASE ok
    <3>1. F.state \in s.start[a] .. Len(log[a]) /\ Match(a, F, log[a][F.state].tree)
      BY <1>4, <1>5, <2>g
    <3>2. s.pc # "sync"
      BY <1>2, <1>4
    <3> QED
      BY <1>4, <1>5, <1>7, <2>1, <2>g, <3>1, <3>2 DEF GotOK
  <2>2. CASE ~ok
    BY <1>2, <1>4, <2>2, <2>g DEF GotOK
  <2> QED
    BY <2>1, <2>2
<1>9. SyncOK(s, log, mailboxes, lost')
  <2>1. s.pc \in {"added", "changed"}
    BY <1>2, <1>4
  <2>2. ASSUME s.pc = "changed", NEW b \in DOMAIN mailboxes, b \notin lost' \cup s.failed \cup s.todo \cup DOMAIN s.got
        PROVE  Current(b, mailboxes[b], s, log[b])
    <3>1. r.pc = "changed" /\ lost' = lost
      BY <1>2, <1>4, <2>2
    <3>2. b # a
      <4>1. CASE ok
        BY <1>7, <2>2, <4>1
      <4>2. CASE ~ok
        BY <1>4, <2>2, <4>2
      <4> QED
        BY <4>1, <4>2
    <3>3. b \notin DOMAIN r.got
      <4>1. CASE ok
        BY <1>7, <2>2, <4>1
      <4>2. CASE ~ok
        BY <1>4, <2>2, <4>2
      <4> QED
        BY <4>1, <4>2
    <3>4. b \notin lost \cup r.failed \cup r.todo \cup DOMAIN r.got
      BY <1>4, <2>2, <3>1, <3>2, <3>3
    <3>5. Current(b, mailboxes[b], r, log[b])
      BY <1>3, <3>1, <3>4 DEF RunOK, SyncOK
    <3> QED
      BY <1>4, <3>5 DEF Current
  <2> QED
    BY <2>1, <2>2 DEF SyncOK
<1>10. RunOK(s, log, mailboxes, lost')
  BY <1>2, <1>4, <1>6, <1>8, <1>9 DEF RunOK
<1>11. TasksOK'
  BY <1>2, <1>4, <1>10, TaskStep DEF s
<1>12. KnownOK'
  <2>1. lost \subseteq lost'
    BY <1>2
  <2> QED
    BY <1>1, <1>2, <1>p, <2>1, KnownNow, KnownThen DEF r, s
<1>13. SetsOK' /\ ListsOK(log, mailboxes', lost')
  BY <1>1, <1>2 DEF SetsOK, ListsOK
<1> QED
  BY <1>2, <1>11, <1>12, <1>13, SessionStep

\* No news of an account's list since its state: the list is that of the server.
LEMMA NoNewsMatch ==
  ASSUME NEW a \in DOMAIN mailboxes, IsHistory(log[a]), Fits(a, mailboxes[a], log[a]), ListOK(a, mailboxes[a], log[a]),
         ChangesMailbox(a) \in {"none", "counts"}
  PROVE  Match(a, mailboxes[a], log[a][Len(log[a])].tree)
<1> DEFINE h == log[a]
           since == mailboxes[a].state
<1>1. since \in 0 .. Len(h) /\ Len(h) \in Nat /\ Last(h) = h[Len(h)]
  BY HistoryParts DEF ListOK
<1>2. since = Len(h) \/ ~\E k \in since + 1 .. Len(h) : h[k].list
  BY DEF ChangesMailbox, State
<1>3. Fits(a, mailboxes[a], h)
  OBVIOUS
<1> HIDE DEF h
<1>4. Quiet(h, since, Len(h))
  BY <1>1, <1>2 DEF Quiet
<1> QED
  BY <1>1, <1>3, <1>4 DEF Fits, h

\* The command asks every account for its changes, or fails to.
LEMMA AskKeeps ==
  ASSUME ListInv, OneCommand, NEW t \in Tasks, NEW ok \in BOOLEAN, AskChanges(t, ok) PROVE ListInv'
<1>1. LogOK /\ SetsOK /\ ListsOK(log, mailboxes, lost) /\ TasksOK /\ KnownOK
  BY DEF ListInv
<1> DEFINE r == task[t]
           s == task'[t]
           q == [a \in DOMAIN mailboxes |-> <<ChangesMailbox(a), State(a)>>]
<1>2. r.pc = "added" /\ r.todo = {} /\ UNCHANGED <<log, linked, known, mailboxes, listed, listPanicked>>
  BY DEF AskChanges, server
<1>3. RunOK(r, log, mailboxes, lost) /\ DOMAIN r = Fields /\ DOMAIN task = Tasks
  BY <1>1, <1>2, RunParts
<1>p. Pending(r) = DOMAIN r.got
  BY <1>2 DEF Pending
<1>4. CASE ok
  <2>1. task' = [task EXCEPT ![t].pc = "reply", ![t].reply = q] /\ lost' = lost
    BY <1>4 DEF AskChanges
  <2> HIDE DEF q
  <2>2. /\ DOMAIN task' = Tasks /\ DOMAIN s = Fields /\ s.pc = "reply" /\ s.reply = q /\ s.cmd = r.cmd
        /\ s.start = r.start /\ s.failed = r.failed /\ s.got = r.got /\ s.todo = r.todo
    BY <1>3, <2>1 DEF Fields
  <2> HIDE DEF r, s
  <2>3. Shape(s, log)
    BY <1>3, <2>2 DEF RunOK, Shape, Stages
  <2>4. GotOK(s, log)
    BY <1>3, <2>2 DEF RunOK, GotOK
  <2>5. ReplyOK(s, log, mailboxes, lost)
    <3>1. DOMAIN q = DOMAIN mailboxes /\ \A a \in DOMAIN mailboxes : q[a][1] = ChangesMailbox(a) /\ q[a][2] = Len(log[a])
      BY DEF q, State
    <3>2. ASSUME NEW a \in DOMAIN mailboxes
          PROVE  /\ Len(log[a]) \in s.start[a] .. Len(log[a])
                 /\ ChangesMailbox(a) \in {"error", "none", "list", "counts"}
                 /\ a \notin lost /\ ChangesMailbox(a) \in {"none", "counts"} => Match(a, mailboxes[a], log[a][Len(log[a])].tree)
      <4>1. a \in Accounts /\ IsHistory(log[a]) /\ ListOK(a, mailboxes[a], log[a]) /\ (a \notin lost => Fits(a, mailboxes[a], log[a]))
        BY <1>1 DEF SetsOK, LogOK, Histories, ListsOK
      <4>2. Len(log[a]) \in s.start[a] .. Len(log[a])
        <5>1. s.start[a] \in 1 .. Len(log[a]) /\ Len(log[a]) \in Nat
          BY <2>3, <4>1, HistoryParts DEF Shape
        <5> QED
          BY <5>1
      <4>3. ChangesMailbox(a) \in {"error", "none", "list", "counts"}
        BY DEF ChangesMailbox
      <4> QED
        BY <4>1, <4>2, <4>3, NoNewsMatch
    <3> QED
      BY <2>2, <3>1, <3>2 DEF ReplyOK
  <2>6. SyncOK(s, log, mailboxes, lost)
    BY <2>2, <2>5 DEF SyncOK
  <2>7. RunOK(s, log, mailboxes, lost)
    BY <2>2, <2>3, <2>4, <2>6 DEF RunOK
  <2>8. TasksOK'
    BY <1>2, <2>1, <2>2, <2>7, TaskStep DEF s
  <2>9. KnownOK'
    <3>1. Pending(s) = Pending(r)
      BY <1>p, <2>2 DEF Pending
    <3> QED
      BY <1>1, <1>2, <2>1, <3>1, KnownNow, KnownThen DEF r, s
  <2>10. SetsOK' /\ ListsOK(log, mailboxes', lost')
    BY <1>1, <1>2, <2>1 DEF SetsOK
  <2> QED
    BY <1>2, <2>8, <2>9, <2>10, SessionStep
<1>5. CASE ~ok
  <2>1. Ends(t) /\ lost' = lost \cup DOMAIN r.got
    BY <1>5 DEF AskChanges
  <2>2. DOMAIN r.got \subseteq Accounts
    BY <1>3 DEF RunOK, GotOK
  <2> QED
    BY <1>1, <1>2, <1>p, <2>1, <2>2, EndKeeps DEF SetsOK
<1> QED
  BY <1>4, <1>5

\* Mailbox/set fails before it is done.
LEMMA SetFailsKeeps ==
  ASSUME ListInv, OneCommand, NEW t \in Tasks, SetFails(t) PROVE ListInv'
<1>1. SetsOK
  BY DEF ListInv
<1>2. /\ Ends(t) /\ UNCHANGED <<log, linked, known, mailboxes, listed, lost, listPanicked>>
      /\ Pending(task[t]) = {}
  BY DEF SetFails, server, Pending
<1> QED
  BY <1>1, <1>2, EndKeeps DEF SetsOK

\* The state of a list says nothing of the names.
LEMMA MatchSame ==
  ASSUME NEW a, NEW l, NEW m, NEW tree, m.names = l.names, m.data = l.data, Match(a, l, tree) PROVE Match(a, m, tree)
BY DEF Match

\* Giving a list a later state keeps it sound, and right if it matches the tree of that state.
LEMMA Restated ==
  ASSUME NEW a, NEW l, NEW h, IsHistory(h), ListOK(a, l, h), NEW k \in 1 .. Len(h), NEW m, m = [l EXCEPT !.state = k]
  PROVE  /\ ListOK(a, m, h) /\ m.names = l.names /\ m.data = l.data
         /\ Match(a, l, h[k].tree) => Fits(a, m, h)
<1>1. DOMAIN l = {"state", "names", "data"}
  BY DEF ListOK, IsList
<1>2. m.names = l.names /\ m.data = l.data /\ m.state = k /\ DOMAIN m = {"state", "names", "data"}
  BY <1>1
<1>3. Len(h) \in Nat /\ Last(h) = h[Len(h)]
  BY HistoryParts
<1>4. ListOK(a, m, h)
  BY <1>2, <1>3 DEF ListOK, IsList
<1>5. ASSUME Match(a, l, h[k].tree), Quiet(h, k, Len(h)) PROVE Match(a, m, Last(h).tree)
  <2>1. Len(h) \in k .. Len(h)
    BY <1>3
  <2>2. h[Len(h)].tree = h[k].tree
    BY <1>5, <2>1, QuietSame
  <2> QED
    BY <1>2, <1>3, <1>5, <2>2, MatchSame
<1> QED
  BY <1>2, <1>3, <1>4, <1>5 DEF Fits

\* The command reads the answers to Mailbox/changes.
LEMMA ChangedKeeps ==
  ASSUME ListInv, OneCommand, NEW t \in Tasks, Changed(t) PROVE ListInv'
<1>1. LogOK /\ SetsOK /\ ListsOK(log, mailboxes, lost) /\ TasksOK /\ KnownOK
  BY DEF ListInv
<1> DEFINE r == task[t]
           s == task'[t]
           q == r.reply
           adv == IF r.cmd.op = "idle" THEN {} ELSE Advanced(q)
           bad == {a \in DOMAIN q : q[a][1] = "error"}
           more == {a \in DOMAIN q : q[a][1] = "list" \/ (q[a][1] = "counts" /\ r.cmd.op = "idle")}
<1>2. /\ r.pc = "reply" /\ UNCHANGED <<log, linked, known, listed, lost, listPanicked>>
      /\ task' = [task EXCEPT ![t].pc = "changed", ![t].failed = @ \cup bad, ![t].todo = more]
      /\ mailboxes' = [a \in DOMAIN mailboxes |->
                         IF a \in adv THEN [mailboxes[a] EXCEPT !.state = q[a][2]] ELSE mailboxes[a]]
  BY DEF Changed, server
<1>3. RunOK(r, log, mailboxes, lost) /\ DOMAIN r = Fields /\ DOMAIN task = Tasks
  BY <1>1, <1>2, RunParts
<1>4. /\ DOMAIN task' = Tasks /\ DOMAIN s = Fields /\ s.pc = "changed" /\ s.cmd = r.cmd /\ s.start = r.start
      /\ s.failed = r.failed \cup bad /\ s.todo = more /\ s.got = r.got
  <2> HIDE DEF bad, more
  <2> QED
    BY <1>2, <1>3 DEF Fields
<1>5. /\ DOMAIN mailboxes' = DOMAIN mailboxes
      /\ \A a \in DOMAIN mailboxes : a \in adv => mailboxes'[a] = [mailboxes[a] EXCEPT !.state = q[a][2]]
      /\ \A a \in DOMAIN mailboxes : a \notin adv => mailboxes'[a] = mailboxes[a]
  <2> HIDE DEF adv, q
  <2> QED
    BY <1>2
<1>6. ReplyOK(r, log, mailboxes, lost)
  BY <1>2, <1>3 DEF RunOK, SyncOK
<1>7. \A a \in adv : q[a][1] = "counts" /\ r.cmd.op # "idle" /\ a \in DOMAIN q
  BY DEF Advanced
<1>8. \A a \in DOMAIN q : a \notin more /\ a \notin bad /\ q[a][1] \in {"error", "none", "list", "counts"} => q[a][1] \in {"none", "counts"}
  OBVIOUS
<1>9. bad \subseteq DOMAIN q /\ more \subseteq DOMAIN q
  OBVIOUS
<1>p. Pending(r) = DOMAIN r.got
  BY <1>2 DEF Pending
<1> HIDE DEF adv, bad, more
<1>10. /\ DOMAIN q = DOMAIN mailboxes
       /\ \A a \in DOMAIN mailboxes :
            /\ q[a][2] \in r.start[a] .. Len(log[a])
            /\ q[a][1] \in {"error", "none", "list", "counts"}
            /\ a \notin lost /\ q[a][1] \in {"none", "counts"} => Match(a, mailboxes[a], log[a][q[a][2]].tree)
  BY <1>6 DEF ReplyOK
<1>11. ASSUME NEW a \in DOMAIN mailboxes
       PROVE  /\ ListOK(a, mailboxes'[a], log[a]) /\ (a \notin lost => Fits(a, mailboxes'[a], log[a]))
              /\ mailboxes'[a].names = mailboxes[a].names /\ mailboxes'[a].data = mailboxes[a].data
  <2>1. a \in Accounts /\ IsHistory(log[a]) /\ ListOK(a, mailboxes[a], log[a]) /\ (a \notin lost => Fits(a, mailboxes[a], log[a]))
    BY <1>1 DEF SetsOK, LogOK, Histories, ListsOK
  <2>2. CASE a \in adv
    <3> DEFINE k == q[a][2]
    <3>1. k \in 1 .. Len(log[a])
      <4>1. r.start[a] \in 1 .. Len(log[a]) /\ Len(log[a]) \in Nat
        BY <1>3, <2>1, HistoryParts DEF RunOK, Shape
      <4> QED
        BY <1>10, <4>1
    <3>2. mailboxes'[a] = [mailboxes[a] EXCEPT !.state = k]
      BY <1>5, <2>2
    <3>3. a \notin lost => Match(a, mailboxes[a], log[a][k].tree)
      BY <1>7, <1>10, <2>2
    <3> HIDE DEF k
    <3> QED
      BY <2>1, <3>1, <3>2, <3>3, Restated
  <2>3. CASE a \notin adv
    BY <1>5, <2>1, <2>3
  <2> QED
    BY <2>2, <2>3
<1>12. ListsOK(log, mailboxes', lost')
  BY <1>2, <1>5, <1>11 DEF ListsOK
<1>13. SetsOK'
  BY <1>1, <1>2, <1>5 DEF SetsOK
<1>q. q = r.reply
  OBVIOUS
<1> HIDE DEF r, s, q
<1>14. Shape(s, log)
  <2>1. bad \subseteq Accounts /\ more \subseteq Accounts
    BY <1>1, <1>9, <1>10 DEF SetsOK
  <2> QED
    BY <1>3, <1>4, <2>1 DEF RunOK, Shape, Stages
<1>15. GotOK(s, log)
  BY <1>2, <1>3, <1>4 DEF RunOK, GotOK
<1>16. ASSUME NEW a \in DOMAIN mailboxes', a \notin lost' \cup s.failed \cup s.todo \cup DOMAIN s.got
       PROVE  Current(a, mailboxes'[a], s, log[a])
  <2>1. a \in DOMAIN mailboxes /\ a \notin lost /\ a \notin bad /\ a \notin more
    BY <1>2, <1>4, <1>5, <1>16
  <2>2. q[a][2] \in s.start[a] .. Len(log[a]) /\ Match(a, mailboxes[a], log[a][q[a][2]].tree)
    BY <1>4, <1>8, <1>10, <2>1
  <2>3. Match(a, mailboxes'[a], log[a][q[a][2]].tree)
    BY <1>11, <2>1, <2>2, MatchSame
  <2> QED
    BY <2>2, <2>3 DEF Current
<1>17. SyncOK(s, log, mailboxes', lost')
  BY <1>4, <1>16 DEF SyncOK
<1>18. RunOK(s, log, mailboxes', lost')
  BY <1>4, <1>14, <1>15, <1>17 DEF RunOK
<1>19. TasksOK'
  BY <1>2, <1>4, <1>18, TaskStep DEF s
<1>20. KnownOK'
  <2>1. Pending(s) = Pending(r)
    BY <1>p, <1>4 DEF Pending
  <2> QED
    BY <1>1, <1>2, <1>5, <2>1, KnownNow, KnownThen DEF r, s
<1> QED
  BY <1>2, <1>12, <1>13, <1>19, <1>20, SessionStep

\* The command has fetched all it had to.
LEMMA SynchronizedKeeps ==
  ASSUME ListInv, OneCommand, NEW t \in Tasks, Synchronized(t) PROVE ListInv'
<1>1. LogOK /\ SetsOK /\ ListsOK(log, mailboxes, lost) /\ TasksOK /\ KnownOK
  BY DEF ListInv
<1> DEFINE r == task[t]
           s == task'[t]
<1>2. /\ r.pc = "changed" /\ r.todo = {} /\ UNCHANGED <<log, linked, known, listed, listPanicked>>
      /\ mailboxes' = Over(r.got, mailboxes) /\ lost' = lost \ DOMAIN r.got
      /\ IF r.cmd.op = "idle" THEN Ends(t) ELSE task' = [task EXCEPT ![t].pc = "act"]
  BY DEF Synchronized, server, Goto
<1>3. RunOK(r, log, mailboxes, lost) /\ DOMAIN r = Fields /\ DOMAIN task = Tasks
  BY <1>1, <1>2, RunParts
<1>4. /\ DOMAIN mailboxes' = DOMAIN r.got \cup DOMAIN mailboxes
      /\ \A a \in DOMAIN r.got : mailboxes'[a] = r.got[a]
      /\ \A a \in DOMAIN mailboxes \ DOMAIN r.got : mailboxes'[a] = mailboxes[a]
  <2> HIDE DEF r
  <2> QED
    BY <1>2 DEF Over
<1>p. Pending(r) = DOMAIN r.got
  BY <1>2 DEF Pending
<1>5. /\ r.cmd.op = "idle" => Ends(t)
      /\ r.cmd.op # "idle" => /\ DOMAIN task' = Tasks /\ DOMAIN s = Fields /\ s.pc = "act" /\ s.cmd = r.cmd
                              /\ s.start = r.start /\ s.failed = r.failed /\ s.got = r.got /\ s.todo = r.todo
  BY <1>2, <1>3 DEF Fields
<1> HIDE DEF r, s
<1>6. /\ DOMAIN r.got \subseteq Accounts
      /\ \A a \in DOMAIN r.got : /\ ListOK(a, r.got[a], log[a]) /\ Fits(a, r.got[a], log[a])
                                 /\ r.got[a].state \in r.start[a] .. Len(log[a])
                                 /\ Match(a, r.got[a], log[a][r.got[a].state].tree)
  BY <1>3 DEF RunOK, GotOK
<1>7. SetsOK'
  BY <1>1, <1>2, <1>4, <1>6 DEF SetsOK
<1>8. ListsOK(log, mailboxes', lost')
  BY <1>1, <1>2, <1>4, <1>6 DEF ListsOK
<1>9. ASSUME r.cmd.op # "idle" PROVE RunOK(s, log, mailboxes', lost')
  <2>1. /\ DOMAIN s = Fields /\ s.pc = "act" /\ s.cmd = r.cmd
        /\ s.start = r.start /\ s.failed = r.failed /\ s.got = r.got /\ s.todo = r.todo
    BY <1>5, <1>9
  <2>2. Shape(s, log)
    BY <1>3, <2>1 DEF RunOK, Shape, Stages
  <2>3. GotOK(s, log)
    BY <1>2, <1>3, <2>1 DEF RunOK, GotOK
  <2>4. ASSUME NEW a \in DOMAIN mailboxes', a \notin lost' \cup s.failed PROVE Current(a, mailboxes'[a], s, log[a])
    <3>1. CASE a \in DOMAIN r.got
      BY <1>4, <1>6, <2>1, <3>1 DEF Current
    <3>2. CASE a \notin DOMAIN r.got
      <4>1. a \in DOMAIN mailboxes /\ a \notin lost \cup r.failed \cup r.todo \cup DOMAIN r.got
        BY <1>2, <1>4, <2>1, <2>4, <3>2
      <4>2. Current(a, mailboxes[a], r, log[a])
        BY <1>2, <1>3, <4>1 DEF RunOK, SyncOK
      <4> QED
        BY <1>4, <2>1, <4>1, <4>2 DEF Current
    <3> QED
      BY <3>1, <3>2
  <2>5. SyncOK(s, log, mailboxes', lost')
    BY <1>9, <2>1, <2>4 DEF SyncOK
  <2> QED
    BY <2>1, <2>2, <2>3, <2>5 DEF RunOK
<1>10. TasksOK'
  <2>1. CASE r.cmd.op = "idle"
    BY <1>3, <1>5, <2>1, TaskEnds
  <2>2. CASE r.cmd.op # "idle"
    BY <1>2, <1>5, <1>9, <2>2, TaskStep DEF s
  <2> QED
    BY <2>1, <2>2
<1>11. KnownOK'
  <2>1. \A a \in known : a \in DOMAIN mailboxes \cup lost \/ a \in DOMAIN r.got
    BY <1>1, <1>p, KnownNow DEF r
  <2>2. \A a \in known' : a \in DOMAIN mailboxes' \cup lost'
    BY <1>2, <1>4, <2>1
  <2> QED
    BY <2>2, KnownThen
<1> QED
  BY <1>2, <1>7, <1>8, <1>10, <1>11, SessionStep

\* LIST and LSUB answer from the lists.
LEMMA ListKeeps ==
  ASSUME ListInv, OneCommand, NEW t \in Tasks, List(t) PROVE ListInv'
<1>1. LogOK /\ SetsOK /\ ListsOK(log, mailboxes, lost) /\ TasksOK /\ KnownOK /\ NamesHaveData
  BY DEF ListInv
<1> DEFINE r == task[t]
           stale == lost \cup r.failed
           items == [a \in DOMAIN mailboxes |-> Listed(mailboxes[a], r.cmd)]
           resp == [start |-> r.start, cmd |-> r.cmd, known |-> known, stale |-> stale, items |-> items]
<1>2. /\ r.pc = "act" /\ UNCHANGED <<log, linked, known, mailboxes, lost>> /\ Ends(t)
      /\ listPanicked' = \E a \in DOMAIN mailboxes : Dangling(mailboxes[a])
      /\ listed' = IF listPanicked' THEN NoList ELSE resp
  BY DEF List, server, Stale
<1>3. RunOK(r, log, mailboxes, lost) /\ DOMAIN r = Fields /\ DOMAIN task = Tasks
  BY <1>1, <1>2, RunParts
<1>4. \A a \in DOMAIN mailboxes : ~Dangling(mailboxes[a])
  <2>1. SUFFICES ASSUME NEW a \in DOMAIN mailboxes PROVE ~Dangling(mailboxes[a])
    OBVIOUS
  <2>2. \A n \in DOMAIN mailboxes[a].names : mailboxes[a].names[n] \in DOMAIN mailboxes[a].data
    BY <1>1 DEF ListsOK, ListOK
  <2> QED
    BY <2>2 DEF Dangling, Range
<1>5. NamesHaveData' /\ listed' = resp
  BY <1>2, <1>4 DEF NamesHaveData
<1>6. /\ resp.start = r.start /\ resp.cmd = r.cmd /\ resp.known = known /\ resp.stale = stale /\ resp.items = items
  <2> HIDE DEF stale, items
  <2> QED
    OBVIOUS
<1>7. DOMAIN items = DOMAIN mailboxes /\ \A a \in DOMAIN mailboxes : items[a] = Listed(mailboxes[a], r.cmd)
  OBVIOUS
<1>p. Pending(r) = {}
  BY <1>2 DEF Pending
<1>k. \A a \in known : a \in DOMAIN mailboxes \cup lost
  BY <1>1, <1>p, KnownNow
<1>s. stale = lost \cup r.failed
  OBVIOUS
<1> HIDE DEF resp, items, stale, r
<1>8. \A a \in Accounts : r.start[a] \in 1 .. Len(log[a])
  BY <1>3 DEF RunOK, Shape
<1>9. ListedOK'
  BY <1>1, <1>2, <1>5, <1>6, <1>7, <1>8 DEF ListedOK, State, SetsOK
<1>10. ASSUME NEW a \in DOMAIN items \ stale
       PROVE  /\ \E k \in r.start[a] .. Len(log[a]) : {x[1] : x \in items[a]} = Expected(a, log[a][k].tree, r.cmd)
              /\ \A x, y \in items[a] : IsStrictPrefix(x[1], y[1]) => x[2]
  <2>1. a \in DOMAIN mailboxes /\ a \notin lost \cup r.failed /\ a \in Accounts
    BY <1>1, <1>7, <1>10, <1>s DEF SetsOK
  <2>2. Current(a, mailboxes[a], r, log[a])
    BY <1>2, <1>3, <2>1 DEF RunOK, SyncOK, r
  <2>3. PICK k \in r.start[a] .. Len(log[a]) : Match(a, mailboxes[a], log[a][k].tree)
    BY <2>2 DEF Current
  <2>4. IsTree(log[a][k].tree)
    <3>1. IsHistory(log[a]) /\ r.start[a] \in 1 .. Len(log[a])
      BY <1>1, <1>8, <2>1 DEF LogOK, Histories
    <3>2. Len(log[a]) \in Nat /\ \A x \in 1 .. Len(log[a]) : IsTree(log[a][x].tree)
      BY <3>1, HistoryParts
    <3> QED
      BY <3>1, <3>2
  <2> DEFINE l == mailboxes[a]
             tree == log[a][k].tree
  <2>5. /\ {x[1] : x \in Listed(l, r.cmd)} = Expected(a, tree, r.cmd)
        /\ \A x, y \in Listed(l, r.cmd) : IsStrictPrefix(x[1], y[1]) => x[2]
    <3>1. IsTree(tree) /\ Match(a, l, tree)
      BY <2>3, <2>4
    <3> HIDE DEF l, tree
    <3> QED
      BY <2>1, <3>1, ListedRight
  <2>6. items[a] = Listed(l, r.cmd)
    BY <1>7, <2>1
  <2> QED
    BY <2>3, <2>5, <2>6
<1>11. ListsTheServer'
  <2>1. listed'.known \subseteq DOMAIN listed'.items \cup listed'.stale
    BY <1>5, <1>6, <1>7, <1>k, <1>s
  <2>2. \A a \in DOMAIN listed'.items \ listed'.stale :
          /\ \E k \in listed'.start[a] .. Len(log'[a]) :
               {x[1] : x \in listed'.items[a]} = Expected(a, log'[a][k].tree, listed'.cmd)
          /\ \A x, y \in listed'.items[a] : IsStrictPrefix(x[1], y[1]) => x[2]
    <3>1. /\ listed'.items = items /\ listed'.stale = stale /\ listed'.start = r.start /\ listed'.cmd = r.cmd
          /\ log' = log
      BY <1>2, <1>5, <1>6
    <3>2. ASSUME NEW a \in DOMAIN items \ stale
          PROVE  /\ \E k \in listed'.start[a] .. Len(log'[a]) :
                      {x[1] : x \in listed'.items[a]} = Expected(a, log'[a][k].tree, listed'.cmd)
                 /\ \A x, y \in listed'.items[a] : IsStrictPrefix(x[1], y[1]) => x[2]
      <4>1. PICK k \in r.start[a] .. Len(log[a]) : {x[1] : x \in items[a]} = Expected(a, log[a][k].tree, r.cmd)
        BY <1>10
      <4>2. listed'.items[a] = items[a]
        BY <3>1
      <4>3. {x[1] : x \in listed'.items[a]} = {x[1] : x \in items[a]}
        BY <4>2
      <4>4. {x[1] : x \in listed'.items[a]} = Expected(a, log'[a][k].tree, listed'.cmd)
        BY <3>1, <4>1, <4>3
      <4>5. k \in listed'.start[a] .. Len(log'[a])
        BY <3>1
      <4> QED
        BY <1>10, <4>2, <4>4, <4>5
    <3> QED
      BY <3>1, <3>2
  <2> QED
    BY <2>1, <2>2 DEF ListsTheServer, State
<1>12. TasksOK'
  BY <1>2, <1>3, TaskEnds
<1>13. KnownOK'
  BY <1>2, <1>k, KnownThen
<1>14. LogOK' /\ SetsOK' /\ ListsOK(log', mailboxes', lost')
  BY <1>1, <1>2 DEF LogOK, SetsOK
<1> QED
  BY <1>5, <1>9, <1>11, <1>12, <1>13, <1>14 DEF ListInv

-----------------------------------------------------------------------------
(* The checks before a request, and its parameters.                           *)

\* The greatest of some numbers is one of them.
LEMMA GreatestIn ==
  ASSUME NEW n \in Nat, NEW T, T \subseteq 1 .. n, T # {} PROVE Max(T) \in T
<1> DEFINE U == {n - x : x \in T}
<1>1. U \in SUBSET Nat /\ U # {}
  <2>1. \A x \in T : n - x \in Nat
    OBVIOUS
  <2>2. \A u \in U : u \in Nat
    BY <2>1
  <2>3. PICK x \in T : TRUE
    OBVIOUS
  <2>4. n - x \in U
    OBVIOUS
  <2> QED
    BY <2>2, <2>4
<1>2. PICK u \in U : \A v \in U : u <= v
  BY <1>1, LeastNat
<1>3. PICK x \in T : u = n - x
  BY <1>2
<1>4. \A y \in T : x >= y
  <2>1. SUFFICES ASSUME NEW y \in T PROVE x >= y
    OBVIOUS
  <2>2. n - y \in U /\ x \in 1 .. n /\ y \in 1 .. n
    OBVIOUS
  <2>3. n - x <= n - y
    BY <1>2, <1>3, <2>2
  <2> QED
    BY <2>2, <2>3
<1>5. \E z \in T : \A y \in T : z >= y
  BY <1>4
<1> QED
  BY <1>5 DEF Max

\* The part of a new name that exists already (validate_mailbox_create) is shorter than the name.
LEMMA ParentLengthIs ==
  ASSUME NEW n \in Names, n # <<>>
  PROVE  /\ ParentLength(n) \in 0 .. Len(n) - 1
         /\ ParentLength(n) # 0 => SubSeq(n, 1, ParentLength(n)) \in DOMAIN mailboxes[AccountOf(n)].names
<1> DEFINE T == {k \in 1 .. Len(n) - 1 : SubSeq(n, 1, k) \in DOMAIN mailboxes[AccountOf(n)].names}
<1>1. Len(n) \in Nat \ {0}
  BY DEF Names
<1>2. Len(n) - 1 \in Nat /\ T \subseteq 1 .. Len(n) - 1
  BY <1>1
<1>3. ParentLength(n) = IF T = {} THEN 0 ELSE Max(T)
  BY DEF ParentLength
<1>4. T # {} => Max(T) \in T
  <2> HIDE DEF T
  <2> DEFINE m == Len(n) - 1
  <2>1. m \in Nat /\ T \subseteq 1 .. m
    BY <1>2
  <2> HIDE DEF m
  <2> QED
    BY <2>1, GreatestIn
<1>5. CASE T = {}
  BY <1>1, <1>3, <1>5
<1>6. CASE T # {}
  <2>1. ParentLength(n) \in T
    BY <1>3, <1>4, <1>6
  <2> QED
    BY <1>1, <2>1
<1> QED
  BY <1>5, <1>6

\* validate_mailbox_create.
ParamsFor(p, n) ==
  /\ DOMAIN p = {"account", "id", "path", "above", "parent"} /\ p.account = AccountOf(n)
  /\ p.path \in Names /\ p.path # <<>> /\ p.above \in Names
  /\ n = p.above \o p.path /\ IsStrictPrefix(Prefix(p.account), n)
  /\ p.above = <<>> => p.parent = NoParent
  /\ p.above # <<>> => p.above \in DOMAIN mailboxes[p.account].names /\ mailboxes[p.account].names[p.above] = p.parent

\* A name the session accepts lies below the prefix of its account.
LEMMA ValidPrefix ==
  ASSUME NEW n \in Names, Valid(n) PROVE n # <<>> /\ IsStrictPrefix(Prefix(AccountOf(n)), n)
<1>1. Len(n) \in Nat
  BY DEF Names
<1>2. n # <<>> /\ Len(n) # 0
  BY <1>1 DEF Valid
<1>3. CASE n[1] = FolderShared
  <2>1. AccountOf(n) = Jane /\ Len(n) >= 3 /\ SubSeq(n, 1, 2) = Prefix(Jane)
    BY <1>3 DEF Valid, AccountOf
  <2>2. Prefix(Jane) \in Names
    BY PrefixTyped DEF Accounts
  <2>3. Len(SubSeq(n, 1, 2)) = 2 /\ \A x \in 1 .. 2 : SubSeq(n, 1, 2)[x] = n[x]
    <3>1. /\ Len(SubSeq(n, 1, 2)) = 2 - 1 + 1
          /\ \A x \in 1 .. 2 - 1 + 1 : SubSeq(n, 1, 2)[x] = n[1 + x - 1]
      BY <1>1, <2>1, Piece
    <3>2. 2 - 1 + 1 = 2 /\ \A x \in 1 .. 2 : 1 + x - 1 = x
      OBVIOUS
    <3> QED
      BY <3>1, <3>2
  <2> DEFINE q == Prefix(Jane)
  <2>4. q \in Names /\ Len(q) = 2 /\ \A x \in 1 .. 2 : q[x] = n[x]
    BY <2>1, <2>2, <2>3
  <2> HIDE DEF q
  <2>5. IsPrefix(q, n)
    BY <1>1, <2>1, <2>4, PrefixParts
  <2>6. q # n
    <3>1. Len(n) >= 3 /\ Len(q) = 2
      BY <2>1, <2>4
    <3>0. \A u \in Nat : u >= 3 => u # 2
      OBVIOUS
    <3>2. Len(q) # Len(n)
      BY <1>1, <3>0, <3>1, Zenon
    <3> QED
      BY <3>2
  <2> QED
    BY <1>2, <2>1, <2>5, <2>6 DEF IsStrictPrefix, q
<1>4. CASE n[1] # FolderShared
  <2>1. Prefix(AccountOf(n)) = <<>>
    BY <1>4 DEF AccountOf, Prefix
  <2>2. <<>> \in Names /\ Len(<<>>) = 0
    BY DEF Names
  <2> DEFINE q == <<>>
  <2>3. IsPrefix(q, n)
    <3>1. q \in Names /\ Len(q) = 0
      BY <2>2
    <3> HIDE DEF q
    <3> QED
      BY <1>1, <3>1, PrefixParts
  <2> QED
    BY <1>2, <2>1, <2>3 DEF IsStrictPrefix
<1> QED
  BY <1>3, <1>4

\* validate_mailbox_create splits a name into its existing parent and the path to create.
LEMMA CreateParamsAre ==
  ASSUME NEW n \in Names, Valid(n) PROVE ParamsFor(CreateParams(n), n)
<1> DEFINE k == ParentLength(n)
           p == CreateParams(n)
           l == mailboxes[AccountOf(n)]
<1>1. n # <<>> /\ IsStrictPrefix(Prefix(AccountOf(n)), n)
  BY ValidPrefix
<1>2. Len(n) \in Nat \ {0}
  BY <1>1 DEF Names
<1>3. k \in 0 .. Len(n) - 1 /\ (k # 0 => SubSeq(n, 1, k) \in DOMAIN l.names)
  BY <1>1, ParentLengthIs
<1>4. p = [account |-> AccountOf(n), id |-> NoParent, path |-> SubSeq(n, k + 1, Len(n)), above |-> SubSeq(n, 1, k),
           parent |-> IF k = 0 THEN NoParent ELSE l.names[SubSeq(n, 1, k)]]
  BY DEF CreateParams
<1> HIDE DEF k, p, l
<1>5. /\ DOMAIN p = {"account", "id", "path", "above", "parent"} /\ p.account = AccountOf(n)
      /\ p.path = SubSeq(n, k + 1, Len(n)) /\ p.above = SubSeq(n, 1, k)
      /\ p.parent = IF k = 0 THEN NoParent ELSE l.names[SubSeq(n, 1, k)]
  BY <1>4
<1>6. SubSeq(n, 1, k) \in Names /\ Len(SubSeq(n, 1, k)) = k
  <2>1. k \in Nat /\ 1 <= k + 1 /\ k <= Len(n) /\ 1 \in Nat /\ 1 <= 1
    BY <1>2, <1>3
  <2>2. Len(SubSeq(n, 1, k)) = k - 1 + 1 /\ SubSeq(n, 1, k) \in Names
    BY <2>1, Piece
  <2> QED
    BY <2>1, <2>2
<1>7. SubSeq(n, k + 1, Len(n)) \in Names /\ SubSeq(n, k + 1, Len(n)) # <<>>
  <2> DEFINE m == k + 1
             e == Len(n)
  <2>1. m \in Nat /\ e \in Nat /\ 1 <= m /\ m <= e + 1 /\ e <= Len(n) /\ e - m + 1 > 0
    BY <1>2, <1>3
  <2> HIDE DEF m, e
  <2>2. SubSeq(n, m, e) \in Names /\ Len(SubSeq(n, m, e)) = e - m + 1
    BY <2>1, Piece
  <2>3. SubSeq(n, m, e) # <<>>
    BY <2>1, <2>2
  <2> QED
    BY <2>2, <2>3 DEF m, e
<1>8. n = SubSeq(n, 1, k) \o SubSeq(n, k + 1, Len(n))
  <2>1. k \in 0 .. Len(n)
    BY <1>2, <1>3
  <2> QED
    BY <2>1, CutInTwo
<1>9. SubSeq(n, 1, k) = <<>> <=> k = 0
  <2>1. \A s \in Names : s = <<>> <=> Len(s) = 0
    BY DEF Names
  <2> QED
    BY <1>6, <2>1
<1>10. ParamsFor(p, n)
  BY <1>1, <1>3, <1>5, <1>6, <1>7, <1>8, <1>9 DEF ParamsFor, l
<1> QED
  BY <1>10 DEF p

\* What the requests are made of.
LEMMA RequestIs ==
  ASSUME NEW c \in Requests
  PROVE  /\ c.op \in {"list", "idle", "create", "delete", "rename", "subscribe"}
         /\ c.op \in {"create", "delete", "rename", "subscribe"} => c.name \in Names
         /\ c.op = "rename" => c.to \in Names
         /\ c.op = "subscribe" => c.sub \in BOOLEAN
BY ListAssumption DEF Names

\* The command checks its names against the lists.
LEMMA ValidateKeeps ==
  ASSUME ListInv, OneCommand, NEW t \in Tasks, Validate(t) PROVE ListInv'
<1>1. LogOK /\ SetsOK /\ ListsOK(log, mailboxes, lost) /\ TasksOK /\ KnownOK
  BY DEF ListInv
<1> DEFINE r == task[t]
           s == task'[t]
           c == r.cmd
           held == CHOOSE x \in Holders(c.name) : TRUE
           p == CASE c.op = "create" -> CreateParams(c.name)
                  [] c.op = "rename" -> [CreateParams(c.to) EXCEPT !.id = mailboxes[AccountOf(c.to)].names[c.name]]
                  [] OTHER -> [NoParams EXCEPT !.account = held, !.id = mailboxes[held].names[c.name]]
<1>2. /\ r.pc = "act" /\ c.op # "list" /\ UNCHANGED <<log, linked, known, mailboxes, listed, lost, listPanicked>>
      /\ ~Accepts(c) => Ends(t)
      /\ Accepts(c) => task' = [task EXCEPT ![t].pc = "set", ![t].params = p]
  BY DEF Validate, server
<1>3. RunOK(r, log, mailboxes, lost) /\ DOMAIN r = Fields /\ DOMAIN task = Tasks
  BY <1>1, <1>2, RunParts
<1>p. Pending(r) = {}
  BY <1>2 DEF Pending
<1>4. CASE ~Accepts(c)
  BY <1>1, <1>2, <1>4, <1>p, EndKeeps DEF SetsOK
<1>5. CASE Accepts(c)
  <2>1. c \in Requests /\ c.op # "idle"
    BY <1>2, <1>3 DEF RunOK, Shape, SyncOK
  <2>2. /\ c.op \in {"create", "delete", "rename", "subscribe"} /\ c.name \in Names /\ (c.op = "rename" => c.to \in Names)
    BY <1>2, <2>1, RequestIs
  <2>3. task' = [task EXCEPT ![t].pc = "set", ![t].params = p]
    BY <1>2, <1>5
  <2>4. ASSUME c.op = "create" PROVE p = CreateParams(c.name) /\ ParamsFor(p, c.name) /\ AccountOf(c.name) \in DOMAIN mailboxes
    <3>1. p = CreateParams(c.name)
      BY <2>4
    <3>2. Valid(c.name)
      BY <1>5, <2>4 DEF Accepts
    <3> QED
      BY <2>2, <3>1, <3>2, CreateParamsAre DEF Valid
  <2>5. ASSUME c.op = "rename"
        PROVE  /\ ParamsFor(p, c.to) /\ AccountOf(c.to) \in DOMAIN mailboxes
               /\ c.name \in DOMAIN mailboxes[p.account].names /\ p.id = mailboxes[p.account].names[c.name]
    <3>1. p = [CreateParams(c.to) EXCEPT !.id = mailboxes[AccountOf(c.to)].names[c.name]]
      BY <2>5
    <3>2. Valid(c.to) /\ c.name \in DOMAIN mailboxes[AccountOf(c.to)].names
      BY <1>5, <2>5 DEF Accepts
    <3>3. ParamsFor(CreateParams(c.to), c.to)
      BY <2>2, <2>5, <3>2, CreateParamsAre
    <3> DEFINE o == CreateParams(c.to)
    <3> HIDE DEF p, o
    <3>4. DOMAIN o = {"account", "id", "path", "above", "parent"}
      BY <3>3 DEF ParamsFor, o
    <3>5. /\ DOMAIN p = DOMAIN o /\ p.id = mailboxes[AccountOf(c.to)].names[c.name] /\ p.account = o.account
          /\ p.path = o.path /\ p.above = o.above /\ p.parent = o.parent
      BY <3>1, <3>4 DEF o
    <3>6. ParamsFor(p, c.to) /\ p.account = AccountOf(c.to)
      BY <3>3, <3>5 DEF ParamsFor, o
    <3> QED
      BY <3>2, <3>5, <3>6 DEF Valid
  <2>6. ASSUME c.op \in {"delete", "subscribe"}
        PROVE  /\ DOMAIN p = {"account", "id", "path", "above", "parent"} /\ p.account \in DOMAIN mailboxes
               /\ c.name \in DOMAIN mailboxes[p.account].names /\ p.id = mailboxes[p.account].names[c.name]
    <3>1. p = [NoParams EXCEPT !.account = held, !.id = mailboxes[held].names[c.name]]
      BY <2>6
    <3>2. Holders(c.name) # {}
      BY <1>5, <2>6 DEF Accepts
    <3>3. held \in DOMAIN mailboxes /\ c.name \in DOMAIN mailboxes[held].names
      BY <3>2 DEF Holders
    <3> HIDE DEF p, held
    <3>4. DOMAIN p = {"account", "id", "path", "above", "parent"} /\ p.account = held /\ p.id = mailboxes[held].names[c.name]
      BY <3>1 DEF NoParams
    <3> QED
      BY <3>3, <3>4
  <2> HIDE DEF p
  <2>7. /\ DOMAIN task' = Tasks /\ DOMAIN s = Fields /\ s.pc = "set" /\ s.params = p /\ s.cmd = r.cmd
        /\ s.start = r.start /\ s.failed = r.failed /\ s.got = r.got /\ s.todo = r.todo
    BY <1>3, <2>3 DEF Fields
  <2>c. s.cmd = c
    BY <2>7
  <2> HIDE DEF r, s, c
  <2>8. ParamsOK(s, mailboxes)
    <3>1. CASE c.op = "create"
      <4>1. Target(c) = c.name
        BY <3>1 DEF Target
      <4>2. PathOK(s, mailboxes)
        BY <2>4, <2>7, <2>c, <3>1, <4>1 DEF ParamsFor, PathOK
      <4> QED
        BY <2>4, <2>7, <2>c, <3>1, <4>2 DEF ParamsFor, ParamsOK
    <3>2. CASE c.op = "rename"
      <4>1. Target(c) = c.to
        BY <3>2 DEF Target
      <4>2. PathOK(s, mailboxes)
        BY <2>5, <2>7, <2>c, <3>2, <4>1 DEF ParamsFor, PathOK
      <4> QED
        BY <2>5, <2>7, <2>c, <3>2, <4>2 DEF ParamsFor, ParamsOK
    <3>3. CASE c.op \in {"delete", "subscribe"}
      BY <2>6, <2>7, <2>c, <3>3 DEF ParamsOK
    <3> QED
      BY <2>2, <3>1, <3>2, <3>3
  <2>9. Shape(s, log) /\ GotOK(s, log)
    BY <1>2, <1>3, <2>7 DEF RunOK, Shape, GotOK, Stages
  <2>10. SyncOK(s, log, mailboxes, lost)
    BY <1>2, <1>3, <2>1, <2>7, <2>c DEF RunOK, SyncOK, Current, r
  <2>11. RunOK(s, log, mailboxes, lost)
    BY <2>7, <2>8, <2>9, <2>10 DEF RunOK
  <2>12. TasksOK'
    BY <1>2, <2>7, <2>11, TaskStep DEF s
  <2>13. KnownOK'
    BY <1>1, <1>2, <1>p, KnownNow, KnownThen DEF r
  <2>14. SetsOK' /\ ListsOK(log, mailboxes', lost')
    BY <1>1, <1>2 DEF SetsOK
  <2> QED
    BY <1>2, <2>12, <2>13, <2>14, SessionStep
<1> QED
  BY <1>4, <1>5

-----------------------------------------------------------------------------
(* The requests.                                                              *)

\* The server has answered.
LEMMA AnswerStep ==
  ASSUME ListInv, OneCommand, NEW t \in Tasks, task[t].pc = "set", LogOK', \A a \in Accounts : Later(log[a], log'[a]),
         UNCHANGED <<linked, known, mailboxes, listed, lost, listPanicked>>,
         DOMAIN task' = Tasks, NEW r, r = task[t], NEW s, s = task'[t], DOMAIN s = Fields, s.pc = "update", s.cmd = r.cmd,
         s.start = r.start, s.failed = r.failed, s.got = r.got, s.todo = r.todo, s.params = r.params,
         UpdateOK(s, log', mailboxes, lost)
  PROVE  ListInv'
<1>1. /\ LogOK /\ SetsOK /\ ListsOK(log, mailboxes, lost) /\ TasksOK /\ KnownOK /\ ListedOK
      /\ ListsTheServer /\ NamesHaveData
  BY DEF ListInv
<1>2. Histories(log) /\ Histories(log') /\ Own \in DOMAIN mailboxes /\ DOMAIN mailboxes \subseteq Accounts
  BY <1>1 DEF LogOK, SetsOK
<1>3. RunOK(r, log, mailboxes, lost)
  BY <1>1, RunParts
<1>4. RunOK(r, log', mailboxes, lost)
  BY <1>1, <1>2, <1>3, RunLater
<1>5. RunOK(s, log', mailboxes, lost)
  <2>1. Shape(s, log')
    BY <1>4 DEF RunOK, Shape, Stages
  <2>2. GotOK(s, log')
    BY <1>4 DEF RunOK, GotOK
  <2>3. SyncOK(s, log', mailboxes, lost)
    BY <1>4 DEF RunOK, SyncOK
  <2>4. ParamsOK(s, mailboxes)
    BY <1>4 DEF RunOK, ParamsOK, PathOK
  <2> QED
    BY <2>1, <2>2, <2>3, <2>4 DEF RunOK
<1>6. TasksOK'
  BY <1>5, TaskStep
<1>7. KnownOK'
  <2>1. Pending(r) = {}
    BY DEF Pending
  <2> QED
    BY <1>1, <2>1, KnownNow, KnownThen
<1>8. ListsOK(log', mailboxes, lost)
  BY <1>1, <1>2, ListsLater
<1>9. SetsOK' /\ NamesHaveData'
  BY <1>1 DEF SetsOK, NamesHaveData
<1>10. ListedOK' /\ ListsTheServer'
  BY <1>1, ListedLater
<1> QED
  BY <1>6, <1>7, <1>8, <1>9, <1>10 DEF ListInv

\* The server refuses.
LEMMA RefusedKeeps ==
  ASSUME ListInv, OneCommand, NEW t \in Tasks, task[t].pc = "set", Ends(t),
         UNCHANGED <<log, linked, known, mailboxes, listed, lost, listPanicked>>
  PROVE  ListInv'
<1>1. SetsOK
  BY DEF ListInv
<1>2. Pending(task[t]) = {}
  BY DEF Pending
<1> QED
  BY <1>1, <1>2, EndKeeps DEF SetsOK

\* What the tree of an account is made of.
LEMMA TreeNow ==
  ASSUME LogOK, NEW a \in Accounts
  PROVE  LET h == log[a] IN
         /\ IsHistory(h) /\ Tree(a) = Last(h).tree /\ Tree(a) = h[Len(h)].tree /\ IsTree(Tree(a))
         /\ Len(h) \in Nat \ {0} /\ NextId(h) \in Nat \ {0} /\ FreshId(a) = NextId(h)
         /\ \A i \in DOMAIN Tree(a) : i \in 1 .. NextId(h) - 1
<1> DEFINE h == log[a]
<1>1. IsHistory(h)
  BY DEF LogOK, Histories
<1>2. Tree(a) = Last(h).tree /\ FreshId(a) = NextId(h)
  BY DEF Tree, FreshId, NextId, UsedIn
<1> HIDE DEF h
<1>3. /\ Len(h) \in Nat \ {0} /\ NextId(h) \in Nat \ {0} /\ Last(h) = h[Len(h)] /\ Len(h) \in 1 .. Len(h)
      /\ \A k \in 1 .. Len(h) : IsTree(h[k].tree) /\ \A i \in DOMAIN h[k].tree : i \in 1 .. NextId(h) - 1
  BY <1>1, HistoryParts
<1>4. IsTree(h[Len(h)].tree) /\ \A i \in DOMAIN h[Len(h)].tree : i \in 1 .. NextId(h) - 1
  BY <1>3
<1> QED
  BY <1>1, <1>2, <1>3, <1>4 DEF h

\* CREATE and RENAME: mailboxes are created, and one may be moved.
Made(t, r, a, parent, path, first, ids, chain, below, name, updated, tree) ==
  /\ r = task[t] /\ r.pc = "set" /\ r.cmd.op \in {"create", "rename"} /\ a = r.params.account /\ parent = r.params.parent
  /\ path = ChainOf(r) /\ path \in Names /\ MayCreate(a, parent, path) /\ first = FreshId(a)
  /\ ids = [k \in DOMAIN path |-> first + k - 1] /\ chain = ChainTree(Tree(a), first, parent, path)
  /\ below = (IF path = <<>> THEN parent ELSE Last(ids)) /\ name = Last(r.params.path) /\ name \in NameParts
  /\ updated \in BOOLEAN
  /\ updated => r.cmd.op = "rename" /\ MayMove(chain, r.params.id, below, name) /\ tree = Placed(chain, r.params.id, below, name)
  /\ ~updated => tree = chain
  /\ log' = Logged(a, tree, TRUE) /\ Respond(t, ids, updated)
  /\ UNCHANGED <<linked, known, mailboxes, listed, lost, listPanicked>>

\* A Mailbox/set that creates a chain and may move a mailbox below it: the history grows by what the command's record says.
LEMMA ChainStep ==
  ASSUME ListInv, OneCommand, NEW t \in Tasks, NEW r, NEW a, NEW parent, NEW path, NEW first, NEW ids, NEW chain, NEW below,
         NEW name, NEW updated, NEW tree, Made(t, r, a, parent, path, first, ids, chain, below, name, updated, tree)
  PROVE  ListInv'
<1> USE DEF Made
<1>1. LogOK /\ SetsOK /\ ListsOK(log, mailboxes, lost) /\ TasksOK
  BY DEF ListInv
<1>2. RunOK(r, log, mailboxes, lost) /\ DOMAIN r = Fields /\ DOMAIN task = Tasks
  BY <1>1, RunParts
<1>3. a \in DOMAIN mailboxes /\ a \in Accounts
  BY <1>1, <1>2 DEF RunOK, ParamsOK, SetsOK
<1> DEFINE h == log[a]
           g == log'[a]
           l == mailboxes[a]
           old == Tree(a)
           s == task'[t]
           n == Len(path)
<1>4. /\ IsHistory(h) /\ old = Last(h).tree /\ old = h[Len(h)].tree /\ IsTree(old)
      /\ Len(h) \in Nat \ {0} /\ NextId(h) \in Nat \ {0} /\ first = NextId(h)
      /\ \A i \in DOMAIN old : i \in 1 .. NextId(h) - 1
  BY <1>1, <1>3, TreeNow
<1>5. parent \in DOMAIN old \cup {NoParent} /\ (path # <<>> => ~Exists(old, parent, path[1]))
  BY DEF MayCreate
<1>6. task' = [task EXCEPT ![t].pc = "update", ![t].ids = ids, ![t].updated = updated, ![t].new = Len(g)]
  BY DEF Respond
<1>7. /\ DOMAIN task' = Tasks /\ DOMAIN s = Fields /\ s.pc = "update" /\ s.cmd = r.cmd /\ s.start = r.start /\ s.failed = r.failed
      /\ s.got = r.got /\ s.todo = r.todo /\ s.params = r.params /\ s.ids = ids /\ s.updated = updated /\ s.new = Len(g)
  BY <1>2, <1>6 DEF Fields
<1>8. n \in Nat /\ DOMAIN path = 1 .. n
  BY DEF Names
<1>9. ListOK(a, l, h) /\ (a \notin lost => Fits(a, l, h))
  BY <1>1, <1>3 DEF ListsOK
<1>l. log' = Logged(a, tree, TRUE) /\ chain = ChainTree(old, first, parent, path)
  OBVIOUS
<1> HIDE DEF h, g, l, old, s, n
<1>10. MayChain(old, first, parent, path)
  <2>1. \A i \in DOMAIN old : i < first
    BY <1>4
  <2> QED
    BY <1>4, <1>5, <2>1 DEF MayChain
<1>11. IsTree(chain) /\ DOMAIN chain = DOMAIN old \cup ChainIds(first, path)
  <2>1. ChainFacts(chain, old, first, parent, path) /\ ChainedTo(chain, old, first, parent, path)
    BY <1>4, <1>10, <1>l, ChainKnown, Chained
  <2> QED
    BY <2>1 DEF ChainFacts, ChainedTo
<1>12. IsTree(tree) /\ DOMAIN tree = DOMAIN chain
  <2>1. CASE updated
    <3>1. MayMove(chain, r.params.id, below, name) /\ tree = Placed(chain, r.params.id, below, name) /\ name \in NameParts
      BY <2>1, Zenon
    <3> HIDE DEF Made
    <3> QED
      BY <1>11, <3>1, MovedIsTree
  <2>2. CASE ~updated
    BY <1>11, <2>2
  <2> QED
    BY <2>1, <2>2
<1>13. /\ DOMAIN tree \subseteq 1 .. NextId(h) - 1 + n
       /\ \A i \in NextId(h) .. NextId(h) - 1 + n : i \in DOMAIN tree
  <2>1. ChainIds(first, path) = NextId(h) .. NextId(h) - 1 + n
    <3>1. first + n - 1 = NextId(h) - 1 + n
      BY <1>4, <1>8
    <3> QED
      BY <1>4, <3>1 DEF ChainIds, n
  <2>2. \A i \in NextId(h) .. NextId(h) - 1 + n : i \in 1 .. NextId(h) - 1 + n
    BY <1>4, <1>8
  <2>3. \A i \in 1 .. NextId(h) - 1 : i \in 1 .. NextId(h) - 1 + n
    BY <1>4, <1>8
  <2> QED
    BY <1>4, <1>11, <1>12, <2>1, <2>2, <2>3
<1>14. LogOK' /\ (\A x \in Accounts : Later(log[x], log'[x])) /\ GrownTo(g, h, tree, TRUE, n)
  <2>1. TRUE \in BOOLEAN /\ (~TRUE => tree = Last(log[a]).tree)
    OBVIOUS
  <2> DEFINE list == TRUE
  <2>2. list \in BOOLEAN /\ (~list => tree = Last(log[a]).tree) /\ log' = Logged(a, tree, list)
    BY <1>l
  <2> HIDE DEF list
  <2>3. LogOK' /\ (\A x \in Accounts : Later(log[x], log'[x])) /\ GrownTo(log'[a], log[a], tree, list, n)
    BY <1>1, <1>3, <1>8, <1>12, <1>13, <2>2, LoggedIs DEF h
  <2> QED
    BY <2>3 DEF g, h, list
<1>15. /\ Len(g) = Len(h) + 1 /\ g[Len(g)].tree = tree /\ NextId(g) = NextId(h) + n /\ Later(h, g)
  BY <1>14 DEF GrownTo
<1>16. Len(g) - 1 = Len(h) /\ Len(g) \in 2 .. Len(g) /\ g[Len(h)] = h[Len(h)]
  <2>1. Len(g) - 1 = Len(h) /\ Len(g) \in 2 .. Len(g) /\ Len(h) \in 1 .. Len(h)
    BY <1>4, <1>15
  <2> QED
    BY <1>15, <2>1 DEF Later
<1>17. ChainOf(s) = path /\ ParentOf(s) = below
  <2>1. ChainOf(s) = ChainOf(r)
    BY <1>7 DEF ChainOf
  <2> QED
    BY <1>7, <2>1 DEF ParentOf
<1>18. Outcome(s, old, tree, l, NextId(g))
  <2>1. first \in Nat /\ first + n <= NextId(g)
    BY <1>4, <1>8, <1>15
  <2>2. \A x \in DOMAIN l.names : l.names[x] < first
    <3>1. \A x \in DOMAIN l.names : l.names[x] \in 1 .. NextId(h) - 1
      BY <1>9 DEF ListOK
    <3> QED
      BY <1>4, <3>1
  <2>3. /\ MayChain(old, first, s.params.parent, ChainOf(s))
        /\ s.ids = [k \in DOMAIN ChainOf(s) |-> first + k - 1]
        /\ first + Len(ChainOf(s)) <= NextId(g)
    BY <1>7, <1>10, <1>17, <2>1 DEF n
  <2>4. ChainTree(old, first, s.params.parent, ChainOf(s)) = chain
    BY <1>7, <1>17, <1>l
  <2>5. /\ s.updated => /\ s.cmd.op = "rename" /\ MayMove(chain, s.params.id, ParentOf(s), Last(s.params.path))
                        /\ tree = Placed(chain, s.params.id, ParentOf(s), Last(s.params.path))
        /\ ~s.updated => tree = chain
    BY <1>7, <1>17
  <2> QED
    BY <2>1, <2>2, <2>3, <2>4, <2>5, Zenon DEF Outcome
<1>19. a \notin lost /\ Quiet(g, l.state, Len(h)) => Match(a, l, old)
  <2>1. l.state \in Nat /\ Len(h) \in Nat /\ Len(h) <= Len(h)
    BY <1>4, <1>9 DEF ListOK
  <2>2. Quiet(g, l.state, Len(h)) => Quiet(h, l.state, Len(h))
    BY <1>15, <2>1, QuietLater
  <2> QED
    BY <1>4, <1>9, <2>2 DEF Fits
<1>20. l.state < Len(g)
  <2>1. l.state \in 0 .. Len(h)
    BY <1>9 DEF ListOK
  <2> QED
    BY <1>4, <1>15, <2>1
<1>21. SetOK(s, log', mailboxes, lost)
  <2>1. /\ s.params.account = a /\ s.new = Len(g) /\ s.updated \in BOOLEAN /\ s.new - 1 = Len(h)
        /\ g[s.new - 1].tree = old /\ g[s.new].tree = tree
    BY <1>4, <1>7, <1>15, <1>16
  <2>2. /\ s.new \in 2 .. Len(g) /\ l.state < s.new /\ s.updated \in BOOLEAN
        /\ Outcome(s, g[s.new - 1].tree, g[s.new].tree, l, NextId(g))
        /\ a \notin lost /\ Quiet(g, l.state, s.new - 1) => Match(a, l, g[s.new - 1].tree)
    BY <1>16, <1>18, <1>19, <1>20, <2>1
  <2> QED
    BY <2>1, <2>2 DEF SetOK, g, l
<1>22. UpdateOK(s, log', mailboxes, lost)
  BY <1>7, <1>21 DEF UpdateOK
<1> QED
  BY <1>7, <1>14, <1>22, AnswerStep, ZenonT(60) DEF s

\* The server creates the mailboxes of CREATE.
LEMMA SetCreateKeeps ==
  ASSUME ListInv, OneCommand, NEW t \in Tasks, SetCreate(t) PROVE ListInv'
<1> DEFINE r == task[t]
           p == r.params
           a == p.account
           chain == Chain(a, p.parent, p.path)
<1>1. /\ r.pc = "set" /\ r.cmd.op = "create" /\ UNCHANGED <<linked, known, mailboxes, listed, lost, listPanicked>>
      /\ IF MayCreate(a, p.parent, p.path) THEN log' = Logged(a, chain.tree, TRUE) /\ Respond(t, chain.ids, FALSE)
         ELSE Ends(t) /\ UNCHANGED log
  BY DEF SetCreate
<1>2. /\ chain.ids = [k \in DOMAIN p.path |-> FreshId(a) + k - 1]
      /\ chain.tree = ChainTree(Tree(a), FreshId(a), p.parent, p.path)
  BY DEF Chain
<1>3. p.path \in Names /\ p.path # <<>>
  <2>1. RunOK(r, log, mailboxes, lost)
    BY <1>1, RunParts DEF ListInv
  <2> QED
    BY <1>1, <2>1 DEF RunOK, ParamsOK, PathOK
<1>4. Last(p.path) \in NameParts
  BY <1>3, FrontLast
<1>5. ChainOf(r) = p.path
  BY <1>1 DEF ChainOf
<1>6. CASE MayCreate(a, p.parent, p.path)
  <2> DEFINE first == FreshId(a)
             parent == p.parent
             path == p.path
             ids == chain.ids
             tree == chain.tree
             below == IF path = <<>> THEN parent ELSE Last(ids)
             name == Last(p.path)
             updated == FALSE
  <2>1. /\ a = r.params.account /\ parent = r.params.parent /\ path = ChainOf(r) /\ path \in Names
        /\ MayCreate(a, parent, path) /\ first = FreshId(a) /\ ids = [k \in DOMAIN path |-> first + k - 1]
        /\ tree = ChainTree(Tree(a), first, parent, path) /\ below = (IF path = <<>> THEN parent ELSE Last(ids))
        /\ name = Last(r.params.path) /\ name \in NameParts /\ log' = Logged(a, tree, TRUE)
        /\ Respond(t, ids, updated) /\ updated \in BOOLEAN /\ ~updated
    BY <1>1, <1>2, <1>3, <1>4, <1>5, <1>6
  <2>2. r = task[t] /\ r.pc = "set" /\ r.cmd.op \in {"create", "rename"}
    BY <1>1
  <2>3. UNCHANGED <<linked, known, mailboxes, listed, lost, listPanicked>>
    BY <1>1
  <2> HIDE DEF r, a, parent, path, first, ids, tree, below, name, updated
  <2>4. Made(t, r, a, parent, path, first, ids, tree, below, name, updated, tree)
    BY <2>1, <2>2, <2>3 DEF Made
  <2> QED
    BY <2>4, ChainStep
<1>7. CASE ~MayCreate(a, p.parent, p.path)
  BY <1>1, <1>7, RefusedKeeps
<1> QED
  BY <1>6, <1>7

\* The server creates the parents and moves the mailbox of RENAME.
LEMMA SetRenameKeeps ==
  ASSUME ListInv, OneCommand, NEW t \in Tasks, SetRename(t) PROVE ListInv'
<1> DEFINE r == task[t]
           p == r.params
           a == p.account
           above == Front(p.path)
           chain == Chain(a, p.parent, above)
           below == IF above = <<>> THEN p.parent ELSE Last(chain.ids)
           name == Last(p.path)
           moved == MayMove(chain.tree, p.id, below, name)
           tree == IF moved THEN Placed(chain.tree, p.id, below, name) ELSE chain.tree
           may == MayCreate(a, p.parent, above) /\ (moved \/ above # <<>>)
<1>1. /\ r.pc = "set" /\ r.cmd.op = "rename" /\ UNCHANGED <<linked, known, mailboxes, listed, lost, listPanicked>>
      /\ IF may THEN log' = Logged(a, tree, TRUE) /\ Respond(t, chain.ids, moved) ELSE Ends(t) /\ UNCHANGED log
  BY DEF SetRename
<1>2. /\ chain.ids = [k \in DOMAIN above |-> FreshId(a) + k - 1]
      /\ chain.tree = ChainTree(Tree(a), FreshId(a), p.parent, above)
  BY DEF Chain
<1>3. p.path \in Names /\ p.path # <<>>
  <2>1. RunOK(r, log, mailboxes, lost)
    BY <1>1, RunParts DEF ListInv
  <2> QED
    BY <1>1, <2>1 DEF RunOK, ParamsOK, PathOK
<1>4. name \in NameParts /\ above \in Names
  BY <1>3, FrontLast
<1>5. ChainOf(r) = above
  BY <1>1 DEF ChainOf
<1>m. moved \in BOOLEAN
  BY DEF MayMove
<1>6. CASE may
  <2> DEFINE first == FreshId(a)
             parent == p.parent
             ids == chain.ids
             created == chain.tree
  <2>1. /\ a = r.params.account /\ parent = r.params.parent /\ above = ChainOf(r) /\ above \in Names
        /\ MayCreate(a, parent, above) /\ first = FreshId(a) /\ ids = [k \in DOMAIN above |-> first + k - 1]
        /\ created = ChainTree(Tree(a), first, parent, above) /\ below = (IF above = <<>> THEN parent ELSE Last(ids))
        /\ name = Last(r.params.path) /\ name \in NameParts /\ log' = Logged(a, tree, TRUE)
        /\ Respond(t, ids, moved) /\ moved \in BOOLEAN
    BY <1>1, <1>2, <1>4, <1>5, <1>6, <1>m
  <2>2. r = task[t] /\ r.pc = "set" /\ r.cmd.op = "rename" /\ r.cmd.op \in {"create", "rename"}
    BY <1>1
  <2>3. /\ moved => MayMove(created, r.params.id, below, name) /\ tree = Placed(created, r.params.id, below, name)
        /\ ~moved => tree = created
    OBVIOUS
  <2>4. UNCHANGED <<linked, known, mailboxes, listed, lost, listPanicked>>
    BY <1>1
  <2> HIDE DEF r, a, parent, above, first, ids, created, tree, below, name, moved
  <2>5. Made(t, r, a, parent, above, first, ids, created, below, name, moved, tree)
    BY <2>1, <2>2, <2>3, <2>4 DEF Made
  <2> QED
    BY <2>5, ChainStep
<1>7. CASE ~may
  BY <1>1, <1>7, RefusedKeeps
<1> QED
  BY <1>6, <1>7

\* DELETE and SUBSCRIBE change the user's own account.
LEMMA OwnAccountStep ==
  ASSUME ListInv, OneCommand, NEW t \in Tasks, task[t].pc = "set", task[t].cmd.op \in {"delete", "subscribe"},
         UNCHANGED <<linked, known, mailboxes, listed, lost, listPanicked>>,
         NEW tree, IsTree(tree), DOMAIN tree \subseteq DOMAIN Tree(Own),
         log' = Logged(Own, tree, TRUE), Goto(t, "update")
  PROVE  ListInv'
<1>1. LogOK /\ SetsOK /\ ListsOK(log, mailboxes, lost) /\ TasksOK
  BY DEF ListInv
<1>2. DOMAIN task[t] = Fields /\ DOMAIN task = Tasks
  BY <1>1, RunParts
<1> DEFINE h == log[Own]
           g == log'[Own]
           r == task[t]
           s == task'[t]
           list == TRUE
<1>3. Own \in Accounts /\ Own \in DOMAIN mailboxes
  BY <1>1 DEF Accounts, SetsOK
<1>4. /\ IsHistory(h) /\ Len(h) \in Nat \ {0} /\ NextId(h) \in Nat \ {0}
      /\ \A i \in DOMAIN Tree(Own) : i \in 1 .. NextId(h) - 1
  BY <1>1, <1>3, TreeNow
<1>5. /\ DOMAIN task' = Tasks /\ DOMAIN s = Fields /\ s.pc = "update" /\ s.cmd = r.cmd /\ s.start = r.start /\ s.failed = r.failed
      /\ s.got = r.got /\ s.todo = r.todo /\ s.params = r.params
  BY <1>2 DEF Fields, Goto
<1>6. list \in BOOLEAN /\ (~list => tree = Last(log[Own]).tree) /\ log' = Logged(Own, tree, list)
  OBVIOUS
<1>7. mailboxes[Own].state \in 0 .. Len(h)
  BY <1>1, <1>3 DEF ListsOK, ListOK
<1>c. r = task[t] /\ r.cmd.op \in {"delete", "subscribe"} /\ s = task'[t]
  OBVIOUS
<1> HIDE DEF h, g, r, s, list
<1>8. /\ DOMAIN tree \subseteq 1 .. NextId(h) - 1 + 0 /\ \A i \in NextId(h) .. NextId(h) - 1 + 0 : i \in DOMAIN tree
      /\ 0 \in Nat
  BY <1>4
<1>9. LogOK' /\ (\A x \in Accounts : Later(log[x], log'[x])) /\ GrownTo(g, h, tree, list, 0)
  BY <1>1, <1>3, <1>6, <1>8, LoggedIs DEF h, g
<1>10. ~Quiet(g, mailboxes[Own].state, Len(g))
  <2>1. Len(g) = Len(h) + 1 /\ g[Len(g)].list
    BY <1>9 DEF GrownTo, list
  <2>2. Len(g) \in mailboxes[Own].state + 1 .. Len(g)
    BY <1>4, <1>7, <2>1
  <2> QED
    BY <2>1, <2>2 DEF Quiet
<1>11. UpdateOK(s, log', mailboxes, lost)
  BY <1>5, <1>10, <1>c DEF UpdateOK, g
<1> QED
  BY <1>5, <1>9, <1>11, <1>c, AnswerStep

\* The server destroys the mailbox of DELETE.
LEMMA SetDeleteKeeps ==
  ASSUME ListInv, OneCommand, NEW t \in Tasks, SetDelete(t) PROVE ListInv'
<1> DEFINE id == task[t].params.id
           old == Tree(Own)
           tree == Without(old, {id})
           may == id \in DOMAIN old /\ Children(old, id) = {}
<1>1. /\ task[t].pc = "set" /\ task[t].cmd.op = "delete" /\ UNCHANGED <<linked, known, mailboxes, listed, lost, listPanicked>>
      /\ IF may THEN log' = Logged(Own, tree, TRUE) /\ Goto(t, "update") ELSE Ends(t) /\ UNCHANGED log
  BY DEF SetDelete, SetAccount
<1>2. IsTree(old)
  BY TreeNow DEF ListInv, Accounts
<1>3. CASE may
  <2> HIDE DEF old
  <2>1. IsTree(tree) /\ DOMAIN tree = DOMAIN old \ {id}
    BY <1>2, <1>3, Dropped, ZenonT(60)
  <2> HIDE DEF tree
  <2> QED
    BY <1>1, <1>3, <2>1, OwnAccountStep DEF old
<1>4. CASE ~may
  BY <1>1, <1>4, RefusedKeeps
<1> QED
  BY <1>3, <1>4

\* The server sets the flag of SUBSCRIBE or UNSUBSCRIBE.
LEMMA SetSubscribeKeeps ==
  ASSUME ListInv, OneCommand, NEW t \in Tasks, SetSubscribe(t) PROVE ListInv'
<1> DEFINE id == task[t].params.id
           sub == task[t].cmd.sub
           old == Tree(Own)
           tree == [old EXCEPT ![id].sub = sub]
<1>1. /\ task[t].pc = "set" /\ task[t].cmd.op = "subscribe" /\ UNCHANGED <<linked, known, mailboxes, listed, lost, listPanicked>>
      /\ IF id \in DOMAIN old THEN log' = Logged(Own, tree, TRUE) /\ Goto(t, "update") ELSE Ends(t) /\ UNCHANGED log
  BY DEF SetSubscribe, SetAccount
<1>2. IsTree(old)
  BY TreeNow DEF ListInv, Accounts
<1>s. sub \in BOOLEAN
  <2>1. RunOK(task[t], log, mailboxes, lost)
    BY <1>1, RunParts DEF ListInv
  <2>2. task[t].cmd \in Requests
    BY <2>1 DEF RunOK, Shape
  <2> QED
    BY <1>1, <2>2, RequestIs
<1>3. CASE id \in DOMAIN old
  <2> HIDE DEF old, sub, id
  <2>1. IsTree(tree) /\ DOMAIN tree = DOMAIN old
    BY <1>2, <1>3, <1>s, Resubscribed
  <2> HIDE DEF tree
  <2> QED
    BY <1>1, <1>3, <2>1, OwnAccountStep DEF old
<1>4. CASE id \notin DOMAIN old
  BY <1>1, <1>4, RefusedKeeps
<1> QED
  BY <1>3, <1>4

-----------------------------------------------------------------------------
(* The lists after the answer.                                                *)

\* A command changes the list of one account, and ends.
LEMMA UpdateStep ==
  ASSUME ListInv, OneCommand, NEW t \in Tasks, task[t].pc = "update", Ends(t),
         UNCHANGED <<log, linked, known, listed, listPanicked>>, NEW a \in DOMAIN mailboxes, NEW m,
         mailboxes' = [mailboxes EXCEPT ![a] = m], ListOK(a, m, log[a]),
         lost \subseteq lost', lost' \subseteq Accounts, a \notin lost' => Fits(a, m, log[a])
  PROVE  ListInv'
<1>1. SetsOK /\ ListsOK(log, mailboxes, lost) /\ TasksOK /\ KnownOK
  BY DEF ListInv
<1>2. DOMAIN mailboxes' = DOMAIN mailboxes /\ mailboxes'[a] = m /\ \A b \in DOMAIN mailboxes : b # a => mailboxes'[b] = mailboxes[b]
  OBVIOUS
<1>3. SetsOK'
  BY <1>1, <1>2 DEF SetsOK
<1>4. ListsOK(log, mailboxes', lost')
  BY <1>1, <1>2 DEF ListsOK
<1>5. TasksOK'
  BY <1>1, TaskEnds DEF TasksOK
<1>6. KnownOK'
  <2>1. Pending(task[t]) = {}
    BY DEF Pending
  <2> QED
    BY <1>1, <1>2, <2>1, KnownNow, KnownThen
<1> QED
  BY <1>3, <1>4, <1>5, <1>6, SessionStep

\* A list that matches the tree of its own state is right as long as there is no news.
LEMMA NewFits ==
  ASSUME NEW a, NEW m, NEW h, IsHistory(h), m.state \in 1 .. Len(h), Match(a, m, h[m.state].tree) PROVE Fits(a, m, h)
<1>1. Len(h) \in Nat /\ Last(h) = h[Len(h)]
  BY HistoryParts
<1>2. ASSUME Quiet(h, m.state, Len(h)) PROVE Match(a, m, Last(h).tree)
  <2>1. Len(h) \in m.state .. Len(h)
    BY <1>1
  <2>2. h[Len(h)].tree = h[m.state].tree
    BY <1>2, <2>1, QuietSame
  <2> QED
    BY <1>1, <2>2
<1> QED
  BY <1>1, <1>2 DEF Fits

\* What a command knows of the account it changes.
LEMMA UpdateParts ==
  ASSUME ListInv, NEW t \in Tasks, NEW r, r = task[t], r.pc = "update", NEW a, a = r.params.account
  PROVE  /\ a \in DOMAIN mailboxes /\ a \in Accounts /\ IsHistory(log[a]) /\ ListOK(a, mailboxes[a], log[a])
         /\ a \notin lost => Fits(a, mailboxes[a], log[a])
         /\ ParamsOK(r, mailboxes) /\ UpdateOK(r, log, mailboxes, lost) /\ r.cmd \in Requests /\ lost \subseteq Accounts
<1>1. LogOK /\ SetsOK /\ ListsOK(log, mailboxes, lost) /\ TasksOK
  BY DEF ListInv
<1>2. RunOK(r, log, mailboxes, lost)
  BY <1>1, RunParts
<1>3. ParamsOK(r, mailboxes) /\ UpdateOK(r, log, mailboxes, lost) /\ r.cmd \in Requests
  BY <1>2 DEF RunOK, Shape
<1>4. a \in DOMAIN mailboxes
  BY <1>3 DEF ParamsOK
<1> QED
  BY <1>1, <1>3, <1>4 DEF SetsOK, LogOK, Histories, ListsOK

\* DELETE takes the mailbox from the list.
LEMMA UpdateDeleteKeeps ==
  ASSUME ListInv, OneCommand, NEW t \in Tasks, UpdateDelete(t) PROVE ListInv'
<1> DEFINE r == task[t]
           a == r.params.account
           l == mailboxes[a]
           h == log[a]
           m == [l EXCEPT !.names = Without(@, {r.cmd.name}), !.data = Without(@, {r.params.id})]
<1>1. /\ r.pc = "update" /\ r.cmd.op = "delete" /\ Ends(t) /\ UNCHANGED <<log, linked, known, listed, listPanicked>>
      /\ lost' = IF a # Own THEN lost \cup {a} ELSE lost
  BY DEF UpdateDelete, SetAccount, server
<1>2. /\ a \in DOMAIN mailboxes /\ a \in Accounts /\ ListOK(a, l, h) /\ (a \notin lost => Fits(a, l, h))
      /\ ParamsOK(r, mailboxes) /\ UpdateOK(r, log, mailboxes, lost) /\ lost \subseteq Accounts
  BY <1>1, UpdateParts
<1>3. mailboxes' = [mailboxes EXCEPT ![a] = m]
  BY <1>2 DEF UpdateDelete, Updated
<1>4. r.cmd.name \in DOMAIN l.names /\ l.names[r.cmd.name] = r.params.id
  BY <1>1, <1>2 DEF ParamsOK
<1>5. a = Own => ~Quiet(h, l.state, Len(h))
  BY <1>1, <1>2 DEF UpdateOK
<1> DEFINE n == r.cmd.name
           id == r.params.id
<1>6. DOMAIN l = {"state", "names", "data"}
  BY <1>2 DEF ListOK, IsList
<1>7. m = [l EXCEPT !.names = Without(@, {n}), !.data = Without(@, {id})]
  OBVIOUS
<1> HIDE DEF l, h, n, id, m
<1>8. /\ DOMAIN m = {"state", "names", "data"} /\ m.state = l.state /\ m.names = Without(l.names, {n})
      /\ m.data = Without(l.data, {id})
  BY <1>6, <1>7
<1>9. /\ DOMAIN m.names = DOMAIN l.names \ {n} /\ (\A x \in DOMAIN m.names : m.names[x] = l.names[x])
      /\ DOMAIN m.data = DOMAIN l.data \ {id} /\ (\A x \in DOMAIN m.data : m.data[x] = l.data[x])
  BY <1>8 DEF Without
<1>10. ListOK(a, m, h)
  <2>1. \A x \in DOMAIN m.names : l.names[x] # id
    BY <1>2, <1>4, <1>9 DEF ListOK, n, id
  <2>2. IsList(m)
    BY <1>2, <1>8, <1>9 DEF ListOK, IsList
  <2> QED
    BY <1>2, <1>8, <1>9, <2>1, <2>2 DEF ListOK
<1>11. ASSUME a \notin lost' PROVE Fits(a, m, h)
  <2>1. a = Own /\ a \notin lost
    BY <1>1, <1>11
  <2>2. l.state > 0 /\ ~Quiet(h, l.state, Len(h))
    BY <1>2, <1>5, <2>1 DEF Fits
  <2> QED
    BY <1>8, <2>2 DEF Fits
<1>12. lost \subseteq lost' /\ lost' \subseteq Accounts
  BY <1>1, <1>2
<1> QED
  BY <1>1, <1>2, <1>3, <1>10, <1>11, <1>12, UpdateStep DEF h

\* SUBSCRIBE and UNSUBSCRIBE set the flag in the list.
LEMMA UpdateSubscribeKeeps ==
  ASSUME ListInv, OneCommand, NEW t \in Tasks, UpdateSubscribe(t) PROVE ListInv'
<1> DEFINE r == task[t]
           a == r.params.account
           l == mailboxes[a]
           h == log[a]
           id == r.params.id
           sub == r.cmd.sub
           m == [l EXCEPT !.data = [i \in DOMAIN @ |-> IF i = id THEN [@[i] EXCEPT !.sub = sub] ELSE @[i]]]
<1>1. /\ r.pc = "update" /\ r.cmd.op = "subscribe" /\ Ends(t) /\ UNCHANGED <<log, linked, known, listed, listPanicked>>
      /\ lost' = IF a # Own THEN lost \cup {a} ELSE lost
  BY DEF UpdateSubscribe, SetAccount, server
<1>2. /\ a \in DOMAIN mailboxes /\ a \in Accounts /\ ListOK(a, l, h) /\ (a \notin lost => Fits(a, l, h))
      /\ ParamsOK(r, mailboxes) /\ UpdateOK(r, log, mailboxes, lost) /\ lost \subseteq Accounts
  BY <1>1, UpdateParts
<1>3. mailboxes' = [mailboxes EXCEPT ![a] = m]
  BY <1>2 DEF UpdateSubscribe, Updated
<1>5. a = Own => ~Quiet(h, l.state, Len(h))
  BY <1>1, <1>2 DEF UpdateOK
<1>6. DOMAIN l = {"state", "names", "data"} /\ \A i \in DOMAIN l.data : DOMAIN l.data[i] = {"children", "sub"}
  BY <1>2 DEF ListOK, IsList
<1> DEFINE d == [i \in DOMAIN l.data |-> IF i = id THEN [l.data[i] EXCEPT !.sub = sub] ELSE l.data[i]]
<1>7. m = [l EXCEPT !.data = d]
  OBVIOUS
<1>8. DOMAIN d = DOMAIN l.data /\ \A i \in DOMAIN d : DOMAIN d[i] = {"children", "sub"}
  <2> HIDE DEF l, id, sub
  <2> QED
    BY <1>6
<1> HIDE DEF l, h, id, sub, m, d
<1>9. DOMAIN m = {"state", "names", "data"} /\ m.state = l.state /\ m.names = l.names /\ m.data = d
  BY <1>6, <1>7
<1>10. ListOK(a, m, h)
  <2>1. IsList(m)
    BY <1>2, <1>8, <1>9 DEF ListOK, IsList
  <2> QED
    BY <1>2, <1>8, <1>9, <2>1 DEF ListOK
<1>11. ASSUME a \notin lost' PROVE Fits(a, m, h)
  <2>1. a = Own /\ a \notin lost
    BY <1>1, <1>11
  <2>2. l.state > 0 /\ ~Quiet(h, l.state, Len(h))
    BY <1>2, <1>5, <2>1 DEF Fits
  <2> QED
    BY <1>9, <2>2 DEF Fits
<1>12. lost \subseteq lost' /\ lost' \subseteq Accounts
  BY <1>1, <1>2
<1> QED
  BY <1>1, <1>2, <1>3, <1>10, <1>11, <1>12, UpdateStep DEF h

\* No change of the list is passed over.
LEMMA NoSkip ==
  ASSUME NEW a \in DOMAIN mailboxes, NEW new, ~Skips(a, new) PROVE Quiet(log[a], mailboxes[a].state, new - 1)
BY DEF Skips, Quiet

\* The names of the new mailboxes go on from that of the one above them.
LEMMA BaseIs ==
  ASSUME NEW a \in Accounts, NEW r, a = r.params.account, NEW M, PathOK(r, M), NEW l, l = M[a], NEW h, ListOK(a, l, h)
  PROVE  LET base == AddBase(r.params) IN
         /\ base \in Names /\ (base = Prefix(a) \/ IsStrictPrefix(Prefix(a), base))
         /\ \A tree : Match(a, l, tree) /\ IsTree(tree) => base = ChainBase(a, tree, r.params.parent)
<1> DEFINE p == r.params
<1>1. /\ p.above \in Names /\ (p.above = <<>> => p.parent = NoParent)
      /\ p.above # <<>> => p.above \in DOMAIN l.names /\ l.names[p.above] = p.parent
  BY DEF PathOK
<1>2. Prefix(a) \in Names
  BY PrefixTyped
<1>3. CASE p.above = <<>>
  <2>1. AddBase(p) = Prefix(a) /\ p.parent = NoParent
    BY <1>1, <1>3 DEF AddBase
  <2> QED
    BY <1>2, <2>1 DEF ChainBase
<1>4. CASE p.above # <<>>
  <2>1. AddBase(p) = p.above
    BY <1>4 DEF AddBase
  <2>2. IsStrictPrefix(Prefix(a), p.above)
    BY <1>1, <1>4 DEF ListOK
  <2>3. ASSUME NEW tree, Match(a, l, tree), IsTree(tree) PROVE p.above = ChainBase(a, tree, p.parent)
    <3>1. p.parent \in DOMAIN tree /\ p.above = Paths(a, tree)[p.parent]
      BY <1>1, <1>4, <2>3, MatchName
    <3>2. p.parent # NoParent
      BY <2>3, <3>1, TreeParts
    <3> QED
      BY <3>1, <3>2 DEF ChainBase
  <2> QED
    BY <1>1, <2>1, <2>2, <2>3
<1> QED
  BY <1>3, <1>4

\* The account of CREATE or RENAME, when the answer is there.
AnswerKnown(a, r, H, M, L, h, l) ==
  /\ a \in Accounts /\ a = r.params.account /\ PathOK(r, M) /\ SetOK(r, H, M, L)
  /\ h = H[a] /\ IsHistory(h) /\ l = M[a] /\ ListOK(a, l, h)

AddsTo(m, l, r, p) ==
  /\ p.path = ChainOf(r) /\ p.account = r.params.account /\ p.above = r.params.above /\ p.parent = r.params.parent
  /\ m = AddCreated(l, p, r.ids, r.updated, r.new)

\* The list has the new mailboxes, and keeps the others.
HasAdded(m, a, r, L, h, l) ==
  /\ ListOK(a, m, h) /\ m.state = r.new /\ r.new \in 1 .. Len(h)
  /\ DOMAIN l.names \subseteq DOMAIN m.names /\ DOMAIN l.data \subseteq DOMAIN m.data
  /\ \A n \in DOMAIN l.names : \A x \in DOMAIN m.names \ {n} : m.names[x] # l.names[n]
  /\ a \notin L /\ Quiet(h, l.state, r.new - 1) /\ ~r.updated => Match(a, m, h[r.new].tree)

\* add_created_mailboxes after an answer.
LEMMA CreatedList ==
  ASSUME NEW a, NEW r, NEW H, NEW M, NEW L, NEW h, NEW l, AnswerKnown(a, r, H, M, L, h, l), ChainOf(r) # <<>>,
         NEW p, NEW m, AddsTo(m, l, r, p)
  PROVE  HasAdded(m, a, r, L, h, l)
<1> USE DEF AnswerKnown, AddsTo
<1> DEFINE old == h[r.new - 1].tree
           new == h[r.new].tree
           base == AddBase(p)
           parent == r.params.parent
           path == ChainOf(r)
<1>1. /\ r.new \in 2 .. Len(h) /\ l.state < r.new /\ r.updated \in BOOLEAN /\ Outcome(r, old, new, l, NextId(h))
      /\ a \notin L /\ Quiet(h, l.state, r.new - 1) => Match(a, l, old)
  BY DEF SetOK
<1>2. PICK first \in Nat :
        /\ MayChain(old, first, parent, path) /\ r.ids = [k \in DOMAIN path |-> first + k - 1]
        /\ first + Len(path) <= NextId(h) /\ \A n \in DOMAIN l.names : l.names[n] < first
        /\ ~r.updated => new = ChainTree(old, first, parent, path)
  BY <1>1, Zenon DEF Outcome
<1>3. /\ Len(h) \in Nat /\ NextId(h) \in Nat /\ \A k \in 1 .. Len(h) : IsTree(h[k].tree)
  BY HistoryParts
<1>4. /\ r.new \in 1 .. Len(h) /\ r.new \in 0 .. Len(h) /\ r.new - 1 \in 1 .. Len(h)
  <2> HIDE DEF AnswerKnown, AddsTo, old, new
  <2> QED
    BY <1>1, <1>3
<1>5. IsTree(old)
  BY <1>3, <1>4
<1>6. base = AddBase(r.params)
  BY DEF AddBase
<1>7. /\ base \in Names /\ (base = Prefix(a) \/ IsStrictPrefix(Prefix(a), base))
      /\ Match(a, l, old) => base = ChainBase(a, old, parent)
  BY <1>5, <1>6, BaseIs
<1>8. first \in Nat \ {0} /\ path \in Names
  BY <1>2 DEF MayChain
<1>9. Added(m, l, base, path, first, parent, r.updated, r.new)
  <2>1. IsList(l)
    BY DEF ListOK
  <2> DEFINE ids == r.ids
             updated == r.updated
             state == r.new
  <2>2. /\ AddBase(p) \in Names /\ p.path \in Names /\ p.path # <<>> /\ ids = [k \in DOMAIN p.path |-> first + k - 1]
        /\ p.parent = parent /\ p.path = path
    BY <1>2, <1>7, <1>8
  <2>3. m = AddCreated(l, p, ids, updated, state)
    OBVIOUS
  <2> HIDE DEF ids, updated, state, parent
  <2>4. Added(AddCreated(l, p, ids, updated, state), l, AddBase(p), p.path, first, p.parent, updated, state)
    BY <1>8, <2>1, <2>2, AddedIs
  <2>5. Added(m, l, AddBase(p), path, first, parent, updated, state)
    BY <2>2, <2>3, <2>4
  <2> QED
    BY <2>5 DEF updated, state
<1> HIDE DEF old, new, base, parent
<1>10. ListOK(a, m, h)
  BY <1>2, <1>3, <1>4, <1>7, <1>8, <1>9, AddedOK
<1>11. m.state = r.new /\ DOMAIN l.names \subseteq DOMAIN m.names /\ DOMAIN l.data \subseteq DOMAIN m.data
  BY <1>9 DEF Added
<1>12. ASSUME NEW n \in DOMAIN l.names, NEW x \in DOMAIN m.names \ {n} PROVE m.names[x] # l.names[n]
  <2>1. CASE x \in NewNames(base, path)
    <3>1. PICK k \in 1 .. Len(path) : x = base \o SubSeq(path, 1, k)
      BY <2>1 DEF NewNames
    <3>2. m.names[x] = first + k - 1
      BY <1>9, <3>1 DEF Added
    <3>3. l.names[n] < first /\ l.names[n] \in 1 .. NextId(h) - 1
      BY <1>2 DEF ListOK
    <3> QED
      BY <1>3, <1>8, <3>2, <3>3
  <2>2. CASE x \notin NewNames(base, path)
    <3>1. x \in DOMAIN l.names /\ m.names[x] = l.names[x]
      BY <1>9, <2>2 DEF Added
    <3> QED
      BY <1>12, <3>1 DEF ListOK
  <2> QED
    BY <2>1, <2>2
<1>13. ASSUME a \notin L, Quiet(h, l.state, r.new - 1), ~r.updated PROVE Match(a, m, new)
  <2>1. Match(a, l, old)
    BY <1>1, <1>13
  <2>2. Match(a, m, ChainTree(old, first, parent, path))
    BY <1>2, <1>5, <1>7, <1>9, <2>1, AddedMatch
  <2> QED
    BY <1>2, <1>13, <2>2
<1> QED
  BY <1>4, <1>10, <1>11, <1>12, <1>13 DEF new, HasAdded

\* CREATE adds the new mailboxes to the list.
LEMMA UpdateCreateKeeps ==
  ASSUME ListInv, OneCommand, NEW t \in Tasks, UpdateCreate(t) PROVE ListInv'
<1> DEFINE r == task[t]
           a == r.params.account
           l == mailboxes[a]
           h == log[a]
           m == AddCreated(l, r.params, r.ids, FALSE, r.new)
<1>1. /\ r.pc = "update" /\ r.cmd.op = "create" /\ Ends(t) /\ UNCHANGED <<log, linked, known, listed, listPanicked>>
      /\ lost' = IF Skips(a, r.new) THEN lost \cup {a} ELSE lost
  BY DEF UpdateCreate, server
<1>2. /\ a \in DOMAIN mailboxes /\ a \in Accounts /\ IsHistory(h) /\ ListOK(a, l, h)
      /\ ParamsOK(r, mailboxes) /\ UpdateOK(r, log, mailboxes, lost) /\ lost \subseteq Accounts
  BY <1>1, UpdateParts
<1>3. mailboxes' = [mailboxes EXCEPT ![a] = m]
  BY <1>2 DEF UpdateCreate, Updated
<1>4. PathOK(r, mailboxes) /\ SetOK(r, log, mailboxes, lost)
  BY <1>1, <1>2 DEF ParamsOK, UpdateOK
<1>5. r.params.path = ChainOf(r) /\ r.params.path # <<>>
  BY <1>1, <1>4 DEF ChainOf, PathOK
<1>6. r.updated = FALSE
  BY <1>1, <1>4, Zenon DEF SetOK, Outcome
<1>7. m = AddCreated(l, r.params, r.ids, r.updated, r.new)
  BY <1>6
<1>q. ~Skips(a, r.new) => Quiet(h, l.state, r.new - 1)
  BY <1>2, NoSkip
<1> DEFINE p == r.params
<1>8. p.path = ChainOf(r) /\ ChainOf(r) # <<>> /\ p.account = a /\ p.above = r.params.above /\ p.parent = r.params.parent
  BY <1>5
<1>9. m = AddCreated(l, p, r.ids, r.updated, r.new) /\ h = log[a] /\ l = mailboxes[a] /\ a = r.params.account
  BY <1>7
<1> HIDE DEF r, a, l, h, m, p
<1>10. /\ ListOK(a, m, h) /\ m.state = r.new /\ r.new \in 1 .. Len(h)
       /\ a \notin lost /\ Quiet(h, l.state, r.new - 1) /\ ~r.updated => Match(a, m, h[r.new].tree)
  <2>1. AnswerKnown(a, r, log, mailboxes, lost, h, l)
    BY <1>2, <1>4, <1>9 DEF AnswerKnown
  <2>2. AddsTo(m, l, r, p)
    BY <1>8, <1>9 DEF AddsTo
  <2>3. HasAdded(m, a, r, lost, h, l)
    BY <1>8, <2>1, <2>2, CreatedList
  <2> QED
    BY <2>3 DEF HasAdded
<1>11. ASSUME a \notin lost' PROVE Fits(a, m, h)
  <2>1. a \notin lost /\ Quiet(h, l.state, r.new - 1)
    BY <1>1, <1>11, <1>q
  <2> QED
    BY <1>2, <1>6, <1>10, <2>1, NewFits
<1>12. lost \subseteq lost' /\ lost' \subseteq Accounts
  BY <1>1, <1>2
<1> QED
  BY <1>1, <1>2, <1>3, <1>9, <1>10, <1>11, <1>12, UpdateStep DEF r

\* A chain of no mailboxes.
LEMMA NoChain ==
  ASSUME NEW tree, IsTree(tree), NEW first, NEW parent, MayChain(tree, first, parent, <<>>)
  PROVE  ChainTree(tree, first, parent, <<>>) = tree
<1> DEFINE path == <<>>
           new == ChainTree(tree, first, parent, path)
<1>1. MayChain(tree, first, parent, path)
  OBVIOUS
<1>2. ChainIds(first, path) = {}
  <2>1. first \in Nat /\ Len(<<>>) = 0
    BY DEF MayChain
  <2>2. first + Len(<<>>) - 1 < first
    BY <2>1
  <2> QED
    BY <2>1, <2>2 DEF ChainIds
<1> HIDE DEF path
<1>3. ChainFacts(new, tree, first, parent, path)
  BY <1>1, ChainKnown
<1> HIDE DEF new
<1>4. new = [x \in DOMAIN tree |-> tree[x]]
  BY <1>2, <1>3 DEF ChainFacts
<1>5. tree = [x \in DOMAIN tree |-> tree[x]]
  BY TreeParts DEF Nodes
<1> QED
  BY <1>4, <1>5 DEF new, path

\* RENAME of a mailbox whose new parent is there.
Renames(r, l, from, id) == r.cmd.op = "rename" /\ from = r.cmd.name /\ from \in DOMAIN l.names /\ id = r.params.id /\ l.names[from] = id

\* After a RENAME that created no parent the list matches the tree the server answered with.
LEMMA RenamedInPlace ==
  ASSUME NEW a, NEW r, NEW H, NEW M, NEW L, NEW h, NEW l, AnswerKnown(a, r, H, M, L, h, l), NEW from, NEW id, Renames(r, l, from, id),
         ChainOf(r) = <<>>, r.updated, Match(a, l, h[r.new - 1].tree), NEW m,
         m.names = RenameNames(l, from, r.cmd.to, id), m.data = RenameData(l, from, r.params.parent)
  PROVE  Match(a, m, h[r.new].tree)
<1> USE DEF AnswerKnown, Renames
<1> DEFINE old == h[r.new - 1].tree
           new == h[r.new].tree
           parent == r.params.parent
           name == Last(r.params.path)
           to == r.cmd.to
           above == r.params.above
<1>1. /\ r.new \in 2 .. Len(h) /\ Outcome(r, old, new, l, NextId(h))
  BY DEF SetOK
<1>2. PICK first \in Nat :
        /\ MayChain(old, first, parent, ChainOf(r))
        /\ LET chain == ChainTree(old, first, parent, ChainOf(r)) IN
           MayMove(chain, id, ParentOf(r), name) /\ new = Placed(chain, id, ParentOf(r), name)
  BY <1>1, Zenon DEF Outcome
<1>3. IsTree(old)
  <2>1. Len(h) \in Nat /\ \A k \in 1 .. Len(h) : IsTree(h[k].tree)
    BY HistoryParts
  <2>2. r.new - 1 \in 1 .. Len(h)
    <3> HIDE DEF AnswerKnown, Renames, old, new
    <3> QED
      BY <1>1, <2>1
  <2> QED
    BY <2>1, <2>2
<1>4. ParentOf(r) = parent
  BY DEF ParentOf
<1> DEFINE path == r.params.path
<1>5. /\ path \in Names /\ path # <<>> /\ above \in Names /\ to = above \o path /\ IsStrictPrefix(Prefix(a), to)
      /\ above = <<>> => parent = NoParent
      /\ above # <<>> => above \in DOMAIN l.names /\ l.names[above] = parent
  BY DEF PathOK, Target
<1>6. Front(path) = <<>>
  BY DEF ChainOf
<1>7. Match(a, l, old) /\ IsList(l)
  BY DEF ListOK
<1>n. name = Last(path)
  OBVIOUS
<1>c. ChainOf(r) = <<>>
  OBVIOUS
<1> HIDE DEF old, new, parent, name, to, above, path
<1>8. MayMove(old, id, parent, name) /\ new = Placed(old, id, parent, name)
  <2>1. MayChain(old, first, parent, <<>>)
    BY <1>2, <1>c
  <2>2. ChainTree(old, first, parent, <<>>) = old
    BY <1>3, <2>1, NoChain
  <2> QED
    BY <1>2, <1>4, <1>c, <2>2
<1>9. name \in NameParts /\ path = Append(<<>>, name) /\ Len(path) = 1
  <2>1. path = Append(Front(path), Last(path)) /\ Last(path) \in NameParts /\ Len(Front(path)) = Len(path) - 1 /\ Len(path) \in Nat
    BY <1>5, FrontLast
  <2>2. Len(<<>>) = 0
    OBVIOUS
  <2>3. Len(path) = 1
    BY <1>6, <2>1, <2>2
  <2> QED
    BY <1>6, <1>n, <2>1, <2>3
<1>10. from = Paths(a, old)[id]
  BY <1>7, MatchName
<1>11. to = MovedTo(a, old, parent, name)
  <2>1. CASE above = <<>>
    <3>1. parent = NoParent /\ to = path
      <4>1. above \o path = path
        BY <1>5, <2>1 DEF Names
      <4> QED
        BY <1>5, <2>1, <4>1
    <3>2. Prefix(a) = <<>>
      <4>1. CASE a = Own
        BY <4>1 DEF Prefix
      <4>2. CASE a # Own
        <5>1. Prefix(a) \in Names /\ Len(Prefix(a)) = 2
          BY <4>2, PrefixTyped DEF Prefix
        <5>2. IsPrefix(Prefix(a), path)
          BY <1>5, <3>1 DEF IsStrictPrefix
        <5>3. Len(Prefix(a)) <= Len(path)
          BY <1>5, <5>1, <5>2, PrefixParts
        <5> QED
          BY <1>9, <5>1, <5>3
      <4> QED
        BY <4>1, <4>2
    <3> QED
      BY <1>9, <3>1, <3>2 DEF MovedTo
  <2>2. CASE above # <<>>
    <3>1. parent \in DOMAIN old /\ above = Paths(a, old)[parent]
      <4>1. above \in DOMAIN l.names /\ l.names[above] = parent /\ IsList(l) /\ a \in Accounts
        BY <1>5, <1>7, <2>2
      <4> HIDE DEF AnswerKnown, Renames
      <4> QED
        BY <1>7, <4>1, MatchName
    <3>2. parent # NoParent
      BY <1>3, <3>1, TreeParts
    <3>3. <<>> \in Names /\ above \o <<>> = above
      BY <1>5, SMTT(60) DEF Names
    <3>4. above \o path = Append(above, name)
      <4> DEFINE e == <<>>
      <4>1. e \in Names /\ path = Append(e, name) /\ above \o e = above
        BY <1>9, <3>3
      <4> HIDE DEF e
      <4>2. above \o Append(e, name) = Append(above \o e, name)
        BY <1>5, <1>9, <4>1, JoinedAppend
      <4> QED
        BY <4>1, <4>2
    <3> QED
      BY <1>5, <3>1, <3>2, <3>4 DEF MovedTo
  <2> QED
    BY <2>1, <2>2
<1>12. m.names = RenameNames(l, from, to, id) /\ m.data = RenameData(l, from, parent)
  BY DEF to, parent
<1>13. Match(a, m, Placed(old, id, parent, name))
  BY <1>3, <1>7, <1>8, <1>9, <1>10, <1>11, <1>12, RenamedMatch
<1> QED
  BY <1>8, <1>13 DEF new

\* The list after RENAME's new parents have been added.
WithParents(k, a, r, L, h, l) ==
  /\ ListOK(a, k, h) /\ r.new \in 1 .. Len(h) /\ r.updated \in BOOLEAN /\ (r.ids = <<>> <=> ChainOf(r) = <<>>)
  /\ DOMAIN l.names \subseteq DOMAIN k.names /\ DOMAIN l.data \subseteq DOMAIN k.data
  /\ \A n \in DOMAIN l.names : \A x \in DOMAIN k.names \ {n} : k.names[x] # l.names[n]
  /\ r.ids = <<>> => k = l
  /\ r.ids # <<>> => /\ k.state = r.new
                     /\ a \notin L /\ Quiet(h, l.state, r.new - 1) /\ ~r.updated => Match(a, k, h[r.new].tree)

\* After the parents of a RENAME are added the list matches the tree before the move.
LEMMA ParentsAdded ==
  ASSUME NEW a, NEW r, NEW H, NEW M, NEW L, NEW h, NEW l, AnswerKnown(a, r, H, M, L, h, l), r.cmd.op = "rename",
         DOMAIN r.params = {"account", "id", "path", "above", "parent"}, NEW p, p = [r.params EXCEPT !.path = Front(@)],
         NEW k, k = (IF r.ids = <<>> THEN l ELSE AddCreated(l, p, r.ids, r.updated, r.new))
  PROVE  WithParents(k, a, r, L, h, l)
<1> USE DEF AnswerKnown
<1> DEFINE path == ChainOf(r)
<1>1. path = Front(r.params.path)
  BY DEF ChainOf
<1>2. p.path = path /\ p.account = a /\ p.above = r.params.above /\ p.parent = r.params.parent
  BY <1>1
<1>3. r.new \in 2 .. Len(h) /\ r.updated \in BOOLEAN /\ Len(h) \in Nat
  BY HistoryParts DEF SetOK
<1>4. r.ids = <<>> <=> path = <<>>
  <2>1. Outcome(r, h[r.new - 1].tree, h[r.new].tree, l, NextId(h))
    BY DEF SetOK
  <2>2. PICK first \in Nat : r.ids = [x \in DOMAIN path |-> first + x - 1]
    BY <2>1, Zenon DEF Outcome
  <2>3. path \in Names
    BY <1>1, FrontLast DEF PathOK
  <2>4. Len(path) \in Nat /\ DOMAIN path = 1 .. Len(path) /\ (path = <<>> <=> Len(path) = 0)
    BY <2>3 DEF Names
  <2>5. DOMAIN r.ids = 1 .. Len(path)
    BY <2>2, <2>4
  <2>6. path = <<>> => r.ids = <<>>
    BY <2>2
  <2>7. ASSUME r.ids = <<>> PROVE Len(path) = 0
    <3>1. 1 .. Len(path) = {}
      BY <2>5, <2>7
    <3>2. Len(path) > 0 => 1 \in 1 .. Len(path)
      BY <2>4
    <3> QED
      BY <2>4, <3>1, <3>2
  <2> QED
    BY <2>4, <2>6, <2>7
<1>5. CASE r.ids = <<>>
  <2>1. k = l
    BY <1>5
  <2>2. ListOK(a, l, h) /\ \A x, n \in DOMAIN l.names : l.names[x] = l.names[n] => x = n
    BY DEF ListOK
  <2> HIDE DEF AnswerKnown
  <2> QED
    BY <1>3, <1>4, <1>5, <2>1, <2>2 DEF WithParents
<1>6. CASE r.ids # <<>>
  <2>1. k = AddCreated(l, p, r.ids, r.updated, r.new) /\ path # <<>> /\ path = ChainOf(r)
    BY <1>4, <1>6
  <2>2. AddsTo(k, l, r, p)
    BY <1>2, <2>1 DEF AddsTo
  <2> HIDE DEF path
  <2>3. HasAdded(k, a, r, L, h, l)
    <3> HIDE DEF AnswerKnown
    <3> QED
      BY <2>1, <2>2, CreatedList
  <2> QED
    BY <1>3, <1>4, <1>6, <2>3 DEF path, HasAdded, WithParents
<1> QED
  BY <1>5, <1>6

\* RENAME adds the parents to the list and renames the mailbox in it.
LEMMA UpdateRenameKeeps ==
  ASSUME ListInv, OneCommand, NEW t \in Tasks, UpdateRename(t) PROVE ListInv'
<1> DEFINE r == task[t]
           a == r.params.account
           l == mailboxes[a]
           h == log[a]
           p == [r.params EXCEPT !.path = Front(@)]
           k == IF r.ids = <<>> THEN l ELSE AddCreated(l, p, r.ids, r.updated, r.new)
           state == IF r.ids = <<>> THEN r.new ELSE 0
           from == r.cmd.name
           to == r.cmd.to
           id == r.params.id
           mark == r.params.parent
           w == [state |-> state, names |-> RenameNames(k, from, to, id), data |-> RenameData(k, from, mark)]
           m == IF ~r.updated THEN k ELSE w
<1>1. /\ r.pc = "update" /\ r.cmd.op = "rename" /\ Ends(t) /\ UNCHANGED <<log, linked, known, listed, listPanicked>>
      /\ lost' = IF Skips(a, r.new) \/ (r.ids # <<>> /\ r.updated) THEN lost \cup {a} ELSE lost
  BY DEF UpdateRename, server
<1>2. /\ a \in DOMAIN mailboxes /\ a \in Accounts /\ IsHistory(h) /\ ListOK(a, l, h) /\ (a \notin lost => Fits(a, l, h))
      /\ ParamsOK(r, mailboxes) /\ UpdateOK(r, log, mailboxes, lost) /\ lost \subseteq Accounts
  BY <1>1, UpdateParts
<1>3. mailboxes' = [mailboxes EXCEPT ![a] = m]
  BY <1>2 DEF UpdateRename, Updated
<1>4. /\ PathOK(r, mailboxes) /\ SetOK(r, log, mailboxes, lost) /\ DOMAIN r.params = {"account", "id", "path", "above", "parent"}
      /\ from \in DOMAIN l.names /\ l.names[from] = id
  BY <1>1, <1>2 DEF ParamsOK, UpdateOK
<1>5. to \in Names /\ IsStrictPrefix(Prefix(a), to)
  <2>1. r.params.above \in Names /\ r.params.path \in Names /\ to = r.params.above \o r.params.path /\ IsStrictPrefix(Prefix(a), to)
    BY <1>1, <1>4 DEF PathOK, Target
  <2> QED
    BY <2>1, Joined
<1>q. ~Skips(a, r.new) => Quiet(h, l.state, r.new - 1)
  BY <1>2, NoSkip
<1>6. /\ a = r.params.account /\ h = log[a] /\ l = mailboxes[a] /\ p = [r.params EXCEPT !.path = Front(@)]
      /\ k = IF r.ids = <<>> THEN l ELSE AddCreated(l, p, r.ids, r.updated, r.new)
      /\ from = r.cmd.name /\ id = r.params.id /\ to = r.cmd.to /\ mark = r.params.parent
      /\ state = (IF r.ids = <<>> THEN r.new ELSE 0) /\ r = task[t]
      /\ m = (IF ~r.updated THEN k ELSE w)
      /\ w = [state |-> state, names |-> RenameNames(k, from, to, id), data |-> RenameData(k, from, mark)]
  OBVIOUS
<1> HIDE DEF r, a, l, h, p, k, state, from, to, id, mark, w, m
<1>a. AnswerKnown(a, r, log, mailboxes, lost, h, l)
  BY <1>2, <1>4, <1>6 DEF AnswerKnown
<1>w. WithParents(k, a, r, lost, h, l)
  BY <1>1, <1>4, <1>6, <1>a, ParentsAdded
<1>7. /\ ListOK(a, k, h) /\ r.new \in 1 .. Len(h) /\ r.updated \in BOOLEAN /\ (r.ids = <<>> <=> ChainOf(r) = <<>>)
      /\ DOMAIN l.names \subseteq DOMAIN k.names /\ DOMAIN l.data \subseteq DOMAIN k.data
      /\ \A n \in DOMAIN l.names : \A x \in DOMAIN k.names \ {n} : k.names[x] # l.names[n]
      /\ r.ids = <<>> => k = l
      /\ r.ids # <<>> => /\ k.state = r.new
                         /\ a \notin lost /\ Quiet(h, l.state, r.new - 1) /\ ~r.updated => Match(a, k, h[r.new].tree)
  BY <1>w DEF WithParents
<1>8. id \in 1 .. NextId(h) - 1 /\ id \in DOMAIN k.data /\ from \in DOMAIN k.names /\ \A n \in DOMAIN k.names \ {from} : k.names[n] # id
  <2>1. id \in 1 .. NextId(h) - 1 /\ id \in DOMAIN l.data
    BY <1>2, <1>4 DEF ListOK
  <2> QED
    BY <1>4, <1>7, <2>1
<1>9. state \in 0 .. Len(h)
  <2>1. Len(h) \in Nat
    BY <1>2, HistoryParts
  <2>2. r.new \in 0 .. Len(h) /\ 0 \in 0 .. Len(h)
    BY <1>7, <2>1
  <2>3. state = r.new \/ state = 0
    BY <1>6
  <2> QED
    BY <2>2, <2>3
<1>10. ListOK(a, m, h)
  <2>1. CASE r.updated
    <3>1. m = [state |-> state, names |-> RenameNames(k, from, to, id), data |-> RenameData(k, from, mark)]
      BY <1>6, <2>1
    <3> QED
      BY <1>2, <1>5, <1>7, <1>8, <1>9, <3>1, RenamedOK
  <2>2. CASE ~r.updated
    BY <1>6, <1>7, <2>2
  <2> QED
    BY <2>1, <2>2
<1>11. ASSUME a \notin lost' PROVE Fits(a, m, h)
  <2>1. a \notin lost /\ Quiet(h, l.state, r.new - 1) /\ ~(r.ids # <<>> /\ r.updated)
    BY <1>1, <1>11, <1>q
  <2>2. CASE r.updated
    <3>1. r.ids = <<>> /\ k = l /\ ChainOf(r) = <<>>
      BY <1>7, <2>1, <2>2
    <3>2. /\ m = [state |-> state, names |-> RenameNames(l, from, to, id), data |-> RenameData(l, from, mark)] /\ state = r.new
      BY <1>6, <2>2, <3>1
    <3>3. m.state = r.new /\ m.names = RenameNames(l, from, to, id) /\ m.data = RenameData(l, from, mark)
      BY <3>2
    <3>4. Match(a, l, h[r.new - 1].tree)
      BY <1>4, <1>6, <2>1 DEF SetOK
    <3>5. m.names = RenameNames(l, from, r.cmd.to, id) /\ m.data = RenameData(l, from, r.params.parent)
      BY <1>6, <3>3
    <3>6. Match(a, m, h[r.new].tree)
      <4>1. Renames(r, l, from, id)
        BY <1>1, <1>4, <1>6 DEF Renames
      <4> QED
        BY <1>a, <2>2, <3>1, <3>4, <3>5, <4>1, RenamedInPlace
    <3> QED
      BY <1>2, <1>7, <3>3, <3>6, NewFits
  <2>3. CASE ~r.updated /\ r.ids # <<>>
    <3>1. m = k /\ m.state = r.new /\ Match(a, m, h[r.new].tree)
      BY <1>6, <1>7, <2>1, <2>3, ZenonT(60)
    <3> QED
      BY <1>2, <1>7, <3>1, NewFits
  <2>4. CASE ~r.updated /\ r.ids = <<>>
    BY <1>2, <1>6, <1>7, <2>1, <2>4
  <2> QED
    BY <1>7, <2>2, <2>3, <2>4
<1>12. lost \subseteq lost' /\ lost' \subseteq Accounts
  BY <1>1, <1>2
<1> QED
  BY <1>1, <1>2, <1>3, <1>6, <1>10, <1>11, <1>12, UpdateStep

-----------------------------------------------------------------------------
(* The invariant holds.                                                       *)

\* The first tree of an account is a history.
LEMMA FirstHistory ==
  ASSUME NEW a \in Accounts, NEW h, h = <<[tree |-> Trees[a], list |-> TRUE]>> PROVE IsHistory(h)
<1> DEFINE tree == Trees[a]
           e == [tree |-> tree, list |-> TRUE]
<1>1. IsTree(tree) /\ IsFiniteSet(DOMAIN tree) /\ DOMAIN tree = 1 .. Cardinality(DOMAIN tree)
  BY ListAssumption
<1>2. e \in Entry
  <2> DEFINE list == TRUE
  <2>1. list \in BOOLEAN
    OBVIOUS
  <2> HIDE DEF list, tree
  <2>2. [tree |-> tree, list |-> list] \in Entry
    BY <1>1, <2>1, EntryIs
  <2> QED
    BY <2>2 DEF list
<1>3. Cardinality(DOMAIN tree) \in Nat
  BY <1>1, FS_CardinalityType
<1>t. e.tree = tree /\ h = <<e>>
  OBVIOUS
<1> HIDE DEF tree, e
<1>4. h \in Seq(Entry) /\ Len(h) = 1 /\ DOMAIN h = {1} /\ h[1] = e
  <2>1. h \in Seq(Entry)
    <3> HIDE DEF Entry
    <3>1. \A S : \A x \in S : <<x>> \in Seq(S)
      OBVIOUS
    <3> QED
      BY <1>2, <1>t, <3>1, Zenon
  <2>2. Len(h) = 1 /\ h[1] = e
    BY <1>t
  <2>3. DOMAIN h = 1 .. 1
    BY <1>t
  <2> QED
    BY <2>1, <2>2, <2>3
<1>5. UsedIn(h) = DOMAIN tree
  <2>1. {DOMAIN h[k].tree : k \in DOMAIN h} = {DOMAIN tree}
    BY <1>4, <1>t
  <2> QED
    BY <2>1 DEF UsedIn
<1>6. NextId(h) = 1 + Cardinality(DOMAIN tree)
  BY <1>5 DEF NextId
<1>7. NextId(h) \in Nat \ {0} /\ NextId(h) - 1 = Cardinality(DOMAIN tree)
  BY <1>3, <1>6
<1>8. UsedIn(h) = 1 .. NextId(h) - 1
  BY <1>1, <1>5, <1>7
<1>9. Len(h) >= 1 /\ \A k \in 2 .. Len(h) : FALSE
  BY <1>4
<1> QED
  BY <1>4, <1>7, <1>8, <1>9 DEF IsHistory

\* The initial states satisfy the invariant.
LEMMA ListInitInv == ListInit => ListInv
<1> SUFFICES ASSUME ListInit PROVE ListInv
  OBVIOUS
<1>1. /\ log = [a \in Accounts |-> <<[tree |-> Trees[a], list |-> TRUE]>>] /\ linked \in SUBSET {Jane} /\ known = linked
      /\ mailboxes = [a \in {Own} \cup linked |-> FetchAccountMailboxes(a)] /\ task = [t \in Tasks |-> Idle]
      /\ listed = NoList /\ lost = {} /\ listPanicked = FALSE
  BY DEF ListInit
<1>2. LogOK
  <2>1. DOMAIN log = Accounts /\ \A a \in Accounts : log[a] = <<[tree |-> Trees[a], list |-> TRUE]>>
    BY <1>1
  <2> QED
    BY <2>1, FirstHistory DEF LogOK, Histories
<1>3. DOMAIN mailboxes = {Own} \cup linked /\ \A a \in DOMAIN mailboxes : mailboxes[a] = FetchAccountMailboxes(a)
  <2> HIDE DEF Own
  <2> QED
    BY <1>1
<1>4. SetsOK
  BY <1>1, <1>3 DEF SetsOK, Accounts
<1>5. ListsOK(log, mailboxes, lost)
  <2>1. SUFFICES ASSUME NEW a \in DOMAIN mailboxes PROVE ListOK(a, mailboxes[a], log[a]) /\ Fits(a, mailboxes[a], log[a])
    BY DEF ListsOK
  <2> DEFINE l == mailboxes[a]
             h == log[a]
  <2>2. a \in Accounts /\ IsHistory(h)
    BY <1>2, <1>4 DEF SetsOK, LogOK, Histories
  <2>3. l = [state |-> Len(h), names |-> Listing(a, Last(h).tree).names, data |-> Listing(a, Last(h).tree).data]
    BY <1>3 DEF FetchAccountMailboxes, Tree, State
  <2> HIDE DEF l, h
  <2>4. ListOK(a, l, h) /\ Fits(a, l, h)
    BY <2>2, <2>3, FetchedIs
  <2> QED
    BY <2>4 DEF l, h
<1>6. TasksOK
  BY <1>1 DEF TasksOK
<1>7. KnownOK
  BY <1>1, <1>3 DEF KnownOK
<1>8. ListedOK /\ ListsTheServer /\ NamesHaveData
  BY <1>1 DEF ListedOK, ListsTheServer, NamesHaveData
<1> QED
  BY <1>2, <1>4, <1>5, <1>6, <1>7, <1>8 DEF ListInv

\* The steps of the other parts keep it.
LEMMA ListUnchanged == ListInv /\ UNCHANGED listVars => ListInv'
<1> SUFFICES ASSUME ListInv, UNCHANGED listVars PROVE ListInv'
  OBVIOUS
<1>1. UNCHANGED <<log, linked, known, mailboxes, task, listed, lost, listPanicked>>
  BY DEF listVars, server
<1>2. LogOK'
  BY <1>1 DEF ListInv, LogOK
<1>3. \A a \in Accounts : Later(log[a], log'[a])
  BY <1>1, LaterSame DEF ListInv, LogOK, Histories
<1> QED
  BY <1>1, <1>2, <1>3, ServerStep

\* Every step of the lists keeps it.
LEMMA ListStep == ASSUME OneCommand PROVE ListInv /\ ListNext => ListInv'
<1> SUFFICES ASSUME ListInv, ListNext PROVE ListInv'
  OBVIOUS
<1>1. ASSUME NEW a \in Accounts, OtherClient(a) PROVE ListInv'
  BY <1>1, OtherClientKeeps
<1>2. CASE Share
  BY <1>2, ShareKeeps
<1>3. ASSUME NEW t \in Tasks, NEW c \in Requests, Begin(t, c) PROVE ListInv'
  BY <1>3, BeginKeeps
<1>4. ASSUME NEW t \in Tasks, NEW ok \in BOOLEAN, RefreshSession(t, ok) \/ AskChanges(t, ok) PROVE ListInv'
  BY <1>4, RefreshKeeps, AskKeeps
<1>5. ASSUME NEW t \in Tasks, NEW a \in Accounts, NEW ok \in BOOLEAN, FetchAccount(t, a, ok) PROVE ListInv'
  BY <1>5, FetchKeeps
<1>6. ASSUME NEW t \in Tasks, NoRefresh(t) \/ Changed(t) \/ Synchronized(t) \/ List(t) \/ Validate(t) \/ SetFails(t) PROVE ListInv'
  BY <1>6, NoRefreshKeeps, ChangedKeeps, SynchronizedKeeps, ListKeeps, ValidateKeeps, SetFailsKeeps
<1>7. ASSUME NEW t \in Tasks, SetCreate(t) \/ SetRename(t) \/ SetDelete(t) \/ SetSubscribe(t) PROVE ListInv'
  BY <1>7, SetCreateKeeps, SetRenameKeeps, SetDeleteKeeps, SetSubscribeKeeps
<1>8. ASSUME NEW t \in Tasks, UpdateCreate(t) \/ UpdateRename(t) \/ UpdateDelete(t) \/ UpdateSubscribe(t) PROVE ListInv'
  BY <1>8, UpdateCreateKeeps, UpdateRenameKeeps, UpdateDeleteKeeps, UpdateSubscribeKeeps
<1> QED
  BY <1>1, <1>2, <1>3, <1>4, <1>5, <1>6, <1>7, <1>8 DEF ListNext

\* So it always holds, whatever the requests, the trees and the number of changes.
LEMMA ListSession == ASSUME OneCommand PROVE MCSpec => []ListInv
<1>1. MCInit => ListInv
  BY ListInitInv DEF MCInit
<1>2. ListInv /\ [MCNext]_MCvars => ListInv'
  <2> SUFFICES ASSUME ListInv, [MCNext]_MCvars PROVE ListInv'
    OBVIOUS
  <2>1. CASE ListNext
    BY <2>1, ListStep
  <2>2. CASE UNCHANGED listVars
    BY <2>2, ListUnchanged
  <2> QED
    BY <2>1, <2>2 DEF MCNext, MCvars
<1> QED
  BY <1>1, <1>2, PTL DEF MCSpec

\* LIST shows each account as it was at some moment after the command began.
THEOREM ListsTheServerAlways == ASSUME OneCommand PROVE MCSpec => []ListsTheServer
<1>1. ListInv => ListsTheServer
  BY DEF ListInv
<1> QED
  BY <1>1, ListSession, PTL

\* The invariant contains the types, and that every listed name has its data.
LEMMA ListTyped == ListInv => ListTypeOK /\ NamesHaveData
<1> SUFFICES ASSUME ListInv PROVE ListTypeOK
  BY DEF ListInv
<1>1. LogOK /\ SetsOK /\ ListsOK(log, mailboxes, lost)
  BY DEF ListInv
<1>2. ASSUME NEW a \in DOMAIN mailboxes
      PROVE  /\ mailboxes[a].state \in 0 .. State(a)
             /\ Range(mailboxes[a].names) \subseteq 1 .. FreshId(a) - 1
             /\ \A n \in DOMAIN mailboxes[a].names : IsStrictPrefix(Prefix(a), n)
  <2>1. a \in Accounts /\ ListOK(a, mailboxes[a], log[a])
    BY <1>1 DEF SetsOK, ListsOK
  <2>2. FreshId(a) = NextId(log[a])
    BY <1>1, <2>1, TreeNow
  <2>3. \A n \in DOMAIN mailboxes[a].names : mailboxes[a].names[n] \in 1 .. FreshId(a) - 1
    BY <2>1, <2>2 DEF ListOK
  <2>4. Range(mailboxes[a].names) \subseteq 1 .. FreshId(a) - 1
    BY <2>3 DEF Range
  <2> QED
    BY <2>1, <2>4 DEF ListOK, State
<1> QED
  BY <1>1, <1>2 DEF ListTypeOK, SetsOK

-----------------------------------------------------------------------------
(* The mailbox that a command changes has the name that the client gave.       *)

\* A prefix of a prefix is a prefix.
LEMMA PrefixOfPrefix ==
  ASSUME NEW r \in Names, NEW s \in Names, NEW t \in Names, IsPrefix(r, s), IsPrefix(s, t) PROVE IsPrefix(r, t)
<1>1. Len(r) <= Len(s) /\ Len(s) <= Len(t) /\ (\A x \in 1 .. Len(r) : r[x] = s[x]) /\ (\A x \in 1 .. Len(s) : s[x] = t[x])
  BY PrefixParts
<1>2. Len(r) \in Nat /\ Len(s) \in Nat /\ Len(t) \in Nat
  BY DEF Names
<1>3. Len(r) <= Len(t) /\ \A x \in 1 .. Len(r) : x \in 1 .. Len(s)
  BY <1>1, <1>2
<1> QED
  BY <1>1, <1>3, PrefixParts

\* The beginning of a path, after a name.
LEMMA Beginning ==
  ASSUME NEW above \in Names, NEW path \in Names, NEW k \in 1 .. Len(path), SubSeq(path, 1, k) \in Names
  PROVE  IsPrefix(above \o SubSeq(path, 1, k), above \o path)
<1>1. Len(path) \in Nat
  BY DEF Names
<1> DEFINE s == SubSeq(path, 1, k)
<1>2. Len(s) = k /\ \A x \in 1 .. k : s[x] = path[x]
  <2>1. k \in Nat /\ 1 \in Nat /\ 1 <= 1 /\ 1 <= k + 1 /\ k <= Len(path) /\ k - 1 + 1 = k /\ \A x \in 1 .. k : 1 + x - 1 = x
    BY <1>1
  <2>2. Len(SubSeq(path, 1, k)) = k - 1 + 1 /\ \A x \in 1 .. k - 1 + 1 : SubSeq(path, 1, k)[x] = path[1 + x - 1]
    BY <2>1, Piece
  <2> QED
    BY <2>1, <2>2
<1>3. s \in Names
  OBVIOUS
<1> HIDE DEF s
<1>4. IsPrefix(s, path)
  BY <1>1, <1>2, <1>3, PrefixParts
<1>5. IsPrefix(above \o s, above \o path)
  BY <1>3, <1>4, JoinedPrefix
<1> QED
  BY <1>5 DEF s

\* The whole of a path.
LEMMA WholePath ==
  ASSUME NEW path \in Names PROVE SubSeq(path, 1, Len(path)) = path
BY DEF Names

\* New mailboxes below one whose name is above: their names lead to above \o path.
ChainNamed(chain, old, first, path, above, below) ==
  /\ IsTree(chain) /\ DOMAIN chain = DOMAIN old \cup ChainIds(first, path)
  /\ \A x \in DOMAIN old : x \notin ChainIds(first, path) /\ chain[x] = old[x]
  /\ \A x \in ChainIds(first, path) : /\ Paths(Own, chain)[x] \in Names
                                      /\ IsPrefix(Paths(Own, chain)[x], above \o path)
  /\ (IF below = NoParent THEN <<>> ELSE Paths(Own, chain)[below]) = above \o path
  /\ ChainIds(first, path) # {} => below # NoParent

\* The names of the created mailboxes are the prefixes of the path, below the existing parent.
LEMMA ChainNames ==
  ASSUME NEW old, IsTree(old), NEW first, NEW parent, NEW path, MayChain(old, first, parent, path),
         NEW above \in Names, ChainBase(Own, old, parent) = above, NEW chain, chain = ChainTree(old, first, parent, path),
         NEW ids, ids = [k \in DOMAIN path |-> first + k - 1], NEW below, below = (IF path = <<>> THEN parent ELSE Last(ids))
  PROVE  ChainNamed(chain, old, first, path, above, below)
<1>o. Own \in Accounts /\ Prefix(Own) = <<>>
  BY DEF Accounts, Prefix
<1>1. ChainFacts(chain, old, first, parent, path) /\ ChainedTo(chain, old, first, parent, path)
  BY ChainKnown, Chained
<1>2. /\ IsTree(chain) /\ DOMAIN chain = DOMAIN old \cup ChainIds(first, path)
      /\ \A x \in DOMAIN old : x \notin ChainIds(first, path) /\ chain[x] = old[x]
  BY <1>1 DEF ChainFacts, ChainedTo
<1>3. /\ \A x \in DOMAIN old : Paths(Own, chain)[x] = Paths(Own, old)[x]
      /\ \A k \in 1 .. Len(path) : Paths(Own, chain)[first + k - 1] = above \o SubSeq(path, 1, k) /\ SubSeq(path, 1, k) \in Names
  BY <1>1, <1>o DEF ChainedTo
<1>4. first \in Nat /\ first > 0 /\ path \in Names /\ Len(path) \in Nat /\ DOMAIN path = 1 .. Len(path)
  BY ChainParts
<1>5. ASSUME NEW x \in ChainIds(first, path)
      PROVE  Paths(Own, chain)[x] \in Names /\ IsPrefix(Paths(Own, chain)[x], above \o path)
  <2> DEFINE k == x - first + 1
  <2>1. k \in 1 .. Len(path) /\ first + k - 1 = x
    BY <1>4 DEF ChainIds
  <2> HIDE DEF k
  <2>2. Paths(Own, chain)[x] = above \o SubSeq(path, 1, k) /\ SubSeq(path, 1, k) \in Names
    BY <1>3, <2>1
  <2> QED
    BY <1>4, <2>1, <2>2, Joined, Beginning
<1>6. CASE path = <<>>
  <2>1. below = parent /\ above \o path = above
    BY <1>6 DEF Names
  <2>2. ChainIds(first, path) = {}
    <3>1. Len(path) = 0
      BY <1>6
    <3>2. first + Len(path) - 1 < first
      BY <1>4, <3>1
    <3> QED
      BY <1>4, <3>2 DEF ChainIds
  <2>3. CASE parent = NoParent
    BY <1>2, <1>5, <1>o, <2>1, <2>2, <2>3 DEF ChainNamed, ChainBase
  <2>4. CASE parent # NoParent
    <3>1. parent \in DOMAIN old
      BY <2>4 DEF MayChain
    <3>2. Paths(Own, chain)[parent] = above
      BY <1>3, <2>4, <3>1 DEF ChainBase
    <3> QED
      BY <1>2, <1>5, <2>1, <2>2, <2>4, <3>2 DEF ChainNamed
  <2> QED
    BY <2>3, <2>4
<1>7. CASE path # <<>>
  <2> DEFINE n == Len(path)
  <2>1. n \in 1 .. n
    BY <1>4, <1>7
  <2>2. Last(ids) = first + n - 1
    <3>1. Len(ids) = n /\ ids[n] = first + n - 1
      <4>1. DOMAIN ids = 1 .. n /\ \A k \in 1 .. n : ids[k] = first + k - 1
        BY <1>4
      <4>2. ids \in Seq(Nat)
        <5>1. \A k \in 1 .. n : first + k - 1 \in Nat
          BY <1>4
        <5>2. ids = [k \in 1 .. n |-> first + k - 1]
          BY <1>4
        <5> HIDE DEF n
        <5> QED
          BY <1>4, <5>1, <5>2 DEF n
      <4>3. Len(ids) = n
        BY <1>4, <4>1, <4>2
      <4> QED
        BY <2>1, <4>1, <4>3
    <3> QED
      BY <3>1 DEF Last
  <2>3. below = first + n - 1 /\ below # NoParent
    BY <1>4, <1>7, <2>1, <2>2 DEF NoParent
  <2>4. Paths(Own, chain)[below] = above \o path
    <3>1. Paths(Own, chain)[first + n - 1] = above \o SubSeq(path, 1, n)
      BY <1>3, <2>1
    <3> QED
      BY <1>4, <2>3, <3>1, WholePath
  <2> QED
    BY <1>2, <1>5, <2>3, <2>4 DEF ChainNamed
<1> QED
  BY <1>6, <1>7

\* ActsOn, of two trees of the user's own account.
Acts(old, new, r) ==
  LET p == Paths(Own, old)
      q == Paths(Own, new)
  IN /\ \A i \in DOMAIN old \ DOMAIN new : r.cmd.op = "delete" /\ p[i] = r.cmd.name
     /\ \A i \in DOMAIN new \ DOMAIN old :
          IsPrefix(q[i], IF r.cmd.op = "rename" THEN r.cmd.to ELSE r.cmd.name)
     /\ \A i \in DOMAIN new \cap DOMAIN old :
          /\ new[i].sub # old[i].sub => p[i] = r.cmd.name
          /\ <<new[i].name, new[i].parent>> # <<old[i].name, old[i].parent>> => q[i] = r.cmd.to

\* The session has the list as it is.
LEMMA NamedNow ==
  ASSUME ListInv, NEW t \in Tasks, NEW r, r = task[t], r.pc = "set", r.params.account = Own, Own \notin lost \cup r.failed,
         \A k \in r.start[Own] + 1 .. State(Own) : ~log[Own][k].list
  PROVE  /\ Match(Own, mailboxes[Own], Tree(Own)) /\ ListOK(Own, mailboxes[Own], log[Own]) /\ ParamsOK(r, mailboxes)
         /\ r.cmd \in Requests
<1>1. LogOK /\ SetsOK /\ ListsOK(log, mailboxes, lost) /\ TasksOK
  BY DEF ListInv
<1>2. RunOK(r, log, mailboxes, lost)
  BY <1>1, RunParts
<1>3. Own \in Accounts /\ Own \in DOMAIN mailboxes
  BY <1>1 DEF Accounts, SetsOK
<1> DEFINE h == log[Own]
           s == r.start[Own]
<1>4. ParamsOK(r, mailboxes) /\ Current(Own, mailboxes[Own], r, h) /\ s \in 1 .. Len(h) /\ r.cmd \in Requests
  BY <1>2, <1>3 DEF RunOK, SyncOK, Shape
<1>5. ListOK(Own, mailboxes[Own], h)
  BY <1>1, <1>3 DEF ListsOK
<1>6. IsHistory(h) /\ Tree(Own) = h[Len(h)].tree /\ Len(h) \in Nat
  BY <1>1, <1>3, TreeNow
<1>7. Quiet(h, s, Len(h))
  BY DEF Quiet, State
<1>8. PICK k \in s .. Len(h) : Match(Own, mailboxes[Own], h[k].tree)
  BY <1>4 DEF Current
<1> HIDE DEF h, s
<1>9. k \in 1 .. Len(h) /\ Len(h) \in k .. Len(h)
  BY <1>4, <1>6, <1>8
<1>10. Quiet(h, k, Len(h))
  BY <1>4, <1>6, <1>7, <1>8 DEF Quiet
<1>11. h[Len(h)].tree = h[k].tree
  BY <1>6, <1>9, <1>10, QuietSame
<1> QED
  BY <1>4, <1>5, <1>6, <1>8, <1>11 DEF h

\* DELETE and SUBSCRIBE name their mailbox.
LEMMA DeleteActs ==
  ASSUME NEW old, IsTree(old), NEW r, r.cmd.op = "delete", NEW id \in DOMAIN old, Children(old, id) = {},
         r.cmd.name = Paths(Own, old)[id]
  PROVE  Acts(old, Without(old, {id}), r)
<1> DEFINE new == Without(old, {id})
<1>1. DOMAIN new = DOMAIN old \ {id} /\ \A j \in DOMAIN new : new[j] = old[j]
  BY Dropped
<1> HIDE DEF new
<1>2. Acts(old, new, r)
  BY <1>1 DEF Acts
<1> QED
  BY <1>2 DEF new

\* Setting the flag of the named mailbox is what SUBSCRIBE and UNSUBSCRIBE ask for.
LEMMA SubscribeActs ==
  ASSUME NEW old, IsTree(old), NEW r, r.cmd.op = "subscribe", NEW id \in DOMAIN old, NEW sub \in BOOLEAN,
         r.cmd.name = Paths(Own, old)[id]
  PROVE  Acts(old, [old EXCEPT ![id].sub = sub], r)
<1> DEFINE new == [old EXCEPT ![id].sub = sub]
<1>1. /\ DOMAIN new = DOMAIN old
      /\ \A j \in DOMAIN old : new[j].parent = old[j].parent /\ new[j].name = old[j].name /\ (j # id => new[j] = old[j])
  BY Resubscribed
<1> HIDE DEF new
<1>2. Acts(old, new, r)
  BY <1>1 DEF Acts
<1> QED
  BY <1>2 DEF new

\* CREATE and RENAME: the new mailboxes lead to the name, and the one that is moved has it.
LEMMA ChainActs ==
  ASSUME NEW old, IsTree(old), NEW first, NEW path \in Names, NEW above \in Names, NEW below, NEW chain,
         ChainNamed(chain, old, first, path, above, below), NEW r,
         IsPrefix(above \o path, IF r.cmd.op = "rename" THEN r.cmd.to ELSE r.cmd.name),
         (IF r.cmd.op = "rename" THEN r.cmd.to ELSE r.cmd.name) \in Names
  PROVE  Acts(old, chain, r)
<1> DEFINE target == IF r.cmd.op = "rename" THEN r.cmd.to ELSE r.cmd.name
<1>1. DOMAIN old \ DOMAIN chain = {} /\ DOMAIN chain \ DOMAIN old \subseteq ChainIds(first, path)
  BY DEF ChainNamed
<1>2. \A i \in DOMAIN chain \cap DOMAIN old : chain[i] = old[i]
  BY DEF ChainNamed
<1>3. IsPrefix(above \o path, target) /\ target \in Names
  OBVIOUS
<1> HIDE DEF target
<1>4. \A i \in ChainIds(first, path) : IsPrefix(Paths(Own, chain)[i], target)
  BY <1>3, Joined, PrefixOfPrefix DEF ChainNamed
<1>5. \A i \in DOMAIN chain \ DOMAIN old : IsPrefix(Paths(Own, chain)[i], target)
  BY <1>1, <1>4
<1> QED
  BY <1>1, <1>2, <1>5 DEF Acts, target

\* Moving a mailbox below the created parents is what RENAME asks for.
LEMMA MoveActs ==
  ASSUME NEW old, IsTree(old), NEW first, NEW path \in Names, NEW above \in Names, NEW below, NEW chain,
         ChainNamed(chain, old, first, path, above, below), NEW r, r.cmd.op = "rename", r.cmd.to \in Names,
         NEW name \in NameParts, r.cmd.to = Append(above \o path, name), NEW id, MayMove(chain, id, below, name)
  PROVE  Acts(old, Placed(chain, id, below, name), r)
<1> DEFINE new == Placed(chain, id, below, name)
           p == Paths(Own, chain)
           q == Paths(Own, new)
           to == r.cmd.to
           base == above \o path
<1>o. Own \in Accounts /\ Prefix(Own) = <<>>
  BY DEF Accounts, Prefix
<1>1. /\ IsTree(chain) /\ DOMAIN chain = DOMAIN old \cup ChainIds(first, path)
      /\ \A x \in DOMAIN old : x \notin ChainIds(first, path) /\ chain[x] = old[x]
      /\ \A x \in ChainIds(first, path) : p[x] \in Names /\ IsPrefix(p[x], base)
      /\ (IF below = NoParent THEN <<>> ELSE p[below]) = base
      /\ ChainIds(first, path) # {} => below # NoParent
  BY DEF ChainNamed
<1>2. /\ DOMAIN new = DOMAIN chain /\ new[id] = [parent |-> below, name |-> name, sub |-> chain[id].sub]
      /\ \A j \in DOMAIN chain \ {id} : new[j] = chain[j]
      /\ \A j \in DOMAIN chain : q[j] = Renamed(p[j], p[id], MovedTo(Own, chain, below, name))
      /\ q[id] = MovedTo(Own, chain, below, name)
  BY <1>1, <1>o, Moved
<1>3. MovedTo(Own, chain, below, name) = to
  BY <1>1, <1>o DEF MovedTo
<1>4. id \in DOMAIN chain /\ (below # NoParent => ~IsPrefix(p[id], p[below]))
  BY DEF MayMove
<1>5. p[id] \in Names
  BY <1>1, <1>4, <1>o, PathFacts
<1>6. base \in Names /\ IsPrefix(base, to)
  <2>1. base \in Names
    BY Joined
  <2> HIDE DEF base
  <2>2. to = Append(base, name)
    BY DEF base
  <2>3. IsPrefix(base, base)
    BY <2>1, RenamedSelf
  <2>4. IsPrefix(base, Append(base, name))
    BY <2>1, <2>3, PrefixOfAppend
  <2> QED
    BY <2>1, <2>2, <2>4
<1>7. to \in Names
  OBVIOUS
<1> HIDE DEF new, p, q, to, base
<1>8. ASSUME NEW i \in ChainIds(first, path) PROVE IsPrefix(q[i], to)
  <2>1. p[i] \in Names /\ IsPrefix(p[i], base) /\ below # NoParent /\ p[below] = base
    BY <1>1
  <2>2. ~IsPrefix(p[id], p[i])
    BY <1>4, <1>5, <1>6, <2>1, PrefixOfPrefix
  <2>3. q[i] = p[i]
    BY <1>1, <1>2, <2>2 DEF Renamed
  <2> QED
    BY <1>6, <1>7, <2>1, <2>3, PrefixOfPrefix
<1>9. DOMAIN old \ DOMAIN new = {} /\ \A i \in DOMAIN new \ DOMAIN old : IsPrefix(q[i], to)
  BY <1>1, <1>2, <1>8
<1>10. \A i \in DOMAIN new \cap DOMAIN old :
         /\ new[i].sub = old[i].sub
         /\ i # id => new[i] = old[i]
         /\ i = id => q[i] = to
  BY <1>1, <1>2, <1>3
<1>11. Acts(old, new, r)
  BY <1>9, <1>10 DEF Acts, q, to
<1> QED
  BY <1>11 DEF new

\* The property is about the tree that was logged last.
LEMMA LastLogged ==
  ASSUME LogOK, NEW tree, IsTree(tree), log' = Logged(Own, tree, TRUE), NEW r, Acts(Tree(Own), tree, r) PROVE ActsOn(Own, r)
<1> DEFINE h == log[Own]
           list == TRUE
           e == [tree |-> tree, list |-> list]
<1>1. h \in Seq(Entry) /\ Own \in DOMAIN log
  BY DEF LogOK, Histories, IsHistory, Accounts
<1>2. e \in Entry
  <2>1. list \in BOOLEAN
    OBVIOUS
  <2> HIDE DEF list
  <2> QED
    BY <2>1, EntryIs
<1>3. log'[Own] = Append(h, e) /\ e.tree = tree
  BY <1>1 DEF Logged
<1> HIDE DEF h, e
<1>4. Last(Append(h, e)) = e
  BY <1>1, <1>2 DEF Last
<1>5. Last(log'[Own]).tree = tree
  BY <1>3, <1>4
<1> QED
  BY <1>5 DEF Acts, ActsOn

\* What a request of the user's own account starts from.
OwnNow(r) ==
  /\ LogOK /\ r.params.account = Own /\ Match(Own, mailboxes[Own], Tree(Own)) /\ ListOK(Own, mailboxes[Own], log[Own])
  /\ ParamsOK(r, mailboxes) /\ r.cmd \in Requests

\* In the user's own account the id that the command uses is that of the name the client gave.
LEMMA OwnNamed ==
  ASSUME NEW r, OwnNow(r), r.cmd.op # "create", r.params.id \in DOMAIN Tree(Own)
  PROVE  r.cmd.name = Paths(Own, Tree(Own))[r.params.id]
<1>1. r.cmd.name \in DOMAIN mailboxes[Own].names /\ mailboxes[Own].names[r.cmd.name] = r.params.id
  BY DEF OwnNow, ParamsOK
<1> QED
  BY <1>1, MatchName DEF OwnNow, Accounts

\* There the created mailboxes have the names that the client gave.
LEMMA OwnChain ==
  ASSUME NEW r, OwnNow(r), r.cmd.op \in {"create", "rename"}, NEW path, path = ChainOf(r), NEW parent, parent = r.params.parent,
         MayCreate(Own, parent, path), NEW first, first = FreshId(Own), NEW ids, ids = [k \in DOMAIN path |-> first + k - 1],
         NEW chain, chain = ChainTree(Tree(Own), first, parent, path), NEW below, below = (IF path = <<>> THEN parent ELSE Last(ids)),
         NEW above, above = r.params.above
  PROVE  /\ ChainNamed(chain, Tree(Own), first, path, above, below) /\ IsTree(Tree(Own)) /\ path \in Names /\ above \in Names
         /\ Target(r.cmd) \in Names /\ Target(r.cmd) = above \o r.params.path /\ r.params.path \in Names /\ r.params.path # <<>>
<1> DEFINE old == Tree(Own)
           h == log[Own]
<1>o. Own \in Accounts /\ Prefix(Own) = <<>> /\ LogOK
  BY DEF Accounts, Prefix, OwnNow
<1>1. /\ IsTree(old) /\ NextId(h) \in Nat \ {0} /\ first = NextId(h) /\ \A i \in DOMAIN old : i \in 1 .. NextId(h) - 1
  BY <1>o, TreeNow
<1>2. /\ PathOK(r, mailboxes)
  BY DEF OwnNow, ParamsOK
<1>3. /\ above \in Names /\ r.params.path \in Names /\ r.params.path # <<>> /\ Target(r.cmd) = above \o r.params.path
  BY <1>2 DEF PathOK
<1>4. path \in Names
  BY <1>3, FrontLast DEF ChainOf
<1>5. parent \in DOMAIN old \cup {NoParent} /\ (path # <<>> => ~Exists(old, parent, path[1]))
  BY DEF MayCreate
<1>6. AddBase(r.params) = above
  BY <1>o DEF AddBase, OwnNow
<1>7. AddBase(r.params) = ChainBase(Own, old, parent)
  <2>1. r.params.account = Own /\ Match(Own, mailboxes[Own], old) /\ ListOK(Own, mailboxes[Own], log[Own])
    BY DEF OwnNow
  <2> HIDE DEF old
  <2> DEFINE a == Own
             l == mailboxes[a]
  <2>2. /\ a \in Accounts /\ a = r.params.account /\ ListOK(a, l, h) /\ l = mailboxes[a] /\ Match(a, l, old)
    BY <1>o, <2>1
  <2> HIDE DEF a, l, h
  <2>3. AddBase(r.params) = ChainBase(a, old, r.params.parent)
    BY <1>1, <1>2, <2>2, BaseIs
  <2> QED
    BY <2>3 DEF a
<1>8. Target(r.cmd) \in Names
  BY <1>3, Joined
<1>c. chain = ChainTree(old, first, parent, path)
  OBVIOUS
<1> HIDE DEF old, h
<1>9. MayChain(old, first, parent, path)
  <2>1. \A i \in DOMAIN old : i < first
    BY <1>1
  <2> QED
    BY <1>1, <1>4, <1>5, <2>1 DEF MayChain
<1>10. ChainNamed(chain, old, first, path, above, below)
  BY <1>1, <1>3, <1>6, <1>7, <1>9, <1>c, ChainNames
<1> QED
  BY <1>1, <1>3, <1>4, <1>8, <1>10 DEF old

\* DELETE destroys the mailbox of that name.
LEMMA SetDeleteActs ==
  ASSUME NEW t \in Tasks, OwnNow(task[t]), SetDelete(t), log' # log PROVE ActsOn(Own, task[t])
<1> DEFINE r == task[t]
           old == Tree(Own)
           id == r.params.id
<1>1. /\ r.cmd.op = "delete" /\ id \in DOMAIN old /\ Children(old, id) = {} /\ log' = Logged(Own, Without(old, {id}), TRUE)
  BY DEF SetDelete, SetAccount
<1>2. LogOK /\ IsTree(old)
  BY TreeNow DEF OwnNow, Accounts
<1>3. r.cmd.name = Paths(Own, old)[id]
  BY <1>1, OwnNamed
<1> HIDE DEF old, id, r
<1>4. Acts(old, Without(old, {id}), r) /\ IsTree(Without(old, {id}))
  BY <1>1, <1>2, <1>3, DeleteActs, Dropped
<1> QED
  BY <1>1, <1>2, <1>4, LastLogged DEF old, r

\* SUBSCRIBE and UNSUBSCRIBE set the flag of the mailbox of that name.
LEMMA SetSubscribeActs ==
  ASSUME NEW t \in Tasks, OwnNow(task[t]), SetSubscribe(t), log' # log PROVE ActsOn(Own, task[t])
<1> DEFINE r == task[t]
           old == Tree(Own)
           id == r.params.id
           sub == r.cmd.sub
           new == [old EXCEPT ![id].sub = sub]
<1>1. /\ r.cmd.op = "subscribe" /\ id \in DOMAIN old /\ log' = Logged(Own, new, TRUE)
  BY DEF SetSubscribe, SetAccount
<1>2. LogOK /\ IsTree(old)
  BY TreeNow DEF OwnNow, Accounts
<1>3. r.cmd.name = Paths(Own, old)[id]
  BY <1>1, OwnNamed
<1>4. sub \in BOOLEAN
  BY <1>1, RequestIs DEF OwnNow
<1> HIDE DEF old, id, r, sub
<1>5. Acts(old, new, r) /\ IsTree(new)
  BY <1>1, <1>2, <1>3, <1>4, SubscribeActs, Resubscribed
<1> HIDE DEF new
<1> QED
  BY <1>1, <1>2, <1>5, LastLogged DEF old, r

\* CREATE creates the mailbox of that name and its parents.
LEMMA SetCreateActs ==
  ASSUME NEW t \in Tasks, OwnNow(task[t]), SetCreate(t), log' # log PROVE ActsOn(Own, task[t])
<1> DEFINE r == task[t]
           old == Tree(Own)
           path == r.params.path
           parent == r.params.parent
           above == r.params.above
           first == FreshId(Own)
           ids == [k \in DOMAIN path |-> first + k - 1]
           chain == ChainTree(old, first, parent, path)
           below == IF path = <<>> THEN parent ELSE Last(ids)
<1>1. r.cmd.op = "create" /\ MayCreate(Own, parent, path) /\ log' = Logged(Own, chain, TRUE)
  BY DEF SetCreate, OwnNow, Chain
<1>2. LogOK
  BY DEF OwnNow
<1>3. path = ChainOf(r) /\ Target(r.cmd) = r.cmd.name /\ (IF r.cmd.op = "rename" THEN r.cmd.to ELSE r.cmd.name) = r.cmd.name
  BY <1>1 DEF ChainOf, Target
<1>4. OwnNow(r)
  OBVIOUS
<1>5. /\ ids = [k \in DOMAIN path |-> first + k - 1] /\ chain = ChainTree(Tree(Own), first, parent, path)
      /\ below = (IF path = <<>> THEN parent ELSE Last(ids)) /\ first = FreshId(Own) /\ parent = r.params.parent /\ above = r.params.above
      /\ path = r.params.path /\ old = Tree(Own)
  OBVIOUS
<1> HIDE DEF old, r, path, parent, above, first, ids, chain, below
<1>6. /\ ChainNamed(chain, old, first, path, above, below) /\ IsTree(old) /\ path \in Names /\ above \in Names
      /\ r.cmd.name \in Names /\ r.cmd.name = above \o path
  BY <1>1, <1>3, <1>4, <1>5, OwnChain, ZenonT(60)
<1>7. IsPrefix(above \o path, r.cmd.name)
  BY <1>6, RenamedSelf
<1>8. Acts(old, chain, r)
  BY <1>3, <1>6, <1>7, ChainActs
<1>9. IsTree(chain)
  BY <1>6 DEF ChainNamed
<1> QED
  BY <1>1, <1>2, <1>8, <1>9, LastLogged DEF old, r

\* RENAME moves the mailbox of the one name to the other.
LEMMA SetRenameActs ==
  ASSUME NEW t \in Tasks, OwnNow(task[t]), SetRename(t), log' # log PROVE ActsOn(Own, task[t])
<1> DEFINE r == task[t]
           old == Tree(Own)
           path == Front(r.params.path)
           name == Last(r.params.path)
           id == r.params.id
           parent == r.params.parent
           above == r.params.above
           first == FreshId(Own)
           ids == [k \in DOMAIN path |-> first + k - 1]
           chain == ChainTree(old, first, parent, path)
           below == IF path = <<>> THEN parent ELSE Last(ids)
           moved == MayMove(chain, id, below, name)
           new == IF moved THEN Placed(chain, id, below, name) ELSE chain
<1>1. r.cmd.op = "rename" /\ MayCreate(Own, parent, path) /\ log' = Logged(Own, new, TRUE)
  BY DEF SetRename, OwnNow, Chain
<1>2. LogOK
  BY DEF OwnNow
<1>3. path = ChainOf(r) /\ Target(r.cmd) = r.cmd.to /\ (IF r.cmd.op = "rename" THEN r.cmd.to ELSE r.cmd.name) = r.cmd.to
  BY <1>1 DEF ChainOf, Target
<1>4. OwnNow(r)
  OBVIOUS
<1>5. /\ ids = [k \in DOMAIN path |-> first + k - 1] /\ chain = ChainTree(Tree(Own), first, parent, path)
      /\ below = (IF path = <<>> THEN parent ELSE Last(ids)) /\ first = FreshId(Own) /\ parent = r.params.parent /\ above = r.params.above
      /\ path = Front(r.params.path) /\ name = Last(r.params.path) /\ old = Tree(Own)
      /\ moved = MayMove(chain, id, below, name)
      /\ moved => new = Placed(chain, id, below, name)
      /\ ~moved => new = chain
  OBVIOUS
<1> HIDE DEF old, r, path, name, id, parent, above, first, ids, chain, below, moved, new
<1>6. /\ ChainNamed(chain, old, first, path, above, below) /\ IsTree(old) /\ path \in Names /\ above \in Names
      /\ r.cmd.to \in Names /\ r.cmd.to = above \o r.params.path /\ r.params.path \in Names /\ r.params.path # <<>>
  BY <1>1, <1>3, <1>4, <1>5, OwnChain, ZenonT(60)
<1>7. name \in NameParts /\ r.cmd.to = Append(above \o path, name)
  <2>1. name \in NameParts /\ r.params.path = Append(path, name)
    BY <1>5, <1>6, FrontLast
  <2> QED
    BY <1>6, <2>1, JoinedAppend
<1>8. IsTree(chain)
  BY <1>6 DEF ChainNamed
<1>9. Acts(old, new, r) /\ IsTree(new)
  <2>1. CASE MayMove(chain, id, below, name)
    <3>1. Acts(old, Placed(chain, id, below, name), r)
      BY <1>1, <1>6, <1>7, <2>1, MoveActs
    <3>2. IsTree(Placed(chain, id, below, name))
      BY <1>7, <1>8, <2>1, MovedIsTree
    <3> QED
      BY <1>5, <2>1, <3>1, <3>2
  <2>2. CASE ~MayMove(chain, id, below, name)
    <3> DEFINE base == above \o path
    <3>1. base \in Names /\ r.cmd.to = Append(base, name)
      BY <1>6, <1>7, Joined
    <3> HIDE DEF base
    <3>2. IsPrefix(base, r.cmd.to)
      BY <1>7, <3>1, RenamedSelf, PrefixOfAppend
    <3>3. Acts(old, chain, r)
      BY <1>3, <1>6, <3>2, ChainActs DEF base
    <3> QED
      BY <1>5, <1>8, <2>2, <3>3
  <2> QED
    BY <2>1, <2>2
<1> QED
  BY <1>1, <1>2, <1>9, LastLogged DEF old, r

\* Only the requests of a command change an account while it is at them.
LEMMA OnlyRequests ==
  ASSUME OneCommand, NEW t \in Tasks, task[t].pc = "set", task'[t] # task[t], log' # log, ListNext
  PROVE  SetCreate(t) \/ SetRename(t) \/ SetDelete(t) \/ SetSubscribe(t)
<1>1. \A s \in Tasks : s = t
  BY DEF OneCommand
<1>2. ~\E a \in Accounts : OtherClient(a)
  BY DEF OtherClient
<1>3. ~Share
  BY DEF Share
<1>4. ~\E c \in Requests : Begin(t, c)
  BY DEF Begin
<1>5. ~\E ok \in BOOLEAN : RefreshSession(t, ok) \/ AskChanges(t, ok)
  BY DEF RefreshSession, AskChanges
<1>6. ~\E a \in Accounts, ok \in BOOLEAN : FetchAccount(t, a, ok)
  BY DEF FetchAccount
<1>7. ~(NoRefresh(t) \/ Changed(t) \/ Synchronized(t) \/ List(t) \/ Validate(t))
  BY DEF NoRefresh, Changed, Synchronized, List, Validate
<1>8. ~SetFails(t)
  BY DEF SetFails, server
<1>9. ~(UpdateCreate(t) \/ UpdateRename(t) \/ UpdateDelete(t) \/ UpdateSubscribe(t))
  BY DEF UpdateCreate, UpdateRename, UpdateDelete, UpdateSubscribe
<1> QED
  BY <1>1, <1>2, <1>3, <1>4, <1>5, <1>6, <1>7, <1>8, <1>9 DEF ListNext

\* CREATE, DELETE, RENAME and SUBSCRIBE change the mailbox of the user's own account that
\* the client named, if the session has the list as it was and no other client changes it.
THEOREM OwnMailboxNamedAlways == ASSUME OneCommand PROVE MCSpec => OwnMailboxNamed
<1> DEFINE A == \A t \in Tasks :
                  task[t].pc = "set" /\ task[t].params.account = Own /\ task'[t] # task[t] /\ log'[Own] # log[Own]
                  /\ Own \notin Stale(t) /\ (\A k \in task[t].start[Own] + 1 .. State(Own) : ~log[Own][k].list)
                  => ActsOn(Own, task[t])
<1>1. ListInv /\ [MCNext]_MCvars => [A]_listVars
  <2> SUFFICES ASSUME ListInv, [MCNext]_MCvars, listVars' # listVars, NEW t \in Tasks, task[t].pc = "set",
                      task[t].params.account = Own, task'[t] # task[t], log'[Own] # log[Own], Own \notin Stale(t),
                      \A k \in task[t].start[Own] + 1 .. State(Own) : ~log[Own][k].list
               PROVE  ActsOn(Own, task[t])
    OBVIOUS
  <2>1. ListNext
    BY DEF MCNext, MCvars
  <2>2. log' # log
    OBVIOUS
  <2>3. OwnNow(task[t])
    <3> DEFINE r == task[t]
    <3>1. Own \notin lost \cup r.failed
      BY DEF Stale
    <3>2. r = task[t] /\ r.pc = "set" /\ r.params.account = Own /\ \A k \in r.start[Own] + 1 .. State(Own) : ~log[Own][k].list
      OBVIOUS
    <3> HIDE DEF r
    <3>3. /\ Match(Own, mailboxes[Own], Tree(Own)) /\ ListOK(Own, mailboxes[Own], log[Own]) /\ ParamsOK(r, mailboxes)
          /\ r.cmd \in Requests
      BY <3>1, <3>2, NamedNow
    <3>4. LogOK
      BY DEF ListInv
    <3> QED
      BY <3>2, <3>3, <3>4 DEF OwnNow
  <2>4. SetCreate(t) \/ SetRename(t) \/ SetDelete(t) \/ SetSubscribe(t)
    BY <2>1, <2>2, OnlyRequests
  <2> QED
    BY <2>2, <2>3, <2>4, SetCreateActs, SetRenameActs, SetDeleteActs, SetSubscribeActs
<1>2. MCSpec => [][A]_listVars
  <2> HIDE DEF A
  <2> QED
    BY <1>1, ListSession, PTL DEF MCSpec
<1> QED
  BY <1>2 DEF OwnMailboxNamed

-----------------------------------------------------------------------------
(* The types of the session.                                                  *)

\* The invariant of STATUS is one of the session.
LEMMA StatusSession == MCSpec => []StatusInv
<1>1. MCInit => StatusInv
  BY StatusInitInv DEF MCInit
<1>2. StatusInv /\ [MCNext]_MCvars => StatusInv'
  <2> SUFFICES ASSUME StatusInv, [MCNext]_MCvars PROVE StatusInv'
    OBVIOUS
  <2>1. [StatusNext]_statusVars
    BY DEF MCNext, MCvars
  <2> QED
    BY <2>1, StatusStep
<1> QED
  BY <1>1, <1>2, PTL DEF MCSpec

\* The lists and the counters of the session have their types, and LIST has the data of
\* every name that it unwraps.
THEOREM MailboxTypesAlways == ASSUME OneCommand PROVE MCSpec => []TypesOK
<1>1. StatusInv => StatusTypeOK
  BY DEF StatusInv, StatusTyped, StatusTypeOK, AskerOk, Proper
<1>2. ListInv /\ StatusInv => TypesOK
  BY <1>1, ListTyped DEF TypesOK
<1> QED
  BY <1>2, ListSession, StatusSession, PTL
=============================================================================
