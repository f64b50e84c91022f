----------------------------- MODULE CondStore -----------------------------
(***************************************************************************)
(* STORE (src/commands/store.rs): the messages a sequence set names, the    *)
(* UNCHANGEDSINCE check against Email/changes, the update in several        *)
(* Email/set calls, and the answer.                                         *)
(*                                                                         *)
(* A message is its UID.  A MODSEQ is the JMAP state it stands for: ModSeq  *)
(* is where the two are translated.  What the update does to the keywords   *)
(* is left out: it is a change of the message.                              *)
(***************************************************************************)
EXTENDS SequenceSet, FiniteSetsExt

CONSTANTS
  Stored,           \* UIDs of the messages there are at the start
  Later,            \* UIDs of messages that may come
  StoreRequests,    \* what the client may ask: a sequence set, a MODSEQ or NoModseq
  MaxObjectsInSet,  \* messages in one Email/set call
  MaxElsewhere      \* bound: changes by others

NoModseq == -1
Never    == -1   \* the state in which something happened that has not

ASSUME StoreAssumption ==
  /\ Stored \cup Later \subseteq Nat \ {0} /\ IsFiniteSet(Stored) /\ IsFiniteSet(Later)
  /\ \A r \in StoreRequests : /\ IsSequence(r.seq) /\ r.since \in Nat \cup {NoModseq}
                              /\ r.isUid \in BOOLEAN /\ r.silent \in BOOLEAN
  /\ MaxObjectsInSet \in Nat \ {0} /\ MaxElsewhere \in Nat

VARIABLES
  mail,       \* server: when each message was created, changed last and destroyed
  jstate,     \* server: the state of the account
  elsewhere,  \* changes by others
  listed,     \* the session's imap_uids, which are in ascending order
  store       \* the command

storeVars == <<mail, jstate, elsewhere, listed, store>>

Mails == Stored \cup Later
Alive == {u \in Mails : mail[u].born # Never /\ mail[u].gone = Never}

\* The command's locals; of the history, the messages it resolved (all), the state the
\* check saw, and the state each update overwrote and made.
StoreInit ==
  /\ jstate = 0 /\ elsewhere = 0
  /\ mail = [u \in Mails |-> [born |-> IF u \in Stored THEN 0 ELSE Never,
                              changed |-> IF u \in Stored THEN 0 ELSE Never, gone |-> Never]]
  /\ listed = Stored
  /\ \E r \in StoreRequests :
       store = [pc |-> "resolve", arg |-> r, all |-> <<>>, left |-> {}, modified |-> {},
                vanished |-> FALSE, updated |-> {}, emails |-> {}, newState |-> Never,
                reply |-> "", modseqOf |-> <<>>, checked |-> Never, over |-> <<>>]

-----------------------------------------------------------------------------
(* Other clients, and other commands of the session, while the command looks. *)

Touch(u, now) ==
  /\ elsewhere < MaxElsewhere /\ store.pc \notin {"answer", "end"}
  /\ elsewhere' = elsewhere + 1 /\ jstate' = jstate + 1
  /\ mail' = [mail EXCEPT ![u] = now]
  /\ UNCHANGED <<listed, store>>

Change(u)  == u \in Alive /\ Touch(u, [mail[u] EXCEPT !.changed = jstate + 1])
Destroy(u) == u \in Alive /\ Touch(u, [mail[u] EXCEPT !.gone = jstate + 1])
Arrive(u)  == /\ mail[u].born = Never
              /\ Touch(u, [born |-> jstate + 1, changed |-> jstate + 1, gone |-> Never])

\* Another task of the session brings the list up to date.
Refresh ==
  /\ store.pc \in {"resolve", "check"} /\ listed # Alive
  /\ listed' = Alive
  /\ UNCHANGED <<mail, jstate, elsewhere, store>>

-----------------------------------------------------------------------------
(* The command. *)

\* The messages to update: those of the command that the check has left.
Targets == {u \in DOMAIN store.all : store.all[u] \notin store.modified}

End(s, reply) == store' = [s EXCEPT !.pc = "end", !.reply = reply]

NumberOf(u) == IF store.arg.isUid THEN u ELSE Cardinality({v \in listed : v <= u})
MaxOf == IF ~store.arg.isUid THEN Cardinality(listed) ELSE IF listed = {} THEN 0 ELSE Max(listed)

\* sequence_to_jmap: the number by which each message is named, with its message.
Resolve ==
  LET found == {u \in listed : SetContains(store.arg.seq, NumberOf(u), MaxOf)}
      s     == [store EXCEPT !.all = [u \in found |-> NumberOf(u)], !.left = found]
  IN
  /\ store.pc = "resolve"
  /\ IF found = {} THEN End(s, "OK")
     ELSE store' = [s EXCEPT !.pc = IF s.arg.since = NoModseq THEN "set" ELSE "check"]
  /\ UNCHANGED <<mail, jstate, elsewhere, listed>>

\* Email/changes: a message that came and went in between is not in it.
Changes(since) ==
  [created   |-> {u \in Alive : mail[u].born > since},
   updated   |-> {u \in Alive : mail[u].born <= since /\ mail[u].changed > since},
   destroyed |-> {u \in Mails : mail[u].born <= since /\ mail[u].gone > since}]

\* Mutant: messages that came since count as unchanged.
Modified_NotCreated(c) == c.updated \cup c.destroyed

Modified(c) == c.updated \cup c.created \cup c.destroyed

Unchanged(modified) == store.left \ modified

\* The check takes the modified messages out, and reports with them the numbers that name
\* no message.
CheckUnchanged ==
  LET changes  == Changes(store.arg.since)
      modified == store.left \cap Modified(changes)
      unnamed  == Expand(store.arg.seq, MaxOf) \ Range(store.all)
      s == [store EXCEPT !.left = Unchanged(modified),
                         !.modified = {store.all[u] : u \in modified} \cup unnamed,
                         !.vanished = unnamed # {} \/ store.left \cap changes.destroyed # {},
                         !.checked = jstate]
  IN
  /\ store.pc = "check" /\ store.arg.since <= jstate
  /\ IF s.left = {} THEN End(s, IF s.vanished THEN "NO" ELSE "OK")
     ELSE store' = [s EXCEPT !.pc = "set"]
  /\ UNCHANGED <<mail, jstate, elsewhere, listed>>

\* The MODSEQ is unknown, or the database or a JMAP call fails.
StoreFails ==
  /\ store.pc \in {"check", "set", "get"}
  /\ End(store, "NO")
  /\ UNCHANGED <<mail, jstate, elsewhere, listed>>

\* The state the answer goes by is that of the last call.
NewState(now) == now

\* One Email/set call: the server refuses some messages, and those that are gone.
SetCall(chunk, refused) ==
  LET done == (chunk \ refused) \cap Alive
      now  == IF done = {} THEN jstate ELSE jstate + 1
  IN
  /\ store.pc = "set"
  /\ chunk \subseteq store.left /\ refused \subseteq chunk
  /\ Cardinality(chunk) = Min({MaxObjectsInSet, Cardinality(store.left)})
  /\ jstate' = now
  /\ mail' = [u \in Mails |-> IF u \in done THEN [mail[u] EXCEPT !.changed = now] ELSE mail[u]]
  /\ store' = [store EXCEPT !.left = @ \ chunk, !.updated = @ \cup done, !.newState = NewState(now),
                            !.over = [u \in DOMAIN @ \cup done |->
                                        IF u \in done THEN [was |-> mail[u].changed, now |-> now] ELSE @[u]],
                            !.pc = IF store.left # chunk THEN "set" ELSE IF store.arg.silent THEN "answer" ELSE "get"]
  /\ UNCHANGED <<elsewhere, listed>>

\* Email/get, in the same request.
GetCall ==
  /\ store.pc = "get"
  /\ store' = [store EXCEPT !.emails = Alive \cap Targets, !.pc = "answer"]
  /\ UNCHANGED <<mail, jstate, elsewhere, listed>>

AllUpdated == Cardinality(Targets) = Cardinality(store.updated)

\* MailboxData.last_state becomes newState.  With CONDSTORE, if the database gives the
\* MODSEQ, the answer has it for the messages whose flags it lists, or when it lists none
\* for all that were updated.
StoreAnswers(known) ==
  LET told == IF ~known THEN {} ELSE IF store.emails # {} THEN store.emails \cap store.updated ELSE store.updated IN
  /\ store.pc = "answer"
  /\ End([store EXCEPT !.modseqOf = [u \in told |-> store.newState]],
         IF store.vanished \/ ~AllUpdated THEN "NO" ELSE "OK")
  /\ UNCHANGED <<mail, jstate, elsewhere, listed>>

StoreNext ==
  \/ \E u \in Mails : Change(u) \/ Destroy(u) \/ Arrive(u)
  \/ Refresh \/ Resolve \/ CheckUnchanged \/ StoreFails \/ GetCall
  \/ \E chunk \in SUBSET store.left : \E refused \in SUBSET chunk : SetCall(chunk, refused)
  \/ \E known \in BOOLEAN : StoreAnswers(known)

-----------------------------------------------------------------------------
(* Properties. *)

StoreTypeOK ==
  /\ jstate \in 0 .. MaxElsewhere + Cardinality(Mails) /\ listed \subseteq Mails
  /\ store.pc \in {"resolve", "check", "set", "get", "answer", "end"}
  /\ store.left \subseteq Targets /\ store.updated \subseteq Targets /\ store.left \cap store.updated = {}
  /\ store.modified \subseteq Nat
  /\ store.reply \in {"", "OK", "NO"} /\ (store.reply = "" <=> store.pc # "end")

\* UNCHANGEDSINCE: a message that had been changed or had come after the given MODSEQ is
\* not updated, unless that happened after the check.
ChangeSpared ==
  store.arg.since # NoModseq =>
    \A u \in store.updated : store.over[u].was <= store.arg.since \/ store.over[u].was > store.checked

\* An OK accounts for every message of the command: it has been updated, or its number
\* is in MODIFIED.  Messages that vanish, are refused or come and go while the command
\* runs do not get lost.
StoreAccounted ==
  store.reply = "OK" =>
    \A u \in DOMAIN store.all : u \in store.updated \/ store.all[u] \in store.modified

\* The MODSEQ reported for a message covers the command's own update of it: asked for
\* changes since that MODSEQ, the server does not name it again on that account.
ModseqCovers == \A u \in DOMAIN store.modseqOf : store.over[u].now <= store.modseqOf[u]

\* All three: what STORE tells the client of its updates, of those it left out and of
\* the MODSEQ is so (store).
StoreKeepsItsWord == ChangeSpared /\ StoreAccounted /\ ModseqCovers
=============================================================================
