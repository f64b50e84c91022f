--------------------------- MODULE MailboxStatus ---------------------------
(***************************************************************************)
(* STATUS (src/commands/status.rs): the counters of a mailbox that the      *)
(* session keeps, how they are filled one request after another, and how    *)
(* synchronize_mailboxes and CREATE treat them.                             *)
(*                                                                         *)
(* A counter is represented by the moment it was computed: the number of    *)
(* changes the server had seen.  The server's Mailbox state counts the      *)
(* changes that Mailbox/changes knows of; a keyword other than $seen is not *)
(* one of them.                                                             *)
(***************************************************************************)
EXTENDS Integers, FiniteSets, Sequences

CONSTANTS
  Askers,       \* tasks that answer STATUS commands
  AskedItems,   \* the sets of items a client may ask for
  MaxEvents,    \* bound: changes on the server
  MaxAsked      \* bound: commands

\* The items of one JMAP request each; "validity" never changes.
Synced  == {"messages", "uidnext", "validity"}
Queried == {"unseen", "deleted"}
Items   == Synced \cup Queried \cup {"size", "modseq"}

ASSUME StatusAssumption == AskedItems \subseteq SUBSET Items

VARIABLES
  events,   \* server: the kinds of the changes so far
  cache,    \* Mailbox of mailbox_data, and Account::modseq
  seen,     \* Account::mailbox_state, as a number of events
  asker,
  passed,   \* history: why a cached counter may be old
  asked

statusVars == <<events, cache, seen, asker, passed, asked>>

None == -1
Now  == Len(events)
Waiting == [pc |-> "idle"]

\* fetch_account_mailboxes at login.
StatusInit ==
  /\ events = <<>> /\ seen = 0 /\ passed = {} /\ asked = 0
  /\ cache = [i \in Items |-> IF i \in {"messages", "unseen"} THEN 0 ELSE None]
  /\ asker = [t \in Askers |-> Waiting]

\* A message comes or goes or is read; a keyword is set; a mailbox is created.
Affected(kind) ==
  CASE kind = "counts"  -> Items \ {"validity"}
    [] kind = "keyword" -> {"deleted", "modseq"}
    [] kind = "list"    -> {}

Event(kind) ==
  /\ Now < MaxEvents
  /\ events' = Append(events, kind)
  /\ UNCHANGED <<cache, seen, asker, passed, asked>>

\* What Mailbox/changes tells since the state the session has.
News == {events[k] : k \in seen + 1 .. Now} \ {"keyword"}

Ask(t, items) ==
  /\ asker[t].pc = "idle" /\ asked < MaxAsked
  /\ asked' = asked + 1
  /\ asker' = [asker EXCEPT ![t] = [pc |-> "sync", start |-> Now, items |-> items,
                                    todo |-> {}, answer |-> {}, value |-> None]]
  /\ UNCHANGED <<events, cache, seen, passed>>

\* A failing request: the command is answered NO, what was stored stays.
StatusFails(t) ==
  /\ asker[t].pc \notin {"idle", "done"}
  /\ asker' = [asker EXCEPT ![t] = Waiting]
  /\ UNCHANGED <<events, cache, seen, passed, asked>>

-----------------------------------------------------------------------------
(* synchronize_mailboxes, as far as the counters are concerned.              *)

\* Mutant: UIDNEXT is kept.
Reset_KeepsUidNext == [i \in Items |-> IF i \in {"validity", "uidnext"} THEN cache[i] ELSE None]

\* reset_stats
Reset == [i \in Items |-> IF i = "validity" THEN cache[i] ELSE None]

\* A Mailbox fetched again: two counters come with it.
Refetched == [i \in Items |-> IF i \in {"messages", "unseen"} THEN Now ELSE None]

\* Only counts have changed.
ResetStats(t) ==
  /\ asker[t].pc = "sync" /\ News = {"counts"}
  /\ seen' = Now /\ cache' = Reset /\ passed' = {}
  /\ asker' = [asker EXCEPT ![t].pc = "look"]
  /\ UNCHANGED <<events, asked>>

\* More has changed: the account is fetched again, or cannot be.
Refetch(t, ok) ==
  /\ asker[t].pc = "sync" /\ "list" \in News
  /\ IF ok THEN seen' = Now /\ cache' = Refetched /\ passed' = {}
           ELSE UNCHANGED <<seen, cache, passed>>
  /\ asker' = [asker EXCEPT ![t].pc = "look", ![t].start = IF ok THEN @ ELSE None]
  /\ UNCHANGED <<events, asked>>

NoNews(t) ==
  /\ asker[t].pc = "sync" /\ News = {}
  /\ asker' = [asker EXCEPT ![t].pc = "look"]
  /\ UNCHANGED <<events, cache, seen, passed, asked>>

\* CREATE or RENAME by the session takes the new state as it is.
CreateTakesState ==
  /\ Now < MaxEvents
  /\ events' = Append(events, "list")
  /\ seen' = Now + 1
  /\ passed' = passed \cup News
  /\ UNCHANGED <<cache, asker, asked>>

-----------------------------------------------------------------------------
(* SessionData::status: what is cached is answered at once, the rest computed *)
(* and stored in one request after another.                                   *)

Look(t) ==
  LET r == asker[t]
      have == {i \in r.items : cache[i] # None}
  IN /\ r.pc = "look"
     /\ asker' = [asker EXCEPT ![t].pc = "ask", ![t].todo = r.items \ have,
                               ![t].start = IF passed = {} THEN @ ELSE None,
                               ![t].answer = {<<i, cache[i]>> : i \in have}]
     /\ UNCHANGED <<events, cache, seen, passed, asked>>

\* The items of the next request, in the order of the code.
Batch(todo) ==
  IF todo \cap Synced # {} THEN Synced
  ELSE IF todo \cap Queried # {} THEN todo \cap Queried
  ELSE IF "size" \in todo THEN {"size"} ELSE {"modseq"}

\* The server computes them,
Compute(t) ==
  /\ asker[t].pc = "ask" /\ asker[t].todo # {}
  /\ asker' = [asker EXCEPT ![t].pc = "store", ![t].value = Now]
  /\ UNCHANGED <<events, cache, seen, passed, asked>>

\* and the session stores them and answers those it was asked for; the number of
\* deleted messages goes out under the name of the unseen ones.
Label(i) == IF i = "deleted" THEN "unseen" ELSE i

Store(t) ==
  LET r == asker[t]
      b == Batch(r.todo)
  IN /\ r.pc = "store"
     /\ cache' = [i \in Items |-> IF i \in b THEN r.value ELSE cache[i]]
     /\ asker' = [asker EXCEPT ![t].pc = "ask", ![t].todo = @ \ b,
                               ![t].answer = @ \cup {<<Label(i), r.value>> : i \in b \cap r.todo}]
     /\ passed' = IF r.value < seen THEN passed \cup {"late"} ELSE passed
     /\ UNCHANGED <<events, seen, asked>>

Answer(t) ==
  /\ asker[t].pc = "ask" /\ asker[t].todo = {}
  /\ asker' = [asker EXCEPT ![t].pc = "done"]
  /\ UNCHANGED <<events, cache, seen, passed, asked>>

Answered(t) ==
  /\ asker[t].pc = "done"
  /\ asker' = [asker EXCEPT ![t] = Waiting]
  /\ UNCHANGED <<events, cache, seen, passed, asked>>

StatusNext ==
  \/ \E kind \in {"counts", "keyword", "list"} : Event(kind)
  \/ CreateTakesState
  \/ \E t \in Askers :
       \/ \E items \in AskedItems : Ask(t, items)
       \/ ResetStats(t) \/ NoNews(t) \/ \E ok \in BOOLEAN : Refetch(t, ok)
       \/ Look(t) \/ Compute(t) \/ Store(t) \/ Answer(t) \/ Answered(t) \/ StatusFails(t)

-----------------------------------------------------------------------------
(* Properties. *)

\* Every counter was computed at a moment that has been.
StatusTypeOK ==
  /\ seen \in 0 .. Now /\ passed \subseteq {"counts", "list", "late"}
  /\ cache \in [Items -> None .. Now]
  /\ \A t \in Askers : asker[t].pc # "idle" => asker[t].todo \subseteq asker[t].items

\* The items whose counters follow the changes of the mailbox.
Followed == {"messages", "unseen", "uidnext", "size"}

\* When STATUS ends, each of these counters is one the mailbox had at a moment since
\* the command began: every change before that is in it.  Not so when it met counters
\* that are old because CREATE took a state that other clients' changes had led to,
\* because another STATUS stored what it had computed before the counters were reset,
\* or because the account could not be fetched.
StatusFresh ==
  \A t \in Askers : asker[t].pc = "done" /\ asker[t].start # None =>
    \A x \in asker[t].answer : x[1] \in Followed =>
      \A k \in x[2] + 1 .. asker[t].start : x[1] \notin Affected(events[k])

\* STATUS answers each item that was asked for, once, and no other; \Deleted messages
\* aside.
StatusComplete ==
  \A t \in Askers : asker[t].pc = "done" /\ "deleted" \notin asker[t].items =>
    /\ {x[1] : x \in asker[t].answer} = asker[t].items
    /\ Cardinality(asker[t].answer) = Cardinality(asker[t].items)

\* Both: what STATUS answers is what was asked, and as fresh as it should be.
StatusAnswers == StatusFresh /\ StatusComplete
=============================================================================
