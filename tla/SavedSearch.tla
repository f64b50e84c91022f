---------------------------- MODULE SavedSearch ----------------------------
(***************************************************************************)
(* The search result a session saves (SEARCH RETURN (SAVE), `$') while the  *)
(* search is in flight: the watch channel its users wait on, and what a     *)
(* search that fails leaves (src/commands/search.rs).                       *)
(*                                                                         *)
(* The client's commands are numbered; the session's loop takes them in     *)
(* order and hands each to a task.  The result of search k is k.            *)
(***************************************************************************)
EXTENDS Integers

CONSTANTS
  SavedKinds,  \* the kinds of commands a client sends
  MaxSaved     \* bound: commands

Savings == {"save", "saveUses", "saveMixes"}
ASSUME SavedSearchAssumption ==
  SavedKinds \subseteq Savings \cup {"use", "expunge"} /\ MaxSaved \in Nat

Cmds    == 1 .. MaxSaved
NoneYet == 0    \* SavedSearch::None
EmptyList   == -1   \* the value a channel has before anything is sent

VARIABLES
  kind,     \* what each command is, "" before it is sent
  at,       \* where it is
  saved,    \* SelectedMailbox::saved_search
  chan,     \* the channel of each search: "open", "sent" or "closed"
  prev,     \* prev_saved_search of each search
  waits,    \* the search whose channel each command waits on
  dollar,   \* history: what `$' was to each command
  failed,   \* history: the searches that failed
  undone    \* history: a failing search has overwritten what a later command left

savedVars == <<kind, at, saved, chan, prev, waits, dollar, failed, undone>>

InFlight(k) == [tag |-> "flight", by |-> k]
Results(k)  == [tag |-> "results", by |-> k]
Nothing     == [tag |-> "none", by |-> NoneYet]
Unknown     == -2

SavedInit ==
  /\ kind = [k \in Cmds |-> ""] /\ at = [k \in Cmds |-> "client"]
  /\ saved = Nothing /\ chan = [k \in Cmds |-> "open"]
  /\ prev = [k \in Cmds |-> Unknown] /\ waits = [k \in Cmds |-> NoneYet] /\ dollar = [k \in Cmds |-> Unknown]
  /\ failed = {} /\ undone = FALSE

At(k, place) == at' = [at EXCEPT ![k] = place]

\* The loop takes a command when it is done with those before; a SAVE keeps it until
\* the result of before is known.
LoopFree == \A k \in Cmds : at[k] \notin {"loop", "install"}

Take(k, x) ==
  /\ at[k] = "client" /\ LoopFree /\ \A j \in 1 .. k - 1 : at[j] # "client"
  /\ kind' = [kind EXCEPT ![k] = x]
  /\ At(k, IF x \in Savings \cup {"expunge"} THEN "loop" ELSE "resolve")
  /\ UNCHANGED <<saved, chan, prev, waits, dollar, failed, undone>>

\* Session::handle_expunge forgets the result, in the loop.
ExpungeForgets(k) ==
  /\ at[k] = "loop" /\ kind[k] = "expunge"
  /\ saved' = Nothing /\ At(k, "end")
  /\ UNCHANGED <<kind, chan, prev, waits, dollar, failed, undone>>

\* Mutant: a search with SAVE waits for its own result.
DollarFrom_Own(k) == "saved"

\* Where `$' is found: the loop, before it starts a search with SAVE, asks for the saved
\* result; the task of such a search that is about `$' alone takes what the loop found,
\* one that names it among others asks again.
DollarFrom(k) == IF at[k] = "loop" THEN "saved"
                 ELSE IF kind[k] = "save" THEN "none"
                 ELSE IF kind[k] = "saveUses" THEN "prev"
                 ELSE "saved"

\* get_saved_search: what there is is taken at once, and a search in flight is waited
\* for on its channel, whatever is saved meanwhile.
Look(k) ==
  /\ at[k] \in {"loop", "resolve"} /\ kind[k] # "expunge" /\ waits[k] = NoneYet /\ DollarFrom(k) = "saved"
  /\ saved.tag = "flight"
  /\ waits' = [waits EXCEPT ![k] = saved.by]
  /\ UNCHANGED <<kind, at, saved, chan, prev, dollar, failed, undone>>

Known(k) == IF waits[k] = NoneYet THEN saved.tag # "flight" ELSE chan[waits[k]] # "open"

\* A channel that is closed holds the empty list it was created with.
Got(k) == IF waits[k] = NoneYet THEN saved.by
          ELSE IF chan[waits[k]] = "sent" THEN waits[k] ELSE EmptyList

\* The loop waits for the result of before,
GetPrev(k) ==
  /\ at[k] = "loop" /\ kind[k] \in Savings
  /\ Known(k)
  /\ prev' = [prev EXCEPT ![k] = Got(k)]
  /\ waits' = [waits EXCEPT ![k] = NoneYet]
  /\ At(k, "install")
  /\ UNCHANGED <<kind, saved, chan, dollar, failed, undone>>

\* puts the search in flight and starts its task.
Install(k) ==
  /\ at[k] = "install"
  /\ saved' = InFlight(k) /\ At(k, "resolve")
  /\ UNCHANGED <<kind, chan, prev, waits, dollar, failed, undone>>

GetDollar(k) ==
  LET src == DollarFrom(k) IN
  /\ at[k] = "resolve"
  /\ src = "saved" => Known(k)
  /\ dollar' = [dollar EXCEPT ![k] = CASE src = "none" -> Unknown
                                       [] src = "prev" -> prev[k]
                                       [] OTHER        -> Got(k)]
  /\ IF dollar'[k] = NoneYet /\ kind[k] \in Savings
     THEN At(k, "restore") /\ chan' = [chan EXCEPT ![k] = "closed"] /\ failed' = failed \cup {k}
     ELSE At(k, IF kind[k] = "use" THEN "end" ELSE "query") /\ UNCHANGED <<chan, failed>>
  /\ UNCHANGED <<kind, saved, prev, waits, undone>>

\* The search succeeds: the result is stored,
Save(k) ==
  /\ at[k] = "query"
  /\ saved' = Results(k) /\ At(k, "send")
  /\ UNCHANGED <<kind, chan, prev, waits, dollar, failed, undone>>

\* and sent to those who wait.
Send(k) ==
  /\ at[k] = "send"
  /\ chan' = [chan EXCEPT ![k] = "sent"]
  /\ At(k, "end")
  /\ UNCHANGED <<kind, saved, prev, waits, dollar, failed, undone>>

\* It fails: the sender is dropped when search returns,
SearchFails(k) ==
  /\ at[k] = "query"
  /\ chan' = [chan EXCEPT ![k] = "closed"]
  /\ failed' = failed \cup {k}
  /\ At(k, "restore")
  /\ UNCHANGED <<kind, saved, prev, waits, dollar, undone>>

\* Mutant: the previous result is forgotten.
Restored_Nothing(k) == Nothing

Restored(k) == IF prev[k] = NoneYet THEN Nothing ELSE Results(prev[k])

\* and then the previous result is put back, whatever is there now.
Restore(k) ==
  /\ at[k] = "restore"
  /\ saved' = Restored(k)
  /\ undone' = (undone \/ saved # InFlight(k))
  /\ At(k, "end")
  /\ UNCHANGED <<kind, chan, prev, waits, dollar, failed>>

TaskSteps(k) == (at[k] = "resolve" /\ Look(k)) \/ GetDollar(k) \/ Save(k) \/ Send(k) \/ SearchFails(k) \/ Restore(k)
LoopSteps(k) == ExpungeForgets(k) \/ (at[k] = "loop" /\ Look(k)) \/ GetPrev(k) \/ Install(k)

SavedNext == \E k \in Cmds : (\E x \in SavedKinds : Take(k, x)) \/ LoopSteps(k) \/ TaskSteps(k)

\* The runtime polls every task that can go on.
SavedFairness == \A k \in Cmds : WF_savedVars(LoopSteps(k)) /\ WF_savedVars(TaskSteps(k))

-----------------------------------------------------------------------------
(* Properties. *)

\* Only searches that save have a channel, a previous result and a failure.
SavedTypeOK ==
  /\ saved.by \in Cmds \cup {NoneYet, EmptyList}
  /\ \A k \in Cmds : /\ prev[k] \in Cmds \cup {NoneYet, EmptyList, Unknown} /\ prev[k] < k
                     /\ dollar[k] \in Cmds \cup {NoneYet, EmptyList, Unknown} /\ dollar[k] # k
  /\ failed \subseteq {k \in Cmds : kind[k] \in Savings}
  /\ saved.tag = "flight" => saved.by \in Cmds /\ kind[saved.by] \in Savings

\* `$' is never an older result than that of the last search before it that saved one:
\* every search with SAVE in between has failed, and `$' is the empty list only when some
\* search before has.  Except after EXPUNGE, or when a failing search has put its
\* previous result over a newer one.
NeverOlder ==
  \A k \in Cmds : dollar[k] # Unknown /\ ~undone /\ (\A j \in Cmds : kind[j] # "expunge") =>
    IF dollar[k] = EmptyList THEN \E j \in failed : j # k
    ELSE \A j \in Cmds : dollar[k] < j /\ j < k /\ kind[j] \in Savings => j \in failed

\* Everyone gets through: the loop and the tasks that wait for a search in flight go on
\* when it succeeds and when it fails, and no search waits for itself, unless it names
\* `$' among other numbers.
SavedUsersEnd ==
  \A k \in Cmds : at[k] \notin {"client", "end"} ~> (at[k] = "end" \/ \E j \in Cmds : kind[j] = "saveMixes")
=============================================================================
