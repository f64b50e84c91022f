# A TLA+ development for imap-to-jmap

imap-to-jmap is an IMAP4rev2 and ManageSieve server that keeps no mail: every
command becomes JMAP requests to a mail server behind it. What it does keep is
what IMAP has and JMAP has not: UIDs, sequence numbers, MODSEQ numbers, saved
searches, lists of mailboxes. Its difficulty is there. Any number of sessions
share one embedded database, commands of one session run as concurrent tasks,
the mailboxes change at any time on the JMAP server, and IMAP clients act on
numbers they were told earlier.

The modules here model those parts from the source; TLC checks them on small
instances and TLAPS proves most of the results for every instance. Paths below
are relative to `src/src/`.

## 1. The system

| Part (source) | State | Operations | Talks to |
|---|---|---|---|
| UID cache (`core/message.rs`, `impl Core`, `UidMap`) | sled keys per mailbox: JMAP id -> UID, UID -> JMAP id, deleted ids with a time, UIDNEXT, UIDVALIDITY | `update_uids`, `jmap_to_imap`, `delete_ids`, `delete_mailbox`, `purge_deleted_mailboxes`, `purge_deleted_ids`, `uids` | closures on a worker pool, for all sessions and the housekeeper, without locks |
| MODSEQ map (`core/mailbox.rs`, end) | sled keys per account: state -> modseq, modseq -> state, highest modseq | `state_to_modseq`, `modseq_to_state` | the same |
| Selected mailbox (`core/message.rs`, `impl SelectedMailbox`; `commands/`) | list of UIDs and JMAP ids, message count, last JMAP state, saved search | SELECT, CLOSE, UNSELECT, NOOP, CHECK, IDLE, EXPUNGE, FETCH, STORE, MOVE, APPEND, SEARCH | JMAP server, UID cache, client |
| QRESYNC (`commands/select.rs`, `commands/fetch.rs`) | locals of the command | changes and removals since a MODSEQ | JMAP server, UID cache, MODSEQ map |
| COPY and MOVE (`commands/copy_move.rs`) | locals, the source mailbox | one JMAP request, the UIDs of the copies, COPYUID | JMAP server, UID cache, selected mailbox |
| Conditional STORE (`commands/store.rs`) | locals | UNCHANGEDSINCE, Email/set in chunks, MODIFIED | JMAP server, MODSEQ map |
| Saved searches (`commands/search.rs`, `core/message.rs`) | a result, or a watch channel of a search in flight | SEARCH with SAVE, commands that name `$` | the session's loop and its tasks |
| Search filters, sequence sets (`parser/search.rs`, `commands/search.rs`, `parser/mod.rs`, `protocol/mod.rs`) | none | text -> keys -> JMAP filter; text -> numbers | |
| Receiver (`core/receiver.rs`) | tokenizer state, literal size | `parse` | session |
| IMAP session (`core/client.rs`, `core/connection.rs`, `commands/authenticate.rs` ...) | NotAuthenticated, Authenticated, Selected; failures; IDLE | `ingest`, `is_allowed`, LOGIN, AUTHENTICATE, ENABLE, STARTTLS, LOGOUT | receiver, writer, all commands |
| Writer, listener (`core/writer.rs`, `core/listener.rs`, `lib.rs`) | a stream, replaced at STARTTLS; shutdown | events `Bytes`, `Stream`, `StreamTls`, `Upgrade` | session |
| Mailbox list (`core/mailbox.rs`, `commands/{list,create,delete,rename,subscribe}.rs`) | names, ids, parents, counters, states per account | `fetch_mailboxes`, `synchronize_mailboxes` and the commands | JMAP server, UID cache |
| STATUS (`commands/status.rs`) | cached counters | STATUS, LIST RETURN (STATUS) | mailbox list, UID cache, MODSEQ map |
| ACL (`commands/acl.rs`, `protocol/acl.rs`) | the rights on the server | SETACL, DELETEACL, GETACL, LISTRIGHTS, MYRIGHTS | JMAP server |
| Housekeeper (`core/housekeeper.rs`) | next run | purges expired records | UID cache |
| ManageSieve (`managesieve/`) | session state | script commands | JMAP server |
| UTF-7, parsers, serializers, FETCH contents, THREAD, configuration | none | functions of their input | |

What is hard:

* *Interleaving.* No lock protects the keys of a mailbox. `update_uids` reads
  them one by one, applies a batch and inserts key by key while other tasks do
  the same. A session runs its commands as tasks that share its lists.
* *Stale reads.* The list given to `update_uids` was fetched page by page
  earlier; so was the list of mailboxes that a login purges by; `last_state`, the
  counters of STATUS and a saved search describe a past state.
* *Ordering.* A session changes its list under a lock and tells the client after
  the lock is released. A MODSEQ is numbered when it is first asked for, not
  when its state comes about. Requests of one read are checked before the first
  of them runs.
* *Partial failure.* An error ends a closure or a command where it is; nothing
  is undone, in the database or on the JMAP server.
* *Ends.* A connection may end at any point, with tasks that still hold its
  writer, and with commands that wait for each other.

## 2. Modules

| Module | Models |
|---|---|
| `UidCache` | the UID cache: every closure as a sequence of atomic database accesses, any number of tasks, failures at any access, the JMAP server's mailbox beside it |
| `UidLifecycle` | an abstract specification: what a UID may go through; `UidCache` implements it |
| `ModSeq` | the MODSEQ map and the requests that use it |
| `Resync` | SELECT with QRESYNC, for a client that comes back |
| `SelectedView` | the selected mailbox, the commands on it, and a client that reads EXPUNGE, VANISHED, EXISTS and FETCH |
| `CopyMove` | one COPY or MOVE against a server that refuses, fails and loses messages |
| `CondStore` | one STORE with or without UNCHANGEDSINCE, beside other clients |
| `SavedSearch` | the searches with SAVE of a session and the commands that wait for them |
| `SequenceSet`, `SearchFilter` | the parser of sequence sets and its two readings; the two stack machines of SEARCH; each against a meaning stated apart |
| `Receiver` | the tokenizer and a client that writes a line in any of the ways the syntax allows |
| `Writer` | the writer task and its channel; used by the two front ends |
| `ImapSession` | an IMAP connection from accept to the end of its last task |
| `ManageSieve` | a ManageSieve connection, the same way, and the scripts it shares with other clients |
| `Housekeeper` | the schedule of the purges |
| `MailboxList` | the lists of the mailboxes of a session's accounts and the commands on them |
| `ListPattern` | the pattern matcher of LIST against what patterns mean |
| `MailboxStatus` | the cached counters and STATUS |
| `Acl` | rights of IMAP and of JMAP, and the commands that change them |
| `Positions` | the part of a list at a set of positions, for `SelectedView` and the front ends |
| `UidCacheProofs`, `UidPromiseProofs` | theorems about `UidCache`: what a UID means; the life cycle, the answers, and operations one at a time |
| `ModSeqProofs` | theorems about `ModSeq`, `Resync` |
| `SelectedViewProofs`, `PositionsProofs` | theorems about `SelectedView`; the lemmas on `Positions` they rest on |
| `CommandProofs` | theorems about `SavedSearch`, `CondStore`, `CopyMove`, `Receiver`, `SequenceSet`, and the four in `MCCommands` together |
| `MailboxProofs` | theorems about `Acl`, `MailboxStatus`, `MailboxList`, and the types of `MCMailboxes` |
| `FrontEndProofs` | theorems about `Housekeeper`, `ImapSession`, `ManageSieve` and `MCFrontEnds` |
| `MC...` | the instances that TLC runs |

An `MC` module that extends several components starts one of them (`part`,
`port`) and leaves the others at their initial states: the components of such a
run do not share state in the program, or share it through a module that is
checked by itself.

**UidCache.** A task runs one operation. `Start` is the call, with what its
caller knows of the JMAP server (`Called`); then each action is one access to
sled, which makes a get, an insert, an `update_and_fetch` and an `apply_batch`
atomic. `Query` is one turn of the page loop of `synchronize_messages`; `Scan`
and `ScanEnd` the iterator of `update_uids`, which reads the keys as they are
when it passes them; `Apply` the batch; `Alloc`, `PutJmap` and `PutUid`
`insert_jmap_id`. `PutJmapFails` is there because `insert_jmap_id` makes both
inserts before it looks at either result. `Fail` ends a task at any access.
`owner`, `present` and `wiped` are history: the message a UID was generated for,
the messages that have been in the mailbox since a task started, whether the
keys of the mailbox were deleted as a whole. One mailbox is modelled, since
`serialize_key` keeps mailboxes apart. The scans of `delete_mailbox` and of the
purges are taken kind of key by kind of key.

**UidLifecycle.** A UID is free, then given, then shown (it names a message),
then gone; UIDs are given in order without gaps; none goes back. `Lifecycle`
in `UidCache` instantiates it: a UID above the counter is free, one in
UID_TO_JMAP is shown, one that a task holds is given. `KeepsLifecycle` is the
refinement.

**ModSeq.** A JMAP state is a number in the model, for the properties' sake; the
actions only use it as a key. A session obtains a state (`ReadState`,
`SetEmail`, `Since` and `Changes`) and then runs `state_to_modseq` access by
access (`Get`, `Increment`, `PutModseq`, `PutState`).

**Resync.** A client goes away with the UIDs and the MODSEQ it has. While it is
away and while it selects again, messages change, leave and come back. `fetch`
asks for the changes since the state, in chunks, and for the removed ids in the
records of the UID cache. `given` is the message each UID was generated for;
the order of new UIDs is that of the messages (`Position`). `blind`, `overwritten` and `unheard` are history: what
the code cannot report, see section 3.

**SelectedView.** A message is named by its UID, and `synchronize_messages` is one
step: its inside is `UidCache`. A command is a task that goes from label to
label; between labels it awaits the server, the worker pool or the client.
`Changes`, `List`, `Apply`, `Write`, `Advance`, `Get`, `Fetch` are
`write_changes`. `view` is what a client makes of the responses, `known` the
state in which it saw the flags of a message. A buffer of several EXPUNGEs is
read one at a time (`ReadExpunge`), since each renumbers the messages after it; two
buffers do not mix (`Reads`), as each is one event of the writer's channel. An answer that is lost after the
server made the change is a change by `Others` and a `Fail`. FETCH is modelled
with its flags and its setting of `\Seen`, not with its contents.

**CopyMove, CondStore.** The calls of a request are handled message by message in
any order, as the responses are hash maps. The lists of these modules are sets of
UIDs, as nothing depends on their order: the code sorts the two lists of COPYUID
apart, and a sequence number is a position in the sorted list. `Mapped` is `jmap_to_imap`, whose
steps are in `UidCache`. `CondStore` checks, sets chunk by chunk, reads the
flags back, and answers; messages change, vanish and come between its steps. Its
MODSEQ is the JMAP state.

**SavedSearch.** Commands arrive in order at the session's loop, which waits
itself when a search with SAVE names `$` while another is in flight; other
commands wait in their tasks. A search puts a channel in flight, sends its result through
it, and stores the result, or puts the previous one back when it fails.

**SequenceSet, SearchFilter.** The parsers are folds over the characters, or a
machine with an action per kind of token; the conversion of a SEARCH into a JMAP
filter is a second machine. `Asked` (what the keys mean for a message) is
written from RFC 9051, `Found` is what the server does with the filter; both are
functions of the path to a part of the filter (`Part`). Sizes
keep a width (`SizeWidth`), as `LARGER` adds one.

**Receiver.** A byte is one of the classes that the code tells apart. The client
writes a request argument by argument, as an atom, in quotes or in a literal,
waits for the continuation when it must, and may spoil a line.

**ImapSession, ManageSieve, Writer.** `Read` is one read with all the requests in
it, each checked against the state of that moment; `Handle...` takes the first
of those that remain. A command that the code spawns becomes a member of `tasks`,
which answers when it likes; consecutive CREATEs and DELETEs become one task.
`panicked` is the request that met an `unreachable!()`. Sending blocks while the
channel holds `Buffer` events. `Picked` (in `Positions`) gives the requests of a read
that are allowed. ManageSieve handles one request at a time, with a
look-up by name and then a request by id.

**MailboxList.** Each account has a log of its trees on the server; a session has
the names, the data and the state of each account. A command synchronizes
(session, changes, accounts one by one, any of which may fail), validates, sends
its Mailbox/set, and edits the lists by hand. `lost` is history: accounts that
have skipped a change. `ActsOn` says what a command may do to the server. A command
is one record from its beginning to its end, with empty fields where the code has no
value yet.

**MailboxStatus.** A counter is represented by the moment it was computed, so that
"fresh" is a comparison.

**Acl.** `IntoAcl` and `GetAcl` are the two tables of `protocol/acl.rs`; a
command is read and then sends one Mailbox/set, which sets or clears single
rights or replaces all, or fails. `meant` is what the clients of all sessions
asked for, right by right.

**Housekeeper.** Time is in hours from a Monday, and the calendar is a week.

Not in the models, on purpose: the text of responses, the size of UIDs and
MODSEQs (32 bits, growing by one), and in `UidCache` and `SelectedView` the
limits `max_objects_in_*`, since the calls of one request are separate steps
already.

## 3. Runs

| Run | Expected | What it checks |
|---|---|---|
| `uid_concurrent` | pass | Two tasks, two messages, synchronizing (which removes records) and adding at once, with failures anywhere, also of a single insert. `UidDesignatesOneMessage`, `UidNeverReused`, `AscendingUids`, `CompleteReply`, and the refinement `KeepsLifecycle`. |
| `uid_serial` | pass | All seven operations one after another, a mailbox's whole life, two clock ticks. `CleanupSparesPresentMessages`, `MapsAgree`, `WipedOnlyDestroyed`. |
| `uid_race` | violation | Two synchronizations at once break `CleanupSparesPresentMessages`: the one that queried first deletes the record of a message that the other has just recorded. The message gets a new UID. |
| `modseq` | pass | Two sessions without failures: `ModseqNamesOneState`, `ReportedResolves` (liveness). One session that may fail: `ModseqIncreases`. A client that comes back twice: `ResyncComplete`. |
| `view_serial` | pass | All commands one at a time, with and without QRESYNC, failures, other clients. `InStep`. |
| `view_flags` | pass | NOOP, IDLE and FETCH: `NoChangeSkipped`; `IdleReports` (liveness). |
| `view_store_skips` | violation | With STORE, `NoChangeSkipped` fails: the client never hears of a change made before its STORE. |
| `commands` | pass | One of: COPY or MOVE, within an account and between two (`CopiesAccounted`); STORE (`StoreKeepsItsWord`); three commands on saved searches (`NeverOlder`, `SavedUsersEnd`, liveness); two lines of a client (`LineUnderstood`); a search program of up to two operators (`FindsWhatIsAsked`); a sequence set (`SetsUnderstood`). |
| `frontends` | pass | One of: an IMAP connection with three requests, up to two in a read (`AnsweredOnce`, `PanicsOnlyPipelined`, and the liveness properties `SocketReleased` and `RequestsAnswered`); a ManageSieve connection with four (`RepliesInOrder`, `ActsOnNamed`); the housekeeper with every kind of schedule (`PurgesInTime`). |
| `session_pipelined` | violation | `Unreachable`: a request read behind one that changes the state meets an `unreachable!()` and the connection's task panics. |
| `mailboxes` | pass | One of: two commands on the mailbox lists with two changes by others, a failure and an account that comes and goes (`ListsTheServer`, `OwnMailboxNamed`); two STATUS (`StatusAnswers`); four changes of rights by two sessions and JMAP clients (`AclAsMeant`); every pattern of LIST of up to four characters with every name of up to four (`PatternsUnderstood`). |
| `shared_mailbox` | violation | `ActsOnNamedMailbox`: CREATE, DELETE and SUBSCRIBE below a shared account act on a mailbox that the client did not name. |

*What the properties leave out.* A property of a passing run names the cases in
which the code does not do what it should; each of them is a disagreement that
TLC shows when the exception is taken out:

* `ResyncComplete`: a message that changes between the list and the state that
  becomes HIGHESTMODSEQ (`blind`, `commands/select.rs:66`); a `fetch` whose
  failure SELECT ignores (`unheard`, `select.rs:123`); a UID whose record of
  removal is replaced when its message comes back and leaves again
  (`overwritten`, `core/message.rs:198`). A client that gives neither known UIDs
  nor sequence matches is not in the model: `select.rs:128` unwraps nothing.
* `ModseqIncreases` is about a session alone: with two, an old state that is looked
  up late gets the greater MODSEQ. `ReportedResolves` is checked without
  failures: one between the two inserts of `state_to_modseq` leaves a MODSEQ that
  is reported for ever and never resolved.
* `IdleReports`: while the event source stays open, as the code does not reconnect
  (`commands/idle.rs:159`).
* `StoreKeepsItsWord`: a change between the check of UNCHANGEDSINCE and the
  Email/set is overwritten.
* `NeverOlder`: a search that fails puts back the result of before it although a
  newer one is there (`undone`); EXPUNGE, which clears the result by itself, is
  left out. `SavedUsersEnd`: a SAVE that names `$` among other numbers waits for
  itself (`saveMixes`). That `$` keeps its positions when NOOP, IDLE or MOVE
  renumber the list is not claimed: it does not (`core/message.rs:600`).
* `FindsWhatIsAsked`: OLD and OLDER become RECENT and YOUNGER, the largest LARGER
  wraps, ALL is lost below OR and NOT, NOT of a list is none of its members, NOT
  is lost in All Mail. BEFORE is read as ALL and its date as a sequence set: the
  search is refused (`ReadBefore`).
* `CopiesAccounted` says that COPYUID names the right UIDs, not that its two sets
  correspond: they are sorted apart (`commands/copy_move.rs:290`).
* `ListsTheServer`: the new state that CREATE and RENAME take over skips others'
  changes (`commands/create.rs:147`); a linked account whose first fetch fails is
  not fetched again (`core/mailbox.rs:331`); an account whose changes could not be
  asked for or fetched is shown as it was. `OwnMailboxNamed`: commands on
  shared accounts, and mailboxes that others move meanwhile. With two commands
  at once, a DELETE and a RENAME can leave a name without data, which LIST
  unwraps (`commands/list.rs:232`).
* `StatusAnswers`: counters that are old because a CREATE took over the state,
  because another STATUS stored what it had computed before they were reset, or
  because a fetch failed; the number of deleted messages, which is answered as
  UNSEEN (`commands/status.rs:301`).
* `AclAsMeant`: the JMAP right `Modify` has no IMAP right that removes it, and is
  listed as `k`.
* `PatternsUnderstood`: patterns with two wildcards side by side match everything;
  `%` crosses a delimiter before text; the matcher does not go back, so that it may
  miss a name when a text has to be tried in two places (`Simple`).
* `PurgesInTime`: of days 1 to 7. The check of the day tests the hour
  (`core/housekeeper.rs:88`), so that other days are accepted, and most hours
  refused for a weekly schedule; day 0 makes the sleep negative on a Sunday.
  The first weekly purge may be on another day, and the second up to 13 days
  later.

More disagreements show with other constants:

* `CleanupSparesPresentMessages` fails with one task and `PageSize = 1`: a removal
  between two pages hides a message from the query. The loop also ends after
  `MaxPages` pages, 100 in the code (`core/message.rs:79`), and what it has not
  read is removed.
* `WipedOnlyDestroyed` fails with two tasks and `Ops = {"sync", "purge"}`: a login
  purges a mailbox created after it listed the mailboxes.
* `InStep` fails with two tasks and the commands select, search and noop:
  an EXISTS overtakes an EXPUNGE that was computed after it.
* `CopiesAccounted` fails with `AllMail = {TRUE}`: a MOVE from All Mail removes
  messages from the list and the database that All Mail still has.

*Bounds.* Two tasks suffice for the races of the UID cache: each closure's
conflicts are between one reader or writer and another. Two messages and two or
three UIDs let a message be removed and given a second UID. `PageSize` 2 with two
messages is the case of a mailbox that fits a page. In `SelectedView` three
messages allow for two EXPUNGEs with renumbering and an arrival; `MaxState`
bounds the changes of the account, which is the length of the interesting
history. In `Resync` one old and one new message, four changes and two returns
let a message change, leave, come back and leave again, in chunks of one. In
`CopyMove` three messages and four ids of the other account, two of
them equal to source ids, allow for every collision. In `CondStore` chunks of one
message with three other changes put a change before, between and after them.
Three saved searches are two that overlap and one that uses the result. In
`Receiver` limits of a few bytes are reached by the arguments chosen. A batch of
two is enough to run one request behind another; the third request is the one
that comes later (`frontends` was also run with four requests, with the same result).
In `MailboxList` a tree of depth three and a shared mailbox with the id of one of
the user's own are the cases its commands tell apart. Patterns and names of five
characters were checked once, too. `CHECK_DEADLOCK FALSE` is where a bound or the
end of the command stops the system.

*Fairness.* `ModSeq`: a closure handed to the worker pool runs on (rayon runs every
closure it accepts). `SelectedView`: a task's next step is taken, that is, tokio
polls ready tasks and the JMAP server answers. `SavedSearch`: the loop and the
tasks go on when what they wait for has come. `ImapSession`: the session handles
what it has read, the writer writes, and spawned tasks end: tokio runs what is
ready, the JMAP server answers, and the peer reads or its socket fails. No fairness
is assumed of clients' requests, of other users or of failures.

*Mutants.* Operators named `X_Something` before a definition `X` are `X` with a
plausible bug; each property of a passing run fails with one of them.

## 4. Proofs

All theorems are for every value of the constants that the named assumptions of
the modules allow: any number of tasks, messages, UIDs, sessions, commands and
changes. 31 of the 40 properties of the passing runs are stated by a theorem.
An invariant was checked with TLC on the run of its module before it was proved.

*UID cache* (`UidCacheProofs`, `UidPromiseProofs`; any tasks at once, failures
anywhere, a failed insert included).

* `UidCacheTyped`: `Spec => []TypeOK`. The strengthening `Indexed` says that a
  task that uses `ids[t][at[t]]` or `uid[t]` has one.
* `UidDesignatesOneMessageAlways`: the two maps, the records of deleted messages and
  every answer agree with the message each UID was generated for. The property is
  not inductive, as a UID may also be in a batch that waits, or generated and not
  written. A *claim* is a pair (UID, message) found in any of these places;
  `ClaimsOwned` says every claim is the owner's, `CounterBounds` that no UID
  above the counter has an owner. Every step but `Alloc` only copies or drops
  claims (one lemma per action); `Alloc` claims a UID above the counter.
* `UidNeverReusedAlways`: an action property, from `CounterBounds`.
* `LifecycleRefined`: the refinement of `UidLifecycle`. A step is one of five kinds
  (`Kinds`): it is not seen, a task ends, a batch is applied, a UID is taken, or
  the UID a task holds is written. `Held` says that a UID which is held names no
  message yet and is held by one task; the owner's invariant gives that a UID
  above the counter names none.
* `AscendingUidsAlways`, `CompleteReplyAlways`: `SyncInv` follows `update_uids` label
  by label. `Filled`: the answer is empty, then the ids at the positions found,
  then also all positions that the loop has passed. `Ordered`: the UIDs answered
  are below the iterator's key, then below the UID in hand, because the counter
  has passed them all.

*UID cache, one operation at a time* (`UidPromiseProofs`, second part). These theorems have
hypotheses, and the properties are false without them. `Serial`: one task; with two,
see `uid_race` and section 3. `FitsPage`: the mailbox fits an Email/query; with
`PageSize = 1` TLC finds that a message which a delivery shifts to the next page is
listed twice and is given a second UID, and that a removal hides one.
`~InsertMayFail`: the two inserts of `insert_jmap_id` do not fail one alone.
Failures of a whole operation at any access are allowed.

* `WipedOnlyDestroyedAlways` (only `Serial`): `Purging` says that a mailbox not yet
  created has no keys and nobody who writes any, so that a login that does not see it
  purges nothing.
* `MapsAgreeAlways`, `CleanupSparesAlways`: `KeysInv` says that a list has no message
  twice and has all that were present all along (`Collected`), that a batch removes
  both keys of a message and records the UID it removes (`Together`), that what the scan
  has not found has no key (`Scanned`), and that the message which is given a UID
  has no other (`Inserts`). When the keys were wiped, the mailbox is destroyed and
  nothing is present.

*MODSEQs and QRESYNC* (`ModSeqProofs`).

* `ModSeqTyped`, `ModseqNamesOneStateAlways`: the argument of claims for MODSEQs, with
  failures anywhere; a claim is a pair (MODSEQ, state) in either map, in a
  session or in a report.
* `ModseqIncreasesAlways`: of a session alone (`part = "alone"`), which is what the
  property says. `AloneInv`: states have MODSEQs in their order, and the state
  in the session's hands comes after all that have one.
* `ResyncCompleteAlways`: `ResyncInv` says that a UID is its message's, and once lost is
  on record until the record is replaced; `Known` relates what the client has to
  its HIGHESTMODSEQ, `AsOf` and `ListsHeld` the list of SELECT to the state that
  becomes the next one, and `NoneLeft`, `HasAll` and `GoneInLeft` say, while the
  changes are fetched, that each UID is in order or still to be dealt with. It
  has the property's three exceptions and no other.

*Selected mailbox* (`SelectedViewProofs`, `PositionsProofs`). A list is cut by sets of
positions (`Picked`, `Only`). Every set of positions has its members numbered by rank
(`HasRank`, from the least member of a set of naturals), so a part of a list is
known by its members and their order (`PickedFrom`), and two ascending lists with the
same members are equal (`AscendingUnique`). `DroppedOne` says what an EXPUNGE leaves.

* `SelectedViewTyped`: `Spec => []TypeOK`, any tasks at once and failures anywhere.
  `Typed` has the types of the lists and buffers, `totalMessages = Len(imapUids)`, and
  that an EXISTS is no greater than the list it stands for.
* `InStepAlways`: for `Serial`, one command at a time, any commands, failures and
  changes by others; with two tasks the property is false (section 3). `ViewInv` says
  that lists ascend and every message newer than them is still to come (`Sound`), that
  the client's list is the session's unless a buffer is on its way, and then that the
  EXPUNGEs or the VANISHED still to be read name exactly what the session has not
  any more (`Expunges`: the i-th at its number plus the i - 1 dropped before it) and
  EXISTS announces the rest, which comes after all the client has (`Announces`).
* `NoChangeSkippedAlways`: for `OnlyRefreshed`, one command at a time, no
  failures, and none of STORE, MOVE, EXPUNGE and APPEND, which move last_state past
  changes that the client has not seen (`view_store_skips`). `FlagsInv`: at
  each label of `write_changes`, a message changed up to the state that is to become
  last_state is known as changed, among the ids collected, or among those asked for
  (`Reported`, `Reports`, `Collected`, `Asked`).

*Commands* (`CommandProofs`).

* `NeverOlderAlways`: searches are installed in the order of the commands and at most
  one runs, which is the one in flight.
* `StoreKeepsItsWordAlways`: chunk by chunk, what was updated, refused or gone is where the
  answer will say it is.
* `CopiesAccountedAlways`: `[](~allMail => CopiesAccounted)`; from All Mail the property
  is false (section 3).
* `ReceiverTyped`: in `ReceiverInv`, the buffer holds only digits while a literal is
  announced, and what is left of a literal has room beside the arguments before it
  (`Sized`, `LiteralFits`). One lemma per state of the tokenizer, for any byte.
* `CommandTypesAlways`: `MCCommands`' `TypesOK`, of `MCSpec`. The types need more than
  themselves: a saved result is that of a command that has ended, and the loop waits only
  for earlier ones (`SavedKnown`); the state of the account counts the changes by others
  and the calls that updated a message, each message once (`StoreKnown`).
* `ReadingsAgreeAlways`: the half of `SetsUnderstood` that is about the readings of a
  set, `contains` and `expand`, for any set and mailbox.

*Mailboxes* (`MailboxProofs`).

* `AclAsMeantAlways`: `into_acl` and `from_acl` are inverse but for `Modify`
  (`Inverses`), so each right is granted as it was meant.
* `StatusAnswersAlways`: the requested items are those answered, and a counter that
  is stored is as new as the last change its session has synchronized.
* `ListsTheServerAlways`, `OwnMailboxNamedAlways` (an action property) and
  `MailboxTypesAlways`, of `MCSpec`: for any trees of mailboxes, any requests, any number
  of commands, changes and errors, under `OneCommand` (a session runs one command at a
  time, as in the run). The code does not force that: a pipelining client gets commands
  that overlap, and then the properties do not hold (section 3).
  - Paths are a recursive function of the tree. They are the only solution of its
    equation, as names get longer along a path (`PathsAre`), so what creating, moving
    and destroying mailboxes does to names is shown by giving the new names and
    checking the equation (`Chained`, `Moved`, `Dropped`).
  - `ListInv` is the inductive invariant. Each account has a history of trees with ids
    given out in order (`LogOK`). A list has sound names and data (`ListOK`), and unless
    the session has skipped a change it matches the server's tree as long as the history
    has no news since the list's state (`Fits`). The record of the
    command says how far it has got (`RunOK`): an answer without news means that the
    list matches the state it brings, what is fetched is a state since the command
    began, and after Mailbox/set the history holds exactly the change that the answer
    speaks of (`Outcome`).
  - The edits by hand are then shown to turn a list that matched the tree before the
    change into one that matches the tree after it: `add_created_mailboxes`
    (`AddedIs`), the renaming of all names below one (`RenamedMatch`), and both in one
    RENAME (`ParentsAdded`, `RenamedInPlace`).
  - `ListAssumption` says that the trees are trees, the ids begin at 1 and the requests
    name mailboxes by sequences of parts.

*Front ends* (`FrontEndProofs`).

* `PurgesInTimeAlways`: for `MaxLate <= 16`, the hours that a purge may take. A purge
  that ends after midnight shifts the day from which the next is computed, and
  the bound of the property does not hold any more.
* `AnsweredOnceAlways`: a tag is in one place only, among the requests to come, those
  read, the tasks, the channel or the answers written.
* `RepliesInOrderAlways`, `ActsOnNamedAlways` (an action property), for ManageSieve.
* `TypesAlways`, `PanicsAlways`: of the run's specification (`MCSpec`), so of the
  IMAP session, the writer, ManageSieve and the housekeeper at once; they include
  `FailuresBounded` and `UpgradeThenTls`.

Only model-checked:

* Liveness, as the prover has no ENABLED: `ReportedResolves`, `IdleReports`,
  `SavedUsersEnd`, `SocketReleased`, `RequestsAnswered`.
* What parsers and matchers compute for every input, as that needs induction over
  data: `LineUnderstood`, the parser's half of `SetsUnderstood`, `PatternsUnderstood`,
  `FindsWhatIsAsked`.

## 5. Plan

Done: the modules above, their runs, and the theorems of section 4. Next:

1. The parser of `SequenceSet`: lemmas about single characters and tokens.
2. A variant of `UidCache` with a durable and a volatile copy, for crashes: sled
   writes in the background.
3. MYRIGHTS; SORT and its keys; STATUS as a LIST return option; modified UTF-7
   against a reference.

## 6. Not modelled

THREAD, the contents of FETCH and the syntax of single commands and responses
are functions of their input without state of their own; the repository's unit
tests and its fuzz target cover them. Configuration is read once. TLS itself and
the JMAP server are external: they appear as what the code sees of them.
`delete_account` and `Core::imap_to_jmap` are compiled for tests only. The
size of tags and atoms that `Receiver` reads is bounded by nothing in the code
and by the client in the model.
