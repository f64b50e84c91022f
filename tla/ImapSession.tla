---------------------------- MODULE ImapSession ----------------------------
(***************************************************************************)
(* An IMAP connection from accept to close: core/listener.rs,              *)
(* core/connection.rs, core/client.rs and the commands that change the     *)
(* state of the session.  One read of the socket is a batch of requests:   *)
(* ingest parses all of them and checks each against the state that the    *)
(* session has before the first of them runs.  Most commands run in a task *)
(* of their own, with a sender to the writer.                              *)
(***************************************************************************)
EXTENDS Writer

CONSTANTS
  Commands,      \* the commands that clients send
  MaxFailures,   \* failed attempts that a connection survives, 3
  MaxRequests,   \* bound: requests in the life of a connection
  MaxBatch       \* bound: requests in one read

ASSUME SessionBounds == MaxFailures \in Nat /\ MaxRequests \in Nat /\ MaxBatch \in Nat

VARIABLES
  phase,      \* where handle_conn is
  state,      \* State: NotAuthenticated, Authenticated, Selected
  failures,   \* auth_failures
  isSelect,   \* mailbox.is_select
  isTls,      \* is_tls
  enabled,    \* is_condstore, is_qresync
  idle,       \* the request whose IDLE holds idle_tx, 0 for None
  awaiting,   \* AUTHENTICATE that waits for its challenge in the receiver, or 0
  requests,   \* the requests of the batch that are still to run
  received,   \* number of requests read; they are tagged 1, 2, ...
  batch,      \* tag of the first request of the batch
  tasks,      \* spawned tasks: the tags that are still to be answered, in order
  panicked,   \* history: the request that ran into unreachable!(), or 0
  tries       \* history: failed attempts since the last success

session == <<phase, state, failures, isSelect, isTls, enabled, idle, awaiting, requests,
             received, batch, tasks, panicked, tries>>
imapVars == <<session, writerVars>>

States == {"NotAuthenticated", "Authenticated", "Selected"}
Phases == {"accept", "reading", "running", "upgrade", "lending", "handshake", "closed"}

(* "Bad" is a line that the receiver refuses. *)
AnyState  == {"Capability", "Noop", "Logout", "Id"}
WithState == {"Enable", "Select", "Examine", "Create", "Delete", "Rename", "Subscribe",
              "Unsubscribe", "List", "Lsub", "Namespace", "Status", "Append", "Idle", "SetAcl",
              "DeleteAcl", "GetAcl", "ListRights", "MyRights", "Unauthenticate"}
Writing   == {"Store", "Expunge", "Move"}
Selecting == Writing \cup {"Close", "Unselect", "Search", "Fetch", "Copy", "Check", "Sort", "Thread"}

Tags == 1..MaxRequests
Request(tag, cmd) == [tag |-> tag, cmd |-> cmd]

TypeOK ==
  /\ WriterTypeOK
  /\ phase \in Phases /\ state \in States /\ failures \in 0..MaxFailures
  /\ isSelect \in BOOLEAN /\ isTls \in BOOLEAN /\ enabled \subseteq {"CondStore", "QResync"}
  /\ {idle, awaiting, received, panicked} \subseteq 0..MaxRequests
  /\ \A i \in DOMAIN requests : requests[i].tag \in Tags
  /\ \A t \in tasks : t.tags # <<>>

-----------------------------------------------------------------------------
(* spawn_listener: on the TLS port the handshake comes first. *)
Init ==
  /\ WriterInit
  /\ phase = "accept" /\ state = "NotAuthenticated" /\ failures = 0
  /\ isSelect = FALSE /\ isTls \in BOOLEAN /\ enabled = {}
  /\ idle = 0 /\ awaiting = 0 /\ requests = <<>> /\ received = 0 /\ batch = 0
  /\ tasks = {} /\ panicked = 0 /\ tries = 0

(* The senders of the writer's channel. *)
Senders == phase # "closed" \/ tasks # {}

(* The session is dropped, and idle_tx with it. *)
Drop ==
  /\ phase' = "closed"
  /\ requests' = <<>> /\ idle' = 0 /\ awaiting' = 0

Greet ==
  /\ phase = "accept"
  /\ Send(<<Event(IF isTls THEN "tls" ELSE "stream", 0, "session")>>)
  /\ phase' = "reading"
  /\ UNCHANGED <<state, failures, isSelect, isTls, enabled, idle, awaiting, requests, received,
                 batch, tasks, panicked, tries, stream, written>>

(* The TLS handshake or the greeting fails. *)
GreetFails ==
  /\ phase = "accept"
  /\ Drop
  /\ UNCHANGED <<state, failures, isSelect, isTls, enabled, received, batch, tasks, panicked,
                 tries, writerVars>>

-----------------------------------------------------------------------------
(* Mutant: commands on messages are allowed without a mailbox. *)
IsAllowed_AnyMailbox(cmd) ==
  \/ cmd \in AnyState \cup {"StartTls"}
  \/ cmd \in {"Authenticate", "Challenge", "Login"} /\ state = "NotAuthenticated"
  \/ cmd \in WithState \cup Selecting /\ state # "NotAuthenticated"

IsAllowed(cmd) ==
  \/ cmd \in AnyState
  \/ cmd = "StartTls" /\ ~isTls
  \/ cmd \in {"Authenticate", "Challenge"} /\ state = "NotAuthenticated"
  \/ cmd = "Login" /\ state = "NotAuthenticated" /\ isTls
  \/ cmd \in WithState /\ state # "NotAuthenticated"
  \/ cmd \in Selecting /\ state = "Selected" /\ (isSelect \/ cmd \notin Writing)

(* What a read holds: the challenge that AUTHENTICATE waits for, then new requests. *)
Lines(cmds) ==
  (IF awaiting # 0 THEN <<Request(awaiting, "Challenge")>> ELSE <<>>)
    \o [i \in DOMAIN cmds |-> Request(received + i, cmds[i])]

(* The receiver's error ends the loop: the rest of the read is discarded. *)
Parsed(lines) ==
  LET bad == {i \in DOMAIN lines : lines[i].cmd = "Bad"}
  IN  IF bad = {} THEN lines ELSE SubSeq(lines, 1, CHOOSE i \in bad : \A j \in bad : i <= j)

(* The first loop of ingest: refusals are written at once, the rest waits. *)
Read(cmds) ==
  LET lines == Lines(cmds)
      parsed == Parsed(lines)
      allowed == Picked(parsed, {i \in DOMAIN parsed : IsAllowed(parsed[i].cmd)})
      refused == Picked(parsed, {i \in DOMAIN parsed : ~IsAllowed(parsed[i].cmd)})
  IN  /\ phase = "reading" /\ idle = 0
      /\ lines # <<>>
      /\ received + Len(cmds) <= MaxRequests
      /\ received' = received + Len(cmds)
      /\ batch' = lines[1].tag
      /\ awaiting' = 0
      /\ \/ /\ refused = <<>> \/ Hearing
            /\ phase' = "running"
            /\ requests' = allowed
            /\ IF refused = <<>> THEN UNCHANGED chan
               ELSE Send([i \in DOMAIN refused |-> Bytes(refused[i].tag, "session")])
            /\ UNCHANGED idle
         \/ /\ refused # <<>> /\ ~Hearing
            /\ phase' = "closed"
            /\ UNCHANGED <<requests, idle, chan>>
      /\ UNCHANGED <<state, failures, isSelect, isTls, enabled, tasks, panicked, tries,
                     stream, written>>

(* A read while idling: its first four bytes are DONE, or all of it is ignored. *)
ReadIdle(done, more) ==
  /\ phase = "reading" /\ idle # 0
  /\ received + more <= MaxRequests
  /\ received' = received + more
  /\ idle' = IF done THEN 0 ELSE idle
  /\ UNCHANGED <<phase, state, failures, isSelect, isTls, enabled, awaiting, requests, batch,
                 tasks, panicked, tries, writerVars>>

(* The peer closes, or reading fails. *)
Hangup ==
  /\ phase = "reading"
  /\ Drop
  /\ UNCHANGED <<state, failures, isSelect, isTls, enabled, received, batch, tasks, panicked,
                 tries, writerVars>>

(* The timeout, and the shutdown of the server: BYE, whether or not it can be sent. *)
Bye ==
  /\ phase = "reading"
  /\ IF Hearing THEN Send(<<Bytes(0, "session")>>) ELSE UNCHANGED chan
  /\ Drop
  /\ UNCHANGED <<state, failures, isSelect, isTls, enabled, received, batch, tasks, panicked,
                 tries, stream, written>>

-----------------------------------------------------------------------------
(* The handlers: the second loop of ingest. *)
Spawning == {"List", "Lsub", "Rename", "Status", "Append", "Subscribe", "Unsubscribe", "SetAcl",
             "DeleteAcl", "GetAcl", "MyRights",
             "Search", "Sort", "Thread", "Fetch", "Store", "Copy", "Move"}
Grouped == {"Create", "Delete"}

Runs(cmds) == phase = "running" /\ requests # <<>> /\ Head(requests).cmd \in cmds
Tag == Head(requests).tag

(* session_data, mailbox_data, select_data and the matches of handle_idle and *)
(* auth_failures: the state that a handler takes for granted.                 *)
Reachable(cmd) ==
  /\ cmd \in (WithState \ {"Enable", "ListRights", "Unauthenticate"}) \cup {"Unselect"} => state # "NotAuthenticated"
  /\ cmd \in Selecting \ {"Check", "Unselect"} => state = "Selected"

(* unreachable!() ends the task of the connection. *)
Panic ==
  /\ Runs(WithState \cup Selecting)
  /\ ~Reachable(Head(requests).cmd)
  /\ panicked' = Tag
  /\ Drop
  /\ UNCHANGED <<state, failures, isSelect, isTls, enabled, received, batch, tasks, tries, writerVars>>

(* A write fails after the writer has ended: the ? of the handlers. *)
Broken ==
  /\ Runs(Commands \ (Spawning \cup Grouped))
  /\ ~Hearing
  /\ Drop
  /\ UNCHANGED <<state, failures, isSelect, isTls, enabled, received, batch, tasks, panicked, tries, writerVars>>

(* The next request, when this one is answered by the session itself. *)
Answered(tag) ==
  /\ Send(<<Bytes(tag, "session")>>)
  /\ requests' = Tail(requests)
  /\ UNCHANGED <<phase, isTls, idle, awaiting, received, batch, tasks, panicked, stream, written>>

(* Mutant: a malformed command is not answered. *)
Malformed_Silent ==
  /\ Runs(Commands \ {"Noop", "Logout", "StartTls", "Unauthenticate", "Unselect", "Idle"})
  /\ requests' = Tail(requests)
  /\ UNCHANGED <<phase, state, failures, isSelect, isTls, enabled, idle, awaiting, received,
                 batch, tasks, panicked, tries, writerVars>>

(* The arguments do not parse: answered before the state is looked at. *)
Malformed ==
  /\ Runs(Commands \ {"Capability", "Id", "Noop", "Check", "Logout", "StartTls", "Unauthenticate",
                      "Unselect", "Close", "Namespace", "Idle"})
  /\ Answered(Tag)
  /\ UNCHANGED <<state, failures, isSelect, enabled, tries>>

(* Commands that leave the state of the session alone. *)
Inline(cmds) ==
  /\ Runs(cmds)
  /\ Reachable(Head(requests).cmd)
  /\ Answered(Tag)
  /\ UNCHANGED <<state, failures, isSelect, enabled, tries>>

HandleCapability == Inline({"Capability", "Id"})
HandleNoop       == Inline({"Noop", "Check"})
HandleNamespace  == Inline({"Namespace"})
HandleListRights == Inline({"ListRights"})
HandleExpunge    == Inline({"Expunge"})

HandleEnable ==
  /\ Runs({"Enable"})
  /\ \E c \in SUBSET {"CondStore", "QResync"} : enabled' = enabled \cup c
  /\ Answered(Tag)
  /\ UNCHANGED <<state, failures, isSelect, tries>>

(* SELECT that fails, or asks for QRESYNC when it is not enabled, keeps the old mailbox. *)
HandleSelect ==
  /\ Runs({"Select", "Examine"})
  /\ Reachable(Head(requests).cmd)
  /\ \/ state' = "Selected" /\ isSelect' = (Head(requests).cmd = "Select")
     \/ UNCHANGED <<state, isSelect>>
  /\ Answered(Tag)
  /\ UNCHANGED <<failures, enabled, tries>>

Leave(cmd) ==
  /\ Runs({cmd})
  /\ Reachable(cmd)
  /\ state' = "Authenticated"
  /\ Answered(Tag)
  /\ UNCHANGED <<failures, isSelect, enabled, tries>>

HandleUnselect == Leave("Unselect")

(* That the messages cannot be expunged is ignored. *)
HandleClose == Leave("Close")

HandleUnauthenticate ==
  /\ Runs({"Unauthenticate"})
  /\ state' = "NotAuthenticated" /\ failures' = 0
  /\ Answered(Tag)
  /\ UNCHANGED <<isSelect, enabled, tries>>

(* The task holds its data and its mailbox, whatever the session does next. *)
HandleSpawned ==
  /\ Runs(Spawning)
  /\ Reachable(Head(requests).cmd)
  /\ tasks' = tasks \cup {[cmd |-> Head(requests).cmd, tags |-> <<Tag>>]}
  /\ requests' = Tail(requests)
  /\ UNCHANGED <<phase, state, failures, isSelect, isTls, enabled, idle, awaiting, received,
                 batch, panicked, tries, writerVars>>

(* group_requests: one task answers a run of equal commands, in order. *)
Group == CHOOSE n \in 1..Len(requests) :
           /\ \A i \in 1..n : requests[i].cmd = requests[1].cmd
           /\ n < Len(requests) => requests[n + 1].cmd # requests[1].cmd

(* Mutant: only the first request of the group leaves the batch. *)
HandleGrouped_Peeks ==
  /\ Runs(Grouped)
  /\ Reachable(Head(requests).cmd)
  /\ tasks' = tasks \cup {[cmd |-> Head(requests).cmd,
                           tags |-> [i \in 1..Group |-> requests[i].tag]]}
  /\ requests' = Tail(requests)
  /\ UNCHANGED <<phase, state, failures, isSelect, isTls, enabled, idle, awaiting, received,
                 batch, panicked, tries, writerVars>>

HandleGrouped ==
  /\ Runs(Grouped)
  /\ Reachable(Head(requests).cmd)
  /\ tasks' = tasks \cup {[cmd |-> Head(requests).cmd,
                           tags |-> [i \in 1..Group |-> requests[i].tag]]}
  /\ requests' = SubSeq(requests, Group + 1, Len(requests))
  /\ UNCHANGED <<phase, state, failures, isSelect, isTls, enabled, idle, awaiting, received,
                 batch, panicked, tries, writerVars>>

(* A second IDLE replaces the sender of the first, which ends the first. *)
HandleIdle ==
  /\ Runs({"Idle"})
  /\ Reachable("Idle")
  /\ Send(<<Bytes(0, "session")>>)
  /\ idle' = Tag
  /\ tasks' = tasks \cup {[cmd |-> "Idle", tags |-> <<Tag>>]}
  /\ requests' = Tail(requests)
  /\ UNCHANGED <<phase, state, failures, isSelect, isTls, enabled, awaiting, received, batch,
                 panicked, tries, stream, written>>

(* The event source cannot be started. *)
IdleRefused ==
  /\ Runs({"Idle"})
  /\ Reachable("Idle")
  /\ Answered(Tag)
  /\ UNCHANGED <<state, failures, isSelect, enabled, tries>>

HandleLogout ==
  /\ Runs({"Logout"})
  /\ Send(<<Bytes(Tag, "session")>>)
  /\ Drop
  /\ UNCHANGED <<state, failures, isSelect, isTls, enabled, received, batch, tasks, panicked,
                 tries, stream, written>>

-----------------------------------------------------------------------------
(* LOGIN and AUTHENTICATE. *)
Credentials == {"Login", "Authenticate", "Challenge"}

(* No challenge came with the command: the receiver resumes it with the next line. *)
AskChallenge ==
  /\ Runs({"Authenticate"})
  /\ Send(<<Bytes(0, "session")>>)
  /\ awaiting' = Tag
  /\ requests' = Tail(requests)
  /\ UNCHANGED <<phase, state, failures, isSelect, isTls, enabled, idle, received, batch, tasks,
                 panicked, tries, stream, written>>

(* The mechanism is unknown or the challenge cannot be decoded. *)
BadChallenge ==
  /\ Runs({"Authenticate", "Challenge"})
  /\ Answered(Tag)
  /\ UNCHANGED <<state, failures, isSelect, enabled, tries>>

Accepted ==
  /\ Runs(Credentials)
  /\ state' = "Authenticated"
  /\ tries' = 0
  /\ Answered(Tag)
  /\ UNCHANGED <<failures, isSelect, enabled>>

(* The mailboxes cannot be fetched, or the purge of the database fails. *)
AcceptedInVain(says) ==
  /\ Runs(Credentials)
  /\ IF says THEN Send(<<Bytes(Tag, "session")>>) ELSE UNCHANGED chan
  /\ Drop
  /\ UNCHANGED <<state, failures, isSelect, isTls, enabled, received, batch, tasks, panicked,
                 tries, stream, written>>

(* Mutant: the failure is not counted. *)
Rejected_NotCounted ==
  /\ Runs(Credentials)
  /\ state = "NotAuthenticated" /\ failures < MaxFailures
  /\ tries' = tries + 1
  /\ Answered(Tag)
  /\ UNCHANGED <<failures, state, isSelect, enabled>>

(* The count is asked for after the answer is written. *)
Rejected ==
  /\ Runs(Credentials)
  /\ state = "NotAuthenticated" /\ failures < MaxFailures
  /\ failures' = failures + 1
  /\ tries' = tries + 1
  /\ Answered(Tag)
  /\ UNCHANGED <<state, isSelect, enabled>>

RejectedForGood ==
  /\ Runs(Credentials)
  /\ state = "NotAuthenticated" /\ failures >= MaxFailures
  /\ Send(<<Bytes(Tag, "session"), Bytes(0, "session")>>)
  /\ tries' = tries + 1
  /\ Drop
  /\ UNCHANGED <<state, failures, isSelect, isTls, enabled, received, batch, tasks, panicked,
                 stream, written>>

RejectedPanic ==
  /\ Runs(Credentials)
  /\ state # "NotAuthenticated"
  /\ Send(<<Bytes(Tag, "session")>>)
  /\ panicked' = Tag
  /\ Drop
  /\ UNCHANGED <<state, failures, isSelect, isTls, enabled, received, batch, tasks, tries,
                 stream, written>>

-----------------------------------------------------------------------------
(* STARTTLS returns from ingest: the rest of the batch is dropped. *)
HandleStartTls ==
  /\ Runs({"StartTls"})
  /\ Send(<<Bytes(Tag, "session")>>)
  /\ phase' = "upgrade"
  /\ requests' = <<>>
  /\ UNCHANGED <<state, failures, isSelect, isTls, enabled, idle, awaiting, received, batch,
                 tasks, panicked, tries, stream, written>>

AskStream ==
  /\ phase = "upgrade"
  /\ Send(<<Event("upgrade", 0, "session")>>)
  /\ phase' = "lending"
  /\ UNCHANGED <<state, failures, isSelect, isTls, enabled, idle, awaiting, requests, received,
                 batch, tasks, panicked, tries, stream, written>>

(* The upgrade was handled when the writer no longer has it in its channel. *)
GetStream ==
  /\ phase = "lending"
  /\ \A i \in DOMAIN chan : chan[i].kind # "upgrade"
  /\ stream # "ended"
  /\ phase' = "handshake"
  /\ UNCHANGED <<state, failures, isSelect, isTls, enabled, idle, awaiting, requests, received,
                 batch, tasks, panicked, tries, writerVars>>

HandshakeDone ==
  /\ phase = "handshake"
  /\ Send(<<Event("tls", 0, "session")>>)
  /\ isTls' = TRUE
  /\ phase' = "reading"
  /\ UNCHANGED <<state, failures, isSelect, enabled, idle, awaiting, requests, received, batch,
                 tasks, panicked, tries, stream, written>>

(* The writer is gone, or the handshake fails. *)
UpgradeFails ==
  /\ \/ phase \in {"upgrade", "lending"} /\ ~Hearing
     \/ phase = "handshake"
  /\ Drop
  /\ UNCHANGED <<state, failures, isSelect, isTls, enabled, received, batch, tasks, panicked,
                 tries, writerVars>>

-----------------------------------------------------------------------------
(* The continuation that a literal needs is in Receiver. *)
EndBatch ==
  /\ phase = "running" /\ requests = <<>>
  /\ phase' = "reading"
  /\ UNCHANGED <<state, failures, isSelect, isTls, enabled, idle, awaiting, requests, received,
                 batch, tasks, panicked, tries, writerVars>>

(* A spawned task writes its next answer, or finds the writer gone. *)
TaskDone(t) ==
  /\ t.cmd # "Idle"
  /\ IF Hearing THEN Send(<<Bytes(Head(t.tags), "task")>>) ELSE UNCHANGED chan
  /\ tasks' = (tasks \ {t}) \cup (IF Len(t.tags) = 1 THEN {} ELSE {[t EXCEPT !.tags = Tail(@)]})
  /\ UNCHANGED <<phase, state, failures, isSelect, isTls, enabled, idle, awaiting, requests,
                 received, batch, panicked, tries, stream, written>>

(* Mutant: only DONE wakes IDLE, not the dropped sender. *)
Woken_ByDone(t) == idle # Head(t.tags) /\ phase # "closed"

(* idle_rx.changed(): DONE came, or the sender was dropped or replaced. *)
Woken(t) == idle # Head(t.tags)

IdleDone(t) ==
  /\ t.cmd = "Idle"
  /\ Woken(t)
  /\ IF Hearing THEN Send(<<Bytes(Head(t.tags), "task")>>) ELSE UNCHANGED chan
  /\ tasks' = tasks \ {t}
  /\ UNCHANGED <<phase, state, failures, isSelect, isTls, enabled, idle, awaiting, requests,
                 received, batch, panicked, tries, stream, written>>

Handle ==
  \/ Panic \/ Broken \/ Malformed
  \/ HandleCapability \/ HandleNoop \/ HandleNamespace \/ HandleListRights \/ HandleExpunge
  \/ HandleEnable \/ HandleSelect \/ HandleUnselect \/ HandleClose \/ HandleUnauthenticate \/ HandleSpawned \/ HandleGrouped
  \/ HandleIdle \/ IdleRefused \/ HandleLogout
  \/ AskChallenge \/ BadChallenge \/ Accepted \/ (\E b \in BOOLEAN : AcceptedInVain(b))
  \/ Rejected \/ RejectedForGood \/ RejectedPanic
  \/ HandleStartTls \/ AskStream \/ GetStream \/ HandshakeDone \/ UpgradeFails \/ EndBatch

Writes ==
  /\ WriterStep(Senders)
  /\ UNCHANGED session

Loses ==
  /\ WriterFails
  /\ UNCHANGED session

Environment ==
  \/ Greet \/ GreetFails \/ Hangup \/ Bye
  \/ phase = "reading" /\ \E n \in 0..MaxBatch : \E cmds \in [1..n -> Commands] : Read(cmds)
  \/ \E done \in BOOLEAN, more \in 0..1 : ReadIdle(done, more)

Next ==
  \/ Environment
  \/ Handle
  \/ \E t \in tasks : TaskDone(t) \/ IdleDone(t)
  \/ Writes
  \/ Loses

(* tokio runs what is ready, the JMAP server answers, and the peer reads. *)
Fairness ==
  /\ WF_imapVars(Handle)
  /\ WF_imapVars(Writes)
  /\ WF_imapVars(\E t \in tasks : TaskDone(t) \/ IdleDone(t))

Spec == Init /\ [][Next]_imapVars
FairSpec == Spec /\ Fairness

-----------------------------------------------------------------------------
InChan(tag) == {i \in DOMAIN chan : chan[i].tag = tag}

(* No request is answered twice, whatever runs beside it: by the session and by *)
(* a task it spawned, or by two tasks (ingest, group_requests, write_bytes).    *)
AnsweredOnce ==
  \A tag \in Tags : Cardinality(InChan(tag)) <= (IF tag \in written THEN 0 ELSE 1)

(* A handler can only meet a state that its accessor calls unreachable when an *)
(* earlier request of the same read has changed the state (ingest).            *)
ImapPanicsOnlyPipelined == panicked # 0 => panicked > batch

(* unreachable!() in the accessors of State: no request reaches it. *)
Unreachable == panicked = 0

(* However attempts are spread over LOGIN, AUTHENTICATE and batches, a connection *)
(* survives MaxFailures failures and no more without a success between them.     *)
FailuresBounded == tries <= MaxFailures \/ (tries = MaxFailures + 1 /\ phase = "closed")

(* Once it has asked for the stream, the session sends nothing but the TLS stream: *)
(* bytes in between would meet the unreachable!() of the writer, or go out in clear. *)
UpgradeThenTls ==
  LET mine == {i \in DOMAIN chan : chan[i].by = "session"}
      asked == {i \in mine : chan[i].kind = "upgrade"} \cup (IF stream = "lent" THEN {0} ELSE {})
  IN  \A p \in asked, i \in mine :
        p < i /\ (\A j \in mine : p < j => i <= j) => chan[i].kind = "tls"

(* A connection that is over, however it ended, gives its socket back: the tasks *)
(* that hold the writer come to an end, IDLE because its sender is dropped.     *)
SocketReleased == (phase = "closed") ~> ~Hearing

(* A request that passed the check is answered, unless the connection ends or     *)
(* STARTTLS comes first; IDLE waits for DONE and AUTHENTICATE for its challenge. *)
RequestsAnswered ==
  \A tag \in Tags :
    (\E i \in DOMAIN requests : requests[i].tag = tag) ~>
      (tag \in written \/ phase \in {"upgrade", "closed"} \/ ~Hearing \/ tag \in {idle, awaiting})
=============================================================================
