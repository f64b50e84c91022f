---------------------------- MODULE ManageSieve ----------------------------
(***************************************************************************)
(* A ManageSieve connection: managesieve/.  A batch of requests is checked *)
(* and run as in the IMAP session, but every handler runs to its end       *)
(* before the next, and answers carry no tag: a client matches them to its *)
(* requests by their order.  Commands on a script look up its id by name   *)
(* in one JMAP request and act on the id in another one, while other       *)
(* clients create, rename, activate and destroy scripts.                   *)
(***************************************************************************)
EXTENDS Writer

CONSTANTS
  Scripts,        \* ids of scripts on the JMAP server
  Names,          \* names that users give to scripts
  NoName,         \* what an id that is not in use is called; the empty string
  SieveCommands,  \* the commands that clients send
  MaxAttempts,    \* failed attempts that a connection survives, 3
  MaxSieve,       \* bound: requests in the life of a connection
  MaxPipelined,   \* bound: requests in one read
  MaxOthers       \* bound: changes by other clients

ASSUME SieveAssumption == NoName \notin Names /\ {MaxAttempts, MaxSieve, MaxPipelined, MaxOthers} \subseteq Nat

VARIABLES
  link,      \* where handle_conn is
  client,    \* State: TRUE for Authenticated
  attempts,  \* auth_failures
  secure,    \* is_tls
  resumed,   \* AUTHENTICATE that waits for its challenge, or 0
  queue,     \* the requests of the batch that are still to run
  count,     \* number of requests read
  group,     \* tag of the first request of the batch
  found,     \* the id that get_script_id returned to the running handler
  scripts,   \* server: the name of each script
  active,    \* server: the ids of active scripts, at most one
  others,    \* number of changes by other clients
  bore,      \* history: ids that have had the name asked for since the handler started
  replies,   \* history: the order in which requests were answered
  piped,     \* history: the requests read behind another one
  crashed    \* history: the request that ran into unreachable!(), or 0

server == <<scripts, active, others>>
sieve == <<link, client, attempts, secure, resumed, queue, count, group, found, server, bore,
           replies, piped, crashed>>
sieveVars == <<sieve, writerVars>>

OnScript == {"SetActive", "GetScript", "DeleteScript", "RenameScript"}
WithClient == OnScript \cup {"ListScripts", "PutScript", "CheckScript"}
Verified == WithClient \cup {"HaveSpace", "Unauthenticate"}

Links == {"accept", "reading", "running", "upgrade", "lending", "handshake", "closed"}

SieveTypeOK ==
  /\ WriterTypeOK
  /\ link \in Links /\ client \in BOOLEAN /\ secure \in BOOLEAN /\ attempts \in 0..MaxAttempts
  /\ {resumed, count, crashed} \subseteq 0..MaxSieve
  /\ found \subseteq Scripts /\ bore \subseteq Scripts
  /\ scripts \in [Scripts -> Names \cup {NoName}]
  /\ active \subseteq Scripts

SieveInit ==
  /\ WriterInit
  /\ link = "accept" /\ client = FALSE /\ attempts = 0 /\ secure = FALSE
  /\ resumed = 0 /\ queue = <<>> /\ count = 0 /\ group = 0 /\ found = {}
  /\ scripts = [s \in Scripts |-> NoName] /\ active = {} /\ others = 0
  /\ bore = {} /\ replies = <<>> /\ piped = {} /\ crashed = 0

-----------------------------------------------------------------------------
(* The JMAP server: names are unique, an active script is not destroyed. *)
Called(n) == {s \in Scripts : scripts[s] = n}
CanTake(n) == n # NoName /\ Called(n) = {}

Named(s, n) == scripts' = [scripts EXCEPT ![s] = n]

ByOthers ==
  /\ others < MaxOthers
  /\ others' = others + 1
  /\ \/ \E s \in Scripts, n \in Names : CanTake(n) /\ Named(s, n) /\ UNCHANGED active
     \/ \E s \in Scripts \ active : scripts[s] # NoName /\ Named(s, NoName) /\ UNCHANGED active
     \/ \E s \in Scripts : scripts[s] # NoName /\ active' \in {{s}, {}} /\ UNCHANGED scripts
  /\ bore' = IF queue # <<>> THEN bore \cup {s \in Scripts : scripts'[s] = Head(queue).name} ELSE bore
  /\ UNCHANGED <<link, client, attempts, secure, resumed, queue, count, group, found, replies,
                 piped, crashed, writerVars>>

-----------------------------------------------------------------------------
Close ==
  /\ link' = "closed"
  /\ queue' = <<>> /\ resumed' = 0

(* handle_conn: the stream, then the capabilities as a greeting. *)
SieveGreet ==
  /\ link \in {"accept", "handshake"}
  /\ Send(<<Event(IF link = "accept" THEN "stream" ELSE "tls", 0, "session"), Bytes(0, "session")>>)
  /\ secure' = (link = "handshake")
  /\ link' = "reading"
  /\ UNCHANGED <<client, attempts, resumed, queue, count, group, found, server, bore, replies,
                 piped, crashed, stream, written>>

SieveAllows(cmd) ==
  \/ cmd \in {"Capability", "Logout", "Noop"}
  \/ cmd \in {"Authenticate", "Challenge"} /\ ~client /\ secure
  \/ cmd = "StartTls" /\ ~secure
  \/ cmd \in Verified /\ client

SieveRequest(tag, cmd, n, m) == [tag |-> tag, cmd |-> cmd, name |-> n, new |-> m]

(* Mutant: the challenge is taken up after the new requests. *)
SieveRead_ResumesLast(cmds) ==
  LET lines == [i \in DOMAIN cmds |-> SieveRequest(count + i, cmds[i][1], cmds[i][2], cmds[i][3])]
                 \o (IF resumed # 0 THEN <<SieveRequest(resumed, "Challenge", NoName, NoName)>> ELSE <<>>)
      refused == Picked(lines, {i \in DOMAIN lines : ~SieveAllows(lines[i].cmd)})
  IN  /\ link = "reading"
      /\ lines # <<>>
      /\ count + Len(cmds) <= MaxSieve
      /\ count' = count + Len(cmds)
      /\ group' = lines[1].tag
      /\ resumed' = 0
      /\ queue' = Picked(lines, {i \in DOMAIN lines : SieveAllows(lines[i].cmd)})
      /\ piped' = piped \cup {lines[i].tag : i \in 2..Len(lines)}
      /\ replies' = replies \o [i \in DOMAIN refused |-> refused[i].tag]
      /\ Send([i \in DOMAIN refused |-> Bytes(refused[i].tag, "session")])
      /\ link' = "running"
      /\ bore' = IF queue' = <<>> THEN {} ELSE Called(Head(queue').name)
      /\ UNCHANGED <<client, attempts, secure, found, server, crashed, stream, written>>

(* ingest, first loop. *)
SieveRead(cmds) ==
  LET lines == (IF resumed # 0 THEN <<SieveRequest(resumed, "Challenge", NoName, NoName)>> ELSE <<>>)
                 \o [i \in DOMAIN cmds |-> SieveRequest(count + i, cmds[i][1], cmds[i][2], cmds[i][3])]
      refused == Picked(lines, {i \in DOMAIN lines : ~SieveAllows(lines[i].cmd)})
  IN  /\ link = "reading"
      /\ lines # <<>>
      /\ count + Len(cmds) <= MaxSieve
      /\ count' = count + Len(cmds)
      /\ group' = lines[1].tag
      /\ resumed' = 0
      /\ queue' = Picked(lines, {i \in DOMAIN lines : SieveAllows(lines[i].cmd)})
      /\ piped' = piped \cup {lines[i].tag : i \in 2..Len(lines)}
      /\ replies' = replies \o [i \in DOMAIN refused |-> refused[i].tag]
      /\ Send([i \in DOMAIN refused |-> Bytes(refused[i].tag, "session")])
      /\ link' = "running"
      /\ bore' = IF queue' = <<>> THEN {} ELSE Called(Head(queue').name)
      /\ UNCHANGED <<client, attempts, secure, found, server, crashed, stream, written>>

(* A timeout, the shutdown, the peer hangs up, a write or a handshake fails. *)
SieveEnds ==
  /\ link \in {"accept", "reading", "handshake"} \/ (link # "closed" /\ ~Hearing)
  /\ Close
  /\ IF link = "reading" /\ Hearing THEN Send(<<Bytes(0, "session")>>) ELSE UNCHANGED chan
  /\ UNCHANGED <<client, attempts, secure, count, group, found, server, bore, replies, piped,
                 crashed, stream, written>>

-----------------------------------------------------------------------------
Turn(cmds) == link = "running" /\ queue # <<>> /\ Head(queue).cmd \in cmds
Asked == Head(queue)

(* The handler returns: an answer is written and the next request starts. *)
Replied ==
  /\ Send(<<Bytes(Asked.tag, "session")>>)
  /\ replies' = Append(replies, Asked.tag)
  /\ queue' = Tail(queue)
  /\ found' = {}
  /\ bore' = IF queue' = <<>> THEN {} ELSE {s \in Scripts : scripts'[s] = Head(queue').name}
  /\ UNCHANGED <<link, secure, count, group, piped, crashed, stream, written>>

(* Session::client() without a client. *)
SievePanic ==
  /\ Turn(WithClient)
  /\ ~client
  /\ crashed' = Asked.tag
  /\ Close
  /\ UNCHANGED <<client, attempts, secure, count, group, found, server, bore, replies, piped, writerVars>>

(* An argument is missing, there is no script by that name or the server refuses: NO.  *)
(* Arguments are looked at first, so that one is missing is answered without a client. *)
SieveRefused ==
  /\ Turn((WithClient \cup {"HaveSpace"}) \ {"ListScripts"}) \/ (Turn({"ListScripts"}) /\ client)
  /\ UNCHANGED <<client, attempts, resumed, server>>
  /\ Replied

(* Commands that change nothing. *)
Unchanging(cmd) ==
  /\ Turn({cmd})
  /\ cmd \in WithClient => client
  /\ UNCHANGED <<client, attempts, resumed, server>>
  /\ Replied

SieveCapability == Unchanging("Capability")
SieveNoop       == Unchanging("Noop")
HaveSpace       == Unchanging("HaveSpace")
ListScripts     == Unchanging("ListScripts")
CheckScript     == Unchanging("CheckScript")

PutScript ==
  /\ Turn({"PutScript"}) /\ client
  /\ CanTake(Asked.name)
  /\ \E s \in Scripts : scripts[s] = NoName /\ Named(s, Asked.name)
  /\ UNCHANGED <<client, attempts, resumed, active, others>>
  /\ Replied

(* Mutant: the query does not filter by name. *)
GetScriptId_AnyName ==
  /\ Turn(OnScript) /\ client
  /\ found = {}
  /\ found' = {s \in Scripts : scripts[s] # NoName}
  /\ UNCHANGED <<link, client, attempts, secure, resumed, queue, count, group, server, bore,
                 replies, piped, crashed, writerVars>>

(* get_script_id: the name that SETACTIVE "" gives is not looked up. *)
GetScriptId ==
  /\ Turn(OnScript) /\ client
  /\ Asked.name # NoName
  /\ found = {} /\ Called(Asked.name) # {}
  /\ found' = Called(Asked.name)
  /\ UNCHANGED <<link, client, attempts, secure, resumed, queue, count, group, server, bore,
                 replies, piped, crashed, writerVars>>

(* The second request: the id may have another name by now, or be gone. *)
OnFound(cmd, s) ==
  /\ Turn({cmd}) /\ client
  /\ s \in found /\ scripts[s] # NoName
  /\ UNCHANGED <<client, attempts, resumed, others>>

GetScript == \E s \in found :
  OnFound("GetScript", s) /\ UNCHANGED <<scripts, active>> /\ Replied

SetActive == \E s \in found :
  OnFound("SetActive", s) /\ active' = {s} /\ UNCHANGED scripts /\ Replied

DeleteScript == \E s \in found \ active :
  OnFound("DeleteScript", s) /\ Named(s, NoName) /\ UNCHANGED active /\ Replied

RenameScript == \E s \in found :
  OnFound("RenameScript", s) /\ CanTake(Asked.new) /\ Named(s, Asked.new) /\ UNCHANGED active /\ Replied

Deactivate ==
  /\ Turn({"SetActive"}) /\ client
  /\ Asked.name = NoName
  /\ active' = {}
  /\ UNCHANGED <<client, attempts, resumed, scripts, others>>
  /\ Replied

SieveAccepted ==
  /\ Turn({"Authenticate", "Challenge"})
  /\ client' = TRUE
  /\ UNCHANGED <<attempts, resumed, server>>
  /\ Replied

(* No challenge came with the command: the receiver resumes it with the next line. *)
SieveAskChallenge ==
  /\ Turn({"Authenticate"})
  /\ Send(<<Bytes(0, "session")>>)
  /\ resumed' = Asked.tag
  /\ queue' = Tail(queue)
  /\ bore' = IF queue' = <<>> THEN {} ELSE Called(Head(queue').name)
  /\ UNCHANGED <<link, client, attempts, secure, count, group, found, server, replies, piped,
                 crashed, stream, written>>

(* The mechanism is unknown or the challenge cannot be decoded. *)
SieveBadChallenge ==
  /\ Turn({"Authenticate", "Challenge"})
  /\ UNCHANGED <<client, attempts, resumed, server>>
  /\ Replied

SieveRejected ==
  /\ Turn({"Authenticate", "Challenge"}) /\ ~client
  /\ attempts < MaxAttempts
  /\ attempts' = attempts + 1
  /\ UNCHANGED <<client, resumed, server>>
  /\ Replied

(* The fourth failure, a server without Sieve, LOGOUT: a BYE and the end. *)
SieveBye ==
  /\ \/ Turn({"Logout"})
     \/ Turn({"Authenticate", "Challenge"})
  /\ Send(<<Bytes(Asked.tag, "session")>>)
  /\ Close
  /\ UNCHANGED <<client, attempts, secure, count, group, found, server, bore, replies, piped,
                 crashed, stream, written>>

SieveUnauthenticate ==
  /\ Turn({"Unauthenticate"})
  /\ client' = FALSE /\ attempts' = 0
  /\ UNCHANGED <<resumed, server>>
  /\ Replied

SieveStartTls ==
  /\ Turn({"StartTls"})
  /\ Send(<<Bytes(Asked.tag, "session"), Event("upgrade", 0, "session")>>)
  /\ replies' = Append(replies, Asked.tag)
  /\ link' = "lending"
  /\ queue' = <<>>
  /\ UNCHANGED <<client, attempts, secure, resumed, count, group, found, server, bore, piped,
                 crashed, stream, written>>

SieveGetStream ==
  /\ link = "lending" /\ stream = "lent"
  /\ link' = "handshake"
  /\ UNCHANGED <<client, attempts, secure, resumed, queue, count, group, found, server, bore,
                 replies, piped, crashed, writerVars>>

SieveEndBatch ==
  /\ link = "running" /\ queue = <<>>
  /\ link' = "reading"
  /\ UNCHANGED <<client, attempts, secure, resumed, queue, count, group, found, server, bore,
                 replies, piped, crashed, writerVars>>

SieveHandles ==
  \/ SievePanic \/ SieveRefused
  \/ SieveCapability \/ SieveNoop \/ HaveSpace \/ ListScripts \/ CheckScript
  \/ PutScript \/ GetScriptId \/ GetScript \/ SetActive \/ Deactivate \/ DeleteScript \/ RenameScript
  \/ SieveAccepted \/ SieveAskChallenge \/ SieveBadChallenge \/ SieveRejected \/ SieveBye \/ SieveUnauthenticate
  \/ SieveStartTls \/ SieveGetStream \/ SieveEndBatch

(* The requests of clients: the names that a command takes, with "" for SETACTIVE and *)
(* two that differ for RENAMESCRIPT.                                                 *)
SieveLines ==
  {l \in SieveCommands \X (Names \cup {NoName}) \X (Names \cup {NoName}) :
     /\ l[2] = NoName <=> l[1] \notin OnScript \cup {"PutScript"} \/ (l[1] = "SetActive" /\ l[2] = NoName)
     /\ l[3] # NoName <=> l[1] = "RenameScript" /\ l[2] # l[3]}

SieveNext ==
  \/ SieveGreet \/ SieveEnds \/ SieveHandles \/ ByOthers
  \/ link = "reading" /\ \E n \in 0..MaxPipelined : \E cmds \in [1..n -> SieveLines] : SieveRead(cmds)
  \/ (WriterStep(link # "closed") \/ WriterFails) /\ UNCHANGED sieve

SieveSpec == SieveInit /\ [][SieveNext]_sieveVars

-----------------------------------------------------------------------------
(* Answers carry no tag: a client that sends one request at a time finds them in the *)
(* order of its requests, also across AUTHENTICATE with a challenge and STARTTLS.    *)
(* Only a request read behind another one is answered before an earlier one.        *)
RepliesInOrder ==
  \A i, j \in DOMAIN replies : i < j /\ replies[i] > replies[j] => replies[i] \in piped

(* SETACTIVE, DELETESCRIPT and RENAMESCRIPT touch no script but one that has had the *)
(* name since the command began, whatever other clients do between the two requests. *)
ActsOnNamed ==
  [][\A s \in Scripts : others' = others /\ scripts[s] # NoName /\ scripts'[s] # scripts[s] => s \in bore]_sieveVars

(* A handler only finds no client after an UNAUTHENTICATE in the same read. *)
SievePanicsOnlyPipelined == crashed # 0 => crashed > group
=============================================================================
