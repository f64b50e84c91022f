----------------------------- MODULE CopyMove -----------------------------
(***************************************************************************)
(* COPY and MOVE (src/commands/copy_move.rs): one JMAP request of several   *)
(* Email/set or Email/copy calls, the UIDs of the copies in the destination *)
(* mailbox, the COPYUID response code, and for a MOVE the source mailbox    *)
(* as the session lists it and as the database records it.                  *)
(*                                                                         *)
(* A message of the source mailbox is named by its UID there.  A JMAP id is *)
(* a number too: in one account a copied message keeps its id, which is its *)
(* number; Email/copy makes a message with an id of the other account, any  *)
(* number that is unused there.                                             *)
(***************************************************************************)
EXTENDS Integers, SequencesExt

CONSTANTS
  Source,        \* UIDs of the messages in the source mailbox
  AccountIds,    \* bound: ids the other account may give to copies
  AlreadyThere,  \* source messages that are in the destination mailbox, too
  CrossAccount,  \* whether the mailboxes are in different accounts: the cases
  AllMail        \* whether the source is the virtual "All Mail": the cases

ASSUME CopyMoveAssumption ==
  /\ Source \subseteq Nat \ {0} /\ AccountIds \subseteq Nat \ {0}
  /\ IsFiniteSet(Source) /\ IsFiniteSet(AccountIds) /\ AlreadyThere \subseteq Source
  /\ CrossAccount \subseteq BOOLEAN /\ AllMail \subseteq BOOLEAN

VARIABLES
  pc,
  cross, allMail, isMove,
  named,       \* the messages of the command
  ids,         \* those of them that the server has not handled
  inSource,    \* server: the source mailbox
  copyOf,      \* server: what each id in the destination mailbox is a copy of
  destUids,    \* database: the UIDs of the destination mailbox
  srcRecords,  \* database: the live records of the source mailbox
  srcList,     \* the source mailbox as the session lists it (imap_uids, in ascending order)
  srcUids, copiedIds, destroyedIds,
  copyUid      \* the response code: two sets of UIDs

command == <<cross, allMail, isMove, named>>
server  == <<inSource, copyOf>>
answer  == <<srcUids, copiedIds, destroyedIds>>
vars    == <<pc, command, ids, server, destUids, srcRecords, srcList, answer, copyUid>>

\* Ids of copies are those of the messages, or of the other account.
Ids == Source \cup AccountIds

\* uid_next of the destination mailbox.
NextUid == 1 + Cardinality({j \in Ids : destUids[j] # 0})

TypeOK ==
  /\ pc \in {"send", "map", "expunge", "delete", "done", "no"}
  /\ cross \in CrossAccount /\ allMail \in AllMail /\ isMove \in BOOLEAN
  /\ named \subseteq Source /\ ids \subseteq named /\ inSource \subseteq Source /\ srcRecords \subseteq Source
  /\ copyOf \in [Ids -> Source \cup {0}] /\ destUids \in [Ids -> Nat]
  /\ srcList \subseteq Source /\ srcUids \subseteq named
  /\ ToSet(copiedIds) \subseteq Ids /\ destroyedIds \subseteq Source
  /\ copyUid.src \subseteq Source /\ copyUid.dest \subseteq Nat \ {0}

\* The command has passed handle_copy_move: the destination is another mailbox, a
\* real one.  sequence_to_jmap has found some messages.
Init ==
  /\ pc = "send"
  /\ cross \in CrossAccount /\ allMail \in AllMail /\ isMove \in BOOLEAN
  /\ named \in SUBSET Source \ {{}} /\ ids = named
  /\ inSource = Source
  /\ copyOf = [j \in Ids |-> IF ~cross /\ j \in AlreadyThere THEN j ELSE 0]
  /\ destUids = [j \in Ids |-> IF copyOf[j] # 0 THEN 1 + Cardinality({k \in AlreadyThere : k < j})
                               ELSE 0]
  /\ srcRecords = Source /\ srcList = Source
  /\ srcUids = {} /\ copiedIds = <<>> /\ destroyedIds = {}
  /\ copyUid = [src |-> {}, dest |-> {}]

-----------------------------------------------------------------------------
(* The JMAP request: what the server does to each message, in any order, and *)
(* what its responses say.                                                   *)

\* Another client takes a message away.
Vanish(m) ==
  /\ pc = "send" /\ m \in inSource
  /\ inSource' = inSource \ {m}
  /\ UNCHANGED <<pc, command, ids, copyOf, destUids, srcRecords, srcList, answer, copyUid>>

\* A response names the copy j of m: ids.get(&updated_id) looks the id of the
\* copy up among the messages of the command.
Copied(m, j) ==
  /\ m \in ids /\ m \in inSource
  /\ ids' = ids \ {m}
  /\ copyOf' = [copyOf EXCEPT ![j] = m]
  /\ copiedIds' = Append(copiedIds, j)
  /\ srcUids' = srcUids \cup ({j} \cap named)

\* Email/set: the destination mailbox is added and, in a MOVE, the source mailbox
\* removed, if there is one.
Set(m) ==
  /\ pc = "send" /\ ~cross
  /\ Copied(m, m)
  /\ inSource' = IF isMove /\ ~allMail THEN inSource \ {m} ELSE inSource
  /\ UNCHANGED <<pc, command, destUids, srcRecords, srcList, destroyedIds, copyUid>>

\* Email/copy; in a MOVE the server then destroys the original, or cannot.
Copy(m, j, destroyed) ==
  /\ pc = "send" /\ cross
  /\ j \in AccountIds /\ copyOf[j] = 0
  /\ destroyed => isMove
  /\ Copied(m, j)
  /\ inSource' = IF destroyed THEN inSource \ {m} ELSE inSource
  /\ destroyedIds' = IF destroyed THEN destroyedIds \cup {m} ELSE destroyedIds
  /\ UNCHANGED <<pc, command, destUids, srcRecords, srcList, copyUid>>

\* The server refuses one: it is not in the responses.
Refused(m) ==
  /\ pc = "send" /\ m \in ids
  /\ ids' = ids \ {m}
  /\ UNCHANGED <<pc, command, server, destUids, srcRecords, srcList, answer, copyUid>>

\* All responses have been read; without a copy the command fails.
Responded ==
  /\ pc = "send" /\ ids = {}
  /\ pc' = IF copiedIds = <<>> THEN "no" ELSE "map"
  /\ UNCHANGED <<command, ids, server, destUids, srcRecords, srcList, answer, copyUid>>

\* An error of the request, of one of its calls or of the database ends the
\* command, whatever the server has done.
Error ==
  /\ pc \in {"send", "map"}
  /\ pc' = "no"
  /\ UNCHANGED <<command, ids, server, destUids, srcRecords, srcList, answer, copyUid>>

-----------------------------------------------------------------------------
(* What the proxy makes of the responses. *)

\* jmap_to_imap with AddIfMissing, in the order of the ids.
Position(j) == CHOOSE i \in DOMAIN copiedIds : copiedIds[i] = j
NewUpTo(i)  == {h \in 1 .. i : destUids[copiedIds[h]] = 0}

Mapped ==
  [j \in Ids |-> IF j \in ToSet(copiedIds) /\ destUids[j] = 0
                 THEN NextUid - 1 + Cardinality(NewUpTo(Position(j)))
                 ELSE destUids[j]]

\* The COPYUID code: the two lists are sorted, each for itself, and written as
\* sequence sets.
DestUids(map) == {map[j] : j \in ToSet(copiedIds)}

Map ==
  /\ pc = "map"
  /\ destUids' = Mapped
  /\ copyUid' = [src |-> srcUids, dest |-> DestUids(Mapped)]
  /\ pc' = IF isMove THEN "expunge" ELSE "done"
  /\ UNCHANGED <<command, ids, server, srcRecords, srcList, answer>>

\* Mutant: the ids of the copies are removed from the source in both cases.
Moved_Copies == ToSet(copiedIds)

\* What a MOVE removes: what Email/set destroyed, or else the ids that were copied.
Moved == IF cross THEN destroyedIds ELSE ToSet(copiedIds)

Expunge ==
  /\ pc = "expunge"
  /\ srcList' = srcList \ Moved
  /\ pc' = "delete"
  /\ UNCHANGED <<command, ids, server, destUids, srcRecords, answer, copyUid>>

\* delete_ids, whose failure is ignored.
DeleteIds(ok) ==
  /\ pc = "delete"
  /\ srcRecords' = IF ok THEN srcRecords \ Moved ELSE srcRecords
  /\ pc' = "done"
  /\ UNCHANGED <<command, ids, server, destUids, srcList, answer, copyUid>>

Next ==
  \/ \E m \in Source : Vanish(m) \/ Set(m) \/ Refused(m)
  \/ \E m \in Source, j \in AccountIds, destroyed \in BOOLEAN : Copy(m, j, destroyed)
  \/ Responded \/ Error \/ Map \/ Expunge
  \/ \E ok \in BOOLEAN : DeleteIds(ok)

Spec == Init /\ [][Next]_vars

-----------------------------------------------------------------------------
(* Properties. *)

\* A MOVE takes from the session's list and from the database only messages that
\* have left the source mailbox, and every message it takes has its copy: a
\* message whose original could not be destroyed, or that was refused, keeps its
\* place and its UID.
MoveSparesPresent ==
  /\ inSource \subseteq srcList /\ inSource \subseteq srcRecords
  /\ \A m \in Source \ srcList : \E j \in ToSet(copiedIds) : copyOf[j] = m

\* Every message in the destination mailbox has a UID of its own, also those that were
\* there already, and COPYUID names those of the copies; in one account also their UIDs
\* in the source mailbox.
CopyUidComplete ==
  pc \in {"expunge", "delete", "done"} =>
    /\ copyUid.dest = {destUids[j] : j \in ToSet(copiedIds)} /\ 0 \notin copyUid.dest
    /\ \A j, k \in Ids : destUids[j] = destUids[k] /\ destUids[j] # 0 => j = k
    /\ cross \/ copyUid.src = ToSet(copiedIds)

\* Both: nothing a COPY or MOVE did for a message is lost or claimed without reason,
\* whatever is refused, fails or leaves meanwhile (copy_move).
CopiesAccounted == MoveSparesPresent /\ CopyUidComplete

=============================================================================
