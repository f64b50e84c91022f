---------------------------- MODULE MCCommands ----------------------------
(***************************************************************************)
(* One of the parts of a session that handle a command's text or carry a    *)
(* command out; the others stay as they begin.                              *)
(***************************************************************************)
EXTENDS CopyMove, CondStore, SavedSearch, Receiver, SearchFilter

VARIABLES
  part,
  asked   \* a sequence set and the largest number in the mailbox

MCvars == <<part, asked, vars, storeVars, savedVars, receiverVars, filterVars>>

Ask(seq, isUid, since, silent) == [seq |-> seq, isUid |-> isUid, since |-> since, silent |-> silent]

AllSince(since) == Ask(<<Range2(1, Star)>>, TRUE, since, FALSE)
MCStores == {AllSince(1), Ask(<<Range2(1, Star)>>, FALSE, 0, TRUE),
             Ask(<<Number(1), Range2(Star, 3)>>, TRUE, 0, TRUE), Ask(<<Range2(3, 1)>>, TRUE, NoModseq, FALSE)}

\* An empty one, an ordinary one, one to be escaped in quotes and one for literals only.
MCArguments == {<<>>, <<"a">>, <<DQUOTE, BSLASH>>, <<"(", LF, "a">>}

MCInit ==
  /\ part \in {"copy", "store", "saved", "receiver", "filter", "sets"}
  /\ part # "copy" => cross = FALSE /\ isMove = FALSE /\ named = Source
  /\ part # "receiver" => startState = "start"
  /\ part # "filter" => program = Key("all")
  /\ Init /\ StoreInit /\ SavedInit /\ ReceiverInit /\ FilterInit
  /\ part # "store" => store.arg = AllSince(1)
  /\ IF part = "sets" THEN asked \in ClientSets \X (0 .. 3) ELSE asked = <<<<SavedSet>>, 0>>

MCNext ==
  /\ UNCHANGED <<part, asked>>
  /\ \/ part = "copy" /\ Next /\ UNCHANGED <<storeVars, savedVars, receiverVars, filterVars>>
     \/ part = "store" /\ StoreNext /\ UNCHANGED <<vars, savedVars, receiverVars, filterVars>>
     \/ part = "saved" /\ SavedNext /\ UNCHANGED <<vars, storeVars, receiverVars, filterVars>>
     \/ part = "receiver" /\ ReceiverNext /\ UNCHANGED <<vars, storeVars, savedVars, filterVars>>
     \/ part = "filter" /\ FilterNext /\ UNCHANGED <<vars, storeVars, savedVars, receiverVars>>

MCSpec == MCInit /\ [][MCNext]_MCvars /\ SavedFairness

\* The type invariants of the parts; in Receiver also the limits of literals and quotes.
TypesOK == TypeOK /\ StoreTypeOK /\ SavedTypeOK /\ ReceiverTypeOK

\* Every sequence set a client may write is read as it is meant, and the two ways to use
\* it agree, with every size of the mailbox (parse_sequence_set, contains, expand).
SetsUnderstood == part = "sets" => ReadAsMeant(asked[1]) /\ ReadingsAgree(asked[1], asked[2])
=============================================================================
