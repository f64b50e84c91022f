------------------------------ MODULE ModSeq ------------------------------
(***************************************************************************)
(* The map between the states of a JMAP account and the MODSEQ numbers of   *)
(* CONDSTORE (state_to_modseq and modseq_to_state of src/core/mailbox.rs),   *)
(* kept in the sled database that all sessions share.                       *)
(*                                                                         *)
(* A JMAP state is an opaque string; only the server knows their order.     *)
(* Here it is the number of changes made to the account, which the closures *)
(* never compare: they use it as a key and nothing else.  A session obtains *)
(* a state from the server and, later, its modseq from the database; nothing *)
(* joins the two steps.                                                     *)
(***************************************************************************)
EXTENDS Integers

CONSTANTS
  Sessions,   \* sessions on the account, one request at a time each
  MayFail,    \* whether database accesses and JMAP calls may fail
  MaxState,   \* bound: changes to the account
  MaxModseq   \* bound: modseqs generated

ASSUME ModSeqAssumption == /\ MayFail \in BOOLEAN
                           /\ MaxState \in Nat \ {0}
                           /\ MaxModseq \in Nat

VARIABLES
  jmapState,      \* the account's state on the JMAP server
  stateToModseq,  \* STATE_TO_MODSEQ keys, 0 when there is no key
  modseqToState,  \* MODSEQ_TO_STATE keys, 0 when there is no key
  highestModseq,  \* HIGHEST_MODSEQ key, 0 when there is no key
  pc,
  state,          \* the state the session looks up
  modseq,         \* its modseq
  last,           \* history: the session's last report to its client
  reports         \* history: what clients were told, by all sessions

db   == <<stateToModseq, modseqToState, highestModseq>>
vars == <<jmapState, db, pc, state, modseq, last, reports>>

States  == 1..MaxState
Modseqs == 1..MaxModseq
Reports == [modseq : Modseqs, state : States]
NoReport == [modseq |-> 0, state |-> 0]

TypeOK ==
  /\ jmapState \in States
  /\ stateToModseq \in [States -> 0..MaxModseq]
  /\ modseqToState \in [Modseqs -> 0..MaxState]
  /\ highestModseq \in 0..MaxModseq
  /\ pc \in [Sessions -> {"idle", "changes", "get", "increment", "put_modseq",
                          "put_state", "report"}]
  /\ state \in [Sessions -> 0..MaxState]
  /\ modseq \in [Sessions -> 0..MaxModseq]
  /\ last \in [Sessions -> Reports \cup {NoReport}]
  /\ reports \in SUBSET Reports

Init ==
  /\ jmapState = 1
  /\ stateToModseq = [s \in States |-> 0]
  /\ modseqToState = [m \in Modseqs |-> 0]
  /\ highestModseq = 0
  /\ pc = [c \in Sessions |-> "idle"]
  /\ state = [c \in Sessions |-> 0]
  /\ modseq = [c \in Sessions |-> 0]
  /\ last = [c \in Sessions |-> NoReport]
  /\ reports = {}

\* Another client changes the account.
Change ==
  /\ jmapState < MaxState
  /\ jmapState' = jmapState + 1
  /\ UNCHANGED <<db, pc, state, modseq, last, reports>>

\* SELECT, STATUS and FETCH: the state of an Email/get response.
ReadState(c) ==
  /\ pc[c] = "idle"
  /\ state' = [state EXCEPT ![c] = jmapState]
  /\ pc' = [pc EXCEPT ![c] = "get"]
  /\ UNCHANGED <<jmapState, db, modseq, last, reports>>

\* STORE, and FETCH that sets \Seen: the new state of an Email/set response.
SetEmail(c) ==
  /\ pc[c] = "idle"
  /\ jmapState < MaxState
  /\ jmapState' = jmapState + 1
  /\ state' = [state EXCEPT ![c] = jmapState + 1]
  /\ pc' = [pc EXCEPT ![c] = "get"]
  /\ UNCHANGED <<db, modseq, last, reports>>

\* modseq_to_state for a modseq some client was told: FETCH CHANGEDSINCE, STORE
\* UNCHANGEDSINCE and SEARCH MODSEQ.  An unknown modseq is answered with BAD.
Since(c, r) ==
  /\ pc[c] = "idle"
  /\ modseqToState[r.modseq] # 0
  /\ state' = [state EXCEPT ![c] = modseqToState[r.modseq]]
  /\ modseq' = [modseq EXCEPT ![c] = r.modseq]
  /\ pc' = [pc EXCEPT ![c] = "changes"]
  /\ UNCHANGED <<jmapState, db, last, reports>>

\* Email/changes since that state answers with the current one.
Changes(c) ==
  /\ pc[c] = "changes"
  /\ state' = [state EXCEPT ![c] = jmapState]
  /\ modseq' = [modseq EXCEPT ![c] = 0]
  /\ pc' = [pc EXCEPT ![c] = "get"]
  /\ UNCHANGED <<jmapState, db, last, reports>>

\* Mutant: no key is read as modseq 0.
Get_OrZero(c) ==
  /\ pc[c] = "get"
  /\ modseq' = [modseq EXCEPT ![c] = stateToModseq[state[c]]]
  /\ pc' = [pc EXCEPT ![c] = "report"]
  /\ UNCHANGED <<jmapState, db, state, last, reports>>

\* Mutant: a state without a modseq gets the latest one.
Get_Latest(c) ==
  LET m == IF stateToModseq[state[c]] # 0 THEN stateToModseq[state[c]] ELSE highestModseq IN
  /\ pc[c] = "get"
  /\ modseq' = [modseq EXCEPT ![c] = m]
  /\ pc' = [pc EXCEPT ![c] = IF m # 0 THEN "report" ELSE "increment"]
  /\ UNCHANGED <<jmapState, db, state, last, reports>>

\* state_to_modseq: the get,
Get(c) ==
  /\ pc[c] = "get"
  /\ modseq' = [modseq EXCEPT ![c] = stateToModseq[state[c]]]
  /\ pc' = [pc EXCEPT ![c] = IF stateToModseq[state[c]] # 0 THEN "report" ELSE "increment"]
  /\ UNCHANGED <<jmapState, db, state, last, reports>>

\* Mutant: the incremented counter is not stored.
Increment_NotStored(c) ==
  /\ pc[c] = "increment"
  /\ highestModseq < MaxModseq
  /\ modseq' = [modseq EXCEPT ![c] = highestModseq + 1]
  /\ pc' = [pc EXCEPT ![c] = "put_modseq"]
  /\ UNCHANGED <<jmapState, db, state, last, reports>>

\* update_and_fetch of HIGHEST_MODSEQ,
Increment(c) ==
  /\ pc[c] = "increment"
  /\ highestModseq < MaxModseq
  /\ highestModseq' = highestModseq + 1
  /\ modseq' = [modseq EXCEPT ![c] = highestModseq + 1]
  /\ pc' = [pc EXCEPT ![c] = "put_modseq"]
  /\ UNCHANGED <<jmapState, stateToModseq, modseqToState, state, last, reports>>

\* Mutant: the second insert is forgotten.
PutModseq_Only(c) ==
  /\ pc[c] = "put_modseq"
  /\ stateToModseq' = [stateToModseq EXCEPT ![state[c]] = modseq[c]]
  /\ pc' = [pc EXCEPT ![c] = "report"]
  /\ UNCHANGED <<jmapState, modseqToState, highestModseq, state, modseq, last, reports>>

\* the insert of the STATE_TO_MODSEQ key,
PutModseq(c) ==
  /\ pc[c] = "put_modseq"
  /\ stateToModseq' = [stateToModseq EXCEPT ![state[c]] = modseq[c]]
  /\ pc' = [pc EXCEPT ![c] = "put_state"]
  /\ UNCHANGED <<jmapState, modseqToState, highestModseq, state, modseq, last, reports>>

\* and the insert of the MODSEQ_TO_STATE key.
PutState(c) ==
  /\ pc[c] = "put_state"
  /\ modseqToState' = [modseqToState EXCEPT ![modseq[c]] = state[c]]
  /\ pc' = [pc EXCEPT ![c] = "report"]
  /\ UNCHANGED <<jmapState, stateToModseq, highestModseq, state, modseq, last, reports>>

\* The modseq goes out in HIGHESTMODSEQ or MODSEQ, for what the session knows
\* of the account in that state.
Report(c) ==
  LET r == [modseq |-> modseq[c], state |-> state[c]] IN
  /\ pc[c] = "report"
  /\ last' = [last EXCEPT ![c] = r]
  /\ reports' = reports \cup {r}
  /\ pc' = [pc EXCEPT ![c] = "idle"]
  /\ state' = [state EXCEPT ![c] = 0]
  /\ modseq' = [modseq EXCEPT ![c] = 0]
  /\ UNCHANGED <<jmapState, db>>

\* A database error or a JMAP error ends the request where it is.
Fail(c) ==
  /\ MayFail
  /\ pc[c] # "idle"
  /\ pc' = [pc EXCEPT ![c] = "idle"]
  /\ state' = [state EXCEPT ![c] = 0]
  /\ modseq' = [modseq EXCEPT ![c] = 0]
  /\ UNCHANGED <<jmapState, db, last, reports>>

StateToModseq(c) ==
  Get(c) \/ Increment(c) \/ PutModseq(c) \/ PutState(c) \/ Report(c)

Next ==
  \/ Change
  \/ \E c \in Sessions :
       \/ ReadState(c) \/ SetEmail(c)
       \/ \E r \in reports : Since(c, r)
       \/ Changes(c) \/ StateToModseq(c) \/ Fail(c)

Spec == Init /\ [][Next]_vars

\* A closure handed to the worker pool runs to its end.
Fairness == \A c \in Sessions : WF_vars(Changes(c) \/ StateToModseq(c))

-----------------------------------------------------------------------------
(* Properties. *)

\* What a client was told stands: a modseq given for a state, by any session,
\* resolves to that state or to none at all, so that CHANGEDSINCE and
\* UNCHANGEDSINCE ask the server for the changes since exactly the state the
\* client knows, and none is missed.
ModseqNamesOneState ==
  /\ \A r \in reports : modseqToState[r.modseq] \in {0, r.state}
  /\ \A r1, r2 \in reports : r1.modseq = r2.modseq => r1.state = r2.state
  /\ \A c \in Sessions : pc[c] = "changes" =>
       \A r \in reports : r.modseq = modseq[c] => r.state = state[c]

\* A step that reports a later state than the session did before reports a greater
\* modseq.
Increases ==
  \A c \in Sessions : last[c] # NoReport /\ last'[c].state > last[c].state
                        => last'[c].modseq > last[c].modseq

\* modseqToState resolves modseq m, in the end.
Resolves(m) == (\E r \in reports : r.modseq = m) ~> (modseqToState[m] # 0)

=============================================================================
