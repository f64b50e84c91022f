---------------------------- MODULE MCFrontEnds ----------------------------
(* What the server spawns: a connection to one of the two ports, IMAP or       *)
(* ManageSieve, or the housekeeper; the others stay as they are created.       *)
EXTENDS ImapSession, ManageSieve, Housekeeper

VARIABLE port

MCvars == <<port, imapVars, sieve, keeperVars>>

\* Before, in and after the hours in which the day of the week is accepted; a day that is
\* none, and one beyond the week.
MCSchedules == {[hour |-> h, day |-> d] : h \in {0, 3, 23}, d \in {Daily, 0, 1, 5, 7, 30}}
MCStartTimes == {24 * d + h : d \in 0 .. 6, h \in {3, 12}}

MCInit == /\ Init /\ SieveInit /\ KeeperInit
          /\ port \in {"imap", "sieve", "none"}
          /\ port # "imap" => ~isTls
          /\ port # "none" => cron = [hour |-> 3, day |-> Daily] /\ clock = 3

MCNext == \/ port = "imap" /\ Next /\ UNCHANGED <<port, sieve, keeperVars>>
          \/ port = "sieve" /\ SieveNext /\ UNCHANGED <<port, session, keeperVars>>
          \/ port = "none" /\ KeeperNext /\ UNCHANGED <<port, imapVars, sieve>>

MCSpec == MCInit /\ [][MCNext]_MCvars /\ Fairness

\* The type invariants, and that no connection survives more failed attempts to
\* authenticate than it should.
TypesOK == TypeOK /\ FailuresBounded /\ SieveTypeOK

\* No unreachable!() or unwrap of the front ends is reached but by requests read behind
\* another one: in the accessors of State, in the writer and in ManageSieve's handlers.
PanicsOnlyPipelined == ImapPanicsOnlyPipelined /\ UpgradeThenTls /\ SievePanicsOnlyPipelined
=============================================================================
