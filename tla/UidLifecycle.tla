--------------------------- MODULE UidLifecycle ---------------------------
(***************************************************************************)
(* What the UID cache promises to the clients of a mailbox, whatever the    *)
(* tasks behind it do: a UID is free, is given to a task, names one message *)
(* and then none.  UIDs are given in ascending order without gaps, and none *)
(* returns to an earlier stage of its life; only when the mailbox as a      *)
(* whole is dropped does everything start again, under a new UIDVALIDITY.   *)
(***************************************************************************)
EXTENDS Integers

CONSTANTS Messages, NoMessage, Numbers

VARIABLES
  life,     \* the stage of each UID: free, given, shown or gone
  names,    \* the message a UID that is shown names, else NoMessage
  dropped   \* the mailbox was dropped: nothing more is promised

LifecycleInit ==
  /\ life = [u \in Numbers |-> "free"]
  /\ names = [u \in Numbers |-> NoMessage]
  /\ dropped = FALSE

Give(u) ==
  /\ life[u] = "free"
  /\ \A k \in Numbers : k < u => life[k] # "free"
  /\ life' = [life EXCEPT ![u] = "given"]
  /\ UNCHANGED <<names, dropped>>

Show(u, j) ==
  /\ life[u] = "given"
  /\ life' = [life EXCEPT ![u] = "shown"]
  /\ names' = [names EXCEPT ![u] = j]
  /\ UNCHANGED dropped

\* Messages leave the mailbox together, or a task gives up with its UID.
Retire(gone) ==
  /\ \A u \in gone : life[u] \in {"given", "shown"}
  /\ life' = [u \in Numbers |-> IF u \in gone THEN "gone" ELSE life[u]]
  /\ names' = [u \in Numbers |-> IF u \in gone THEN NoMessage ELSE names[u]]
  /\ UNCHANGED dropped

Drop == dropped'

LifecycleNext ==
  \/ \E u \in Numbers : Give(u) \/ \E j \in Messages : Show(u, j)
  \/ \E gone \in SUBSET Numbers : Retire(gone)
  \/ Drop

LifecycleSpec == LifecycleInit /\ [][LifecycleNext]_<<life, names, dropped>>

=============================================================================
