----------------------------- MODULE MCModSeq -----------------------------
(***************************************************************************)
(* Two sessions whose database and JMAP server do not fail, or one session  *)
(* alone whose do, look up modseqs; or a client comes back with the one it   *)
(* knows.  Sessions are not symmetric: liveness is checked.                 *)
(***************************************************************************)
EXTENDS ModSeq, Resync

CONSTANT Single   \* the session that is alone

VARIABLE part

MCvars == <<part, vars, resyncVars>>

MCInit == Init /\ ResyncInit /\ part \in {"together", "alone", "resync"}

MCNext ==
  /\ UNCHANGED part
  /\ \/ /\ part = "alone" /\ Next /\ UNCHANGED resyncVars
        /\ \A c \in Sessions \ {Single} : pc'[c] = "idle"
     \/ /\ part = "together" /\ Next /\ UNCHANGED resyncVars
        /\ \A c \in Sessions : pc[c] # "idle" /\ pc'[c] = "idle" => Report(c)
     \/ part = "resync" /\ ResyncNext /\ UNCHANGED vars

MCSpec == MCInit /\ [][MCNext]_MCvars /\ Fairness

\* "make sure the modseq increased" (tests/condstore.rs): a session that is alone reports
\* a greater modseq with every later state, also after failures.
ModseqIncreases == [][part = "alone" => Increases]_MCvars

\* Every modseq a client was told is one modseq_to_state can resolve in the end,
\* although a session may report it between the two inserts of another one.
ReportedResolves == part = "together" => \A m \in Modseqs : Resolves(m)
=============================================================================
