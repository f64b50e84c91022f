--------------------------- MODULE ModSeqProofs ---------------------------
(***************************************************************************)
(* ModSeq keeps its types and ModseqNamesOneState for any number of         *)
(* sessions, states and modseqs, whatever fails.                            *)
(*                                                                         *)
(* A claim is a pair (modseq, state) found anywhere: in either map, in what  *)
(* a client was told, or in the hands of a session.  The inductive          *)
(* invariant says that claims on a modseq agree and that none is above      *)
(* HIGHEST_MODSEQ.  Only Increment makes a claim no one had before, and it   *)
(* makes it on a modseq above all others.                                   *)
(*                                                                         *)
(* The last part is ModseqIncreases, of a session that is alone.             *)
(***************************************************************************)
EXTENDS MCModSeq, FiniteSetTheorems, TLAPS

Holding == {"changes", "put_modseq", "put_state", "report"}

Claim(m, s) ==
  \/ stateToModseq[s] = m
  \/ modseqToState[m] = s
  \/ [modseq |-> m, state |-> s] \in reports
  \/ \E c \in Sessions : pc[c] \in Holding /\ modseq[c] = m /\ state[c] = s

\* The pcs at which the session holds a state, and a modseq.
Held ==
  \A c \in Sessions :
    /\ pc[c] # "idle" => state[c] \in States
    /\ pc[c] \in Holding => modseq[c] \in Modseqs

ClaimsBounded == \A m \in Modseqs, s \in States : Claim(m, s) => m <= highestModseq
ClaimsAgree ==
  \A m \in Modseqs, s1, s2 \in States : Claim(m, s1) /\ Claim(m, s2) => s1 = s2

ClaimInv == TypeOK /\ Held /\ ClaimsBounded /\ ClaimsAgree

\* The types and the values that pcs guarantee, at the start.
LEMMA InitClaimInv == Init => ClaimInv
<1> SUFFICES ASSUME Init PROVE ClaimInv
  OBVIOUS
<1>1. TypeOK /\ Held
  BY ModSeqAssumption DEF Init, TypeOK, Held, Holding, States, Modseqs, Reports, NoReport
<1>2. \A m \in Modseqs, s \in States : ~Claim(m, s)
  BY ModSeqAssumption DEF Init, Claim, Holding, States, Modseqs
<1> QED
  BY <1>1, <1>2 DEF ClaimInv, ClaimsBounded, ClaimsAgree

\* Every step keeps the types.
LEMMA TypeStep == TypeOK /\ Held /\ [Next]_vars => TypeOK' /\ Held'
<1> SUFFICES ASSUME TypeOK, Held, [Next]_vars PROVE TypeOK' /\ Held'
  OBVIOUS
<1> USE ModSeqAssumption DEF TypeOK, Held, Holding, States, Modseqs, Reports, NoReport, db
<1>1. CASE Change
  BY <1>1 DEF Change
<1>2. ASSUME NEW c \in Sessions, ReadState(c) PROVE TypeOK' /\ Held'
  BY <1>2 DEF ReadState
<1>3. ASSUME NEW c \in Sessions, SetEmail(c) PROVE TypeOK' /\ Held'
  <2>1. jmapState + 1 \in 1..MaxState
    BY <1>3 DEF SetEmail
  <2>2. TypeOK'
    BY <1>3, <2>1 DEF SetEmail
  <2>3. Held'
    BY <1>3, <2>1 DEF SetEmail
  <2> QED
    BY <2>2, <2>3
<1>4. ASSUME NEW c \in Sessions, NEW r \in reports, Since(c, r) PROVE TypeOK' /\ Held'
  <2>1. r.modseq \in 1..MaxModseq
    OBVIOUS
  <2>2. modseqToState[r.modseq] \in 1..MaxState
    BY <1>4, <2>1 DEF Since
  <2> DEFINE m == r.modseq
             s == modseqToState[m]
  <2>3. state' = [state EXCEPT ![c] = s] /\ modseq' = [modseq EXCEPT ![c] = m]
    BY <1>4 DEF Since
  <2>4. s \in 0..MaxState /\ m \in 0..MaxModseq
    BY <2>1, <2>2
  <2> HIDE DEF s, m
  <2>5. state' \in [Sessions -> 0..MaxState] /\ modseq' \in [Sessions -> 0..MaxModseq]
    BY <2>3, <2>4
  <2>6. TypeOK'
    BY <1>4, <2>5 DEF Since
  <2>7. Held'
    BY <1>4, <2>1, <2>2 DEF Since
  <2> QED
    BY <2>6, <2>7
<1>5. ASSUME NEW c \in Sessions, Changes(c) PROVE TypeOK' /\ Held'
  BY <1>5, SMTT(30) DEF Changes
<1>6. ASSUME NEW c \in Sessions, Get(c) PROVE TypeOK' /\ Held'
  BY <1>6, SMTT(30) DEF Get
<1>7. ASSUME NEW c \in Sessions, Increment(c) PROVE TypeOK' /\ Held'
  BY <1>7, SMTT(30) DEF Increment
<1>8. ASSUME NEW c \in Sessions, PutModseq(c) PROVE TypeOK' /\ Held'
  BY <1>8 DEF PutModseq
<1>9. ASSUME NEW c \in Sessions, PutState(c) PROVE TypeOK' /\ Held'
  BY <1>9 DEF PutState
<1>10. ASSUME NEW c \in Sessions, Report(c) PROVE TypeOK' /\ Held'
  <2> DEFINE r == [modseq |-> modseq[c], state |-> state[c]]
  <2>1. r \in Reports
    BY <1>10 DEF Report
  <2>2. last' = [last EXCEPT ![c] = r] /\ reports' = reports \cup {r}
    BY <1>10 DEF Report
  <2>3. last' \in [Sessions -> Reports \cup {NoReport}] /\ reports' \in SUBSET Reports
    BY <2>1, <2>2
  <2>4. TypeOK'
    BY SMTT(60), <1>10, <2>3 DEF Report
  <2>5. Held'
    BY <1>10 DEF Report
  <2> QED
    BY <2>4, <2>5
<1>11. ASSUME NEW c \in Sessions, Fail(c) PROVE TypeOK' /\ Held'
  BY <1>11 DEF Fail
<1>12. CASE UNCHANGED vars
  BY <1>12 DEF vars
<1> QED
  BY <1>1, <1>2, <1>3, <1>4, <1>5, <1>6, <1>7, <1>8, <1>9, <1>10, <1>11, <1>12
     DEF Next, StateToModseq

\* Every step but Increment only copies claims or drops them.
LEMMA NoNewClaim ==
  ASSUME ClaimInv, [Next]_vars, ~ \E c \in Sessions : Increment(c),
         NEW m \in Modseqs, NEW s \in States, Claim(m, s)'
  PROVE  Claim(m, s)
<1> USE ModSeqAssumption DEF ClaimInv, TypeOK, Held, Holding, States, Modseqs, Reports, db, Claim
<1>1. CASE Change
  BY <1>1 DEF Change
<1>2. ASSUME NEW c \in Sessions, ReadState(c) PROVE Claim(m, s)
  BY <1>2 DEF ReadState
<1>3. ASSUME NEW c \in Sessions, SetEmail(c) PROVE Claim(m, s)
  BY <1>3 DEF SetEmail
<1>4. ASSUME NEW c \in Sessions, NEW r \in reports, Since(c, r) PROVE Claim(m, s)
  BY <1>4 DEF Since
<1>5. ASSUME NEW c \in Sessions, Changes(c) PROVE Claim(m, s)
  BY <1>5 DEF Changes
<1>6. ASSUME NEW c \in Sessions, Get(c) PROVE Claim(m, s)
  BY <1>6 DEF Get
<1>8. ASSUME NEW c \in Sessions, PutModseq(c) PROVE Claim(m, s)
  BY <1>8 DEF PutModseq
<1>9. ASSUME NEW c \in Sessions, PutState(c) PROVE Claim(m, s)
  BY <1>9 DEF PutState
<1>10. ASSUME NEW c \in Sessions, Report(c) PROVE Claim(m, s)
  BY <1>10 DEF Report
<1>11. ASSUME NEW c \in Sessions, Fail(c) PROVE Claim(m, s)
  BY <1>11 DEF Fail
<1>12. CASE UNCHANGED vars
  BY <1>12 DEF vars
<1> QED
  BY <1>1, <1>2, <1>3, <1>4, <1>5, <1>6, <1>8, <1>9, <1>10, <1>11, <1>12
     DEF Next, StateToModseq

\* Increment claims the new HIGHEST_MODSEQ and nothing else.
LEMMA FreshClaim ==
  ASSUME ClaimInv, NEW c \in Sessions, Increment(c),
         NEW m \in Modseqs, NEW s \in States, Claim(m, s)'
  PROVE  Claim(m, s) \/ (m = highestModseq + 1 /\ s = state[c])
BY DEF Increment, ClaimInv, TypeOK, Held, Holding, Claim

\* Every step keeps the inductive invariant: Increment by the freshness of its
\* modseq, the others because they make no new claim.
LEMMA ClaimStep == ClaimInv /\ [Next]_vars => ClaimInv'
<1> SUFFICES ASSUME ClaimInv, [Next]_vars PROVE ClaimInv'
  OBVIOUS
<1>1. TypeOK' /\ Held'
  BY TypeStep DEF ClaimInv
<1>2. CASE \E c \in Sessions : Increment(c)
  <2>1. PICK c \in Sessions : Increment(c)
    BY <1>2
  <2>2. highestModseq \in Nat /\ highestModseq' = highestModseq + 1
    BY <2>1, ModSeqAssumption DEF Increment, ClaimInv, TypeOK
  <2>3. ClaimsBounded'
    BY <2>1, <2>2, FreshClaim, ModSeqAssumption DEF ClaimInv, ClaimsBounded, Modseqs
  <2>4. ClaimsAgree'
    <3> SUFFICES ASSUME NEW m \in Modseqs, NEW s1 \in States, NEW s2 \in States,
                        Claim(m, s1)', Claim(m, s2)'
                 PROVE  s1 = s2
      BY DEF ClaimsAgree
    <3>1. \A s \in States : Claim(m, s) => m # highestModseq + 1
      BY <2>2, ModSeqAssumption DEF ClaimInv, ClaimsBounded, Modseqs
    <3>2. /\ Claim(m, s1) \/ (m = highestModseq + 1 /\ s1 = state[c])
          /\ Claim(m, s2) \/ (m = highestModseq + 1 /\ s2 = state[c])
      BY <2>1, FreshClaim
    <3> QED
      BY <3>1, <3>2 DEF ClaimInv, ClaimsAgree
  <2> QED
    BY <1>1, <2>3, <2>4 DEF ClaimInv
<1>3. CASE ~ \E c \in Sessions : Increment(c)
  <2>1. \A m \in Modseqs, s \in States : Claim(m, s)' => Claim(m, s)
    BY <1>3, NoNewClaim
  <2>2. highestModseq' = highestModseq
    BY <1>3 DEF Next, StateToModseq, Change, ReadState, SetEmail, Since, Changes, Get,
                PutModseq, PutState, Report, Fail, vars, db
  <2> QED
    BY <1>1, <2>1, <2>2 DEF ClaimInv, ClaimsBounded, ClaimsAgree
<1> QED
  BY <1>2, <1>3

\* Types hold, for every number of sessions, states and modseqs.
THEOREM ModSeqTyped == Spec => []TypeOK
<1>1. ClaimInv => TypeOK
  BY DEF ClaimInv
<1> QED
  BY InitClaimInv, ClaimStep, <1>1, PTL DEF Spec

\* A modseq that any session told any client designates one state for ever.
THEOREM ModseqNamesOneStateAlways == Spec => []ModseqNamesOneState
<1>1. ClaimInv => ModseqNamesOneState
  <2> SUFFICES ASSUME ClaimInv PROVE ModseqNamesOneState
    OBVIOUS
  <2> USE ModSeqAssumption DEF ClaimInv, TypeOK, Held, Holding, States, Modseqs, Reports
  <2>1. \A r \in reports : r.modseq \in Modseqs /\ r.state \in States /\ Claim(r.modseq, r.state)
    BY DEF Claim
  <2>2. \A m \in Modseqs : modseqToState[m] # 0 => Claim(m, modseqToState[m])
    BY DEF Claim
  <2>3. \A c \in Sessions : pc[c] = "changes" => Claim(modseq[c], state[c])
    BY DEF Claim
  <2>4. \A r \in reports : modseqToState[r.modseq] \in {0, r.state}
    BY <2>1, <2>2 DEF ClaimsAgree
  <2>5. \A r1, r2 \in reports : r1.modseq = r2.modseq => r1.state = r2.state
    BY <2>1 DEF ClaimsAgree
  <2>6. \A c \in Sessions : pc[c] = "changes" =>
          \A r \in reports : r.modseq = modseq[c] => r.state = state[c]
    BY <2>1, <2>3 DEF ClaimsAgree
  <2> QED
    BY <2>4, <2>5, <2>6 DEF ModseqNamesOneState
<1> QED
  BY InitClaimInv, ClaimStep, <1>1, PTL DEF Spec

-----------------------------------------------------------------------------
(***************************************************************************)
(* A session that is alone reports a greater modseq with a later state: the  *)
(* states that have a modseq have them in the order of the states, and the   *)
(* state in the session's hands is none before one of these.                 *)
(***************************************************************************)

\* The pcs at which a session has a state that the server just gave it.
LookingUp == {"get", "increment", "put_modseq", "put_state", "report"}

OthersIdle == \A c \in Sessions \ {Single} : pc[c] = "idle"

InOrder ==
  /\ \A s \in States : stateToModseq[s] <= highestModseq
  /\ \A s \in States : stateToModseq[s] # 0 => s <= jmapState
  /\ \A s1, s2 \in States :
       s1 < s2 /\ stateToModseq[s1] # 0 /\ stateToModseq[s2] # 0
         => stateToModseq[s1] < stateToModseq[s2]

ReportStands ==
  \A c \in Sessions : last[c] # NoReport => stateToModseq[last[c].state] = last[c].modseq

HoldsLatest ==
  \A c \in Sessions :
    /\ pc[c] \in LookingUp => /\ state[c] <= jmapState
                              /\ \A s \in States : stateToModseq[s] # 0 => s <= state[c]
    /\ pc[c] \in {"increment", "put_modseq"} => stateToModseq[state[c]] = 0
    /\ pc[c] = "put_modseq" => /\ modseq[c] <= highestModseq
                               /\ \A s \in States : stateToModseq[s] < modseq[c]
    /\ pc[c] \in {"put_state", "report"} => stateToModseq[state[c]] = modseq[c]

AloneInv == TypeOK /\ Held /\ OthersIdle /\ InOrder /\ ReportStands /\ HoldsLatest

\* It holds at the start.
LEMMA InitAloneInv == Init => AloneInv
BY InitClaimInv, ModSeqAssumption
   DEF ClaimInv, Init, AloneInv, OthersIdle, InOrder, ReportStands, HoldsLatest, LookingUp,
       TypeOK, States, Modseqs, NoReport

\* Every step of a session that is alone keeps it.
LEMMA AloneStep ==
  AloneInv /\ [Next]_vars /\ OthersIdle' => AloneInv'
<1> SUFFICES ASSUME AloneInv, [Next]_vars, OthersIdle' PROVE AloneInv'
  OBVIOUS
<1>1. TypeOK' /\ Held'
  BY TypeStep DEF AloneInv
<1>2. \A c \in Sessions : c # Single => pc[c] = "idle" /\ pc'[c] = "idle"
  BY DEF AloneInv, OthersIdle
<1> USE ModSeqAssumption DEF AloneInv, TypeOK, Held, Holding, LookingUp, States, Modseqs,
                             Reports, NoReport, db
<1> DEFINE G == InOrder' /\ ReportStands' /\ HoldsLatest'
<1>3. CASE Change
  <2>1. InOrder'
    BY <1>3 DEF Change, InOrder
  <2>2. ReportStands' /\ HoldsLatest'
    BY <1>3 DEF Change, ReportStands, HoldsLatest
  <2> QED
    BY <1>1, <2>1, <2>2
<1>4. ASSUME NEW c \in Sessions, ReadState(c) PROVE G
  <2>1. InOrder' /\ ReportStands'
    BY <1>4 DEF ReadState, InOrder, ReportStands
  <2>2. HoldsLatest'
    BY <1>4 DEF ReadState, HoldsLatest, InOrder
  <2> QED
    BY <2>1, <2>2
<1>5. ASSUME NEW c \in Sessions, SetEmail(c) PROVE G
  <2>1. InOrder' /\ ReportStands'
    BY <1>5 DEF SetEmail, InOrder, ReportStands
  <2>2. HoldsLatest'
    BY <1>5 DEF SetEmail, HoldsLatest, InOrder
  <2> QED
    BY <2>1, <2>2
<1>6. ASSUME NEW c \in Sessions, NEW r \in reports, Since(c, r) PROVE G
  <2>1. InOrder' /\ ReportStands'
    BY <1>6 DEF Since, InOrder, ReportStands
  <2>2. HoldsLatest'
    BY <1>6 DEF Since, HoldsLatest
  <2> QED
    BY <2>1, <2>2
<1>7. ASSUME NEW c \in Sessions, Changes(c) PROVE G
  <2>1. InOrder' /\ ReportStands'
    BY <1>7 DEF Changes, InOrder, ReportStands
  <2>2. HoldsLatest'
    BY <1>7 DEF Changes, HoldsLatest, InOrder
  <2> QED
    BY <2>1, <2>2
<1>8. ASSUME NEW c \in Sessions, Get(c) PROVE G
  <2>1. InOrder' /\ ReportStands'
    BY <1>8 DEF Get, InOrder, ReportStands
  <2>2. HoldsLatest'
    BY <1>8 DEF Get, HoldsLatest
  <2> QED
    BY <2>1, <2>2
<1>9. ASSUME NEW c \in Sessions, Increment(c) PROVE G
  <2>1. InOrder' /\ ReportStands'
    BY <1>9, SMTT(30) DEF Increment, InOrder, ReportStands
  <2>2. HoldsLatest'
    BY <1>9, <1>2, SMTT(30) DEF Increment, HoldsLatest, InOrder
  <2> QED
    BY <2>1, <2>2
<1>10. ASSUME NEW c \in Sessions, PutModseq(c) PROVE G
  <2>1. /\ state[c] \in States /\ modseq[c] \in Modseqs
        /\ stateToModseq[state[c]] = 0 /\ modseq[c] <= highestModseq
        /\ state[c] <= jmapState
        /\ \A s \in States : stateToModseq[s] < modseq[c]
        /\ \A s \in States : stateToModseq[s] # 0 => s <= state[c]
    BY <1>10 DEF PutModseq, HoldsLatest
  <2>2. \A s \in States : stateToModseq'[s] = IF s = state[c] THEN modseq[c] ELSE stateToModseq[s]
    BY <1>10 DEF PutModseq
  <2>3. jmapState' = jmapState /\ highestModseq' = highestModseq /\ last' = last
        /\ state' = state /\ modseq' = modseq
    BY <1>10 DEF PutModseq
  <2>4. InOrder'
    <3>1. \A s \in States : stateToModseq'[s] <= highestModseq'
      BY <2>1, <2>2, <2>3 DEF InOrder
    <3>2. \A s \in States : stateToModseq'[s] # 0 => s <= jmapState'
      BY <2>1, <2>2, <2>3 DEF InOrder
    <3>3. ASSUME NEW s1 \in States, NEW s2 \in States, s1 < s2,
                 stateToModseq'[s1] # 0, stateToModseq'[s2] # 0
          PROVE  stateToModseq'[s1] < stateToModseq'[s2]
      <4>1. ASSUME s1 = state[c] PROVE FALSE
        <5>1. s2 # state[c] /\ stateToModseq[s2] # 0
          BY <2>2, <3>3, <4>1
        <5> QED
          BY <2>1, <3>3, <4>1, <5>1
      <4>2. stateToModseq'[s1] = stateToModseq[s1]
        BY <2>2, <4>1
      <4>3. CASE s2 = state[c]
        BY <2>1, <2>2, <4>2, <4>3
      <4>4. CASE s2 # state[c]
        BY <2>2, <3>3, <4>2, <4>4 DEF InOrder
      <4> QED
        BY <4>3, <4>4
    <3> QED
      BY <3>1, <3>2, <3>3 DEF InOrder
  <2>5. ReportStands'
    BY <2>1, <2>2, <2>3, SMTT(30) DEF ReportStands
  <2>6. HoldsLatest'
    <3>1. pc'[c] = "put_state" /\ \A d \in Sessions : d # c => pc'[d] = "idle"
      BY <1>10, <1>2 DEF PutModseq
    <3>2. stateToModseq'[state'[c]] = modseq'[c]
      BY <2>1, <2>2, <2>3
    <3>3. \A s \in States : stateToModseq'[s] # 0 => s <= state'[c]
      BY <2>1, <2>2, <2>3
    <3> QED
      BY <2>1, <2>3, <3>1, <3>2, <3>3 DEF HoldsLatest
  <2> QED
    BY <2>4, <2>5, <2>6
<1>11. ASSUME NEW c \in Sessions, PutState(c) PROVE G
  <2>1. InOrder' /\ ReportStands'
    BY <1>11 DEF PutState, InOrder, ReportStands
  <2>2. HoldsLatest'
    BY <1>11 DEF PutState, HoldsLatest
  <2> QED
    BY <2>1, <2>2
<1>12. ASSUME NEW c \in Sessions, Report(c) PROVE G
  <2>1. InOrder'
    BY <1>12 DEF Report, InOrder
  <2>2. stateToModseq[state[c]] = modseq[c]
    BY <1>12 DEF Report, HoldsLatest
  <2>3. ReportStands'
    BY <1>12, <2>2 DEF Report, ReportStands
  <2>4. HoldsLatest'
    BY <1>12 DEF Report, HoldsLatest
  <2> QED
    BY <2>1, <2>3, <2>4
<1>13. ASSUME NEW c \in Sessions, Fail(c) PROVE G
  <2>1. InOrder' /\ ReportStands'
    BY <1>13 DEF Fail, InOrder, ReportStands
  <2>2. HoldsLatest'
    BY <1>13 DEF Fail, HoldsLatest
  <2> QED
    BY <2>1, <2>2
<1>14. CASE UNCHANGED vars
  BY <1>1, <1>14 DEF vars, OthersIdle, InOrder, ReportStands, HoldsLatest
<1>15. G
  BY <1>3, <1>4, <1>5, <1>6, <1>7, <1>8, <1>9, <1>10, <1>11, <1>12, <1>13, <1>14
     DEF Next, StateToModseq
<1> QED
  BY <1>1, <1>15

\* Only Report tells the client something, and what it tells is in order.
LEMMA ReportIncreases == AloneInv /\ [Next]_vars => Increases
<1> SUFFICES ASSUME AloneInv, [Next]_vars,
                    NEW c \in Sessions, last[c] # NoReport, last'[c].state > last[c].state
             PROVE  last'[c].modseq > last[c].modseq
  BY DEF Increases
<1> USE ModSeqAssumption DEF AloneInv, TypeOK, Held, Holding, States, Modseqs, Reports, NoReport
<1>1. last'[c] # last[c]
  OBVIOUS
<1>2. PICK d \in Sessions : Report(d)
  BY <1>1 DEF Next, StateToModseq, Change, ReadState, SetEmail, Since, Changes, Get, Increment,
              PutModseq, PutState, Fail, vars
<1>3. d = c /\ last'[c] = [modseq |-> modseq[c], state |-> state[c]]
  BY <1>1, <1>2 DEF Report
<1>4. /\ stateToModseq[state[c]] = modseq[c] /\ modseq[c] \in Modseqs /\ state[c] \in States
  BY <1>2, <1>3 DEF Report, HoldsLatest
<1>5. last[c].state \in States /\ last[c].modseq \in Modseqs
      /\ stateToModseq[last[c].state] = last[c].modseq
  BY DEF ReportStands
<1> QED
  BY <1>3, <1>4, <1>5 DEF InOrder

\* A session that is alone on its account reports a greater modseq with every later
\* state, for any number of states and modseqs and whatever fails: "make sure the
\* modseq increased" of tests/condstore.rs.
THEOREM ModseqIncreasesAlways == MCSpec => ModseqIncreases
<1> DEFINE I == part = "alone" => AloneInv
<1>1. MCInit => I
  BY InitAloneInv DEF MCInit
<1>2. I /\ [MCNext]_MCvars => I' /\ [part = "alone" => Increases]_MCvars
  <2> SUFFICES ASSUME I, [MCNext]_MCvars, part = "alone"
               PROVE  I' /\ (Increases \/ UNCHANGED MCvars)
    BY DEF MCNext, MCvars
  <2>1. CASE MCNext
    <3>1. Next /\ OthersIdle'
      BY <2>1 DEF MCNext, OthersIdle
    <3> QED
      BY <3>1, AloneStep, ReportIncreases
  <2>2. CASE UNCHANGED MCvars
    <3>1. UNCHANGED vars /\ OthersIdle'
      BY <2>2 DEF MCvars, vars, AloneInv, OthersIdle
    <3> QED
      BY <2>2, <3>1, AloneStep
  <2> QED
    BY <2>1, <2>2
<1> QED
  BY <1>1, <1>2, PTL DEF MCSpec, ModseqIncreases


-----------------------------------------------------------------------------
(***************************************************************************)
(* ResyncComplete, for any mailbox and any number of changes and SELECTs.    *)
(*                                                                         *)
(* A UID is its message's for ever and, once the message has lost it, is on  *)
(* record until the record is replaced.  What the client has is related to   *)
(* its HIGHESTMODSEQ (Known), what SELECT has listed to the state that       *)
(* becomes the next one (AsOf, ListsHeld), and while the changes are looked  *)
(* up and fetched every UID of the client and every listed message is in     *)
(* order or still to be dealt with (NoneLeft, HasAll, GoneInLeft).           *)
(***************************************************************************)

Places == {"none", "in", "out", "destroyed"}
MailsOK ==
  /\ now \in Nat /\ highest \in Nat /\ highest <= now
  /\ DOMAIN mails = Mails
  /\ \A m \in Mails : /\ mails[m].place \in Places
                      /\ mails[m].born \in Nat /\ mails[m].changed \in Nat
                      /\ mails[m].born <= mails[m].changed /\ mails[m].changed <= now

\* The message of UID u has it, is on record as having had it, or was.
OnRecord(u) == u \in overwritten \/ uidOf[given[u]] = u \/ removed[given[u]] = u

DatabaseOK ==
  /\ uidNext \in Nat \ {0}
  /\ \A u \in DOMAIN given : /\ u \in Nat \ {0} /\ u < uidNext
                             /\ given[u] \in Mails /\ mails[given[u]].place # "none"
  /\ DOMAIN uidOf = Mails /\ DOMAIN removed = Mails
  /\ \A m \in Mails : uidOf[m] # 0 => uidOf[m] \in DOMAIN given /\ given[uidOf[m]] = m
  /\ \A m \in Mails : removed[m] # 0 => removed[m] \in DOMAIN given /\ given[removed[m]] = m
  /\ \A u \in DOMAIN cached : u \in DOMAIN given /\ OnRecord(u)

\* The state that the list is compared with, and the messages that may have changed
\* without SELECT noticing.
Time    == IF sel.pc = "away" THEN highest ELSE IF sel.pc = "state" THEN sel.listed ELSE sel.state
Excused == IF sel.pc = "state" THEN {} ELSE blind

SelOK ==
  /\ sel = [pc |-> sel.pc, uids |-> sel.uids, listed |-> sel.listed, state |-> sel.state,
            gone |-> sel.gone, left |-> sel.left]
  /\ sel.pc \in {"away", "failed", "state", "changes", "vanished", "fetch"}
  /\ sel.pc # "failed" => Time \in Nat /\ highest <= Time /\ Time <= now
  /\ DOMAIN sel.uids \subseteq Mails
  /\ \A m \in DOMAIN sel.uids : sel.uids[m] \in DOMAIN given /\ given[sel.uids[m]] = m
  /\ sel.left \subseteq DOMAIN sel.uids /\ sel.gone \subseteq Mails
  /\ sel.pc = "away" => sel.left = {}

\* The UIDs of the list are on record, too.
ListOnRecord == \A m \in DOMAIN sel.uids : OnRecord(sel.uids[m])

\* The client, before the changes are looked up: no UID it has was lost to its message
\* before HIGHESTMODSEQ, and it has the messages that have not changed since.
Known ==
  /\ \A u \in DOMAIN cached \ overwritten : given[u] \notin blind =>
       /\ mails[given[u]].born <= highest
       /\ mails[given[u]].changed <= highest => mails[given[u]].place = "in" /\ uidOf[given[u]] = u
  /\ \A m \in Mails \ blind :
       mails[m].place = "in" /\ mails[m].changed <= highest =>
         uidOf[m] \in DOMAIN cached /\ cached[uidOf[m]] = mails[m].changed

\* A message that has not changed since Time was listed when it was in the mailbox, is
\* there still with the UID it was listed with, and no message listed is younger.
AsOf ==
  /\ \A m \in Mails \ Excused :
       mails[m].place = "in" /\ mails[m].changed <= Time => m \in DOMAIN sel.uids
  /\ \A m \in DOMAIN sel.uids \ Excused :
       /\ mails[m].born <= Time
       /\ mails[m].changed <= Time => mails[m].place = "in" /\ uidOf[m] = sel.uids[m]

\* u is the UID that its message was listed with.
IsListed(u) == given[u] \in DOMAIN sel.uids /\ sel.uids[given[u]] = u

\* A UID of the client that its message still has is the one it was listed with.
ListsHeld == \A u \in DOMAIN cached : uidOf[given[u]] = u => IsListed(u)

\* The client has no UID that the list has not, but for those about to be named as vanished.
NoneLeft ==
  \A u \in DOMAIN cached \ overwritten :
    given[u] \notin blind => IsListed(u) \/ (sel.pc = "vanished" /\ given[u] \in sel.gone)

\* The client has the messages of the list, as they were at Time if they have not changed
\* since, but for those that are still to be fetched.
HasAll ==
  \A m \in DOMAIN sel.uids \ (blind \cup sel.left) : mails[m].place # "destroyed" =>
    /\ sel.uids[m] \in DOMAIN cached
    /\ mails[m].changed <= Time => cached[sel.uids[m]] = mails[m].changed

\* What is named as vanished and listed is fetched again, if it exists.
GoneInLeft ==
  \A m \in sel.gone \cap DOMAIN sel.uids : m \in sel.left \/ mails[m].place = "destroyed"

Phases ==
  /\ sel.pc \in {"away", "failed", "state", "changes"} => Known
  /\ sel.pc # "failed" => AsOf
  /\ sel.pc \in {"state", "changes", "vanished"} => ListsHeld
  /\ sel.pc \in {"away", "vanished", "fetch"} => NoneLeft /\ HasAll
  /\ sel.pc = "vanished" => GoneInLeft

ResyncInv == MailsOK /\ DatabaseOK /\ SelOK /\ ListOnRecord /\ (~unheard => Phases)

-----------------------------------------------------------------------------
(* New UIDs. *)

\* The positions of the members of a finite set of numbers are 1, 2, ... up to its size.
LEMMA PositionRange ==
  ASSUME NEW S, S \subseteq Nat, IsFiniteSet(S), NEW m \in S
  PROVE  /\ Position(S, m) \in Nat \ {0} /\ Cardinality(S) \in Nat
         /\ Position(S, m) <= Cardinality(S)
<1> DEFINE T == {k \in S : k <= m}
<1>1. T \in SUBSET S /\ m \in T
  OBVIOUS
<1>2. IsFiniteSet(T) /\ Cardinality(T) <= Cardinality(S)
  BY <1>1, FS_Subset
<1>3. Cardinality(T) \in Nat /\ Cardinality(S) \in Nat
  BY <1>2, FS_CardinalityType
<1>4. Cardinality(T) # 0
  BY <1>1, <1>2, FS_EmptySet
<1> QED
  BY <1>2, <1>3, <1>4 DEF Position

\* A greater member has a greater position.
LEMMA PositionOrder ==
  ASSUME NEW S, S \subseteq Nat, IsFiniteSet(S), NEW m \in S, NEW k \in S, m < k
  PROVE  Position(S, m) # Position(S, k)
<1> DEFINE T == {j \in S : j <= m}
           U == {j \in S : j <= k}
<1>1. T \in SUBSET U /\ U \in SUBSET S /\ k \in U /\ k \notin T
  <2>1. m \in Nat /\ k \in Nat /\ \A j \in S : j \in Nat
    OBVIOUS
  <2>2. \A j \in S : j <= m => j <= k
    BY <2>1
  <2>3. ~(k <= m) /\ k <= k
    BY <2>1
  <2> QED
    BY <2>2, <2>3
<1>2. IsFiniteSet(U)
  BY <1>1, FS_Subset
<1>3. Cardinality(U) = Cardinality(T) => U = T
  BY <1>1, <1>2, FS_Subset
<1>4. U # T
  BY <1>1
<1> QED
  BY <1>3, <1>4 DEF Position

\* No two members have the same position.
LEMMA PositionInjective ==
  ASSUME NEW S, S \subseteq Nat, IsFiniteSet(S), NEW m \in S, NEW k \in S,
         Position(S, m) = Position(S, k)
  PROVE  m = k
<1>1. m \in Nat /\ k \in Nat
  OBVIOUS
<1>2. CASE m < k
  BY <1>2, PositionOrder
<1>3. CASE k < m
  BY <1>3, PositionOrder
<1> QED
  BY <1>1, <1>2, <1>3

\* What update_uids does to the database, as seen from a UID and from a message.
Updated(listed) ==
  /\ uidNext' \in Nat \ {0}
  /\ \A u \in DOMAIN given : u \in DOMAIN given' /\ given'[u] = given[u]
  /\ \A u \in DOMAIN given' : u \in Nat \ {0} /\ u < uidNext'
  /\ \A u \in DOMAIN given' \ DOMAIN given : given'[u] \in listed
  /\ DOMAIN uidOf' = Mails /\ DOMAIN removed' = Mails
  /\ \A m \in Mails \ listed : uidOf'[m] = 0
  /\ \A m \in listed : /\ uidOf'[m] \in DOMAIN given' /\ given'[uidOf'[m]] = m
                       /\ IF uidOf[m] # 0 THEN uidOf'[m] = uidOf[m] ELSE uidOf'[m] \notin DOMAIN given
  /\ \A m \in Mails : removed'[m] = IF m \notin listed /\ uidOf[m] # 0 THEN uidOf[m] ELSE removed[m]
  /\ overwritten \subseteq overwritten'
  /\ \A m \in Mails : m \notin listed /\ uidOf[m] # 0 /\ removed[m] # 0 => removed[m] \in overwritten'

\* UpdateUids does that: the new UIDs are above all others and differ.
LEMMA UpdateUidsUpdates ==
  ASSUME DatabaseOK, NEW listed \in SUBSET Mails, UpdateUids(listed)
  PROVE  Updated(listed)
<1> DEFINE gone == {m \in Mails : uidOf[m] # 0} \ listed
           fresh == {m \in listed : uidOf[m] = 0}
           uid(m) == uidNext - 1 + Position(fresh, m)
<1>1. fresh \subseteq Nat /\ IsFiniteSet(fresh)
  <2>1. fresh \in SUBSET Mails /\ IsFiniteSet(Mails) /\ Mails \subseteq Nat
    BY ResyncAssumption DEF Mails
  <2> QED
    BY <2>1, FS_Subset
<1>2. /\ uidNext' = uidNext + Cardinality(fresh)
      /\ given' = [u \in DOMAIN given \cup {uid(m) : m \in fresh} |->
                     IF u \in DOMAIN given THEN given[u] ELSE CHOOSE m \in fresh : uid(m) = u]
      /\ uidOf' = [m \in Mails |-> CASE m \in gone  -> 0
                                     [] m \in fresh -> uid(m)
                                     [] OTHER       -> uidOf[m]]
      /\ removed' = [m \in Mails |-> IF m \in gone THEN uidOf[m] ELSE removed[m]]
      /\ overwritten' = overwritten \cup ({removed[m] : m \in gone} \ {0})
  BY DEF UpdateUids
<1>3. Cardinality(fresh) \in Nat
  BY <1>1, FS_CardinalityType
<1>4. uidNext \in Nat \ {0} /\ \A u \in DOMAIN given : u \in Nat \ {0} /\ u < uidNext
  BY DEF DatabaseOK
<1>5. ASSUME NEW m \in fresh
      PROVE  uid(m) \in Nat \ {0} /\ uid(m) >= uidNext /\ uid(m) < uidNext' /\ uid(m) \notin DOMAIN given
  <2>1. Position(fresh, m) \in Nat \ {0} /\ Position(fresh, m) <= Cardinality(fresh)
    BY <1>1, <1>5, PositionRange
  <2>2. uid(m) \in Nat \ {0} /\ uid(m) >= uidNext /\ uid(m) < uidNext'
    BY <1>2, <1>3, <1>4, <2>1
  <2> QED
    BY <1>4, <2>2
<1>6. ASSUME NEW m \in fresh, NEW k \in fresh, uid(m) = uid(k) PROVE m = k
  <2>1. Position(fresh, m) \in Nat /\ Position(fresh, k) \in Nat
    BY <1>1, <1>6, PositionRange
  <2>2. Position(fresh, m) = Position(fresh, k)
    BY <1>4, <1>6, <2>1
  <2> QED
    BY <1>1, <1>6, <2>2, PositionInjective
<1> HIDE DEF uid
<1>7. uidNext' \in Nat \ {0}
  BY <1>2, <1>3, <1>4
<1>8. /\ \A u \in DOMAIN given : u \in DOMAIN given' /\ given'[u] = given[u]
      /\ DOMAIN given' = DOMAIN given \cup {uid(m) : m \in fresh}
  BY <1>2
<1>9. ASSUME NEW m \in fresh PROVE uid(m) \in DOMAIN given' /\ given'[uid(m)] = m
  <2>1. given'[uid(m)] = CHOOSE k \in fresh : uid(k) = uid(m)
    BY <1>2, <1>5, <1>9
  <2> QED
    BY <1>6, <1>8, <1>9, <2>1
<1>10. \A u \in DOMAIN given' : u \in Nat \ {0} /\ u < uidNext'
  BY <1>2, <1>3, <1>4, <1>5, <1>8
<1>11. \A u \in DOMAIN given' \ DOMAIN given : given'[u] \in listed
  BY <1>8, <1>9
<1>12. DOMAIN uidOf' = Mails /\ DOMAIN removed' = Mails
  BY <1>2
<1>13. \A m \in Mails \ listed : uidOf'[m] = 0
  BY <1>2
<1>14. ASSUME NEW m \in listed
       PROVE  /\ uidOf'[m] \in DOMAIN given' /\ given'[uidOf'[m]] = m
              /\ IF uidOf[m] # 0 THEN uidOf'[m] = uidOf[m] ELSE uidOf'[m] \notin DOMAIN given
  <2>1. CASE uidOf[m] # 0
    <3>1. uidOf'[m] = uidOf[m]
      BY <1>2, <1>14, <2>1
    <3>2. uidOf[m] \in DOMAIN given /\ given[uidOf[m]] = m
      BY <1>14, <2>1 DEF DatabaseOK
    <3> QED
      BY <1>8, <2>1, <3>1, <3>2
  <2>2. CASE uidOf[m] = 0
    <3>1. uidOf'[m] = uid(m) /\ m \in fresh
      BY <1>2, <1>14, <2>2
    <3> QED
      BY <1>5, <1>9, <2>2, <3>1
  <2> QED
    BY <2>1, <2>2
<1>15. \A m \in Mails : removed'[m] = IF m \notin listed /\ uidOf[m] # 0 THEN uidOf[m] ELSE removed[m]
  BY <1>2
<1>16. overwritten \subseteq overwritten'
  BY <1>2
<1>17. \A m \in Mails : m \notin listed /\ uidOf[m] # 0 /\ removed[m] # 0 => removed[m] \in overwritten'
  BY <1>2
<1> QED
  BY <1>7, <1>8, <1>10, <1>11, <1>12, <1>13, <1>14, <1>15, <1>16, <1>17 DEF Updated

-----------------------------------------------------------------------------
(* The invariant at the start. *)

\* The client went away with the mailbox as it is.
LEMMA InitResyncInv == ResyncInit => ResyncInv
<1> SUFFICES ASSUME ResyncInit PROVE ResyncInv
  OBVIOUS
<1> DEFINE uids == {Position(Old, m) : m \in Old}
<1>1. Old \subseteq Nat /\ IsFiniteSet(Old) /\ Old \subseteq Mails
  <2>1. Old \in SUBSET Mails /\ IsFiniteSet(Mails) /\ Mails \subseteq Nat
    BY ResyncAssumption DEF Mails
  <2> QED
    BY <2>1, FS_Subset
<1>2. ASSUME NEW m \in Old PROVE Position(Old, m) \in Nat \ {0} /\ Position(Old, m) < uidNext
  <2>1. /\ Position(Old, m) \in Nat \ {0} /\ Cardinality(Old) \in Nat
        /\ Position(Old, m) <= Cardinality(Old)
    BY <1>1, <1>2, PositionRange
  <2>2. uidNext = Cardinality(Old) + 1
    BY DEF ResyncInit
  <2> QED
    BY <2>1, <2>2
<1>3. Cardinality(Old) \in Nat
  BY <1>1, FS_CardinalityType
<1>4. /\ DOMAIN given = uids
      /\ \A m \in Old : given[Position(Old, m)] = m
  <2>1. given = [u \in uids |-> CHOOSE m \in Old : Position(Old, m) = u]
    BY DEF ResyncInit
  <2>2. ASSUME NEW m \in Old PROVE given[Position(Old, m)] = m
    <3>1. \A k \in Old : Position(Old, k) = Position(Old, m) => k = m
      BY <1>1, <2>2, PositionInjective
    <3> QED
      BY <2>1, <2>2, <3>1
  <2> QED
    BY <2>1, <2>2
<1>5. /\ now = 0 /\ highest = 0 /\ uidNext = Cardinality(Old) + 1
      /\ mails = [m \in Mails |-> [place |-> IF m \in Old THEN "in" ELSE "none", born |-> 0, changed |-> 0]]
      /\ uidOf = [m \in Mails |-> IF m \in Old THEN Position(Old, m) ELSE 0]
      /\ removed = [m \in Mails |-> 0]
      /\ cached = [u \in uids |-> 0]
      /\ overwritten = {} /\ blind = {}
  BY DEF ResyncInit
<1>6. /\ sel.pc = "away" /\ sel.uids = [m \in Old |-> Position(Old, m)]
      /\ sel.gone = {} /\ sel.left = {}
      /\ sel = [pc |-> sel.pc, uids |-> sel.uids, listed |-> sel.listed, state |-> sel.state,
                gone |-> sel.gone, left |-> sel.left]
  BY DEF ResyncInit, NoCommand
<1>7. MailsOK
  BY <1>5 DEF MailsOK, Places
<1>8. \A u \in uids : given[u] \in Old /\ Position(Old, given[u]) = u
  BY <1>4
<1>9. DatabaseOK
  <2>1. uidNext \in Nat \ {0}
    BY <1>3, <1>5
  <2>2. \A u \in DOMAIN given : u \in Nat \ {0} /\ u < uidNext
    BY <1>2, <1>4
  <2>3. \A u \in DOMAIN given : given[u] \in Mails /\ mails[given[u]].place # "none"
    BY <1>1, <1>4, <1>5, <1>8
  <2>4. \A m \in Mails : uidOf[m] # 0 => uidOf[m] \in DOMAIN given /\ given[uidOf[m]] = m
    BY <1>4, <1>5
  <2>5. \A u \in DOMAIN cached : u \in DOMAIN given /\ OnRecord(u)
    BY <1>1, <1>4, <1>5, <1>8 DEF OnRecord
  <2> QED
    BY <2>1, <2>2, <2>3, <2>4, <2>5, <1>5 DEF DatabaseOK
<1>10. SelOK /\ ListOnRecord
  <2>1. \A m \in DOMAIN sel.uids : sel.uids[m] \in DOMAIN given /\ given[sel.uids[m]] = m
    BY <1>4, <1>6
  <2>2. \A m \in DOMAIN sel.uids : uidOf[m] = sel.uids[m]
    BY <1>1, <1>5, <1>6
  <2>3. SelOK
    BY <1>1, <1>5, <1>6, <2>1 DEF SelOK, Time
  <2>4. ListOnRecord
    BY <2>1, <2>2 DEF ListOnRecord, OnRecord
  <2> QED
    BY <2>3, <2>4
<1>11. Known
  BY <1>1, <1>4, <1>5, <1>8 DEF Known
<1>12. AsOf
  BY <1>1, <1>5, <1>6 DEF AsOf, Time, Excused
<1>13. NoneLeft /\ HasAll
  BY <1>1, <1>5, <1>6, <1>8 DEF NoneLeft, HasAll, IsListed, Time
<1> QED
  BY <1>6, <1>7, <1>9, <1>10, <1>11, <1>12, <1>13 DEF ResyncInv, Phases

-----------------------------------------------------------------------------
(* Synchronizations. *)

\* A UID stays on record when the mailbox is synchronized.
LEMMA RecordKept ==
  ASSUME DatabaseOK, NEW listed \in SUBSET Mails, Updated(listed),
         NEW u \in DOMAIN given, OnRecord(u)
  PROVE  OnRecord(u)'
<1> DEFINE m == given[u]
<1>1. m \in Mails /\ u # 0 /\ given'[u] = m
  BY DEF DatabaseOK, Updated
<1>2. CASE u \in overwritten
  BY <1>2 DEF Updated, OnRecord
<1>3. CASE uidOf[m] = u
  <2>1. uidOf'[m] = u \/ removed'[m] = u
    BY <1>1, <1>3 DEF Updated
  <2> QED
    BY <1>1, <2>1 DEF OnRecord
<1>4. CASE removed[m] = u
  <2>1. removed'[m] = u \/ u \in overwritten'
    BY <1>1, <1>4 DEF Updated
  <2> QED
    BY <1>1, <2>1 DEF OnRecord
<1> QED
  BY <1>2, <1>3, <1>4 DEF OnRecord

\* So do the facts about the database and about the client.
LEMMA DatabaseKept ==
  ASSUME MailsOK, DatabaseOK, Updated(InMailbox), UNCHANGED <<now, mails, cached, highest, blind>>
  PROVE  MailsOK' /\ DatabaseOK' /\ (Known => Known')
<1>1. InMailbox \in SUBSET Mails /\ \A m \in Mails : m \in InMailbox <=> mails[m].place = "in"
  BY DEF InMailbox
<1>2. MailsOK'
  BY DEF MailsOK
<1>3. ASSUME NEW u \in DOMAIN given'
      PROVE  u \in Nat \ {0} /\ u < uidNext' /\ given'[u] \in Mails /\ mails'[given'[u]].place # "none"
  <2>1. CASE u \in DOMAIN given
    BY <1>3, <2>1 DEF Updated, DatabaseOK
  <2>2. CASE u \notin DOMAIN given
    BY <1>1, <1>3, <2>2 DEF Updated
  <2> QED
    BY <2>1, <2>2
<1>4. \A m \in Mails : uidOf'[m] # 0 => uidOf'[m] \in DOMAIN given' /\ given'[uidOf'[m]] = m
  BY <1>1 DEF Updated
<1>5. \A m \in Mails : removed'[m] # 0 => removed'[m] \in DOMAIN given' /\ given'[removed'[m]] = m
  BY <1>1 DEF Updated, DatabaseOK
<1>6. ASSUME NEW u \in DOMAIN cached' PROVE u \in DOMAIN given' /\ OnRecord(u)'
  <2>1. u \in DOMAIN given /\ OnRecord(u)
    BY <1>6 DEF DatabaseOK
  <2> QED
    BY <1>1, <2>1, RecordKept DEF Updated
<1>7. DatabaseOK'
  BY <1>3, <1>4, <1>5, <1>6 DEF DatabaseOK, Updated
<1>8. ASSUME Known PROVE Known'
  <2>1. ASSUME NEW u \in DOMAIN cached' \ overwritten', given'[u] \notin blind'
        PROVE  /\ mails'[given'[u]].born <= highest'
               /\ mails'[given'[u]].changed <= highest' => mails'[given'[u]].place = "in" /\ uidOf'[given'[u]] = u
    <3>1. u \in DOMAIN cached \ overwritten /\ u \in DOMAIN given /\ given'[u] = given[u] /\ u # 0
          /\ given[u] \in Mails
      BY <2>1 DEF Updated, DatabaseOK
    <3>2. /\ mails[given[u]].born <= highest
          /\ mails[given[u]].changed <= highest => mails[given[u]].place = "in" /\ uidOf[given[u]] = u
      BY <1>8, <2>1, <3>1 DEF Known
    <3>3. mails[given[u]].place = "in" /\ uidOf[given[u]] = u => uidOf'[given[u]] = u
      BY <1>1, <3>1 DEF Updated
    <3> QED
      BY <3>1, <3>2, <3>3
  <2>2. ASSUME NEW m \in Mails \ blind', mails'[m].place = "in", mails'[m].changed <= highest'
        PROVE  uidOf'[m] \in DOMAIN cached' /\ cached'[uidOf'[m]] = mails'[m].changed
    <3>1. uidOf[m] \in DOMAIN cached /\ cached[uidOf[m]] = mails[m].changed
      BY <1>8, <2>2 DEF Known
    <3>2. uidOf[m] # 0
      BY <3>1 DEF DatabaseOK
    <3>3. uidOf'[m] = uidOf[m]
      BY <1>1, <2>2, <3>2 DEF Updated
    <3> QED
      BY <3>1, <3>3
  <2> QED
    BY <2>1, <2>2 DEF Known
<1> QED
  BY <1>2, <1>7, <1>8

\* Another session may synchronize the mailbox at any time.
LEMMA OtherSessionStep == ResyncInv /\ OtherSession => ResyncInv'
<1> SUFFICES ASSUME ResyncInv, OtherSession PROVE ResyncInv'
  OBVIOUS
<1>1. /\ MailsOK /\ DatabaseOK /\ SelOK /\ ListOnRecord
      /\ UNCHANGED <<now, mails, cached, highest, sel, blind, unheard>>
  BY DEF ResyncInv, OtherSession
<1>2. InMailbox \in SUBSET Mails /\ \A m \in Mails : m \in InMailbox <=> mails[m].place = "in"
  BY DEF InMailbox
<1>3. Updated(InMailbox)
  BY <1>1, <1>2, UpdateUidsUpdates DEF OtherSession
<1>4. MailsOK' /\ DatabaseOK' /\ (Known => Known')
  BY <1>1, <1>3, DatabaseKept
<1>5. SelOK'
  BY <1>1, <1>3 DEF SelOK, Time, Updated
<1>6. ListOnRecord'
  <2> SUFFICES ASSUME NEW m \in DOMAIN sel.uids PROVE OnRecord(sel.uids[m])'
    BY <1>1 DEF ListOnRecord
  <2>1. PICK u \in DOMAIN given : u = sel.uids[m]
    BY <1>1 DEF SelOK
  <2>2. OnRecord(u)
    BY <1>1, <2>1 DEF ListOnRecord
  <2>3. OnRecord(u)'
    BY <1>1, <1>2, <1>3, <2>2, RecordKept
  <2> QED
    BY <1>1, <2>1, <2>3 DEF OnRecord
<1>7. AsOf => AsOf'
  <2> SUFFICES ASSUME AsOf PROVE AsOf'
    OBVIOUS
  <2>1. Time' = Time /\ Excused' = Excused
    BY <1>1 DEF Time, Excused
  <2>2. \A m \in DOMAIN sel.uids : m \in Mails /\ sel.uids[m] # 0
    BY <1>1 DEF SelOK, DatabaseOK
  <2>3. \A m \in DOMAIN sel.uids :
          mails[m].place = "in" /\ uidOf[m] = sel.uids[m] => uidOf'[m] = sel.uids[m]
    BY <1>2, <1>3, <2>2 DEF Updated
  <2> QED
    BY <1>1, <2>1, <2>2, <2>3 DEF AsOf
<1>8. \A u \in DOMAIN cached : /\ u \in DOMAIN given /\ given'[u] = given[u]
                               /\ uidOf'[given[u]] = u => uidOf[given[u]] = u
  BY <1>1, <1>2, <1>3 DEF DatabaseOK, Updated
<1>9. ListsHeld => ListsHeld'
  BY <1>1, <1>8 DEF ListsHeld, IsListed
<1>10. NoneLeft => NoneLeft'
  BY <1>1, <1>3, <1>8 DEF NoneLeft, IsListed, Updated
<1>11. (HasAll => HasAll') /\ (GoneInLeft => GoneInLeft')
  BY <1>1 DEF HasAll, GoneInLeft, Time
<1> QED
  BY <1>1, <1>4, <1>5, <1>6, <1>7, <1>9, <1>10, <1>11 DEF ResyncInv, Phases

-----------------------------------------------------------------------------
(* What other clients do. *)

\* A change of a message is later than anything that anyone has looked at.
LEMMA HappensStep ==
  ASSUME ResyncInv, NEW m \in Mails, NEW from, NEW to,
         from \in SUBSET {"in", "out"} \/ from = {"none"}, to \in {"in", "out", "destroyed"},
         Happens(m, from, to)
  PROVE  ResyncInv'
<1>1. /\ MailsOK /\ DatabaseOK /\ SelOK /\ ListOnRecord
      /\ UNCHANGED <<database, cached, highest, sel, blind, unheard>>
      /\ UNCHANGED <<uidNext, given, uidOf, removed, overwritten>>
  BY DEF ResyncInv, Happens, database
<1>2. now \in Nat /\ now' = now + 1
  BY <1>1 DEF Happens, MailsOK
<1>3. /\ mails[m].place \in from /\ mails'[m].place = to /\ mails'[m].changed = now + 1
      /\ mails'[m].born = IF "none" \in from THEN now + 1 ELSE mails[m].born
      /\ \A k \in Mails \ {m} : mails'[k] = mails[k]
      /\ DOMAIN mails' = Mails
  BY <1>1 DEF Happens, MailsOK
<1>4. mails[m].place # "destroyed" /\ (mails[m].place # "none" => "none" \notin from)
  BY <1>3
<1>5. MailsOK'
  <2>1. ASSUME NEW k \in Mails
        PROVE  /\ mails'[k].place \in Places
               /\ mails'[k].born \in Nat /\ mails'[k].changed \in Nat
               /\ mails'[k].born <= mails'[k].changed /\ mails'[k].changed <= now'
    <3>1. /\ mails[k].place \in Places /\ mails[k].born \in Nat /\ mails[k].changed \in Nat
          /\ mails[k].born <= mails[k].changed /\ mails[k].changed <= now
      BY <1>1, <2>1 DEF MailsOK
    <3>2. CASE k = m
      BY <1>2, <1>3, <3>1, <3>2 DEF Places
    <3>3. CASE k # m
      BY <1>2, <1>3, <3>1, <3>3
    <3> QED
      BY <3>2, <3>3
  <2>2. highest' \in Nat /\ highest' <= now'
    BY <1>1, <1>2 DEF MailsOK
  <2> QED
    BY <1>2, <1>3, <2>1, <2>2 DEF MailsOK
<1>6. DatabaseOK'
  <2>1. \A u \in DOMAIN given : mails'[given[u]].place # "none"
    BY <1>1, <1>3 DEF DatabaseOK
  <2>2. \A u \in DOMAIN cached' : OnRecord(u)'
    BY <1>1 DEF DatabaseOK, OnRecord
  <2> QED
    BY <1>1, <2>1, <2>2 DEF DatabaseOK
<1>7. SelOK' /\ ListOnRecord'
  <2>1. sel.pc # "failed" => Time' \in Nat /\ highest' <= Time' /\ Time' <= now'
    BY <1>1, <1>2 DEF SelOK, Time
  <2>2. SelOK'
    BY <1>1, <2>1 DEF SelOK
  <2>3. ListOnRecord'
    BY <1>1 DEF ListOnRecord, OnRecord
  <2> QED
    BY <2>2, <2>3
<1>8. highest \in Nat /\ highest <= now
  BY <1>1 DEF MailsOK
<1>9. Known => Known'
  <2> SUFFICES ASSUME Known PROVE Known'
    OBVIOUS
  <2>1. ASSUME NEW u \in DOMAIN cached \ overwritten, given[u] \notin blind
        PROVE  /\ mails'[given[u]].born <= highest
               /\ mails'[given[u]].changed <= highest => mails'[given[u]].place = "in" /\ uidOf[given[u]] = u
    <3>1. given[u] \in Mails /\ mails[given[u]].place # "none"
      BY <1>1, <2>1 DEF DatabaseOK
    <3>2. CASE given[u] = m
      BY <1>2, <1>3, <1>4, <1>8, <2>1, <3>1, <3>2 DEF Known
    <3>3. CASE given[u] # m
      BY <1>3, <2>1, <3>1, <3>3 DEF Known
    <3> QED
      BY <3>2, <3>3
  <2>2. ASSUME NEW k \in Mails \ blind, mails'[k].place = "in", mails'[k].changed <= highest
        PROVE  uidOf[k] \in DOMAIN cached /\ cached[uidOf[k]] = mails'[k].changed
    <3>1. k # m
      BY <1>2, <1>3, <1>8, <2>2
    <3> QED
      BY <1>3, <2>2, <3>1 DEF Known
  <2> QED
    BY <1>1, <2>1, <2>2 DEF Known
<1>10. ASSUME sel.pc # "failed" PROVE Time' = Time /\ Excused' = Excused /\ Time \in Nat /\ Time <= now
  BY <1>1, <1>10 DEF Time, Excused, SelOK
<1>11. \A k \in DOMAIN sel.uids : k \in Mails /\ mails[k].place # "none"
  BY <1>1 DEF SelOK, DatabaseOK
<1>12. AsOf /\ sel.pc # "failed" => AsOf'
  <2> SUFFICES ASSUME AsOf, sel.pc # "failed" PROVE AsOf'
    OBVIOUS
  <2>1. ASSUME NEW k \in Mails \ Excused, mails'[k].place = "in", mails'[k].changed <= Time
        PROVE  k \in DOMAIN sel.uids
    BY <1>2, <1>3, <1>10, <2>1 DEF AsOf
  <2>2. ASSUME NEW k \in DOMAIN sel.uids \ Excused
        PROVE  /\ mails'[k].born <= Time
               /\ mails'[k].changed <= Time => mails'[k].place = "in" /\ uidOf[k] = sel.uids[k]
    <3>1. CASE k = m
      BY <1>2, <1>3, <1>4, <1>10, <1>11, <2>2, <3>1 DEF AsOf
    <3>2. CASE k # m
      BY <1>3, <1>11, <2>2, <3>2 DEF AsOf
    <3> QED
      BY <3>1, <3>2
  <2> QED
    BY <1>1, <1>10, <2>1, <2>2 DEF AsOf
<1>13. (ListsHeld => ListsHeld') /\ (NoneLeft => NoneLeft')
  BY <1>1 DEF ListsHeld, NoneLeft, IsListed
<1>14. HasAll /\ sel.pc # "failed" => HasAll'
  <2> SUFFICES ASSUME HasAll, sel.pc # "failed",
                      NEW k \in DOMAIN sel.uids \ (blind \cup sel.left), mails'[k].place # "destroyed"
               PROVE  /\ sel.uids[k] \in DOMAIN cached
                      /\ mails'[k].changed <= Time => cached[sel.uids[k]] = mails'[k].changed
    BY <1>1, <1>10 DEF HasAll
  <2>1. CASE k = m
    BY <1>2, <1>3, <1>4, <1>10, <2>1 DEF HasAll
  <2>2. CASE k # m
    BY <1>3, <1>11, <2>2 DEF HasAll
  <2> QED
    BY <2>1, <2>2
<1>15. GoneInLeft => GoneInLeft'
  BY <1>1, <1>3, <1>4, <1>11 DEF GoneInLeft
<1> QED
  BY <1>1, <1>5, <1>6, <1>7, <1>9, <1>12, <1>13, <1>14, <1>15 DEF ResyncInv, Phases

-----------------------------------------------------------------------------
(* The command. *)

\* The list is as of now, and the UIDs in it are the ones the messages have.
LEMMA SelectListsStep == ResyncInv /\ SelectLists => ResyncInv'
<1> SUFFICES ASSUME ResyncInv, SelectLists PROVE ResyncInv'
  OBVIOUS
<1>1. /\ MailsOK /\ DatabaseOK
      /\ UNCHANGED <<now, mails, cached, highest, blind, unheard>>
  BY DEF ResyncInv, SelectLists
<1>2. InMailbox \in SUBSET Mails /\ \A m \in Mails : m \in InMailbox <=> mails[m].place = "in"
  BY DEF InMailbox
<1>3. Updated(InMailbox)
  BY <1>1, <1>2, UpdateUidsUpdates DEF SelectLists
<1>4. MailsOK' /\ DatabaseOK' /\ (Known => Known')
  BY <1>1, <1>3, DatabaseKept
<1>5. /\ sel'.pc = "state" /\ sel'.uids = [m \in InMailbox |-> uidOf'[m]] /\ sel'.listed = now
      /\ sel'.left = {} /\ sel'.gone = {}
      /\ sel' = [pc |-> sel'.pc, uids |-> sel'.uids, listed |-> sel'.listed, state |-> sel'.state,
                 gone |-> sel'.gone, left |-> sel'.left]
  BY DEF SelectLists, NoCommand
<1>6. \A m \in InMailbox : uidOf'[m] \in DOMAIN given' /\ given'[uidOf'[m]] = m
  BY <1>3 DEF Updated
<1>7. SelOK'
  <2>1. Time' = now /\ now \in Nat /\ highest <= now
    BY <1>1, <1>5 DEF Time, MailsOK
  <2>2. \A m \in DOMAIN sel'.uids : sel'.uids[m] \in DOMAIN given' /\ given'[sel'.uids[m]] = m
    BY <1>5, <1>6
  <2>3. DOMAIN sel'.uids \subseteq Mails
    BY <1>2, <1>5
  <2> QED
    BY <1>1, <1>5, <2>1, <2>2, <2>3 DEF SelOK
<1>8. ListOnRecord'
  BY <1>5, <1>6 DEF ListOnRecord, OnRecord
<1>9. AsOf'
  <2>1. Time' = now /\ Excused' = {}
    BY <1>5 DEF Time, Excused
  <2>2. DOMAIN sel'.uids = InMailbox /\ \A m \in InMailbox : sel'.uids[m] = uidOf'[m]
    BY <1>5
  <2>3. \A m \in InMailbox : mails[m].born <= now /\ mails[m].place = "in"
    BY <1>1, <1>2 DEF MailsOK
  <2> QED
    BY <1>1, <1>2, <2>1, <2>2, <2>3 DEF AsOf
<1>10. ListsHeld'
  <2> SUFFICES ASSUME NEW u \in DOMAIN cached', uidOf'[given'[u]] = u PROVE IsListed(u)'
    BY DEF ListsHeld
  <2>1. given'[u] \in Mails /\ u # 0
    BY <1>4 DEF DatabaseOK
  <2>2. given'[u] \in InMailbox
    BY <1>3, <2>1 DEF Updated
  <2> QED
    BY <1>5, <2>2 DEF IsListed
<1>11. sel.pc \in {"away", "failed"}
  BY DEF SelectLists
<1> QED
  BY <1>1, <1>4, <1>5, <1>7, <1>8, <1>9, <1>10, <1>11 DEF ResyncInv, Phases

\* Nothing is on record or off it because of a step that leaves the database alone.
LEMMA DatabaseAlone ==
  ASSUME ResyncInv, UNCHANGED <<now, mails, database, cached, highest>>
  PROVE  /\ MailsOK' /\ DatabaseOK'
         /\ sel'.uids = sel.uids => ListOnRecord'
<1>1. /\ MailsOK /\ DatabaseOK /\ ListOnRecord
      /\ UNCHANGED <<uidNext, given, uidOf, removed, overwritten>>
  BY DEF ResyncInv, database
<1>2. MailsOK'
  BY <1>1 DEF MailsOK
<1>3. DatabaseOK'
  BY <1>1 DEF DatabaseOK, OnRecord
<1>4. sel'.uids = sel.uids => ListOnRecord'
  BY <1>1 DEF ListOnRecord, OnRecord
<1> QED
  BY <1>2, <1>3, <1>4

\* What changed between the list and the state is set apart.
LEMMA SelectStateStep == ResyncInv /\ SelectState => ResyncInv'
<1> SUFFICES ASSUME ResyncInv, SelectState PROVE ResyncInv'
  OBVIOUS
<1>1. /\ MailsOK /\ DatabaseOK /\ SelOK
      /\ UNCHANGED <<now, mails, database, cached, highest, unheard>>
      /\ UNCHANGED <<given, uidOf, overwritten>>
  BY DEF ResyncInv, SelectState, database
<1>2. /\ sel.pc = "state" /\ sel'.pc = "changes" /\ sel'.uids = sel.uids /\ sel'.state = now
      /\ sel'.left = sel.left /\ sel'.gone = sel.gone
      /\ sel' = [pc |-> sel'.pc, uids |-> sel'.uids, listed |-> sel'.listed, state |-> sel'.state,
                 gone |-> sel'.gone, left |-> sel'.left]
  BY <1>1 DEF SelectState, SelOK
<1>3. blind' = blind \cup {m \in Mails : mails[m].changed > sel.listed}
  BY DEF SelectState
<1>4. MailsOK' /\ DatabaseOK' /\ ListOnRecord'
  BY <1>1, <1>2, DatabaseAlone
<1>5. Time = sel.listed /\ Time' = now /\ Excused = {} /\ Excused' = blind' /\ sel.listed \in Nat
      /\ sel.listed <= now /\ now \in Nat
  BY <1>1, <1>2 DEF Time, Excused, SelOK, MailsOK
<1>6. SelOK'
  BY <1>1, <1>2, <1>5 DEF SelOK, MailsOK
<1>7. ASSUME ~unheard PROVE Phases'
  <2>1. Known /\ AsOf /\ ListsHeld
    BY <1>2, <1>7 DEF ResyncInv, Phases
  <2>2. Known'
    BY <1>1, <1>3, <2>1 DEF Known
  <2>3. \A m \in Mails \ blind' : mails[m].changed <= sel.listed
    BY <1>1, <1>3, <1>5 DEF MailsOK
  <2>4. DOMAIN sel.uids \subseteq Mails /\ \A m \in Mails : mails[m].born \in Nat
    BY <1>1 DEF SelOK, MailsOK
  <2>5. AsOf'
    BY <1>1, <1>2, <1>5, <2>1, <2>3, <2>4 DEF AsOf
  <2>6. ListsHeld'
    BY <1>1, <1>2, <2>1 DEF ListsHeld, IsListed
  <2> QED
    BY <1>2, <2>2, <2>5, <2>6 DEF Phases
<1> QED
  BY <1>1, <1>4, <1>6, <1>7 DEF ResyncInv

\* A SELECT that fails leaves the client as it was.
LEMMA SelectFailsStep == ResyncInv /\ SelectFails => ResyncInv'
<1> SUFFICES ASSUME ResyncInv, SelectFails PROVE ResyncInv'
  OBVIOUS
<1>1. /\ MailsOK /\ DatabaseOK /\ SelOK
      /\ UNCHANGED <<now, mails, database, cached, highest, blind, unheard>>
      /\ UNCHANGED <<given, uidOf, overwritten>>
  BY DEF ResyncInv, SelectFails, database
<1>2. /\ sel.pc = "state" /\ sel'.pc = "failed" /\ sel'.uids = sel.uids
      /\ sel'.left = sel.left /\ sel'.gone = sel.gone
      /\ sel' = [pc |-> sel'.pc, uids |-> sel'.uids, listed |-> sel'.listed, state |-> sel'.state,
                 gone |-> sel'.gone, left |-> sel'.left]
  BY <1>1 DEF SelectFails, SelOK
<1>3. MailsOK' /\ DatabaseOK' /\ ListOnRecord'
  BY <1>1, <1>2, DatabaseAlone
<1>4. SelOK'
  BY <1>1, <1>2 DEF SelOK
<1>5. ~unheard => Known
  BY <1>2 DEF ResyncInv, Phases
<1>6. ~unheard => Known'
  BY <1>1, <1>5 DEF Known
<1> QED
  BY <1>1, <1>2, <1>3, <1>4, <1>6 DEF ResyncInv, Phases

\* A UID of the client that the list has not is that of a message which has changed since
\* HIGHESTMODSEQ and was there before, and so may have vanished; a listed message that
\* the client has not as it is has changed since, too, and so is fetched.
LEMMA AskChangesStep == ResyncInv /\ AskChanges => ResyncInv'
<1> SUFFICES ASSUME ResyncInv, AskChanges PROVE ResyncInv'
  OBVIOUS
<1>1. /\ MailsOK /\ DatabaseOK /\ SelOK
      /\ UNCHANGED <<now, mails, database, cached, highest, blind, unheard>>
      /\ UNCHANGED <<given, uidOf, overwritten>>
  BY DEF ResyncInv, AskChanges, database
<1> DEFINE touched == {m \in Mails : mails[m].changed > highest}
           alive == {m \in touched : mails[m].place # "destroyed"}
           before == {m \in touched : mails[m].born <= highest}
<1>2. /\ sel.pc = "changes" /\ sel'.uids = sel.uids /\ sel'.state = sel.state
      /\ sel'.gone = before
      /\ sel'.left = alive \cap DOMAIN sel.uids
      /\ sel'.pc = IF before # {} THEN "vanished" ELSE "fetch"
      /\ sel' = [pc |-> sel'.pc, uids |-> sel'.uids, listed |-> sel'.listed, state |-> sel'.state,
                 gone |-> sel'.gone, left |-> sel'.left]
  <2>1. MayHaveVanished(ChangesSince(highest)) = before
    BY DEF MayHaveVanished, ChangesSince
  <2>2. ChangesSince(highest).created \cup ChangesSince(highest).updated = alive
    <3>1. \A m \in Mails : mails[m].born > highest \/ mails[m].born <= highest
      BY <1>1 DEF MailsOK
    <3> QED
      BY <3>1 DEF ChangesSince
  <2> QED
    BY <1>1, <2>1, <2>2 DEF AskChanges, SelOK
<1>3. MailsOK' /\ DatabaseOK' /\ ListOnRecord'
  BY <1>1, <1>2, DatabaseAlone
<1>4. Time' = Time /\ Time = sel.state /\ Excused' = Excused /\ Excused = blind
      /\ highest <= Time /\ Time \in Nat /\ highest \in Nat
  BY <1>1, <1>2 DEF Time, Excused, SelOK, MailsOK
<1>5. SelOK'
  BY <1>1, <1>2, <1>4 DEF SelOK
<1>6. ASSUME ~unheard PROVE Phases'
  <2>1. Known /\ AsOf /\ ListsHeld
    BY <1>2, <1>6 DEF ResyncInv, Phases
  <2>2. AsOf' /\ ListsHeld'
    BY <1>1, <1>2, <1>4, <2>1 DEF AsOf, ListsHeld, IsListed
  <2>3. ASSUME NEW u \in DOMAIN cached \ overwritten, given[u] \notin blind
        PROVE  IsListed(u) \/ given[u] \in before
    <3>1. given[u] \in Mails /\ mails[given[u]].changed \in Nat
      BY <1>1, <2>3 DEF DatabaseOK, MailsOK
    <3>2. CASE mails[given[u]].changed <= highest
      BY <2>1, <2>3, <3>2 DEF Known, ListsHeld
    <3>3. CASE mails[given[u]].changed > highest
      BY <2>1, <2>3, <3>1, <3>3 DEF Known
    <3> QED
      BY <1>4, <3>1, <3>2, <3>3
  <2>4. NoneLeft'
    <3>1. \A u \in DOMAIN cached : IsListed(u)' <=> IsListed(u)
      BY <1>1, <1>2 DEF IsListed
    <3> QED
      BY <1>1, <1>2, <2>3, <3>1 DEF NoneLeft
  <2>5. HasAll'
    <3> SUFFICES ASSUME NEW m \in DOMAIN sel.uids \ (blind \cup alive), mails[m].place # "destroyed"
                 PROVE  /\ sel.uids[m] \in DOMAIN cached
                        /\ cached[sel.uids[m]] = mails[m].changed
      BY <1>1, <1>2, <1>4 DEF HasAll
    <3>1. m \in Mails /\ mails[m].changed \in Nat
      BY <1>1 DEF SelOK, MailsOK
    <3>2. mails[m].changed <= highest
      BY <1>4, <3>1
    <3>3. mails[m].changed <= Time
      BY <1>4, <3>1, <3>2
    <3>4. mails[m].place = "in" /\ uidOf[m] = sel.uids[m]
      BY <1>4, <2>1, <3>3 DEF AsOf
    <3> QED
      BY <2>1, <3>1, <3>2, <3>4 DEF Known
  <2>6. GoneInLeft'
    BY <1>1, <1>2 DEF GoneInLeft
  <2> QED
    BY <1>2, <2>2, <2>4, <2>5, <2>6 DEF Phases
<1> QED
  BY <1>1, <1>3, <1>5, <1>6 DEF ResyncInv

\* The UIDs that are named are those of messages that lost them; a message that is listed
\* none the less, because it lost its UID after the list, is fetched again.
LEMMA VanishedStep == ResyncInv /\ Vanished => ResyncInv'
<1> SUFFICES ASSUME ResyncInv, Vanished PROVE ResyncInv'
  OBVIOUS
<1>1. /\ MailsOK /\ DatabaseOK /\ SelOK /\ ListOnRecord
      /\ UNCHANGED <<now, mails, database, highest, blind, unheard>>
      /\ UNCHANGED <<uidNext, given, uidOf, removed, overwritten>>
  BY DEF ResyncInv, Vanished, database
<1> DEFINE uids == {removed[m] : m \in sel.gone} \ {0}
<1>2. /\ sel.pc = "vanished" /\ sel'.uids = sel.uids /\ sel'.state = sel.state
      /\ sel'.gone = sel.gone /\ sel'.left = sel.left /\ sel'.pc = "fetch"
      /\ sel' = [pc |-> sel'.pc, uids |-> sel'.uids, listed |-> sel'.listed, state |-> sel'.state,
                 gone |-> sel'.gone, left |-> sel'.left]
  BY <1>1 DEF Vanished, SelOK
<1>3. /\ DOMAIN cached' = DOMAIN cached \ uids
      /\ \A u \in DOMAIN cached \ uids : cached'[u] = cached[u]
  BY DEF Vanished
<1>4. MailsOK' /\ DatabaseOK' /\ ListOnRecord'
  <2>1. MailsOK'
    BY <1>1 DEF MailsOK
  <2>2. DatabaseOK'
    BY <1>1, <1>3 DEF DatabaseOK, OnRecord
  <2>3. ListOnRecord'
    BY <1>1, <1>2 DEF ListOnRecord, OnRecord
  <2> QED
    BY <2>1, <2>2, <2>3
<1>5. Time' = Time /\ Time = sel.state /\ Excused' = Excused /\ Excused = blind
  BY <1>1, <1>2 DEF Time, Excused
<1>6. SelOK'
  BY <1>1, <1>2, <1>5 DEF SelOK
<1>7. ASSUME ~unheard PROVE Phases'
  <2>1. AsOf /\ ListsHeld /\ NoneLeft /\ HasAll /\ GoneInLeft
    BY <1>2, <1>7 DEF ResyncInv, Phases
  <2>2. AsOf'
    BY <1>1, <1>2, <1>5, <2>1 DEF AsOf
  <2>3. ASSUME NEW u \in DOMAIN cached \ (uids \cup overwritten), given[u] \notin blind PROVE IsListed(u)
    <3>1. CASE given[u] \in sel.gone
      <4>1. u # 0 /\ OnRecord(u)
        BY <1>1, <2>3 DEF DatabaseOK
      <4>2. removed[given[u]] # u
        BY <2>3, <3>1, <4>1
      <4>3. uidOf[given[u]] = u
        BY <2>3, <4>1, <4>2 DEF OnRecord
      <4> QED
        BY <2>1, <2>3, <4>3 DEF ListsHeld
    <3>2. CASE given[u] \notin sel.gone
      BY <2>1, <2>3, <3>2 DEF NoneLeft
    <3> QED
      BY <3>1, <3>2
  <2>4. NoneLeft'
    <3>1. \A u \in DOMAIN cached : IsListed(u)' <=> IsListed(u)
      BY <1>1, <1>2 DEF IsListed
    <3> QED
      BY <1>1, <1>2, <1>3, <2>3, <3>1 DEF NoneLeft
  <2>5. HasAll'
    <3> SUFFICES ASSUME NEW m \in DOMAIN sel.uids \ (blind \cup sel.left), mails[m].place # "destroyed"
                 PROVE  /\ sel.uids[m] \in DOMAIN cached'
                        /\ mails[m].changed <= Time => cached'[sel.uids[m]] = mails[m].changed
      BY <1>1, <1>2, <1>5 DEF HasAll
    <3>1. /\ sel.uids[m] \in DOMAIN cached
          /\ mails[m].changed <= Time => cached[sel.uids[m]] = mails[m].changed
      BY <2>1 DEF HasAll
    <3>2. ASSUME sel.uids[m] \in uids PROVE FALSE
      <4>1. PICK k \in sel.gone : removed[k] = sel.uids[m] /\ removed[k] # 0
        BY <3>2
      <4>2. given[removed[k]] = k /\ given[sel.uids[m]] = m
        BY <1>1, <4>1 DEF DatabaseOK, SelOK
      <4>3. m \in sel.gone
        BY <4>1, <4>2
      <4> QED
        BY <2>1, <4>3 DEF GoneInLeft
    <3> QED
      BY <1>3, <3>1, <3>2
  <2> QED
    BY <1>2, <2>2, <2>4, <2>5 DEF Phases
<1> QED
  BY <1>1, <1>4, <1>6, <1>7 DEF ResyncInv

\* What is fetched is as it is on the server now.
LEMMA FetchChunkStep ==
  ASSUME ResyncInv, NEW chunk, FetchChunk(chunk) PROVE ResyncInv'
<1>1. /\ MailsOK /\ DatabaseOK /\ SelOK /\ ListOnRecord
      /\ UNCHANGED <<now, mails, database, highest, blind, unheard>>
      /\ UNCHANGED <<uidNext, given, uidOf, removed, overwritten>>
  BY DEF ResyncInv, FetchChunk, database
<1> DEFINE found == {m \in chunk : mails[m].place # "destroyed"}
           uids  == {sel.uids[m] : m \in found}
<1>2. /\ sel.pc = "fetch" /\ sel'.uids = sel.uids /\ sel'.state = sel.state
      /\ sel'.gone = sel.gone /\ sel'.left = sel.left \ chunk /\ sel'.pc = "fetch"
      /\ sel' = [pc |-> sel'.pc, uids |-> sel'.uids, listed |-> sel'.listed, state |-> sel'.state,
                 gone |-> sel'.gone, left |-> sel'.left]
  BY <1>1 DEF FetchChunk, SelOK
<1>3. /\ DOMAIN cached' = DOMAIN cached \cup uids
      /\ \A u \in DOMAIN cached' : cached'[u] = IF u \in uids THEN mails[given[u]].changed ELSE cached[u]
  BY DEF FetchChunk
<1>4. chunk \subseteq sel.left /\ found \subseteq DOMAIN sel.uids
  BY <1>1 DEF FetchChunk, SelOK
<1>5. \A m \in DOMAIN sel.uids : sel.uids[m] \in DOMAIN given /\ given[sel.uids[m]] = m
  BY <1>1 DEF SelOK
<1>6. ASSUME NEW u \in uids PROVE u \in DOMAIN given /\ IsListed(u) /\ OnRecord(u)
  <2>1. PICK m \in found : u = sel.uids[m]
    BY <1>6
  <2>2. OnRecord(sel.uids[m])
    BY <1>1, <1>4, <2>1 DEF ListOnRecord
  <2>3. OnRecord(u)
    BY <2>1, <2>2 DEF OnRecord
  <2> QED
    BY <1>4, <1>5, <2>1, <2>3 DEF IsListed
<1>7. MailsOK' /\ DatabaseOK' /\ ListOnRecord'
  <2>1. MailsOK'
    BY <1>1 DEF MailsOK
  <2>2. \A u \in DOMAIN cached' : u \in DOMAIN given /\ OnRecord(u)
    BY <1>1, <1>3, <1>6 DEF DatabaseOK
  <2>3. \A u \in DOMAIN cached' : OnRecord(u)'
    BY <1>1, <2>2 DEF OnRecord
  <2>4. DatabaseOK'
    BY <1>1, <2>2, <2>3 DEF DatabaseOK
  <2>5. ListOnRecord'
    BY <1>1, <1>2 DEF ListOnRecord, OnRecord
  <2> QED
    BY <2>1, <2>4, <2>5
<1>8. Time' = Time /\ Time = sel.state /\ Excused' = Excused /\ Excused = blind
  BY <1>1, <1>2 DEF Time, Excused
<1>9. SelOK'
  BY <1>1, <1>2, <1>8 DEF SelOK
<1>10. ASSUME ~unheard PROVE Phases'
  <2>1. AsOf /\ NoneLeft /\ HasAll
    BY <1>2, <1>10 DEF ResyncInv, Phases
  <2>2. AsOf'
    BY <1>1, <1>2, <1>8, <2>1 DEF AsOf
  <2>3. NoneLeft'
    <3>1. \A u : IsListed(u)' <=> IsListed(u)
      BY <1>1, <1>2 DEF IsListed
    <3>2. \A u \in DOMAIN cached \ overwritten : given[u] \notin blind => IsListed(u)
      BY <1>2, <2>1 DEF NoneLeft
    <3> QED
      BY <1>1, <1>2, <1>3, <1>6, <3>1, <3>2 DEF NoneLeft
  <2>4. HasAll'
    <3> SUFFICES ASSUME NEW m \in DOMAIN sel.uids \ (blind \cup (sel.left \ chunk)),
                        mails[m].place # "destroyed"
                 PROVE  /\ sel.uids[m] \in DOMAIN cached'
                        /\ mails[m].changed <= Time => cached'[sel.uids[m]] = mails[m].changed
      BY <1>1, <1>2, <1>8 DEF HasAll
    <3>1. CASE m \in chunk
      <4>1. sel.uids[m] \in uids
        BY <3>1
      <4> QED
        BY <1>3, <1>5, <4>1
    <3>2. CASE m \notin chunk
      <4>1. /\ sel.uids[m] \in DOMAIN cached
            /\ mails[m].changed <= Time => cached[sel.uids[m]] = mails[m].changed
        BY <2>1, <3>2 DEF HasAll
      <4>2. sel.uids[m] \notin uids
        BY <1>4, <1>5, <3>2
      <4> QED
        BY <1>3, <4>1, <4>2
    <3> QED
      BY <3>1, <3>2
  <2> QED
    BY <1>2, <2>2, <2>3, <2>4 DEF Phases
<1> QED
  BY <1>1, <1>7, <1>9, <1>10 DEF ResyncInv

\* A failure that the client does not hear of is remembered.
LEMMA FetchFailsStep == ResyncInv /\ FetchFails => ResyncInv'
<1> SUFFICES ASSUME ResyncInv, FetchFails PROVE ResyncInv'
  OBVIOUS
<1>1. /\ MailsOK /\ DatabaseOK /\ SelOK
      /\ UNCHANGED <<now, mails, database, cached, highest, blind>> /\ unheard' = TRUE
      /\ UNCHANGED given
  BY DEF ResyncInv, FetchFails, database
<1>2. /\ sel.pc \in {"changes", "vanished", "fetch"} /\ sel'.pc = "fetch" /\ sel'.uids = sel.uids
      /\ sel'.left \in {sel.left, {}} /\ sel'.gone = sel.gone /\ sel'.state = sel.state
      /\ sel' = [pc |-> sel'.pc, uids |-> sel'.uids, listed |-> sel'.listed, state |-> sel'.state,
                 gone |-> sel'.gone, left |-> sel'.left]
  BY <1>1 DEF FetchFails, SelOK
<1>3. MailsOK' /\ DatabaseOK' /\ ListOnRecord'
  BY <1>1, <1>2, DatabaseAlone
<1>4. SelOK'
  BY <1>1, <1>2 DEF SelOK, Time
<1> QED
  BY <1>1, <1>3, <1>4 DEF ResyncInv

\* When nothing is left to be fetched the client is up to date with the new HIGHESTMODSEQ.
LEMMA SelectAnswersStep == ResyncInv /\ SelectAnswers => ResyncInv'
<1> SUFFICES ASSUME ResyncInv, SelectAnswers PROVE ResyncInv'
  OBVIOUS
<1>1. /\ MailsOK /\ DatabaseOK /\ SelOK /\ ListOnRecord
      /\ UNCHANGED <<now, mails, database, cached, blind, unheard>>
      /\ UNCHANGED <<uidNext, given, uidOf, removed, overwritten>>
  BY DEF ResyncInv, SelectAnswers, database
<1>2. /\ sel.pc = "fetch" /\ sel.left = {} /\ highest' = sel.state
      /\ sel'.pc = "away" /\ sel'.uids = sel.uids /\ sel'.left = {} /\ sel'.gone = {}
      /\ sel' = [pc |-> sel'.pc, uids |-> sel'.uids, listed |-> sel'.listed, state |-> sel'.state,
                 gone |-> sel'.gone, left |-> sel'.left]
  BY DEF SelectAnswers, NoCommand
<1>3. /\ Time' = highest' /\ Time = highest' /\ Excused' = blind /\ Excused = blind
      /\ highest' \in Nat /\ highest' <= now
  BY <1>1, <1>2 DEF Time, Excused, SelOK
<1>4. MailsOK' /\ DatabaseOK' /\ ListOnRecord'
  <2>1. MailsOK'
    BY <1>1, <1>3 DEF MailsOK
  <2>2. DatabaseOK'
    BY <1>1 DEF DatabaseOK, OnRecord
  <2>3. ListOnRecord'
    BY <1>1, <1>2 DEF ListOnRecord, OnRecord
  <2> QED
    BY <2>1, <2>2, <2>3
<1>5. SelOK'
  BY <1>1, <1>2, <1>3 DEF SelOK
<1>6. ASSUME ~unheard PROVE Phases'
  <2>1. AsOf /\ NoneLeft /\ HasAll
    BY <1>2, <1>6 DEF ResyncInv, Phases
  <2>2. AsOf' /\ HasAll'
    BY <1>1, <1>2, <1>3, <2>1 DEF AsOf, HasAll
  <2>3. NoneLeft'
    BY <1>1, <1>2, <2>1 DEF NoneLeft, IsListed
  <2>4. ASSUME NEW u \in DOMAIN cached \ overwritten, given[u] \notin blind
        PROVE  /\ mails[given[u]].born <= highest'
               /\ mails[given[u]].changed <= highest' => mails[given[u]].place = "in" /\ uidOf[given[u]] = u
    <3>1. IsListed(u)
      BY <1>2, <2>1, <2>4 DEF NoneLeft
    <3> QED
      BY <1>3, <2>1, <2>4, <3>1 DEF IsListed, AsOf
  <2>5. ASSUME NEW m \in Mails \ blind, mails[m].place = "in", mails[m].changed <= highest'
        PROVE  uidOf[m] \in DOMAIN cached /\ cached[uidOf[m]] = mails[m].changed
    <3>1. m \in DOMAIN sel.uids /\ uidOf[m] = sel.uids[m]
      BY <1>3, <2>1, <2>5 DEF AsOf
    <3> QED
      BY <1>2, <1>3, <2>1, <2>5, <3>1 DEF HasAll
  <2>6. Known'
    BY <1>1, <2>4, <2>5 DEF Known
  <2> QED
    BY <1>2, <2>2, <2>3, <2>6 DEF Phases
<1> QED
  BY <1>1, <1>4, <1>5, <1>6 DEF ResyncInv

-----------------------------------------------------------------------------
\* Every step keeps the invariant.
LEMMA ResyncStep == ResyncInv /\ [ResyncNext]_resyncVars => ResyncInv'
<1> SUFFICES ASSUME ResyncInv, [ResyncNext]_resyncVars PROVE ResyncInv'
  OBVIOUS
<1>1. ASSUME NEW m \in Mails, Arrive(m) \/ Flag(m) \/ Leave(m) \/ Return(m) \/ Destroy(m)
      PROVE  ResyncInv'
  BY <1>1, HappensStep DEF Arrive, Flag, Leave, Return, Destroy
<1>2. CASE UNCHANGED resyncVars
  <2>1. UNCHANGED <<now, mails, uidNext, given, uidOf, removed, overwritten, cached, highest, sel, blind, unheard>>
    BY <1>2 DEF resyncVars, database
  <2>2. MailsOK' /\ DatabaseOK' /\ ListOnRecord'
    BY <1>2, DatabaseAlone DEF resyncVars
  <2>3. SelOK'
    BY <2>1 DEF ResyncInv, SelOK, Time
  <2>4. Phases => Phases'
    BY <2>1 DEF Phases, Known, AsOf, ListsHeld, NoneLeft, HasAll, GoneInLeft, IsListed, Time, Excused
  <2> QED
    BY <2>1, <2>2, <2>3, <2>4 DEF ResyncInv
<1> QED
  BY <1>1, <1>2, OtherSessionStep, SelectListsStep, SelectStateStep, SelectFailsStep,
     AskChangesStep, VanishedStep, FetchChunkStep, FetchFailsStep, SelectAnswersStep DEF ResyncNext

\* A client that comes back with QRESYNC has exactly the messages of the mailbox, with the
\* flags of its HIGHESTMODSEQ, for any mailbox, any changes while it is away and during
\* SELECT, and however other sessions synchronize the mailbox meanwhile.
THEOREM ResyncCompleteAlways == MCSpec => []ResyncComplete
<1>1. MCInit => ResyncInv
  BY InitResyncInv DEF MCInit
<1>2. ResyncInv /\ [MCNext]_MCvars => ResyncInv'
  <2>1. [MCNext]_MCvars => [ResyncNext]_resyncVars
    BY DEF MCNext, MCvars
  <2> QED
    BY <2>1, ResyncStep
<1>3. ResyncInv => ResyncComplete
  <2> SUFFICES ASSUME ResyncInv, sel.pc = "away", ~unheard
               PROVE  /\ \A u \in DOMAIN cached \ overwritten :
                           given[u] \notin blind => given[u] \in DOMAIN sel.uids /\ sel.uids[given[u]] = u
                      /\ \A m \in DOMAIN sel.uids \ blind :
                           mails[m].place = "in" /\ uidOf[m] = sel.uids[m] =>
                             /\ uidOf[m] \in DOMAIN cached
                             /\ mails[m].changed <= highest => cached[uidOf[m]] = mails[m].changed
    BY DEF ResyncComplete
  <2>1. NoneLeft /\ HasAll /\ Time = highest /\ sel.left = {}
    BY DEF ResyncInv, Phases, SelOK, Time
  <2> QED
    BY <2>1 DEF NoneLeft, HasAll, IsListed
<1> QED
  BY <1>1, <1>2, <1>3, PTL DEF MCSpec

=============================================================================
