--------------------------- MODULE CommandProofs --------------------------
(***************************************************************************)
(* Proofs about SavedSearch, CondStore, CopyMove, Receiver and SequenceSet.  *)
(***************************************************************************)
EXTENDS MCCommands, PositionsProofs

-----------------------------------------------------------------------------
(* The saved search, for any number of commands.  The loop installs searches  *)
(* one by one, in the order of the commands, and waits for the one before; so *)
(* at most one is running, it is the last one installed, and it is the one in  *)
(* flight.                                                                     *)

SavedSpec == SavedInit /\ [][SavedNext]_savedVars

Places == {"client", "loop", "install", "resolve", "query", "restore", "send", "end"}
SavedValues == Cmds \cup {NoneYet, EmptyList}

SavedTyped ==
  /\ kind \in [Cmds -> Savings \cup {"use", "expunge", ""}] /\ at \in [Cmds -> Places]
  /\ saved \in [tag : {"flight", "results", "none"}, by : SavedValues]
  /\ saved.tag = "flight" => saved.by \in Cmds
  /\ chan \in [Cmds -> {"open", "sent", "closed"}] /\ prev \in [Cmds -> SavedValues \cup {Unknown}]
  /\ waits \in [Cmds -> Cmds \cup {NoneYet}] /\ dollar \in [Cmds -> SavedValues \cup {Unknown}]
  /\ failed \subseteq Cmds /\ undone \in BOOLEAN

\* Where a command can be, and what it has there.
Placed(k) ==
  /\ at[k] = "client" <=> kind[k] = ""
  /\ at[k] \in {"install", "query", "send", "restore"} => kind[k] \in Savings
  /\ at[k] = "resolve" => kind[k] \in Savings \cup {"use"}
  /\ at[k] \in {"query", "send", "restore", "end"} \/ dollar[k] = Unknown
  /\ at[k] \in {"client", "loop"} => prev[k] = Unknown
  /\ kind[k] \in Savings /\ at[k] \notin {"client", "loop"} => prev[k] # Unknown
  /\ chan[k] = "closed" <=> k \in failed
  /\ k \in failed => at[k] \in {"restore", "end"}
  /\ at[k] = "restore" => k \in failed
  /\ at[k] \in {"client", "install"} => waits[k] = NoneYet
  /\ chan[k] = "sent" => at[k] = "end"

\* The loop takes the commands in order, one at a time.
TakenInOrder == \A k, j \in Cmds : j < k /\ at[k] # "client" => at[j] \notin {"client", "loop", "install"}

Installed(k) == kind[k] \in Savings /\ at[k] \notin {"client", "loop", "install"}
Running(k)   == kind[k] \in Savings /\ at[k] \in {"resolve", "query"}

\* v may be told to command k as the result saved before it.
Good(v, k) ==
  IF v = EmptyList THEN \E j \in failed : j # k
  ELSE \A j \in Cmds : v < j /\ j < k /\ kind[j] \in Savings => j \in failed

\* What holds while no result has been overwritten or forgotten.
Calm == ~undone /\ \A j \in Cmds : kind[j] # "expunge"

FlightOk ==
  /\ \A k \in Cmds : Running(k) => saved = InFlight(k)
  /\ saved.tag = "flight" =>
       /\ saved.by \in Cmds /\ Installed(saved.by)
       /\ \A j \in Cmds : Installed(j) => j <= saved.by

ResultOk ==
  saved.tag # "flight" =>
    IF saved.by = EmptyList THEN failed # {}
    ELSE \A j \in Cmds : saved.by < j /\ Installed(j) => j \in failed

WaitOk(k) ==
  /\ at[k] \in {"loop", "resolve"} /\ waits[k] # NoneYet =>
       \A j \in Cmds : waits[k] < j /\ j < k => kind[j] \notin Savings
  /\ at[k] = "loop" /\ waits[k] # NoneYet => \A j \in Cmds : Running(j) => j = waits[k]
  /\ at[k] = "install" => \A j \in Cmds : ~Running(j)

TellOk(k) ==
  /\ prev[k] # Unknown => Good(prev[k], k)
  /\ dollar[k] # Unknown => Good(dollar[k], k)

CalmOk == FlightOk /\ ResultOk /\ \A k \in Cmds : WaitOk(k) /\ TellOk(k)

SavedInv == SavedTyped /\ TakenInOrder /\ (\A k \in Cmds : Placed(k)) /\ (Calm => CalmOk)

\* Commands are numbers other than those for no command.
LEMMA CmdsInt == Cmds \subseteq Int /\ Cmds \cap {NoneYet, EmptyList, Unknown} = {} /\ \A k \in Cmds : k > 0
BY SavedSearchAssumption DEF Cmds, NoneYet, EmptyList, Unknown

\* They are in order.
LEMMA CmdsOrder == \A k, j \in Cmds : (j < k \/ j = k \/ k < j) /\ (j <= k \/ k < j) /\ (j < k => j # k /\ ~(k < j) /\ ~(k <= j))
BY CmdsInt

\* Before the first command nothing is saved.
LEMMA SavedFirst == SavedInit => SavedInv
<1> SUFFICES ASSUME SavedInit PROVE SavedInv
  OBVIOUS
<1>1. SavedTyped
  BY DEF SavedInit, SavedTyped, Places, SavedValues, Nothing, Savings
<1>2. TakenInOrder /\ \A k \in Cmds : Placed(k)
  BY DEF SavedInit, TakenInOrder, Placed, Savings
<1>3. FlightOk /\ ResultOk
  <2>1. saved.tag = "none" /\ saved.by # EmptyList /\ \A k \in Cmds : ~Running(k) /\ ~Installed(k)
    <3>1. saved = [tag |-> "none", by |-> 0]
      BY DEF SavedInit, Nothing, NoneYet
    <3>2. \A k \in Cmds : kind[k] \notin Savings
      BY DEF SavedInit, Savings
    <3> QED
      BY <3>1, <3>2 DEF Running, Installed, EmptyList
  <2> QED
    BY <2>1 DEF FlightOk, ResultOk
<1>4. \A k \in Cmds : WaitOk(k) /\ TellOk(k)
  BY DEF SavedInit, WaitOk, TellOk, Running, Savings
<1> QED
  BY <1>1, <1>2, <1>3, <1>4 DEF SavedInv, CalmOk

\* What may be told stays so: searches fail, and the commands before one are known.
LEMMA GoodStays ==
  ASSUME NEW v \in SavedValues, NEW k \in Cmds, Good(v, k), failed \subseteq failed',
         \A j \in Cmds : j < k => kind'[j] = kind[j]
  PROVE  Good(v, k)'
BY CmdsInt DEF Good

\* Whoever asks for the saved result and knows it knows what may be told to it.
LEMMA GotGood ==
  ASSUME SavedInv, NEW k \in Cmds, at[k] \in {"loop", "resolve"}, Known(k)
  PROVE  Got(k) \in SavedValues /\ (Calm => Good(Got(k), k))
<1> USE CmdsInt
<1>1. Got(k) \in SavedValues
  BY DEF SavedInv, SavedTyped, Got, SavedValues
<1>2. k \notin failed
  BY DEF SavedInv, Placed
<1>3. \A j \in Cmds : j < k /\ kind[j] \in Savings => Installed(j)
  BY DEF SavedInv, TakenInOrder, Installed
<1>4. ASSUME Calm, waits[k] = NoneYet PROVE Good(Got(k), k)
  BY <1>2, <1>3, <1>4 DEF SavedInv, CalmOk, ResultOk, Known, Got, Good
<1>5. ASSUME Calm, waits[k] # NoneYet PROVE Good(Got(k), k)
  <2>1. waits[k] \in Cmds /\ WaitOk(k) /\ chan[waits[k]] \in {"sent", "closed"}
    BY <1>5 DEF SavedInv, SavedTyped, CalmOk, Known
  <2>2. CASE chan[waits[k]] = "sent"
    BY <1>5, <2>1, <2>2 DEF WaitOk, Got, Good
  <2>3. CASE chan[waits[k]] = "closed"
    BY <1>2, <1>5, <2>1, <2>3 DEF SavedInv, Placed, Got, Good
  <2> QED
    BY <2>1, <2>2, <2>3
<1> QED
  BY <1>1, <1>4, <1>5

\* The loop takes a command: it is the last one, and nothing is known of it.
LEMMA Takes ==
  ASSUME SavedInv, NEW k \in Cmds, NEW x \in SavedKinds, Take(k, x)
  PROVE  SavedInv'
<1> USE CmdsInt DEF Savings, At, Take, LoopFree
<1>0. /\ \A j \in Cmds : j < k => at[j] # "client"
      /\ \A j \in Cmds : k < j => at[j] = "client"
      /\ kind[k] = "" /\ waits[k] = NoneYet
  <2>1. \A j \in Cmds : j < k => j \in 1 .. k - 1
    BY DEF Cmds
  <2> QED
    BY <2>1 DEF SavedInv, TakenInOrder, Placed
<1>1. SavedTyped'
  BY SavedSearchAssumption DEF SavedInv, SavedTyped, Placed, Places, SavedValues
<1>2. TakenInOrder'
  <2> SUFFICES ASSUME NEW i \in Cmds, NEW j \in Cmds, j < i, at'[i] # "client"
               PROVE  at'[j] \notin {"client", "loop", "install"}
    BY DEF TakenInOrder
  <2>1. i = k \/ (i < k /\ at[i] # "client")
    BY <1>0, CmdsOrder DEF SavedInv, SavedTyped
  <2>2. j < k /\ j # k
    BY <2>1
  <2> QED
    BY <1>0, <2>2 DEF SavedInv, SavedTyped
<1>3. ASSUME NEW i \in Cmds PROVE Placed(i)'
  BY SavedSearchAssumption, ZenonT(90) DEF SavedInv, SavedTyped, TakenInOrder, Placed
<1>4. ASSUME Calm' PROVE CalmOk'
  <2>1. Calm /\ CalmOk
    BY <1>4 DEF SavedInv, SavedTyped, Placed, Calm
  <2>2. FlightOk'
    BY <2>1, ZenonT(100) DEF SavedInv, SavedTyped, Placed, TakenInOrder, CalmOk, FlightOk, Running, Installed
  <2>3. ResultOk'
    BY <2>1 DEF SavedInv, SavedTyped, Placed, TakenInOrder, CalmOk, ResultOk, FlightOk, Installed
  <2>4. ASSUME NEW i \in Cmds PROVE WaitOk(i)'
    <3>1. WaitOk(i) /\ \A j \in Cmds : Running(j)' => Running(j) \/ j = k
      BY <2>1 DEF SavedInv, SavedTyped, CalmOk, Running
    <3>2. CASE i = k
      BY <1>0, <3>2 DEF SavedInv, SavedTyped, WaitOk
    <3>3. CASE i # k
      <4>1. at'[i] = at[i] /\ at[i] \notin {"loop", "install"} /\ (at[i] # "client" => i < k)
        BY <1>0, <3>3, CmdsOrder DEF SavedInv, SavedTyped
      <4>2. ASSUME NEW j \in Cmds, j < i, i < k PROVE kind'[j] = kind[j]
        <5>1. j # k
          BY <4>2
        <5> QED
          BY <5>1 DEF SavedInv, SavedTyped
      <4> QED
        BY <3>1, <3>3, <4>1, <4>2 DEF WaitOk
    <3> QED
      BY <3>2, <3>3
  <2>5. ASSUME NEW i \in Cmds PROVE TellOk(i)'
    <3>1. CASE prev[i] = Unknown /\ dollar[i] = Unknown
      BY <3>1 DEF TellOk
    <3>2. CASE at[i] # "client"
      <4>1. TellOk(i) /\ \A j \in Cmds : j < i => kind'[j] = kind[j]
        BY <1>0, <2>1, <3>2 DEF SavedInv, SavedTyped, CalmOk
      <4> QED
        BY <4>1, GoodStays DEF SavedInv, SavedTyped, TellOk
    <3> QED
      BY <3>1, <3>2 DEF SavedInv, Placed
  <2> QED
    BY <2>2, <2>3, <2>4, <2>5 DEF CalmOk
<1> QED
  BY <1>1, <1>2, <1>3, <1>4 DEF SavedInv

\* After an EXPUNGE nothing is promised.
LEMMA Forgets ==
  ASSUME SavedInv, NEW k \in Cmds, ExpungeForgets(k)
  PROVE  SavedInv'
<1> USE CmdsInt DEF Savings, At, ExpungeForgets, Nothing
<1>1. SavedTyped'
  BY DEF SavedInv, SavedTyped, Placed, Places, SavedValues
<1>2. TakenInOrder'
  BY ZenonT(90) DEF SavedInv, SavedTyped, TakenInOrder, Placed
<1>3. ASSUME NEW i \in Cmds PROVE Placed(i)'
  BY DEF SavedInv, SavedTyped, TakenInOrder, Placed
<1>4. ASSUME Calm' PROVE CalmOk'
  BY <1>4 DEF SavedInv, SavedTyped, Calm
<1> QED
  BY <1>1, <1>2, <1>3, <1>4 DEF SavedInv

\* Who finds a search in flight waits for the last one installed.
LEMMA Looks ==
  ASSUME SavedInv, NEW k \in Cmds, Look(k)
  PROVE  SavedInv'
<1> USE CmdsInt DEF Savings, Look
<1>1. SavedTyped'
  BY DEF SavedInv, SavedTyped, Placed, Places, SavedValues
<1>2. TakenInOrder'
  BY DEF SavedInv, SavedTyped, TakenInOrder, Placed
<1>3. ASSUME NEW i \in Cmds PROVE Placed(i)'
  BY ZenonT(60) DEF SavedInv, SavedTyped, TakenInOrder, Placed
<1>4. ASSUME Calm' PROVE CalmOk'
  <2>1. Calm /\ CalmOk
    BY <1>4 DEF SavedInv, SavedTyped, Placed, Calm
  <2>2. FlightOk'
    BY <2>1 DEF SavedInv, SavedTyped, Placed, TakenInOrder, CalmOk, FlightOk, Running, Installed
  <2>3. ResultOk'
    BY <2>1 DEF SavedInv, SavedTyped, Placed, TakenInOrder, CalmOk, ResultOk, FlightOk, Installed
  <2>4. ASSUME NEW i \in Cmds PROVE WaitOk(i)'
    <3>1. CASE i # k
      BY <2>1, <3>1 DEF SavedInv, SavedTyped, CalmOk, WaitOk, Running
    <3>2. CASE i = k
      <4>1. waits'[i] = saved.by /\ saved.by \in Cmds /\ \A j \in Cmds : Installed(j) => j <= saved.by
        BY <2>1, <3>2 DEF SavedInv, SavedTyped, CalmOk, FlightOk
      <4>2. \A j \in Cmds : j < k /\ kind[j] \in Savings => Installed(j)
        BY DEF SavedInv, TakenInOrder, Installed
      <4>3. \A j \in Cmds : Running(j) => j = saved.by
        BY <2>1 DEF CalmOk, FlightOk, InFlight
      <4> QED
        BY <3>2, <4>1, <4>2, <4>3, CmdsOrder, at[k] # "install" DEF WaitOk, Running
    <3> QED
      BY <3>1, <3>2
  <2>5. ASSUME NEW i \in Cmds PROVE TellOk(i)'
    BY <2>1, GoodStays, ZenonT(60) DEF SavedInv, SavedTyped, Placed, TakenInOrder, CalmOk, TellOk
  <2> QED
    BY <2>2, <2>3, <2>4, <2>5 DEF CalmOk
<1> QED
  BY <1>1, <1>2, <1>3, <1>4 DEF SavedInv

\* The loop knows the result of before: no search is running.
LEMMA GetsPrev ==
  ASSUME SavedInv, NEW k \in Cmds, GetPrev(k)
  PROVE  SavedInv'
<1> USE CmdsInt DEF Savings, At, GetPrev
<1>0. Got(k) \in SavedValues /\ Got(k) # Unknown /\ (Calm => Good(Got(k), k))
  BY GotGood DEF SavedValues, NoneYet, EmptyList, Unknown
<1>1. SavedTyped'
  BY <1>0 DEF SavedInv, SavedTyped, Placed, Places, SavedValues
<1>2. TakenInOrder'
  BY <1>0, ZenonT(90) DEF SavedInv, SavedTyped, TakenInOrder, Placed
<1>3. ASSUME NEW i \in Cmds PROVE Placed(i)'
  BY <1>0 DEF SavedInv, SavedTyped, TakenInOrder, Placed
<1>4. ASSUME Calm' PROVE CalmOk'
  <2>1. Calm /\ CalmOk
    BY <1>4 DEF SavedInv, SavedTyped, Placed, Calm
  <2>2. FlightOk'
    BY <2>1, ZenonT(90) DEF SavedInv, SavedTyped, Placed, TakenInOrder, CalmOk, FlightOk, Running, Installed
  <2>3. ResultOk'
    BY <2>1 DEF SavedInv, SavedTyped, Placed, TakenInOrder, CalmOk, ResultOk, FlightOk, Installed
  <2>4. ASSUME NEW i \in Cmds PROVE WaitOk(i)'
    <3>1. i = k \/ at[i] \notin {"loop", "install"}
      BY CmdsOrder DEF SavedInv, SavedTyped, TakenInOrder
    <3>2. ASSUME NEW j \in Cmds, Running(j) PROVE FALSE
      <4>0. saved.tag = "flight"
        BY <2>1, <3>2 DEF CalmOk, FlightOk, InFlight
      <4>1. saved.tag = "flight" /\ chan[j] = "open"
        BY <3>2, <4>0 DEF SavedInv, SavedTyped, Placed, Running
      <4>2. WaitOk(k) /\ waits[k] = j
        BY <2>1, <3>2, <4>1 DEF CalmOk, WaitOk, Known
      <4> QED
        BY <4>1, <4>2 DEF Known, NoneYet
    <3> QED
      BY <2>1, <3>1, <3>2 DEF SavedInv, SavedTyped, CalmOk, WaitOk, Running
  <2>5. ASSUME NEW i \in Cmds PROVE TellOk(i)'
    <3>1. Good(Got(k), k)
      BY <1>0, <2>1
    <3> QED
      BY <1>0, <2>1, <3>1, GoodStays DEF SavedInv, SavedTyped, CalmOk, TellOk
  <2> QED
    BY <2>2, <2>3, <2>4, <2>5 DEF CalmOk
<1> QED
  BY <1>1, <1>2, <1>3, <1>4 DEF SavedInv

\* A search that is installed is the only one running.
LEMMA Installs ==
  ASSUME SavedInv, NEW k \in Cmds, Install(k)
  PROVE  SavedInv'
<1> USE CmdsInt DEF Savings, At, Install, InFlight
<1>1. SavedTyped'
  BY DEF SavedInv, SavedTyped, Placed, Places, SavedValues
<1>2. TakenInOrder'
  BY ZenonT(90) DEF SavedInv, SavedTyped, TakenInOrder, Placed
<1>3. ASSUME NEW i \in Cmds PROVE Placed(i)'
  BY DEF SavedInv, SavedTyped, TakenInOrder, Placed
<1>4. ASSUME Calm' PROVE CalmOk'
  <2>1. Calm /\ CalmOk
    BY <1>4 DEF SavedInv, SavedTyped, Placed, Calm
  <2>2. FlightOk'
    <3>1. \A j \in Cmds : ~Running(j)
      BY <2>1 DEF CalmOk, WaitOk
    <3>2. \A j \in Cmds : Running(j)' => j = k
      BY <3>1 DEF SavedInv, SavedTyped, Running
    <3>3. \A j \in Cmds : Installed(j)' => j <= k
      BY CmdsOrder DEF SavedInv, SavedTyped, TakenInOrder, Placed, Installed
    <3>4. Installed(k)'
      BY DEF SavedInv, SavedTyped, Placed, Installed
    <3> QED
      BY <3>2, <3>3, <3>4 DEF FlightOk
  <2>3. ResultOk'
    BY <2>1 DEF SavedInv, SavedTyped, Placed, TakenInOrder, CalmOk, ResultOk, FlightOk, Installed
  <2>4. ASSUME NEW i \in Cmds PROVE WaitOk(i)'
    <3>1. at'[i] \notin {"loop", "install"}
      BY CmdsOrder DEF SavedInv, SavedTyped, TakenInOrder
    <3> QED
      BY <2>1, <3>1, ZenonT(90) DEF SavedInv, SavedTyped, Placed, CalmOk, WaitOk
  <2>5. ASSUME NEW i \in Cmds PROVE TellOk(i)'
    BY <2>1, GoodStays DEF SavedInv, SavedTyped, Placed, TakenInOrder, CalmOk, TellOk
  <2> QED
    BY <2>2, <2>3, <2>4, <2>5 DEF CalmOk
<1> QED
  BY <1>1, <1>2, <1>3, <1>4 DEF SavedInv

\* A task knows what `$' is.
LEMMA GetsDollar ==
  ASSUME SavedInv, NEW k \in Cmds, GetDollar(k)
  PROVE  SavedInv'
<1> USE CmdsInt DEF Savings
<1>a. /\ at[k] = "resolve" /\ kind[k] \in Savings \cup {"use"}
      /\ UNCHANGED <<kind, saved, prev, waits, undone>>
  BY DEF GetDollar, SavedInv, Placed
<1>b. PICK v : /\ dollar' = [dollar EXCEPT ![k] = v] /\ v \in SavedValues \cup {Unknown}
               /\ Calm /\ v # Unknown => Good(v, k)
  <2>1. CASE DollarFrom(k) = "none"
    BY <2>1 DEF GetDollar
  <2>2. CASE DollarFrom(k) = "prev"
    BY <2>2 DEF GetDollar, SavedInv, SavedTyped, CalmOk, TellOk
  <2>3. CASE DollarFrom(k) = "saved"
    BY <2>3, GotGood DEF GetDollar
  <2> QED
    BY <2>1, <2>2, <2>3 DEF DollarFrom
<1>c. PICK p \in {"restore", "query", "end"} :
        /\ at' = [at EXCEPT ![k] = p]
        /\ p = "restore" => failed' = failed \cup {k} /\ chan' = [chan EXCEPT ![k] = "closed"]
        /\ p # "restore" => UNCHANGED <<chan, failed>>
        /\ p \in {"query", "restore"} => kind[k] \in Savings
  BY <1>a DEF GetDollar, At
<1>1. SavedTyped'
  BY <1>a, <1>b, <1>c, ZenonT(90) DEF SavedInv, SavedTyped, Placed, Places, SavedValues
<1>2. TakenInOrder'
  BY <1>a, <1>b, <1>c, ZenonT(90) DEF SavedInv, SavedTyped, TakenInOrder, Placed
<1>3. ASSUME NEW i \in Cmds PROVE Placed(i)'
  BY <1>a, <1>b, <1>c, ZenonT(90) DEF SavedInv, SavedTyped, TakenInOrder, Placed
<1>4. ASSUME Calm' PROVE CalmOk'
  <2>1. Calm /\ CalmOk
    BY <1>a, <1>4 DEF SavedInv, SavedTyped, Placed, Calm
  <2>2. FlightOk'
    <3>1. \A j \in Cmds : (Running(j)' => Running(j)) /\ (Installed(j)' <=> Installed(j))
      BY <1>a, <1>c DEF SavedInv, SavedTyped, Running, Installed
    <3> QED
      BY <1>a, <2>1, <3>1 DEF CalmOk, FlightOk, InFlight
  <2>3. ResultOk'
    BY <1>a, <1>c, <2>1 DEF SavedInv, SavedTyped, Placed, TakenInOrder, CalmOk, ResultOk, FlightOk, Installed
  <2>4. ASSUME NEW i \in Cmds PROVE WaitOk(i)'
    <3>1. WaitOk(i) /\ \A j \in Cmds : Running(j)' => Running(j)
      BY <1>a, <1>c, <2>1 DEF SavedInv, SavedTyped, CalmOk, Running
    <3>2. at'[i] = at[i] \/ at'[i] \notin {"loop", "resolve", "install"}
      BY <1>a, <1>c DEF SavedInv, SavedTyped
    <3> QED
      BY <1>a, <3>1, <3>2 DEF WaitOk
  <2>5. ASSUME NEW i \in Cmds PROVE TellOk(i)'
    <3>1. failed \subseteq failed' /\ kind' = kind
      BY <1>a, <1>c
    <3>2. \A w \in SavedValues : Good(w, i) => Good(w, i)'
      BY <3>1, GoodStays
    <3>3. TellOk(i)
      BY <2>1 DEF CalmOk
    <3>4. prev'[i] = prev[i] /\ dollar'[i] = IF i = k THEN v ELSE dollar[i]
      BY <1>a, <1>b DEF SavedInv, SavedTyped
    <3> QED
      BY <1>b, <2>1, <3>2, <3>3, <3>4 DEF SavedInv, SavedTyped, TellOk
  <2> QED
    BY <2>2, <2>3, <2>4, <2>5 DEF CalmOk
<1> QED
  BY <1>1, <1>2, <1>3, <1>4 DEF SavedInv

\* The search that saves its result is the last one installed.
LEMMA Saves ==
  ASSUME SavedInv, NEW k \in Cmds, Save(k)
  PROVE  SavedInv'
<1> USE CmdsInt DEF Savings, At, Save, Results
<1>1. SavedTyped'
  BY DEF SavedInv, SavedTyped, Placed, Places, SavedValues
<1>2. TakenInOrder'
  BY ZenonT(90) DEF SavedInv, SavedTyped, TakenInOrder, Placed
<1>3. ASSUME NEW i \in Cmds PROVE Placed(i)'
  BY DEF SavedInv, SavedTyped, TakenInOrder, Placed
<1>4. ASSUME Calm' PROVE CalmOk'
  <2>1. Calm /\ CalmOk
    BY <1>4 DEF SavedInv, SavedTyped, Placed, Calm
  <2>6. saved = InFlight(k)
    BY <2>1 DEF SavedInv, Placed, CalmOk, FlightOk, Running
  <2>2. FlightOk'
    <3>1. \A j \in Cmds : ~Running(j)'
      BY <2>1, <2>6 DEF SavedInv, SavedTyped, CalmOk, FlightOk, Running, InFlight
    <3> QED
      BY <3>1 DEF FlightOk
  <2>3. ResultOk'
    <3>1. \A j \in Cmds : Installed(j)' => j <= k
      BY <2>1, <2>6 DEF SavedInv, SavedTyped, CalmOk, FlightOk, Installed, InFlight
    <3> QED
      BY <3>1, CmdsOrder DEF ResultOk
  <2>4. ASSUME NEW i \in Cmds PROVE WaitOk(i)'
    <3>1. WaitOk(i) /\ \A j \in Cmds : Running(j)' => Running(j)
      BY <2>1 DEF SavedInv, SavedTyped, CalmOk, Running
    <3>2. at'[i] = at[i] \/ at'[i] \notin {"loop", "resolve", "install"}
      BY DEF SavedInv, SavedTyped
    <3> QED
      BY <3>1, <3>2 DEF WaitOk
  <2>5. ASSUME NEW i \in Cmds PROVE TellOk(i)'
    BY <2>1, GoodStays, ZenonT(90) DEF SavedInv, SavedTyped, Placed, TakenInOrder, CalmOk, TellOk
  <2> QED
    BY <2>2, <2>3, <2>4, <2>5 DEF CalmOk
<1> QED
  BY <1>1, <1>2, <1>3, <1>4 DEF SavedInv

\* Sending changes the channel.
LEMMA Sends ==
  ASSUME SavedInv, NEW k \in Cmds, Send(k)
  PROVE  SavedInv'
<1> USE CmdsInt DEF Savings, At, Send
<1>1. SavedTyped'
  BY DEF SavedInv, SavedTyped, Placed, Places, SavedValues
<1>2. TakenInOrder'
  BY ZenonT(90) DEF SavedInv, SavedTyped, TakenInOrder, Placed
<1>3. ASSUME NEW i \in Cmds PROVE Placed(i)'
  BY ZenonT(90) DEF SavedInv, SavedTyped, TakenInOrder, Placed
<1>4. ASSUME Calm' PROVE CalmOk'
  <2>1. Calm /\ CalmOk
    BY <1>4 DEF SavedInv, SavedTyped, Placed, Calm
  <2>2. FlightOk'
    BY <2>1, ZenonT(90) DEF SavedInv, SavedTyped, Placed, TakenInOrder, CalmOk, FlightOk, Running, Installed
  <2>3. ResultOk'
    BY <2>1 DEF SavedInv, SavedTyped, Placed, TakenInOrder, CalmOk, ResultOk, FlightOk, Installed
  <2>4. ASSUME NEW i \in Cmds PROVE WaitOk(i)'
    <3>1. WaitOk(i) /\ \A j \in Cmds : Running(j)' => Running(j)
      BY <2>1 DEF SavedInv, SavedTyped, CalmOk, Running
    <3>2. at'[i] = at[i] \/ at'[i] \notin {"loop", "resolve", "install"}
      BY DEF SavedInv, SavedTyped
    <3> QED
      BY <3>1, <3>2 DEF WaitOk
  <2>5. ASSUME NEW i \in Cmds PROVE TellOk(i)'
    BY <2>1, GoodStays DEF SavedInv, SavedTyped, Placed, TakenInOrder, CalmOk, TellOk
  <2> QED
    BY <2>2, <2>3, <2>4, <2>5 DEF CalmOk
<1> QED
  BY <1>1, <1>2, <1>3, <1>4 DEF SavedInv

\* A search that fails closes its channel.
LEMMA Fails ==
  ASSUME SavedInv, NEW k \in Cmds, SearchFails(k)
  PROVE  SavedInv'
<1> USE CmdsInt DEF Savings, At, SearchFails
<1>1. SavedTyped'
  BY DEF SavedInv, SavedTyped, Placed, Places, SavedValues
<1>2. TakenInOrder'
  BY ZenonT(90) DEF SavedInv, SavedTyped, TakenInOrder, Placed
<1>3. ASSUME NEW i \in Cmds PROVE Placed(i)'
  BY ZenonT(90) DEF SavedInv, SavedTyped, TakenInOrder, Placed
<1>4. ASSUME Calm' PROVE CalmOk'
  <2>1. Calm /\ CalmOk
    BY <1>4 DEF SavedInv, SavedTyped, Placed, Calm
  <2>2. FlightOk'
    BY <2>1, ZenonT(90) DEF SavedInv, SavedTyped, Placed, TakenInOrder, CalmOk, FlightOk, Running, Installed
  <2>3. ResultOk'
    BY <2>1 DEF SavedInv, SavedTyped, Placed, TakenInOrder, CalmOk, ResultOk, FlightOk, Installed
  <2>4. ASSUME NEW i \in Cmds PROVE WaitOk(i)'
    <3>1. WaitOk(i) /\ \A j \in Cmds : Running(j)' => Running(j)
      BY <2>1 DEF SavedInv, SavedTyped, CalmOk, Running
    <3>2. at'[i] = at[i] \/ at'[i] \notin {"loop", "resolve", "install"}
      BY DEF SavedInv, SavedTyped
    <3> QED
      BY <3>1, <3>2 DEF WaitOk
  <2>5. ASSUME NEW i \in Cmds PROVE TellOk(i)'
    BY <2>1, GoodStays, ZenonT(90) DEF SavedInv, SavedTyped, Placed, TakenInOrder, CalmOk, TellOk
  <2> QED
    BY <2>2, <2>3, <2>4, <2>5 DEF CalmOk
<1> QED
  BY <1>1, <1>2, <1>3, <1>4 DEF SavedInv

\* What is restored over the search's own flight is the last result before it.
LEMMA Restores ==
  ASSUME SavedInv, NEW k \in Cmds, Restore(k)
  PROVE  SavedInv'
<1> USE CmdsInt DEF Savings, At, Restore, Results, Nothing
<1>1. SavedTyped'
  BY ZenonT(90) DEF SavedInv, SavedTyped, Placed, Places, SavedValues, Restored, NoneYet, EmptyList, Unknown
<1>2. TakenInOrder'
  BY DEF SavedInv, SavedTyped, TakenInOrder, Placed
<1>3. ASSUME NEW i \in Cmds PROVE Placed(i)'
  BY DEF SavedInv, SavedTyped, TakenInOrder, Placed
<1>4. ASSUME Calm' PROVE CalmOk'
  <2>1. Calm /\ CalmOk
    BY <1>4 DEF SavedInv, SavedTyped, Placed, Calm
  <2>6. saved = InFlight(k)
    BY <1>4, <2>1 DEF Calm
  <2>7. saved'.tag # "flight" /\ saved'.by = prev[k] /\ prev[k] # Unknown
    BY DEF Restored, SavedInv, Placed
  <2>2. FlightOk'
    <3>1. \A j \in Cmds : ~Running(j)'
      BY <2>1, <2>6 DEF SavedInv, SavedTyped, CalmOk, FlightOk, Running, InFlight
    <3> QED
      BY <2>7, <3>1 DEF FlightOk
  <2>3. ResultOk'
    <3>1. Good(prev[k], k) /\ k \in failed
      BY <2>1, <2>7 DEF SavedInv, Placed, CalmOk, TellOk
    <3>2. \A j \in Cmds : Installed(j)' => j <= k
      BY <2>1, <2>6 DEF SavedInv, SavedTyped, CalmOk, FlightOk, Installed, InFlight
    <3> QED
      BY <2>7, <3>1, <3>2 DEF ResultOk, Good, Installed
  <2>4. ASSUME NEW i \in Cmds PROVE WaitOk(i)'
    <3>1. WaitOk(i) /\ \A j \in Cmds : Running(j)' => Running(j)
      BY <2>1 DEF SavedInv, SavedTyped, CalmOk, Running
    <3>2. at'[i] = at[i] \/ at'[i] \notin {"loop", "resolve", "install"}
      BY DEF SavedInv, SavedTyped
    <3> QED
      BY <3>1, <3>2 DEF WaitOk
  <2>5. ASSUME NEW i \in Cmds PROVE TellOk(i)'
    BY <2>1, GoodStays, ZenonT(90) DEF SavedInv, SavedTyped, Placed, TakenInOrder, CalmOk, TellOk
  <2> QED
    BY <2>2, <2>3, <2>4, <2>5 DEF CalmOk
<1> QED
  BY <1>1, <1>2, <1>3, <1>4 DEF SavedInv

\* So it holds of every reachable state.
LEMMA SavedStep == ASSUME SavedInv, [SavedNext]_savedVars PROVE SavedInv'
<1>1. CASE SavedNext
  <2>1. PICK k \in Cmds : (\E x \in SavedKinds : Take(k, x)) \/ LoopSteps(k) \/ TaskSteps(k)
    BY <1>1 DEF SavedNext
  <2> QED
    BY <2>1, Takes, Forgets, Looks, GetsPrev, Installs, GetsDollar, Saves, Sends, Fails, Restores
    DEF LoopSteps, TaskSteps
<1>2. CASE UNCHANGED savedVars
  BY <1>2 DEF savedVars, SavedInv, SavedTyped, TakenInOrder, Placed, Calm, CalmOk, FlightOk, ResultOk,
     WaitOk, TellOk, Good, Running, Installed
<1> QED
  BY <1>1, <1>2

LEMMA SavedAlways == SavedSpec => []SavedInv
<1>1. SavedInv /\ [SavedNext]_savedVars => SavedInv'
  BY SavedStep
<1> QED
  BY <1>1, SavedFirst, PTL DEF SavedSpec

(***************************************************************************)
(* `$' is never an older result than that of the last search before it that *)
(* saved one (get_saved_search, SavedSearch): whatever the order in which   *)
(* the searches end and fail, for any number of commands.                   *)
(***************************************************************************)
THEOREM NeverOlderAlways == SavedSpec => []NeverOlder
<1>1. SavedInv => NeverOlder
  BY DEF SavedInv, Calm, CalmOk, TellOk, Good, NeverOlder
<1> QED
  BY <1>1, SavedAlways, PTL

-----------------------------------------------------------------------------
(* STORE, for any mailbox, any sequence set and any number of changes by      *)
(* others.  Each message the check has left is unchanged since the MODSEQ or   *)
(* has been changed after the check, and no two messages have one number, so   *)
(* that what is left is never reported as modified.                            *)

StoreSpec == StoreInit /\ [][StoreNext]_storeVars

StoreFields == {"pc", "arg", "all", "left", "modified", "vanished", "updated", "emails", "newState",
                "reply", "modseqOf", "checked", "over"}

StoreTyped ==
  /\ mail \in [Mails -> [born : Int, changed : Int, gone : Int]] /\ jstate \in Nat
  /\ listed \subseteq Mails
  /\ DOMAIN store = StoreFields /\ store.arg \in StoreRequests
  /\ store.checked \in Int /\ store.checked <= jstate
  /\ store.newState \in Int /\ store.newState <= jstate

\* The numbers of the messages, and those of the command that are in its hands.
Numbered ==
  /\ IsFiniteSet(DOMAIN store.all)
  /\ \A u, v \in DOMAIN store.all : store.all[u] = store.all[v] => u = v
  /\ store.left \subseteq Targets /\ store.updated \subseteq Targets
  /\ store.pc \in {"resolve", "check"} => store.updated = {} /\ store.modified = {}
  /\ store.pc = "check" => store.left = DOMAIN store.all
  /\ store.pc = "end" \/ store.reply = ""

\* What the check has left.
Spared ==
  store.pc = "set" /\ store.arg.since # NoModseq =>
    \A u \in store.left \cap Alive : mail[u].changed <= store.arg.since \/ mail[u].changed > store.checked

\* What is remembered of the updates.
Remembered ==
  /\ DOMAIN store.over = store.updated
  /\ \A u \in store.updated : store.over[u].now \in Int /\ store.over[u].now <= store.newState
  /\ DOMAIN store.modseqOf \subseteq store.updated
  /\ \A u \in DOMAIN store.modseqOf : store.modseqOf[u] = store.newState
  /\ store.pc # "end" => DOMAIN store.modseqOf = {}

StoreInv == StoreTyped /\ Numbered /\ Spared /\ Remembered /\ ChangeSpared /\ StoreAccounted

\* There are finitely many messages, and no two of them have one number.
LEMMA MailsFinite == IsFiniteSet(Mails) /\ Mails \subseteq Nat
BY StoreAssumption, FS_Union DEF Mails

\* By UID or by position in the list, two messages have two numbers.
LEMMA NumbersDiffer ==
  ASSUME listed \subseteq Mails, NEW u \in listed, NEW v \in listed, NumberOf(u) = NumberOf(v)
  PROVE  u = v
<1> DEFINE Lower(w) == {x \in listed : x <= w}
<1>1. IsFiniteSet(listed) /\ u \in Nat /\ v \in Nat
  BY MailsFinite, FS_Subset
<1>2. ASSUME NEW x \in listed, NEW y \in listed, x < y PROVE Cardinality(Lower(x)) # Cardinality(Lower(y))
  <2>1. x \in Nat /\ y \in Nat /\ \A z \in listed : z \in Nat
    BY MailsFinite
  <2>2. Lower(x) \subseteq Lower(y) /\ y \in Lower(y) /\ y \notin Lower(x)
    <3>1. \A z \in listed : z <= x => z <= y
      BY <1>2, <2>1
    <3>2. y <= y /\ ~(y <= x)
      BY <1>2, <2>1
    <3> QED
      BY <3>1, <3>2
  <2>3. IsFiniteSet(Lower(y))
    BY <1>1, FS_Subset
  <2> QED
    BY <2>2, <2>3, FS_Subset
<1>3. CASE store.arg.isUid
  BY <1>3 DEF NumberOf
<1>4. CASE ~store.arg.isUid
  <2>1. Cardinality(Lower(u)) = Cardinality(Lower(v))
    BY <1>4 DEF NumberOf
  <2> QED
    BY <1>1, <1>2, <2>1
<1> QED
  BY <1>3, <1>4

\* The command has resolved nothing.
LEMMA StoreFirst == StoreInit => StoreInv
<1> SUFFICES ASSUME StoreInit PROVE StoreInv
  OBVIOUS
<1>1. PICK r \in StoreRequests :
       store = [pc |-> "resolve", arg |-> r, all |-> <<>>, left |-> {}, modified |-> {},
                vanished |-> FALSE, updated |-> {}, emails |-> {}, newState |-> Never,
                reply |-> "", modseqOf |-> <<>>, checked |-> Never, over |-> <<>>]
  BY DEF StoreInit
<1>2. StoreTyped
  <2>1. mail \in [Mails -> [born : Int, changed : Int, gone : Int]] /\ jstate \in Nat /\ listed \subseteq Mails
    <3>1. /\ jstate = 0 /\ listed = Stored
          /\ mail = [u \in Mails |-> [born |-> IF u \in Stored THEN 0 ELSE Never,
                                     changed |-> IF u \in Stored THEN 0 ELSE Never, gone |-> Never]]
      BY DEF StoreInit
    <3> QED
      BY <3>1 DEF Mails, Never
  <2>2. DOMAIN store = StoreFields
    BY <1>1 DEF StoreFields
  <2>3. store.arg \in StoreRequests /\ store.checked = -1 /\ store.newState = -1
    BY <1>1 DEF Never
  <2>4. jstate = 0
    BY DEF StoreInit
  <2> QED
    BY <2>1, <2>2, <2>3, <2>4 DEF StoreTyped
<1>3. DOMAIN store.all = {} /\ DOMAIN store.over = {} /\ DOMAIN store.modseqOf = {}
  <2>1. store.all = <<>> /\ store.over = <<>> /\ store.modseqOf = <<>>
    BY <1>1
  <2>2. DOMAIN <<>> = {}
    OBVIOUS
  <2> QED
    BY <2>1, <2>2
<1>4. Numbered
  BY <1>1, <1>3, FS_EmptySet DEF Numbered, Targets
<1>5. Spared /\ Remembered /\ ChangeSpared /\ StoreAccounted
  BY <1>1, <1>3 DEF Spared, Remembered, ChangeSpared, StoreAccounted
<1> QED
  BY <1>2, <1>4, <1>5 DEF StoreInv

\* What is said of the command alone stays when others act.
LEMMA CommandStays ==
  ASSUME StoreInv, UNCHANGED store PROVE Numbered' /\ Remembered' /\ ChangeSpared' /\ StoreAccounted'
BY DEF StoreInv, Numbered, Targets, Remembered, ChangeSpared, StoreAccounted

\* A change after the check is one after the check.
LEMMA Touches ==
  ASSUME StoreInv, NEW u \in Mails, Change(u) \/ Destroy(u) \/ Arrive(u) PROVE StoreInv'
<1>1. PICK now \in [born : Int, changed : Int, gone : Int] :
        /\ mail' = [mail EXCEPT ![u] = now] /\ jstate' = jstate + 1 /\ UNCHANGED <<listed, store>>
        /\ now.changed = jstate + 1 \/ now.gone # Never
  BY DEF StoreInv, StoreTyped, Change, Destroy, Arrive, Touch, Never
<1>2. StoreTyped'
  BY <1>1 DEF StoreInv, StoreTyped
<1>3. Spared'
  <2> SUFFICES ASSUME store.pc = "set", store.arg.since # NoModseq, NEW w \in store.left, w \in Alive'
               PROVE  mail'[w].changed <= store.arg.since \/ mail'[w].changed > store.checked
    BY <1>1 DEF Spared
  <2>1. CASE w = u
    BY <1>1, <2>1 DEF StoreInv, StoreTyped, Alive
  <2>2. CASE w # u
    BY <1>1, <2>2 DEF StoreInv, StoreTyped, Spared, Alive
  <2> QED
    BY <2>1, <2>2
<1> QED
  BY <1>1, <1>2, <1>3, CommandStays DEF StoreInv

\* The list may grow and shrink meanwhile.
LEMMA Refreshes == ASSUME StoreInv, Refresh PROVE StoreInv'
<1>1. UNCHANGED <<mail, jstate, store>> /\ listed' = Alive
  BY DEF Refresh
<1>2. StoreTyped' /\ Spared'
  BY <1>1 DEF StoreInv, StoreTyped, Spared, Alive
<1> QED
  BY <1>1, <1>2, CommandStays DEF StoreInv

\* The messages are found with their numbers.
LEMMA Resolves == ASSUME StoreInv, Resolve PROVE StoreInv'
<1> DEFINE found == {u \in listed : SetContains(store.arg.seq, NumberOf(u), MaxOf)}
<1>1. /\ store.pc = "resolve" /\ UNCHANGED <<mail, jstate, listed>>
      /\ DOMAIN store' = StoreFields
      /\ store'.all = [u \in found |-> NumberOf(u)] /\ store'.left = found
      /\ store'.pc \in {"set", "check", "end"} /\ (store'.pc = "set" => store.arg.since = NoModseq)
      /\ store'.pc # "end" => store'.reply = store.reply
      /\ store'.pc = "end" => found = {}
      /\ store'.arg = store.arg /\ store'.modified = store.modified /\ store'.updated = store.updated
      /\ store'.newState = store.newState /\ store'.modseqOf = store.modseqOf
      /\ store'.checked = store.checked /\ store'.over = store.over
  <2> HIDE DEF found
  <2> DEFINE s == [store EXCEPT !.all = [u \in found |-> NumberOf(u)], !.left = found]
  <2>1. /\ store.pc = "resolve" /\ UNCHANGED <<mail, jstate, listed>>
        /\ IF found = {} THEN store' = [s EXCEPT !.pc = "end", !.reply = "OK"]
           ELSE store' = [s EXCEPT !.pc = IF s.arg.since = NoModseq THEN "set" ELSE "check"]
    BY DEF Resolve, End, found
  <2> QED
    BY <2>1 DEF StoreInv, StoreTyped, StoreFields
<1>2. StoreTyped'
  BY <1>1 DEF StoreInv, StoreTyped
<1>3. store.updated = {} /\ store.modified = {} /\ store.reply = ""
  BY <1>1 DEF StoreInv, Numbered
<1>4. Numbered'
  <2>1. IsFiniteSet(found)
    BY MailsFinite, FS_Subset DEF StoreInv, StoreTyped
  <2>2. \A u, v \in found : NumberOf(u) = NumberOf(v) => u = v
    BY NumbersDiffer DEF StoreInv, StoreTyped
  <2> HIDE DEF found
  <2> QED
    <3>1. DOMAIN store'.all = found /\ \A u \in found : store'.all[u] = NumberOf(u)
      BY <1>1
    <3>2. Targets' = found
      BY <1>1, <1>3, <3>1 DEF Targets
    <3>3. \A u, v \in DOMAIN store'.all : store'.all[u] = store'.all[v] => u = v
      BY <2>2, <3>1
    <3>4. store'.left \subseteq Targets' /\ store'.updated = {} /\ store'.modified = {}
      BY <1>1, <1>3, <3>2
    <3>5. store'.left = DOMAIN store'.all /\ (store'.pc = "end" \/ store'.reply = "")
      BY <1>1, <1>3, <3>1
    <3> QED
      BY <2>1, <3>1, <3>3, <3>4, <3>5 DEF Numbered
<1> HIDE DEF found
<1>5. Spared' /\ Remembered' /\ ChangeSpared'
  BY <1>1, <1>3 DEF StoreInv, Spared, Remembered, ChangeSpared
<1>6. StoreAccounted'
  BY <1>1, <1>3 DEF StoreAccounted
<1> QED
  BY <1>2, <1>4, <1>5, <1>6 DEF StoreInv

\* The check takes out what was changed, and only numbers that are not those of the rest.
LEMMA Checks == ASSUME StoreInv, CheckUnchanged PROVE StoreInv'
<1> DEFINE changes  == Changes(store.arg.since)
           modified == store.left \cap Modified(changes)
           unnamed  == Expand(store.arg.seq, MaxOf) \ Range(store.all)
<1>1. /\ store.pc = "check" /\ UNCHANGED <<mail, jstate, listed>>
      /\ DOMAIN store' = StoreFields
      /\ store'.left = store.left \ modified
      /\ store'.modified = {store.all[u] : u \in modified} \cup unnamed
      /\ store'.checked = jstate
      /\ store'.pc \in {"set", "end"} /\ (store'.pc = "end" => store'.left = {})
      /\ store'.pc # "end" => store'.reply = store.reply
      /\ store'.all = store.all /\ store'.arg = store.arg /\ store'.updated = store.updated
      /\ store'.newState = store.newState /\ store'.modseqOf = store.modseqOf /\ store'.over = store.over
  <2> HIDE DEF modified, unnamed, changes
  <2> DEFINE s == [store EXCEPT !.left = store.left \ modified,
                         !.modified = {store.all[u] : u \in modified} \cup unnamed,
                         !.vanished = unnamed # {} \/ store.left \cap changes.destroyed # {},
                         !.checked = jstate]
  <2>1. /\ store.pc = "check" /\ UNCHANGED <<mail, jstate, listed>>
        /\ IF s.left = {} THEN store' = [s EXCEPT !.pc = "end", !.reply = IF s.vanished THEN "NO" ELSE "OK"]
           ELSE store' = [s EXCEPT !.pc = "set"]
    BY DEF CheckUnchanged, Unchanged, End, modified, unnamed, changes
  <2>2. /\ DOMAIN s = StoreFields /\ s.left = store.left \ modified
        /\ s.modified = {store.all[u] : u \in modified} \cup unnamed /\ s.checked = jstate
        /\ s.all = store.all /\ s.arg = store.arg /\ s.updated = store.updated /\ s.reply = store.reply
        /\ s.newState = store.newState /\ s.modseqOf = store.modseqOf /\ s.over = store.over
    BY DEF StoreInv, StoreTyped, StoreFields
  <2> HIDE DEF s
  <2> QED
    BY <2>1, <2>2 DEF StoreFields
<1>2. StoreTyped'
  BY <1>1 DEF StoreInv, StoreTyped
<1>3. store.updated = {} /\ store.left = DOMAIN store.all /\ store.reply = ""
  BY <1>1 DEF StoreInv, Numbered
<1>4. Numbered'
  <2>1. unnamed \cap {store.all[u] : u \in DOMAIN store.all} = {}
    BY DEF Range
  <2> HIDE DEF modified, unnamed
  <2>2. store'.left \subseteq Targets'
    <3> SUFFICES ASSUME NEW u \in DOMAIN store.all, u \notin modified PROVE store.all[u] \notin store'.modified
      BY <1>1, <1>3 DEF Targets
    <3>1. modified \subseteq DOMAIN store.all
      BY <1>3 DEF modified
    <3>2. \A v \in modified : store.all[u] # store.all[v]
      BY <3>1 DEF StoreInv, Numbered
    <3> QED
      BY <1>1, <2>1, <3>2
  <2> QED
    BY <1>1, <1>3, <2>2 DEF StoreInv, Numbered
<1>5. Spared'
  <2> SUFFICES ASSUME NEW u \in store.left \ Modified(changes), u \in Alive
               PROVE  mail[u].changed <= store.arg.since \/ store.arg.since = NoModseq
    BY <1>1 DEF Spared, Alive
  <2>1. ~(mail[u].born > store.arg.since) /\ ~(mail[u].born <= store.arg.since /\ mail[u].changed > store.arg.since)
    BY DEF Modified, Changes
  <2>2. mail[u] \in [born : Int, changed : Int, gone : Int] /\ store.arg.since \in Int
    BY StoreAssumption DEF StoreInv, StoreTyped, Alive, NoModseq
  <2> QED
    BY <2>1, <2>2
<1> HIDE DEF modified, unnamed
<1>6. Remembered' /\ ChangeSpared'
  BY <1>1, <1>3 DEF StoreInv, Remembered, ChangeSpared
<1>7. StoreAccounted'
  BY <1>1, <1>3 DEF StoreAccounted
<1> QED
  BY <1>2, <1>4, <1>5, <1>6, <1>7 DEF StoreInv

\* A failure is said.
LEMMA StoreFailing == ASSUME StoreInv, StoreFails PROVE StoreInv'
<1>1. /\ UNCHANGED <<mail, jstate, listed>> /\ DOMAIN store' = StoreFields
      /\ store'.pc = "end" /\ store'.reply = "NO" /\ store.pc \in {"check", "set", "get"}
      /\ \A f \in StoreFields \ {"pc", "reply"} : store'[f] = store[f]
  BY DEF StoreFails, End, StoreInv, StoreTyped, StoreFields
<1>2. /\ store'.all = store.all /\ store'.left = store.left /\ store'.modified = store.modified
      /\ store'.arg = store.arg /\ store'.updated = store.updated /\ store'.checked = store.checked
      /\ store'.newState = store.newState /\ store'.modseqOf = store.modseqOf /\ store'.over = store.over
  BY <1>1 DEF StoreFields
<1> QED
  BY <1>1, <1>2, ZenonT(90) DEF StoreInv, StoreTyped, Numbered, Targets, Spared, Remembered, ChangeSpared, StoreAccounted

\* An update overwrites what the check has left, and the last state covers every update.
LEMMA SetsChunk ==
  ASSUME StoreInv, NEW chunk, NEW refused, SetCall(chunk, refused) PROVE StoreInv'
<1> DEFINE done == (chunk \ refused) \cap Alive
           now  == IF done = {} THEN jstate ELSE jstate + 1
<1>1. /\ store.pc = "set" /\ chunk \subseteq store.left /\ jstate' = now /\ UNCHANGED listed
      /\ mail' = [u \in Mails |-> IF u \in done THEN [mail[u] EXCEPT !.changed = now] ELSE mail[u]]
  BY DEF SetCall
<1>2. /\ DOMAIN store' = StoreFields
      /\ store'.left = store.left \ chunk /\ store'.updated = store.updated \cup done /\ store'.newState = now
      /\ store'.over = [u \in DOMAIN store.over \cup done |->
                          IF u \in done THEN [was |-> mail[u].changed, now |-> now] ELSE store.over[u]]
      /\ store'.pc \in {"set", "get", "answer"} /\ store'.reply = store.reply
      /\ store'.all = store.all /\ store'.arg = store.arg /\ store'.modified = store.modified
      /\ store'.modseqOf = store.modseqOf /\ store'.checked = store.checked
  <2> HIDE DEF done, now
  <2>1. store' = [store EXCEPT !.left = @ \ chunk, !.updated = @ \cup done, !.newState = now,
                            !.over = [u \in DOMAIN @ \cup done |->
                                        IF u \in done THEN [was |-> mail[u].changed, now |-> now] ELSE @[u]],
                            !.pc = IF store.left # chunk THEN "set" ELSE IF store.arg.silent THEN "answer" ELSE "get"]
    BY DEF SetCall, NewState, done, now
  <2> QED
    BY <2>1 DEF StoreInv, StoreTyped, StoreFields
<1>3. now \in Nat /\ jstate <= now /\ done \subseteq store.left /\ done \subseteq Alive
  BY <1>1 DEF StoreInv, StoreTyped
<1> HIDE DEF done, now
<1>4. StoreTyped'
  <2>1. mail' \in [Mails -> [born : Int, changed : Int, gone : Int]]
    BY <1>1, <1>3 DEF StoreInv, StoreTyped
  <2> QED
    BY <1>1, <1>2, <1>3, <2>1 DEF StoreInv, StoreTyped
<1>5. Numbered'
  <2>1. Targets' = Targets
    BY <1>2 DEF Targets
  <2> QED
    BY <1>1, <1>2, <1>3, <2>1, ZenonT(90) DEF StoreInv, Numbered
<1>6. Spared'
  <2>1. \A u \in store'.left \cap Alive' : u \in store.left \cap Alive /\ mail'[u] = mail[u]
    BY <1>1, <1>2, <1>3 DEF Alive, done
  <2> QED
    BY <1>1, <1>2, <2>1 DEF StoreInv, Spared
<1>7. Remembered'
  <2>1. DOMAIN store'.over = store'.updated /\ DOMAIN store'.modseqOf = {}
    BY <1>1, <1>2 DEF StoreInv, Remembered
  <2>2. ASSUME NEW u \in store'.updated PROVE store'.over[u].now \in Int /\ store'.over[u].now <= now
    <3>1. CASE u \in done
      BY <1>2, <1>3, <3>1
    <3>2. CASE u \notin done
      <4>1. u \in store.updated /\ store'.over[u] = store.over[u]
        BY <1>2, <3>2 DEF StoreInv, Remembered
      <4> QED
        BY <1>3, <4>1 DEF StoreInv, StoreTyped, Remembered
    <3> QED
      BY <3>1, <3>2
  <2> QED
    BY <1>2, <2>1, <2>2 DEF Remembered
<1>8. ChangeSpared'
  <2> SUFFICES ASSUME store.arg.since # NoModseq, NEW u \in store'.updated
               PROVE  store'.over[u].was <= store.arg.since \/ store'.over[u].was > store.checked
    BY <1>2 DEF ChangeSpared
  <2>1. CASE u \in done
    BY <1>1, <1>2, <1>3, <2>1 DEF StoreInv, Spared
  <2>2. CASE u \notin done
    <3>1. u \in store.updated /\ store'.over[u] = store.over[u]
      BY <1>2, <2>2 DEF StoreInv, Remembered
    <3> QED
      BY <3>1 DEF StoreInv, ChangeSpared
  <2> QED
    BY <2>1, <2>2
<1>9. StoreAccounted'
  BY <1>1, <1>2 DEF StoreInv, Numbered, StoreAccounted
<1> QED
  BY <1>4, <1>5, <1>6, <1>7, <1>8, <1>9 DEF StoreInv

\* Email/get changes nothing of this.
LEMMA Gets == ASSUME StoreInv, GetCall PROVE StoreInv'
<1>1. /\ UNCHANGED <<mail, jstate, listed>> /\ DOMAIN store' = StoreFields
      /\ store'.pc = "answer" /\ store.pc = "get"
      /\ store'.all = store.all /\ store'.left = store.left /\ store'.modified = store.modified
      /\ store'.arg = store.arg /\ store'.updated = store.updated /\ store'.checked = store.checked
      /\ store'.newState = store.newState /\ store'.modseqOf = store.modseqOf /\ store'.over = store.over
      /\ store'.reply = store.reply
  BY DEF GetCall, StoreInv, StoreTyped, StoreFields
<1> QED
  BY <1>1 DEF StoreInv, StoreTyped, Numbered, Targets, Spared, Remembered, ChangeSpared, StoreAccounted

\* As many updates as there are messages to update are updates of all of them.
LEMMA Answers == ASSUME StoreInv, NEW known \in BOOLEAN, StoreAnswers(known) PROVE StoreInv'
<1>1. PICK told \in SUBSET store.updated :
        /\ store.pc = "answer" /\ UNCHANGED <<mail, jstate, listed>>
        /\ store' = [[store EXCEPT !.modseqOf = [u \in told |-> store.newState]] EXCEPT
                       !.pc = "end", !.reply = IF store.vanished \/ ~AllUpdated THEN "NO" ELSE "OK"]
  BY DEF StoreAnswers, End
<1>2. /\ DOMAIN store' = StoreFields /\ store'.pc = "end" /\ (store'.reply = "OK" => AllUpdated)
      /\ store'.modseqOf = [u \in told |-> store.newState]
      /\ store'.all = store.all /\ store'.left = store.left /\ store'.modified = store.modified
      /\ store'.arg = store.arg /\ store'.updated = store.updated /\ store'.checked = store.checked
      /\ store'.newState = store.newState /\ store'.over = store.over
  BY <1>1 DEF StoreInv, StoreTyped, StoreFields
<1>3. StoreTyped' /\ Numbered' /\ Spared' /\ ChangeSpared'
  <2>1. StoreTyped'
    BY <1>1, <1>2 DEF StoreInv, StoreTyped
  <2>2. Targets' = Targets
    BY <1>2 DEF Targets
  <2>3. Numbered'
    BY <1>2, <2>2 DEF StoreInv, Numbered
  <2>4. Spared' /\ ChangeSpared'
    BY <1>2 DEF StoreInv, Spared, ChangeSpared
  <2> QED
    BY <2>1, <2>3, <2>4
<1>4. Remembered'
  BY <1>2 DEF StoreInv, Remembered
<1>5. StoreAccounted'
  <2> SUFFICES ASSUME AllUpdated PROVE Targets = store.updated
    BY <1>2 DEF StoreAccounted, Targets
  <2>1. IsFiniteSet(Targets) /\ store.updated \subseteq Targets
    BY FS_Subset DEF StoreInv, Numbered, Targets
  <2> QED
    BY <2>1, FS_Subset DEF AllUpdated
<1> QED
  BY <1>3, <1>4, <1>5 DEF StoreInv

\* So it holds of every reachable state.
LEMMA StoreStep == ASSUME StoreInv, [StoreNext]_storeVars PROVE StoreInv'
<1>1. CASE UNCHANGED storeVars
  <2>1. UNCHANGED <<mail, jstate, listed, store>>
    BY <1>1 DEF storeVars
  <2> QED
    BY <2>1, CommandStays DEF StoreInv, StoreTyped, Spared, Alive
<1>2. CASE StoreNext
  BY <1>2, Touches, Refreshes, Resolves, Checks, StoreFailing, SetsChunk, Gets, Answers DEF StoreNext
<1> QED
  BY <1>1, <1>2

LEMMA StoreAlways == StoreSpec => []StoreInv
<1>1. StoreInv /\ [StoreNext]_storeVars => StoreInv'
  BY StoreStep
<1> QED
  BY <1>1, StoreFirst, PTL DEF StoreSpec

(***************************************************************************)
(* What STORE tells the client of its updates, of the messages it left out  *)
(* and of the MODSEQ is so (SessionData::store): for any mailbox, sequence   *)
(* set, MODSEQ and size of an Email/set call, whatever others change.        *)
(***************************************************************************)
THEOREM StoreKeepsItsWordAlways == StoreSpec => []StoreKeepsItsWord
<1>1. StoreInv => StoreKeepsItsWord
  BY DEF StoreInv, Remembered, StoreKeepsItsWord, ModseqCovers
<1> QED
  BY <1>1, StoreAlways, PTL

-----------------------------------------------------------------------------
(* COPY and MOVE, for any mailboxes, in one account and between accounts.      *)
(* What a MOVE removes has a copy and has left the source mailbox; the UIDs    *)
(* given out are above those of before, each above the one given before it.    *)

\* The ids with a UID in the destination mailbox.
There == {j \in Ids : destUids[j] # 0}

CopyTyped ==
  /\ ids \subseteq named /\ named \subseteq Source /\ inSource \subseteq Source
  /\ copyOf \in [Ids -> Source \cup {0}] /\ destUids \in [Ids -> Nat] /\ copiedIds \in Seq(Ids)
  /\ isMove \in BOOLEAN /\ cross \in BOOLEAN /\ allMail \in BOOLEAN

\* The copies that were reported are there, and so are those of what was destroyed.
HaveCopies ==
  /\ \A j \in ToSet(copiedIds) : copyOf[j] # 0 /\ (cross \/ copyOf[j] = j)
  /\ \A m \in destroyedIds : \E j \in ToSet(copiedIds) : copyOf[j] = m
  /\ cross \/ srcUids = ToSet(copiedIds)

\* What is removed has left the source mailbox, and nothing else is taken away.
Gone ==
  /\ isMove /\ ~allMail => Moved \cap inSource = {}
  /\ Source \ srcList \subseteq Moved /\ Source \ srcRecords \subseteq Moved
  /\ (Source \subseteq srcList /\ Source \subseteq srcRecords) \/ isMove
  /\ pc \in {"expunge", "delete"} => isMove

\* No two messages have one UID, and the next one is above all.
UidsOwn ==
  /\ \A j, k \in Ids : destUids[j] = destUids[k] /\ destUids[j] # 0 => j = k
  /\ pc \in {"send", "map"} => \A j \in Ids : destUids[j] <= Cardinality(There)

CopyInv == CopyTyped /\ HaveCopies /\ Gone /\ UidsOwn /\ CopyUidComplete

\* Ids are positive, and finitely many.
LEMMA IdsFinite == IsFiniteSet(Ids) /\ Ids \subseteq Nat \ {0} /\ Source \subseteq Ids /\ AccountIds \subseteq Ids
BY CopyMoveAssumption, FS_Union DEF Ids

\* What Append adds to the elements of a sequence.
LEMMA SetOfAppend ==
  ASSUME NEW S, NEW q \in Seq(S), NEW e \in S
  PROVE  Append(q, e) \in Seq(S) /\ ToSet(Append(q, e)) = ToSet(q) \cup {e}
<1> DEFINE r == Append(q, e)
<1>1. r \in Seq(S) /\ Len(r) = Len(q) + 1 /\ Len(q) \in Nat
  OBVIOUS
<1>2. r[Len(q) + 1] = e /\ \A i \in 1 .. Len(q) : r[i] = q[i]
  OBVIOUS
<1>3. DOMAIN q = 1 .. Len(q) /\ DOMAIN r = 1 .. Len(q) + 1
  BY <1>1
<1> HIDE DEF r
<1>4. 1 .. Len(q) + 1 = (1 .. Len(q)) \cup {Len(q) + 1}
  BY <1>1
<1>5. ToSet(r) = ToSet(q) \cup {e}
  BY <1>2, <1>3, <1>4 DEF ToSet
<1> QED
  BY <1>1, <1>5 DEF r

\* A set that lacks something of another one is smaller.
LEMMA Smaller ==
  ASSUME NEW S, NEW T, IsFiniteSet(S), T \subseteq S, NEW x \in S, x \notin T
  PROVE  Cardinality(T) \in Nat /\ Cardinality(S) \in Nat /\ Cardinality(T) < Cardinality(S)
<1>1. IsFiniteSet(T) /\ Cardinality(T) <= Cardinality(S) /\ Cardinality(T) # Cardinality(S)
  BY FS_Subset
<1>2. Cardinality(T) \in Nat /\ Cardinality(S) \in Nat
  BY <1>1, FS_CardinalityType
<1> QED
  BY <1>1, <1>2

\* Before the request, the messages that are in the destination have the UIDs from 1 on.
LEMMA CopyFirst == Init => CopyInv
<1> SUFFICES ASSUME Init PROVE CopyInv
  OBVIOUS
<1> DEFINE Below(j) == {k \in AlreadyThere : k < j}
<1>0. /\ pc = "send" /\ cross \in BOOLEAN /\ allMail \in BOOLEAN /\ isMove \in BOOLEAN
      /\ named \subseteq Source /\ ids = named /\ inSource = Source /\ srcRecords = Source /\ srcList = Source
      /\ srcUids = {} /\ copiedIds = <<>> /\ destroyedIds = {}
      /\ copyOf = [j \in Ids |-> IF ~cross /\ j \in AlreadyThere THEN j ELSE 0]
      /\ destUids = [j \in Ids |-> IF copyOf[j] # 0 THEN 1 + Cardinality(Below(j)) ELSE 0]
  BY CopyMoveAssumption DEF Init
<1>1. IsFiniteSet(AlreadyThere) /\ AlreadyThere \subseteq Ids /\ AlreadyThere \subseteq Nat \ {0} /\ Ids \subseteq Nat
  BY CopyMoveAssumption, IdsFinite, FS_Subset
<1>2. ASSUME NEW j \in Ids PROVE Cardinality(Below(j)) \in Nat
  BY <1>1, FS_Subset, FS_CardinalityType
<1>3. \A j \in Ids : copyOf[j] # 0 <=> ~cross /\ j \in AlreadyThere
  BY <1>0, <1>1
<1>4. CopyTyped
  <2>1. copyOf \in [Ids -> Source \cup {0}]
    BY <1>0, CopyMoveAssumption
  <2>2. \A j \in Ids : destUids[j] \in Nat
    BY <1>0, <1>2
  <2>3. destUids \in [Ids -> Nat]
    BY <1>0, <2>2
  <2> QED
    BY <1>0, <2>1, <2>3 DEF CopyTyped
<1>5. ToSet(copiedIds) = {} /\ Moved = {}
  BY <1>0 DEF ToSet, Moved
<1>6. HaveCopies /\ Gone /\ CopyUidComplete
  BY <1>0, <1>5 DEF HaveCopies, Gone, CopyUidComplete
<1>7. \A j \in Ids : destUids[j] = IF ~cross /\ j \in AlreadyThere THEN 1 + Cardinality(Below(j)) ELSE 0
  BY <1>0, <1>3
<1>8. \A j, k \in Ids : destUids[j] = destUids[k] /\ destUids[j] # 0 => j = k
  <2>1. ASSUME NEW j \in AlreadyThere, NEW k \in AlreadyThere, j < k PROVE Cardinality(Below(j)) < Cardinality(Below(k))
    <3>1. Below(j) \subseteq Below(k) /\ j \in Below(k) /\ j \notin Below(j)
      <4>1. j \in Nat /\ k \in Nat /\ \A x \in AlreadyThere : x \in Nat
        BY <1>1
      <4>2. ~(j < j) /\ \A x \in AlreadyThere : x < j => x < k
        BY <2>1, <4>1
      <4> QED
        BY <2>1, <4>2
    <3>2. IsFiniteSet(Below(k))
      BY <1>1, FS_Subset
    <3> QED
      BY <3>1, <3>2, Smaller
  <2> HIDE DEF Below
  <2>2. ASSUME NEW j \in AlreadyThere, NEW k \in AlreadyThere, 1 + Cardinality(Below(j)) = 1 + Cardinality(Below(k))
        PROVE  j = k
    <3>1. Cardinality(Below(j)) = Cardinality(Below(k)) /\ Cardinality(Below(j)) \in Nat
      BY <1>1, <1>2, <2>2
    <3>2. ~(j < k) /\ ~(k < j)
      BY <2>1, <3>1
    <3> QED
      BY <1>1, <3>2
  <2> QED
    BY <1>7, <2>2
<1>9. \A j \in Ids : destUids[j] <= Cardinality(There)
  <2> SUFFICES ASSUME NEW j \in Ids PROVE destUids[j] <= Cardinality(There)
    OBVIOUS
  <2>1. CASE destUids[j] = 0
    BY <2>1, IdsFinite, FS_Subset, FS_CardinalityType DEF There
  <2>2. CASE destUids[j] # 0
    <3>1. ~cross /\ j \in AlreadyThere /\ destUids[j] = 1 + Cardinality(Below(j))
      BY <1>7, <2>2
    <3>2. There = AlreadyThere
      <4>1. \A k \in AlreadyThere : 1 + Cardinality(Below(k)) # 0
        BY <1>1, <1>2
      <4> HIDE DEF Below
      <4> QED
        BY <1>1, <1>7, <3>1, <4>1 DEF There
    <3>3. Cardinality(Below(j)) < Cardinality(AlreadyThere) /\ Cardinality(Below(j)) \in Nat
      BY <1>1, <3>1, Smaller
    <3>4. Cardinality(AlreadyThere) \in Nat
      BY <1>1, FS_CardinalityType
    <3> HIDE DEF Below
    <3> QED
      BY <3>1, <3>2, <3>3, <3>4
  <2> QED
    BY <2>1, <2>2
<1> QED
  BY <1>4, <1>6, <1>8, <1>9 DEF CopyInv, UidsOwn

\* The new UIDs are above the old ones, each above those of the copies before it.
LEMMA MapsOwn ==
  ASSUME CopyInv, pc = "map"
  PROVE  /\ Mapped \in [Ids -> Nat] /\ \A j \in ToSet(copiedIds) : Mapped[j] # 0
         /\ \A j, k \in Ids : Mapped[j] = Mapped[k] /\ Mapped[j] # 0 => j = k
<1> DEFINE n == Cardinality(There)
           New(j) == j \in ToSet(copiedIds) /\ destUids[j] = 0
           rank(j) == Cardinality(NewUpTo(Position(j)))
<1>1. n \in Nat /\ NextUid = 1 + n
  BY IdsFinite, FS_Subset, FS_CardinalityType DEF There, NextUid
<1>2. destUids \in [Ids -> Nat] /\ copiedIds \in Seq(Ids) /\ \A j \in Ids : destUids[j] <= n
  BY DEF CopyInv, CopyTyped, UidsOwn
<1>3. ASSUME NEW j, New(j)
      PROVE  /\ Position(j) \in 1 .. Len(copiedIds) /\ copiedIds[Position(j)] = j
             /\ Position(j) \in NewUpTo(Position(j)) /\ IsFiniteSet(NewUpTo(Position(j)))
  <2>1. Position(j) \in DOMAIN copiedIds /\ copiedIds[Position(j)] = j
    BY <1>3 DEF ToSet, Position
  <2>2. Position(j) \in 1 .. Len(copiedIds) /\ Position(j) \in Int
    BY <1>2, <2>1
  <2>3. Position(j) \in NewUpTo(Position(j))
    BY <1>3, <2>1, <2>2 DEF NewUpTo
  <2>4. IsFiniteSet(1 .. Position(j)) /\ NewUpTo(Position(j)) \subseteq 1 .. Position(j)
    BY <2>2, FS_Interval DEF NewUpTo
  <2> QED
    BY <2>1, <2>2, <2>3, <2>4, FS_Subset
<1>4. ASSUME NEW j, New(j) PROVE rank(j) \in Nat \ {0}
  <2>1. IsFiniteSet(NewUpTo(Position(j))) /\ NewUpTo(Position(j)) # {}
    BY <1>3, <1>4
  <2> QED
    BY <2>1, FS_CardinalityType, FS_EmptySet
<1>5. ASSUME NEW j, NEW k, New(j), New(k), Position(j) < Position(k) PROVE rank(j) < rank(k)
  <2>1. /\ Position(j) \in Int /\ Position(k) \in Int
        /\ Position(k) \in NewUpTo(Position(k)) /\ IsFiniteSet(NewUpTo(Position(k)))
    BY <1>3, <1>5
  <2>2. NewUpTo(Position(j)) \subseteq NewUpTo(Position(k)) /\ Position(k) \notin NewUpTo(Position(j))
    BY <1>5, <2>1 DEF NewUpTo
  <2> QED
    BY <2>1, <2>2, Smaller
<1>6. ASSUME NEW j, NEW k, New(j), New(k), rank(j) = rank(k) PROVE j = k
  <2>1. Position(j) \in Int /\ Position(k) \in Int /\ copiedIds[Position(j)] = j /\ copiedIds[Position(k)] = k
    BY <1>3, <1>6
  <2>2. rank(j) \in Nat /\ rank(k) \in Nat
    BY <1>4, <1>6
  <2>3. ~(Position(j) < Position(k)) /\ ~(Position(k) < Position(j))
    BY <1>5, <1>6, <2>2
  <2> QED
    BY <2>1, <2>3
<1>7. \A j \in Ids : Mapped[j] = IF New(j) THEN n + rank(j) ELSE destUids[j]
  BY <1>1 DEF Mapped
<1>8. Mapped = [j \in Ids |-> Mapped[j]]
  BY DEF Mapped
<1> HIDE DEF n, New, rank
<1>9. \A j \in Ids : /\ Mapped[j] \in Nat
                     /\ New(j) => Mapped[j] > n
                     /\ ~New(j) => Mapped[j] <= n
  BY <1>1, <1>2, <1>4, <1>7
<1>10. Mapped \in [Ids -> Nat]
  BY <1>8, <1>9
<1>11. ASSUME NEW j \in ToSet(copiedIds) PROVE Mapped[j] # 0
  <2>1. j \in Ids
    BY <1>2 DEF ToSet
  <2>2. CASE New(j)
    BY <1>1, <1>9, <2>1, <2>2
  <2>3. CASE ~New(j)
    BY <1>7, <2>1, <2>3 DEF New
  <2> QED
    BY <2>2, <2>3
<1>12. ASSUME NEW j \in Ids, NEW k \in Ids, Mapped[j] = Mapped[k], Mapped[j] # 0 PROVE j = k
  <2>1. CASE New(j) /\ New(k)
    <3>1. n + rank(j) = n + rank(k) /\ rank(j) \in Nat /\ rank(k) \in Nat
      BY <1>4, <1>7, <1>12, <2>1
    <3>2. rank(j) = rank(k)
      BY <1>1, <3>1
    <3> QED
      BY <1>6, <2>1, <3>2
  <2>2. CASE ~New(j) /\ ~New(k)
    <3>1. destUids[j] = destUids[k] /\ destUids[j] # 0
      BY <1>7, <1>12, <2>2
    <3> QED
      BY <3>1 DEF CopyInv, UidsOwn
  <2>3. New(j) <=> New(k)
    BY <1>1, <1>9, <1>12
  <2> QED
    BY <2>1, <2>2, <2>3
<1> QED
  BY <1>10, <1>11, <1>12

\* Others take messages away.
LEMMA Vanishes == ASSUME CopyInv, NEW m \in Source, Vanish(m) PROVE CopyInv'
BY DEF CopyInv, Vanish, CopyTyped, HaveCopies, Gone, UidsOwn, There, Moved, CopyUidComplete, command, answer

\* A copy that is made is the copy of one message, and replaces none.
LEMMA CopiesOne ==
  ASSUME CopyInv, NEW m \in Source, NEW j \in Ids, Copied(m, j), pc = "send", cross \/ j = m, cross => copyOf[j] = 0,
         destroyedIds' \in {destroyedIds, destroyedIds \cup {m}}, destroyedIds' # destroyedIds => cross,
         inSource' = inSource \/ (inSource' = inSource \ {m}),
         isMove /\ ~allMail /\ (~cross \/ destroyedIds' # destroyedIds) => inSource' = inSource \ {m},
         UNCHANGED <<pc, command, destUids, srcRecords, srcList, copyUid>>
  PROVE  CopyInv'
<1>1. /\ m \in ids /\ ids' = ids \ {m} /\ copyOf' = [copyOf EXCEPT ![j] = m]
      /\ srcUids' = srcUids \cup ({j} \cap named)
      /\ UNCHANGED <<pc, cross, allMail, isMove, named, destUids, srcRecords, srcList, copyUid>>
  BY DEF Copied, command
<1>2. copiedIds' \in Seq(Ids) /\ ToSet(copiedIds') = ToSet(copiedIds) \cup {j}
  BY SetOfAppend DEF Copied, CopyInv, CopyTyped
<1>3. CopyTyped'
  BY <1>1, <1>2 DEF CopyInv, CopyTyped
<1>4. m # 0
  BY IdsFinite
<1>5. \A i \in ToSet(copiedIds) : i \in Ids /\ (i # j => copyOf'[i] = copyOf[i]) /\ (cross => i # j)
  BY <1>1 DEF CopyInv, CopyTyped, HaveCopies, ToSet
<1>6. copyOf'[j] = m
  BY <1>1 DEF CopyInv, CopyTyped
<1>7. HaveCopies'
  <2>1. \A i \in ToSet(copiedIds)' : copyOf'[i] # 0 /\ (cross \/ copyOf'[i] = i)
    BY <1>2, <1>4, <1>5, <1>6 DEF CopyInv, HaveCopies
  <2>2. \A x \in destroyedIds' : \E i \in ToSet(copiedIds)' : copyOf'[i] = x
    <3> SUFFICES ASSUME NEW x \in destroyedIds' PROVE \E i \in ToSet(copiedIds)' : copyOf'[i] = x
      OBVIOUS
    <3>1. CASE x = m
      BY <1>2, <1>6, <3>1
    <3>2. CASE x # m
      <4>1. PICK i \in ToSet(copiedIds) : copyOf[i] = x
        BY <3>2 DEF CopyInv, HaveCopies
      <4>2. i # j
        BY <1>5, <3>2, <4>1 DEF CopyInv, HaveCopies
      <4> QED
        BY <1>2, <1>5, <4>1, <4>2
    <3> QED
      BY <3>1, <3>2
  <2>3. cross \/ srcUids' = ToSet(copiedIds)'
    BY <1>1, <1>2 DEF CopyInv, CopyTyped, HaveCopies
  <2> QED
    BY <1>1, <2>1, <2>2, <2>3 DEF HaveCopies
<1>8. Gone'
  <2>1. Moved' \subseteq Moved \cup {m} /\ Moved \subseteq Moved'
    BY <1>1, <1>2 DEF Moved
  <2>2. m \in Moved' /\ m \notin Moved => ~cross \/ destroyedIds' # destroyedIds
    BY <1>1 DEF Moved
  <2>3. ASSUME isMove, ~allMail PROVE Moved' \cap inSource' = {}
    BY <2>1, <2>2, <2>3 DEF CopyInv, Gone
  <2> QED
    BY <1>1, <2>1, <2>3 DEF CopyInv, Gone
<1>9. UidsOwn' /\ CopyUidComplete'
  BY <1>1 DEF CopyInv, UidsOwn, There, CopyUidComplete
<1> QED
  BY <1>3, <1>7, <1>8, <1>9 DEF CopyInv

\* Email/set.
LEMMA SetsOne == ASSUME CopyInv, NEW m \in Source, Set(m) PROVE CopyInv'
BY CopiesOne, IdsFinite DEF Set

\* Email/copy.
LEMMA CopiesAcross ==
  ASSUME CopyInv, NEW m \in Source, NEW j \in AccountIds, NEW destroyed \in BOOLEAN, Copy(m, j, destroyed) PROVE CopyInv'
BY CopiesOne, IdsFinite DEF Copy

\* A refusal changes no message.
LEMMA Refuses == ASSUME CopyInv, NEW m \in Source, Refused(m) PROVE CopyInv'
BY DEF CopyInv, Refused, CopyTyped, HaveCopies, Gone, UidsOwn, There, Moved, CopyUidComplete, command, answer, server

\* With all responses read, or an error, the messages are as they were.
LEMMA EndsRequest == ASSUME CopyInv, Responded \/ Error PROVE CopyInv'
BY DEF CopyInv, Responded, Error, CopyTyped, HaveCopies, Gone, UidsOwn, There, Moved, CopyUidComplete, command, answer, server

\* COPYUID has the UIDs of the copies.
LEMMA MapsCopies == ASSUME CopyInv, Map PROVE CopyInv'
<1>1. /\ pc = "map" /\ destUids' = Mapped /\ copyUid' = [src |-> srcUids, dest |-> DestUids(Mapped)]
      /\ pc' = (IF isMove THEN "expunge" ELSE "done")
      /\ UNCHANGED <<cross, allMail, isMove, named, ids, inSource, copyOf, srcRecords, srcList, srcUids, copiedIds, destroyedIds>>
  BY DEF Map, command, server, answer
<1>2. CopyTyped' /\ HaveCopies' /\ Gone'
  BY <1>1, MapsOwn DEF CopyInv, CopyTyped, HaveCopies, Gone, Moved
<1>3. UidsOwn'
  BY <1>1, MapsOwn DEF UidsOwn
<1>4. CopyUidComplete'
  BY <1>1, MapsOwn DEF CopyInv, HaveCopies, CopyUidComplete, DestUids
<1> QED
  BY <1>2, <1>3, <1>4 DEF CopyInv

\* What is taken from the list and from the database is what was moved.
LEMMA TakesMoved == ASSUME CopyInv, Expunge \/ \E ok \in BOOLEAN : DeleteIds(ok) PROVE CopyInv'
BY SMTT(30) DEF CopyInv, Expunge, DeleteIds, CopyTyped, HaveCopies, Gone, UidsOwn, There, Moved, CopyUidComplete, command, answer, server

\* So it holds of every reachable state.
LEMMA CopyStep == ASSUME CopyInv, [Next]_vars PROVE CopyInv'
<1>1. CASE UNCHANGED vars
  BY <1>1 DEF vars, command, server, answer, CopyInv, CopyTyped, HaveCopies, Gone, UidsOwn, There, Moved, CopyUidComplete
<1>2. CASE Next
  BY <1>2, Vanishes, SetsOne, CopiesAcross, Refuses, EndsRequest, MapsCopies, TakesMoved DEF Next
<1> QED
  BY <1>1, <1>2

LEMMA CopyAlways == Spec => []CopyInv
<1>1. CopyInv /\ [Next]_vars => CopyInv'
  BY CopyStep
<1> QED
  BY <1>1, CopyFirst, PTL DEF Spec

(***************************************************************************)
(* Nothing a COPY or MOVE did for a message is lost or claimed without       *)
(* reason (copy_move, jmap_to_imap): for any mailboxes and messages, within  *)
(* an account and between accounts, whatever is refused, fails or leaves     *)
(* meanwhile.  All Mail is left out: a MOVE takes nothing from it, but its   *)
(* list and its records lose the messages.                                   *)
(***************************************************************************)
THEOREM CopiesAccountedAlways == Spec => [](~allMail => CopiesAccounted)
<1>1. CopyInv => (~allMail => CopiesAccounted)
  <2> SUFFICES ASSUME CopyInv, ~allMail PROVE MoveSparesPresent
    BY DEF CopyInv, CopiesAccounted
  <2>1. inSource \subseteq srcList /\ inSource \subseteq srcRecords
    BY DEF CopyInv, CopyTyped, Gone
  <2>2. ASSUME NEW m \in Source \ srcList PROVE \E j \in ToSet(copiedIds) : copyOf[j] = m
    BY <2>2 DEF CopyInv, Gone, HaveCopies, Moved
  <2> QED
    BY <2>1, <2>2 DEF MoveSparesPresent
<1> QED
  BY <1>1, CopyAlways, PTL

-----------------------------------------------------------------------------
(* The receiver, for any bytes.  What is in its buffer is a sequence of them;  *)
(* while a literal is announced, of digits; and what is left of a literal has  *)
(* room beside all that came before it.                                        *)

ReceiverSpec == ReceiverInit /\ [][ReceiverNext]_receiverVars

ReceiverFields == {"state", "buf", "name", "tokens", "size", "last", "escaped", "nonSync", "left", "out"}
ReceiverStates == {"start", "tag", "command", "argument", "quoted", "literal", "seek", "data"}

IsSeq(s) == s \in Seq(ToSet(s))

\* In any state.
Sized(r) ==
  /\ DOMAIN r = ReceiverFields /\ r.state \in ReceiverStates
  /\ IsSeq(r.buf)
  /\ r.size \in Nat /\ r.size <= MaxRequest
  /\ r.left \in Nat /\ r.left <= MaxRequest

\* In the states of a literal.
LiteralFits(r) ==
  /\ r.state = "literal" => ToSet(r.buf) \subseteq DOMAIN Digit
  /\ r.state = "seek" => r.buf = <<>> /\ r.size + r.left <= MaxRequest
  /\ r.state = "data" => r.left > 0 /\ r.size + Len(r.buf) + r.left <= MaxRequest

Received(r) == Sized(r) /\ LiteralFits(r)

ReceiverInv == startState \in StartStates /\ Received(rcv) /\ rcv.out = "more"

LEMMA NoBytes == IsSeq(<<>>) /\ ToSet(<<>>) = {} /\ Len(<<>>) = 0
BY DEF IsSeq, ToSet

\* One byte more.
LEMMA OneMore ==
  ASSUME NEW s, IsSeq(s), NEW x
  PROVE  /\ IsSeq(Append(s, x)) /\ ToSet(Append(s, x)) = ToSet(s) \cup {x}
         /\ Len(s) \in Nat /\ Len(Append(s, x)) = Len(s) + 1
<1> DEFINE S == ToSet(s) \cup {x}
<1>1. s \in Seq(ToSet(s))
  BY DEF IsSeq
<1> HIDE DEF S
<1>2. s \in Seq(S)
  <2>1. ToSet(s) \subseteq S
    BY DEF S
  <2> QED
    BY <1>1, <2>1
<1>3. x \in S
  BY DEF S
<1>4. Append(s, x) \in Seq(S) /\ ToSet(Append(s, x)) = ToSet(s) \cup {x}
  BY <1>2, <1>3, SetOfAppend
<1>5. IsSeq(Append(s, x))
  BY <1>4 DEF IsSeq, S
<1> QED
  BY <1>2, <1>3, <1>4, <1>5

LEMMA OneOrTwoMore ==
  ASSUME NEW s, IsSeq(s), NEW x, NEW y
  PROVE  IsSeq(s \o <<x>>) /\ IsSeq(s \o <<x, y>>)
<1>1. s \in Seq(ToSet(s) \cup {x, y})
  BY DEF IsSeq
<1>2. s \o <<x>> = Append(s, x)
  BY <1>1
<1>3. s \o <<x, y>> = Append(Append(s, x), y)
  BY <1>1
<1> QED
  BY <1>2, <1>3, OneMore

LEMMA Restarted ==
  ASSUME startState \in StartStates, NEW r
  PROVE  Received(Fresh(startState)) /\ Received(ErrorReset(r)) /\ ErrorReset(r).out = "error"
BY ReceiverAssumption, NoBytes DEF Fresh, ErrorReset, Received, Sized, LiteralFits, ReceiverFields, ReceiverStates

\* A token that is pushed finds room, or the request is refused.
LEMMA PushedFits ==
  ASSUME NEW r, Sized(r), NEW token, NEW n \in Nat
  PROVE  LET q == Pushed(r, token, n) IN
         \/ q = ErrorReset(r)
         \/ Sized(q) /\ q.state = r.state /\ q.buf = <<>> /\ q.left = r.left /\ q.out = r.out
            /\ q.size = r.size + n
BY ReceiverAssumption, NoBytes DEF Pushed, Sized, ReceiverFields

LEMMA ArgumentFits ==
  ASSUME NEW r, Sized(r), NEW inQuote \in BOOLEAN
  PROVE  LET q == PushArgument(r, inQuote) IN
         \/ q = ErrorReset(r)
         \/ Sized(q) /\ q.state = r.state /\ q.buf = <<>> /\ q.left = r.left /\ q.out = r.out
            /\ (q.size = r.size + Len(r.buf) \/ r.buf = <<>>)
<1>1. CASE r.buf # <<>>
  <2>1. Len(r.buf) \in Nat
    BY OneMore DEF Sized
  <2> QED
    BY <1>1, <2>1, PushedFits DEF PushArgument
<1>2. CASE r.buf = <<>>
  BY <1>2 DEF PushArgument, Sized, ReceiverFields
<1> QED
  BY <1>1, <1>2

\* The states outside a literal ask for nothing more.
LEMMA Plain ==
  ASSUME NEW q, Sized(q), q.state \in {"start", "tag", "command", "argument", "quoted"}
  PROVE  Received(q)
BY DEF Received, LiteralFits

LEMMA WordByteFits ==
  ASSUME startState \in StartStates, NEW r, Received(r), NEW ch
  PROVE  /\ r.state = "start" => Received(StartByte(r, ch))
         /\ r.state = "tag" => Received(TagByte(r, ch))
         /\ r.state = "command" => Received(CommandByte(r, ch))
<1>1. /\ IsSeq(Append(r.buf, ch)) /\ Sized(r)
      /\ Received(ErrorReset(r))
  BY OneMore, Restarted DEF Received, Sized
<1>2. CASE r.state = "start"
  <2>1. StartByte(r, ch) \in {r, ErrorReset(r), Goto([r EXCEPT !.buf = Append(@, ch)], "tag")}
    BY DEF StartByte
  <2>2. Received(Goto([r EXCEPT !.buf = Append(@, ch)], "tag"))
    BY <1>1 DEF Goto, Sized, Received, LiteralFits, ReceiverFields, ReceiverStates
  <2> QED
    BY <1>1, <1>2, <2>1, <2>2
<1>3. CASE r.state = "tag"
  <2>1. TagByte(r, ch) \in {ErrorReset(r), Goto([r EXCEPT !.buf = <<>>], "command"), [r EXCEPT !.buf = Append(@, ch)]}
    BY DEF TagByte
  <2>2. Received(Goto([r EXCEPT !.buf = <<>>], "command"))
    BY <1>1, NoBytes DEF Goto, Sized, Received, LiteralFits, ReceiverFields, ReceiverStates
  <2>3. Received([r EXCEPT !.buf = Append(@, ch)])
    BY <1>1, <1>3 DEF Sized, Received, LiteralFits, ReceiverFields
  <2> QED
    BY <1>1, <1>3, <2>1, <2>2, <2>3
<1>4. CASE r.state = "command"
  <2>1. CommandByte(r, ch) \in {r, ErrorReset(r), [r EXCEPT !.buf = Append(@, ch)], [r EXCEPT !.buf = <<>>],
                                [r EXCEPT !.out = "request"],
                                Goto([r EXCEPT !.name = r.buf, !.buf = <<>>, !.last = SP], "argument")}
    BY DEF CommandByte, Return
  <2>2. Received([r EXCEPT !.buf = Append(@, ch)]) /\ Received([r EXCEPT !.buf = <<>>]) /\ Received([r EXCEPT !.out = "request"])
    BY <1>1, <1>4, NoBytes DEF Sized, Received, LiteralFits, ReceiverFields
  <2>3. Received(Goto([r EXCEPT !.name = r.buf, !.buf = <<>>, !.last = SP], "argument"))
    BY <1>1, NoBytes DEF Goto, Sized, Received, LiteralFits, ReceiverFields, ReceiverStates
  <2> QED
    BY <1>1, <1>4, <2>1, <2>2, <2>3
<1> QED
  BY <1>2, <1>3, <1>4

LEMMA ArgumentByteFits ==
  ASSUME startState \in StartStates, NEW r, Received(r), NEW ch, r.state = "argument"
  PROVE  Received(ArgumentByte(r, ch))
<1> DEFINE p == PushArgument(r, FALSE)
<1>1. Sized(r) /\ IsSeq(Append(r.buf, ch))
  BY OneMore DEF Received, Sized
<1>2. p = ErrorReset(r) \/ (Sized(p) /\ p.state = "argument" /\ p.buf = <<>>)
  BY <1>1, ArgumentFits
<1> HIDE DEF p
<1>3. Received(p) /\ (p = ErrorReset(r) => p.out = "error")
  BY <1>2, Restarted, Plain
<1>4. ASSUME p.out # "error"
      PROVE  /\ Received(Goto([p EXCEPT !.escaped = FALSE], "quoted")) /\ Received(Goto([p EXCEPT !.nonSync = FALSE], "literal"))
             /\ Received(Pushed(p, Special(ch), 1)) /\ Received(Return(p, "request")) /\ Received([p EXCEPT !.last = ch])
  <2>1. Sized(p) /\ p.state = "argument" /\ p.buf = <<>>
    BY <1>2, <1>3, <1>4
  <2>2. Received(Goto([p EXCEPT !.escaped = FALSE], "quoted")) /\ Received(Goto([p EXCEPT !.nonSync = FALSE], "literal"))
    BY <2>1, NoBytes DEF Goto, Sized, Received, LiteralFits, ReceiverFields, ReceiverStates
  <2>3. Received(Return(p, "request")) /\ Received([p EXCEPT !.last = ch])
    BY <2>1 DEF Return, Sized, Received, LiteralFits, ReceiverFields
  <2>4. Received(Pushed(p, Special(ch), 1))
    <3> DEFINE q == Pushed(p, Special(ch), 1)
    <3>1. q = ErrorReset(p) \/ (Sized(q) /\ q.state = p.state)
      BY <2>1, PushedFits
    <3> HIDE DEF q
    <3>2. Received(q)
      BY <2>1, <3>1, Restarted, Plain
    <3> QED
      BY <3>2 DEF q
  <2> QED
    BY <2>2, <2>3, <2>4
<1>5. Received([r EXCEPT !.buf = Append(@, ch), !.last = ch])
  BY <1>1 DEF Sized, Received, LiteralFits, ReceiverFields
<1>6. \/ ArgumentByte(r, ch) \in {[r EXCEPT !.buf = Append(@, ch), !.last = ch], p}
      \/ p.out # "error" /\ ArgumentByte(r, ch) \in
           {Goto([p EXCEPT !.escaped = FALSE], "quoted"), Goto([p EXCEPT !.nonSync = FALSE], "literal"),
            Pushed(p, Special(ch), 1), Return(p, "request"), [p EXCEPT !.last = ch]}
  BY DEF ArgumentByte, AndThen, p
<1> QED
  BY <1>3, <1>4, <1>5, <1>6

LEMMA QuotedByteFits ==
  ASSUME startState \in StartStates, NEW r, Received(r), NEW ch, r.state = "quoted"
  PROVE  Received(QuotedByte(r, ch))
<1> DEFINE p == PushArgument(r, TRUE)
<1>1. /\ Sized(r) /\ IsSeq(Append(r.buf, ch)) /\ IsSeq(r.buf \o <<ch>>) /\ IsSeq(r.buf \o <<BSLASH, ch>>)
      /\ Received(ErrorReset(r))
  BY OneMore, OneOrTwoMore, Restarted DEF Received, Sized
<1>2. p = ErrorReset(r) \/ (Sized(p) /\ p.state = "quoted" /\ p.buf = <<>>)
  BY <1>1, ArgumentFits
<1> HIDE DEF p
<1>3. Received(p) /\ (p = ErrorReset(r) => p.out = "error")
  BY <1>2, Restarted, Plain
<1>4. ASSUME p.out # "error" PROVE Received(Goto([p EXCEPT !.last = SP], "argument"))
  BY <1>2, <1>3, <1>4 DEF Goto, Sized, Received, LiteralFits, ReceiverFields, ReceiverStates
<1>5. ASSUME NEW b, IsSeq(b), NEW e PROVE Received([r EXCEPT !.buf = b, !.escaped = e])
  BY <1>1, <1>5 DEF Sized, Received, LiteralFits, ReceiverFields
<1>6. \/ QuotedByte(r, ch) \in {p, ErrorReset(r)}
      \/ p.out # "error" /\ QuotedByte(r, ch) = Goto([p EXCEPT !.last = SP], "argument")
      \/ QuotedByte(r, ch) \in {[r EXCEPT !.buf = Append(r.buf, ch), !.escaped = Escaped(r)],
                                [r EXCEPT !.buf = r.buf, !.escaped = Escaped(r)],
                                [r EXCEPT !.buf = r.buf \o <<BSLASH, ch>>, !.escaped = FALSE],
                                [r EXCEPT !.buf = r.buf \o <<ch>>, !.escaped = FALSE]}
  BY DEF QuotedByte, AndThen, p
<1>7. /\ Received([r EXCEPT !.buf = Append(r.buf, ch), !.escaped = Escaped(r)])
      /\ Received([r EXCEPT !.buf = r.buf, !.escaped = Escaped(r)])
      /\ Received([r EXCEPT !.buf = r.buf \o <<BSLASH, ch>>, !.escaped = FALSE])
      /\ Received([r EXCEPT !.buf = r.buf \o <<ch>>, !.escaped = FALSE])
  BY <1>1, <1>5, Zenon DEF Sized
<1> QED
  BY <1>1, <1>3, <1>4, <1>6, <1>7

\* A literal is announced only if it fits beside what came before it, and its bytes are
\* counted down.
LEMMA LiteralByteFits ==
  ASSUME startState \in StartStates, NEW r, Received(r), r.out = "more", NEW ch
  PROVE  /\ r.state = "literal" => Received(LiteralByte(r, ch))
         /\ r.state = "seek" => Received(SeekByte(r, ch))
         /\ r.state = "data" => Received(DataByte(r, ch))
<1>1. /\ Sized(r) /\ LiteralFits(r) /\ Received(ErrorReset(r))
      /\ IsSeq(Append(r.buf, ch)) /\ ToSet(Append(r.buf, ch)) = ToSet(r.buf) \cup {ch}
      /\ Len(r.buf) \in Nat /\ Len(Append(r.buf, ch)) = Len(r.buf) + 1
  BY OneMore, Restarted DEF Received, Sized
<1>2. CASE r.state = "literal"
  <2> DEFINE q == Goto([r EXCEPT !.left = Value(r.buf), !.buf = <<>>], "seek")
  <2>1. ASSUME IsNumber(r.buf), Fits(r) PROVE Received(q)
    <3>1. Value(r.buf) \in Nat /\ r.size + Value(r.buf) <= MaxRequest
      BY <2>1, SequenceSetAssumption DEF IsNumber, Fits
    <3> QED
      BY <1>1, <3>1, NoBytes, ReceiverAssumption DEF Goto, Sized, Received, LiteralFits, ReceiverFields, ReceiverStates
  <2>2. ASSUME ch \in DOMAIN Digit PROVE Received([r EXCEPT !.buf = Append(@, ch)])
    BY <1>1, <1>2, <2>2 DEF Sized, Received, LiteralFits, ReceiverFields
  <2>3. Received([r EXCEPT !.nonSync = TRUE])
    BY <1>1, <1>2 DEF Sized, Received, LiteralFits, ReceiverFields
  <2>4. \/ IsNumber(r.buf) /\ Fits(r) /\ LiteralByte(r, ch) = q
        \/ ch \in DOMAIN Digit /\ LiteralByte(r, ch) = [r EXCEPT !.buf = Append(@, ch)]
        \/ LiteralByte(r, ch) = [r EXCEPT !.nonSync = TRUE]
        \/ LiteralByte(r, ch) = ErrorReset(r)
    <3>1. CASE ch = "}" /\ IsNumber(r.buf) /\ Fits(r)
      <4>1. ~(ch = "+") /\ ch \notin DOMAIN Digit
        BY <3>1 DEF Digit
      <4> QED
        BY <3>1, <4>1 DEF LiteralByte
    <3>2. CASE ch = "+" /\ r.buf # <<>>
      <4>1. ~(ch = "}") /\ ch \notin DOMAIN Digit
        BY <3>2 DEF Digit
      <4> QED
        BY <3>2, <4>1 DEF LiteralByte
    <3>3. CASE ch \in DOMAIN Digit /\ ~r.nonSync
      <4>1. ~(ch = "}") /\ ~(ch = "+")
        BY <3>3 DEF Digit
      <4> QED
        BY <3>3, <4>1 DEF LiteralByte
    <3>4. CASE /\ ~(ch = "}" /\ IsNumber(r.buf) /\ Fits(r))
               /\ ~(ch = "+" /\ r.buf # <<>>) /\ ~(ch \in DOMAIN Digit /\ ~r.nonSync)
      BY <3>4 DEF LiteralByte
    <3> QED
      BY <3>1, <3>2, <3>3, <3>4
  <2> HIDE DEF q
  <2> QED
    BY <1>1, <1>2, <2>1, <2>2, <2>3, <2>4
<1>3. CASE r.state = "seek"
  <2> DEFINE a == Goto([r EXCEPT !.last = SP], "argument")
             next == IF r.left > 0 THEN Goto(r, "data") ELSE Pushed(a, Nil, 1)
  <2>1. r.left > 0 => Received(Goto(r, "data"))
    BY <1>1, <1>3, NoBytes DEF Goto, Sized, Received, LiteralFits, ReceiverFields, ReceiverStates
  <2>2. Sized(a) /\ a.state = "argument"
    BY <1>1 DEF Goto, Sized, ReceiverFields, ReceiverStates
  <2> HIDE DEF a
  <2>3. Received(Pushed(a, Nil, 1))
    <3> DEFINE b == Pushed(a, Nil, 1)
    <3>1. b = ErrorReset(a) \/ (Sized(b) /\ b.state = a.state)
      BY <2>2, PushedFits
    <3> HIDE DEF b
    <3>2. Received(b)
      BY <2>2, <3>1, Restarted, Plain
    <3> QED
      BY <3>2 DEF b
  <2>4. Received(next)
    BY <2>1, <2>3
  <2>5. SeekByte(r, ch) \in {next, Return(next, "literal"), r, ErrorReset(r)}
    BY DEF SeekByte, AndThen, next, a
  <2> HIDE DEF next
  <2>6. Received(Return(next, "literal"))
    BY <2>4 DEF Return, Sized, Received, LiteralFits, ReceiverFields
  <2> QED
    BY <1>1, <1>3, <2>4, <2>5, <2>6
<1>4. CASE r.state = "data"
  <2> DEFINE q == [r EXCEPT !.buf = Append(@, ch), !.left = @ - 1]
             p == PushArgument(q, FALSE)
  <2>1. /\ Sized(q) /\ q.state = "data" /\ q.buf = Append(r.buf, ch) /\ q.left = r.left - 1 /\ q.size = r.size
        /\ q.out = "more"
    BY <1>1, <1>4, ReceiverAssumption DEF Sized, LiteralFits, ReceiverFields
  <2> HIDE DEF q
  <2>2. r.left > 1 => Received(q)
    <3>1. r.left \in Nat /\ r.size \in Nat /\ r.size + Len(r.buf) + r.left <= MaxRequest /\ MaxRequest \in Nat
      BY <1>1, <1>4, ReceiverAssumption DEF Sized, LiteralFits
    <3>2. q.size + Len(q.buf) + q.left = r.size + Len(r.buf) + r.left
      <4>1. Len(q.buf) = Len(r.buf) + 1
        BY <1>1, <2>1
      <4> QED
        <5>1. q.size = r.size /\ q.left = r.left - 1 /\ Len(r.buf) \in Nat
          BY <1>1, <2>1
        <5> QED
          <6>1. \A a, b, c \in Nat : a + (b + 1) + (c - 1) = a + b + c
            OBVIOUS
          <6>2. q.size + Len(q.buf) + q.left = r.size + (Len(r.buf) + 1) + (r.left - 1)
            BY <4>1, <5>1, Zenon
          <6> QED
            BY <3>1, <5>1, <6>1, <6>2, ZenonT(60)
    <3>3. r.left > 1 => q.left > 0
      BY <2>1, <3>1
    <3> QED
      BY <2>1, <3>1, <3>2, <3>3 DEF Received, LiteralFits
  <2>3. p = ErrorReset(q) \/ (Sized(p) /\ p.out = "more")
    BY <2>1, ArgumentFits
  <2> HIDE DEF p
  <2>4. p.out # "error" => Received(Goto([p EXCEPT !.last = SP], "argument"))
    <3>1. SUFFICES ASSUME p.out # "error" PROVE Received(Goto([p EXCEPT !.last = SP], "argument"))
      OBVIOUS
    <3>2. Sized(p)
      BY <2>3, <3>1, Restarted
    <3> QED
      BY <3>2 DEF Goto, Sized, Received, LiteralFits, ReceiverFields, ReceiverStates
  <2>5. \/ r.left > 1 /\ DataByte(r, ch) = q
        \/ p.out = "error" /\ DataByte(r, ch) = p
        \/ p.out # "error" /\ DataByte(r, ch) = Goto([p EXCEPT !.last = SP], "argument")
    BY DEF DataByte, AndThen, p, q
  <2>6. p.out = "error" => Received(p)
    BY <2>3, Restarted
  <2> QED
    BY <1>4, <2>2, <2>4, <2>5, <2>6
<1> QED
  BY <1>2, <1>3, <1>4

LEMMA ParseByteFits ==
  ASSUME startState \in StartStates, NEW r, Received(r), r.out = "more", NEW ch
  PROVE  Received(ParseByte(r, ch))
<1>1. r.state \in ReceiverStates
  BY DEF Received, Sized
<1>2. /\ r.state = "start" => ParseByte(r, ch) = StartByte(r, ch)
      /\ r.state = "tag" => ParseByte(r, ch) = TagByte(r, ch)
      /\ r.state = "command" => ParseByte(r, ch) = CommandByte(r, ch)
      /\ r.state = "argument" => ParseByte(r, ch) = ArgumentByte(r, ch)
      /\ r.state = "quoted" => ParseByte(r, ch) = QuotedByte(r, ch)
      /\ r.state = "literal" => ParseByte(r, ch) = LiteralByte(r, ch)
      /\ r.state = "seek" => ParseByte(r, ch) = SeekByte(r, ch)
      /\ r.state = "data" => ParseByte(r, ch) = DataByte(r, ch)
  BY DEF ParseByte
<1> QED
  BY <1>1, <1>2, WordByteFits, ArgumentByteFits, QuotedByteFits, LiteralByteFits, Zenon DEF ReceiverStates

LEMMA ReceiverFirst == ReceiverInit => ReceiverInv
<1> SUFFICES ASSUME ReceiverInit PROVE ReceiverInv
  OBVIOUS
<1>1. startState \in StartStates /\ rcv = Fresh(startState)
  BY DEF ReceiverInit
<1>2. Fresh(startState).out = "more"
  BY DEF Fresh
<1> QED
  BY <1>1, <1>2, Restarted DEF ReceiverInv

\* Only the parser changes the receiver.
LEMMA ReceiverStep == ASSUME ReceiverInv, [ReceiverNext]_receiverVars PROVE ReceiverInv'
<1> DEFINE r == ParseByte(rcv, Head(wire))
<1>1. Received(r) /\ startState \in StartStates
  BY ParseByteFits DEF ReceiverInv
<1>2. Received([r EXCEPT !.out = "more"]) /\ [r EXCEPT !.out = "more"].out = "more"
  <2> HIDE DEF r
  <2> QED
    BY <1>1 DEF Received, Sized, LiteralFits, ReceiverFields
<1>3. Received(Fresh(startState)) /\ Fresh(startState).out = "more"
  BY <1>1, Restarted DEF Fresh
<1>4. CASE Parse \/ Request \/ NeedsLiteral \/ ParseError
  <2>1. startState' = startState
    BY <1>4 DEF Parse, Request, NeedsLiteral, ParseError
  <2>2. \/ rcv' = r /\ r.out = "more"
        \/ rcv' = Fresh(startState)
        \/ rcv' = [r EXCEPT !.out = "more"]
    BY <1>4 DEF Parse, Request, NeedsLiteral, ParseError, Return
  <2> HIDE DEF r
  <2>3. Received(rcv') /\ rcv'.out = "more"
    BY <1>1, <1>2, <1>3, <2>2
  <2> QED
    BY <1>1, <2>1, <2>3 DEF ReceiverInv, Received, Sized, LiteralFits
<1>5. CASE UNCHANGED <<rcv, startState>>
  BY <1>5 DEF ReceiverInv, Received, Sized, LiteralFits
<1>6. CASE ReceiverNext /\ ~(Parse \/ Request \/ NeedsLiteral \/ ParseError)
  <2>1. UNCHANGED <<rcv, startState>>
    BY <1>6 DEF ReceiverNext, Begins, Atom, Quoted, NonSync, Announces, Punctuates, Spoils, Continues, Ends,
       GivesUp, NextLine, ReceiverSame
  <2> QED
    BY <1>5, <2>1
<1>7. CASE UNCHANGED receiverVars
  BY <1>5, <1>7 DEF receiverVars
<1> QED
  BY <1>4, <1>6, <1>7

LEMMA ReceiverImplies == ReceiverInv => ReceiverTypeOK
BY DEF ReceiverInv, Received, Sized, LiteralFits, ReceiverTypeOK

(***************************************************************************)
(* Whatever bytes a client sends, the digits that the receiver unwraps are   *)
(* digits, and neither a request nor a literal that it has begun to read is  *)
(* larger than max_request_size (Receiver::parse): for any limits, also when *)
(* several literals of a request add up.                                     *)
(***************************************************************************)
THEOREM ReceiverTyped == ReceiverSpec => []ReceiverTypeOK
<1>1. ReceiverInit => ReceiverInv
  BY ReceiverFirst
<1>2. ReceiverInv /\ [ReceiverNext]_receiverVars => ReceiverInv'
  BY ReceiverStep
<1> QED
  BY <1>1, <1>2, ReceiverImplies, PTL DEF ReceiverSpec

-----------------------------------------------------------------------------
(* Sequence sets. *)

\* What an item is.
LEMMA ItemKinds ==
  ASSUME NEW seq, IsSequence(seq), NEW i \in DOMAIN seq
  PROVE  \/ seq[i].kind = "number" /\ seq[i].from \in Nat
         \/ seq[i].kind = "range" /\ seq[i].from \in Nat \cup {-1} /\ seq[i].to \in Nat \cup {-1}
         \/ seq[i].kind = "saved"
<1> DEFINE x == seq[i]
<1>1. \/ x = SavedSet
      \/ x = Number(x.from) /\ x.from \in Nat
      \/ x = Range2(x.from, x.to) /\ {x.from, x.to} \subseteq Nat \cup {Star}
  BY DEF IsSequence
<1> HIDE DEF x
<1>2. SavedSet.kind = "saved" /\ Number(x.from).kind = "number" /\ Range2(x.from, x.to).kind = "range"
  BY DEF SavedSet, Number, Range2
<1> QED
  BY <1>1, <1>2 DEF Star, x

LEMMA ItemAgrees ==
  ASSUME NEW seq, IsSequence(seq), NEW i \in DOMAIN seq, NEW v \in Nat, NEW max \in Nat
  PROVE  ItemContains(seq[i], v, max) <=> v \in ItemExpand(seq[i], max)
<1>1. CASE seq[i].kind = "number" /\ seq[i].from \in Nat
  BY <1>1 DEF ItemContains, ItemExpand
<1>2. CASE seq[i].kind = "range" /\ seq[i].from \in Nat \cup {-1} /\ seq[i].to \in Nat \cup {-1}
  BY <1>2 DEF ItemContains, ItemExpand, Between, Star
<1>3. CASE seq[i].kind = "saved"
  BY <1>3 DEF ItemContains, ItemExpand
<1> QED
  BY <1>1, <1>2, <1>3, ItemKinds

(***************************************************************************)
(* The two readings of a sequence set agree (Sequence::contains and expand): *)
(* for any list of items, also with ranges written backwards, `*' on either  *)
(* side and numbers above the largest in the mailbox.                        *)
(***************************************************************************)
THEOREM ReadingsAgreeAlways ==
  ASSUME NEW seq, IsSequence(seq), NEW max \in Nat
  PROVE  ReadingsAgree(seq, max)
<1> SUFFICES ASSUME NEW v \in 0 .. MaxNumber PROVE SetContains(seq, v, max) <=> v \in Expand(seq, max)
  BY DEF ReadingsAgree
<1>1. \A i \in DOMAIN seq : ItemContains(seq[i], v, max) <=> v \in ItemExpand(seq[i], max)
  BY SequenceSetAssumption, ItemAgrees
<1> QED
  BY <1>1 DEF SetContains, Expand

-----------------------------------------------------------------------------
(* The types of the parts of a session, together.  COPY and MOVE first.       *)

LEMMA CopyTypesFirst == Init => TypeOK
<1> SUFFICES ASSUME Init PROVE TypeOK
  OBVIOUS
<1>1. /\ pc = "send" /\ cross \in CrossAccount /\ allMail \in AllMail /\ isMove \in BOOLEAN /\ srcRecords = Source
      /\ named \subseteq Source /\ ids = named /\ inSource = Source /\ srcList = Source
      /\ srcUids = {} /\ copiedIds = <<>> /\ destroyedIds = {} /\ copyUid = [src |-> {}, dest |-> {}]
  BY DEF Init
<1>2. copyOf \in [Ids -> Source \cup {0}] /\ destUids \in [Ids -> Nat]
  BY CopyFirst DEF CopyInv, CopyTyped
<1>3. ToSet(copiedIds) = {} /\ copyUid.src = {} /\ copyUid.dest = {}
  BY <1>1 DEF ToSet
<1> QED
  BY <1>1, <1>2, <1>3 DEF TypeOK

LEMMA CopyTypes == ASSUME CopyInv, TypeOK, [Next]_vars PROVE TypeOK'
<1>0. CopyTyped' /\ ToSet(copiedIds') \subseteq Ids
  <2>1. CopyTyped'
    BY CopyStep DEF CopyInv
  <2> QED
    BY <2>1 DEF CopyTyped, ToSet
<1>1. CASE \E m \in Source : Vanish(m) \/ Refused(m)
  BY <1>0, <1>1 DEF TypeOK, CopyTyped, Vanish, Refused, command, server, answer
<1>2. CASE \E m \in Source : Set(m)
  BY <1>0, <1>2 DEF TypeOK, CopyTyped, Set, Copied, command
<1>3. CASE \E m \in Source, j \in AccountIds, destroyed \in BOOLEAN : Copy(m, j, destroyed)
  BY <1>0, <1>3 DEF TypeOK, CopyTyped, Copy, Copied, command
<1>4. CASE Responded \/ Error
  BY <1>0, <1>4 DEF TypeOK, CopyTyped, Responded, Error, command, server, answer
<1>5. CASE Map
  <2>1. /\ copyUid' = [src |-> srcUids, dest |-> DestUids(Mapped)] /\ pc' = (IF isMove THEN "expunge" ELSE "done")
        /\ UNCHANGED <<cross, allMail, isMove, named, srcRecords, srcList, srcUids, copiedIds, destroyedIds>>
    BY <1>5 DEF Map, command, server, answer
  <2>2. DestUids(Mapped) \subseteq Nat \ {0}
    BY <1>5, MapsOwn DEF Map, DestUids, TypeOK
  <2>3. copyUid'.src = srcUids /\ copyUid'.dest = DestUids(Mapped)
    BY <2>1
  <2> QED
    BY <1>0, <2>1, <2>2, <2>3 DEF TypeOK, CopyTyped
<1>6. CASE Expunge \/ \E ok \in BOOLEAN : DeleteIds(ok)
  BY <1>0, <1>6 DEF TypeOK, CopyTyped, Expunge, DeleteIds, command, server, answer
<1>7. CASE UNCHANGED vars
  BY <1>7 DEF TypeOK, vars, command, server, answer
<1> QED
  BY <1>1, <1>2, <1>3, <1>4, <1>5, <1>6, <1>7 DEF Next

\* A saved result is one of an earlier command, which has ended; a search waits in the
\* loop only for earlier ones.
Ended(j) == at[j] \in {"send", "end"}

SavedKnown ==
  /\ saved.by \in Cmds => at[saved.by] \notin {"client", "loop", "install"} /\ (saved.tag # "flight" => Ended(saved.by))
  /\ saved.tag = "flight" => kind[saved.by] \in Savings
  /\ \A k \in failed : kind[k] \in Savings
  /\ \A k \in Cmds : /\ prev[k] < k /\ dollar[k] # k
                     /\ prev[k] \in Cmds => Ended(prev[k])
                     /\ at[k] = "loop" => waits[k] < k

LEMMA SavedKnownFirst == SavedInit => SavedKnown
<1> SUFFICES ASSUME SavedInit PROVE SavedKnown
  OBVIOUS
<1>1. saved.by = 0 /\ saved.tag = "none"
  BY DEF SavedInit, Nothing, NoneYet
<1>2. \A k \in Cmds : prev[k] = -2 /\ waits[k] = 0 /\ dollar[k] = -2 /\ k \in Int /\ k > 0
  BY CmdsInt DEF SavedInit, Unknown, NoneYet
<1>3. failed = {} /\ saved.by \notin Cmds
  BY <1>1, CmdsInt DEF SavedInit, NoneYet
<1>4. \A k \in Cmds : prev[k] < k /\ dollar[k] # k /\ prev[k] \notin Cmds /\ waits[k] < k
  BY <1>2
<1> QED
  BY <1>1, <1>3, <1>4 DEF SavedKnown

\* What is got is the result of an earlier search, or none.
LEMMA GotKnown ==
  ASSUME SavedInv, SavedKnown, NEW k \in Cmds, at[k] \in {"loop", "resolve"}, Known(k)
  PROVE  Got(k) # k /\ (Got(k) \in Cmds => Ended(Got(k))) /\ (at[k] = "loop" => Got(k) < k)
<1>0. saved.by \in SavedValues /\ waits[k] \in Cmds \cup {NoneYet} /\ k \in Int /\ k > 0
  BY CmdsInt DEF SavedInv, SavedTyped
<1>1. CASE waits[k] = NoneYet
  <2>1. Got(k) = saved.by /\ saved.tag # "flight"
    BY <1>1 DEF Got, Known
  <2>2. saved.by \in Cmds => Ended(saved.by)
    BY <2>1 DEF SavedKnown
  <2>3. ~Ended(k)
    BY DEF Ended
  <2>4. ASSUME at[k] = "loop", saved.by \in Cmds PROVE saved.by < k
    <3>1. at[saved.by] # "client" /\ saved.by # k
      BY <2>2, <2>3, <2>4 DEF Ended
    <3>2. ~(k < saved.by)
      BY <2>4, <3>1 DEF SavedInv, TakenInOrder
    <3> QED
      BY <2>4, <3>1, <3>2, CmdsOrder
  <2> QED
    BY <1>0, <2>1, <2>2, <2>3, <2>4 DEF SavedValues, NoneYet, EmptyList
<1>2. CASE waits[k] # NoneYet /\ chan[waits[k]] = "sent"
  <2>1. Got(k) = waits[k] /\ waits[k] \in Cmds
    BY <1>0, <1>2 DEF Got
  <2>2. at[waits[k]] = "end"
    BY <1>2, <2>1 DEF SavedInv, Placed
  <2> QED
    BY <2>1, <2>2 DEF Ended, SavedKnown
<1>3. CASE waits[k] # NoneYet /\ chan[waits[k]] # "sent"
  BY <1>0, <1>3, CmdsInt DEF Got, EmptyList
<1> QED
  BY <1>1, <1>2, <1>3

\* Commands go forward, and once something is installed it has been taken.
LEMMA SavedKnownStep == ASSUME SavedInv, SavedKnown, [SavedNext]_savedVars PROVE SavedKnown'
<1>0. SavedTyped /\ SavedTyped' /\ \A j \in Cmds : Placed(j)
  BY SavedStep DEF SavedInv
<1>1. ASSUME NEW k \in Cmds, NEW x \in SavedKinds, Take(k, x) PROVE SavedKnown'
  <2>1. /\ at[k] = "client" /\ kind' = [kind EXCEPT ![k] = x]
        /\ at' = [at EXCEPT ![k] = IF x \in Savings \cup {"expunge"} THEN "loop" ELSE "resolve"]
        /\ UNCHANGED <<saved, chan, prev, waits, dollar, failed, undone>>
    BY <1>1 DEF Take, At
  <2>2. kind[k] = "" /\ k \notin failed /\ waits[k] = NoneYet /\ ~Ended(k)
    BY <1>0, <2>1 DEF Placed, Ended
  <2>3. \A j \in Cmds : j # k => at'[j] = at[j] /\ kind'[j] = kind[j]
    BY <1>0, <2>1 DEF SavedTyped
  <2>4. saved.by \in Cmds => saved.by # k
    BY <2>1 DEF SavedKnown
  <2>5. \A j \in Cmds : prev[j] \in Cmds => prev[j] # k
    BY <2>2 DEF SavedKnown
  <2>6. NoneYet < k
    BY CmdsInt DEF NoneYet
  <2>7. \A j \in failed : j \in Cmds /\ j # k
    BY <1>0, <2>2 DEF SavedTyped
  <2>8. saved.tag = "flight" => saved.by \in Cmds
    BY <1>0 DEF SavedTyped
  <2>9. saved.by \in Cmds => at'[saved.by] \notin {"client", "loop", "install"} /\ (saved.tag # "flight" => at'[saved.by] \in {"send", "end"})
    BY <2>3, <2>4 DEF SavedKnown, Ended
  <2>10. saved.tag = "flight" => kind'[saved.by] \in Savings
    BY <2>3, <2>4, <2>8 DEF SavedKnown
  <2>11. \A j \in failed : kind'[j] \in Savings
    BY <2>3, <2>7 DEF SavedKnown
  <2>12. \A j \in Cmds : prev[j] \in Cmds => at'[prev[j]] \in {"send", "end"}
    BY <2>3, <2>5 DEF SavedKnown, Ended
  <2>13. \A j \in Cmds : at'[j] = "loop" => waits[j] < j
    BY <2>2, <2>3, <2>6 DEF SavedKnown
  <2> QED
    BY <2>1, <2>9, <2>10, <2>11, <2>12, <2>13 DEF SavedKnown, Ended
<1>2. ASSUME NEW k \in Cmds, ExpungeForgets(k) PROVE SavedKnown'
  <2>1. /\ at[k] = "loop" /\ saved' = Nothing /\ at' = [at EXCEPT ![k] = "end"]
        /\ UNCHANGED <<kind, chan, prev, waits, dollar, failed, undone>>
    BY <1>2 DEF ExpungeForgets, At
  <2>2. saved'.by \notin Cmds /\ saved'.tag = "none"
    BY <2>1, CmdsInt DEF Nothing
  <2>3. at'[k] = "end" /\ \A j \in Cmds : j # k => at'[j] = at[j]
    BY <1>0, <2>1 DEF SavedTyped
  <2> QED
    BY <2>1, <2>2, <2>3 DEF SavedKnown, Ended
<1>3. ASSUME NEW k \in Cmds, Look(k) PROVE SavedKnown'
  <2>1. /\ saved.tag = "flight" /\ waits' = [waits EXCEPT ![k] = saved.by]
        /\ UNCHANGED <<kind, at, saved, chan, prev, dollar, failed, undone>>
    BY <1>3 DEF Look
  <2>2. saved.by \in Cmds /\ at[saved.by] \notin {"client", "loop", "install"}
    BY <1>0, <2>1 DEF SavedTyped, SavedKnown
  <2>3. ASSUME at[k] = "loop" PROVE saved.by < k
    <3>1. saved.by # k /\ ~(k < saved.by)
      BY <2>2, <2>3 DEF SavedInv, TakenInOrder
    <3> QED
      BY <2>2, <3>1, CmdsOrder
  <2>4. waits'[k] = saved.by /\ \A j \in Cmds : j # k => waits'[j] = waits[j]
    BY <1>0, <2>1 DEF SavedTyped
  <2> QED
    BY <2>1, <2>3, <2>4 DEF SavedKnown, Ended
<1>4. ASSUME NEW k \in Cmds, GetPrev(k) PROVE SavedKnown'
  <2>1. /\ at[k] = "loop" /\ Known(k) /\ prev' = [prev EXCEPT ![k] = Got(k)]
        /\ waits' = [waits EXCEPT ![k] = NoneYet] /\ at' = [at EXCEPT ![k] = "install"]
        /\ UNCHANGED <<kind, saved, chan, dollar, failed, undone>>
    BY <1>4 DEF GetPrev, At
  <2>2. Got(k) < k /\ (Got(k) \in Cmds => Ended(Got(k)))
    BY <2>1, GotKnown
  <2>3. /\ at'[k] = "install" /\ prev'[k] = Got(k)
        /\ \A j \in Cmds : j # k => at'[j] = at[j] /\ prev'[j] = prev[j] /\ waits'[j] = waits[j]
    BY <1>0, <2>1 DEF SavedTyped
  <2>4. \A j \in Cmds : Ended(j) => j # k /\ at'[j] = at[j]
    BY <2>1, <2>3 DEF Ended
  <2>5. saved.by \in Cmds => saved.by # k
    BY <2>1 DEF SavedKnown
  <2>6. \A j \in Cmds : /\ prev'[j] < j /\ dollar'[j] # j
                        /\ prev'[j] \in Cmds => at'[prev'[j]] \in {"send", "end"}
                        /\ at'[j] = "loop" => waits'[j] < j
    <3> SUFFICES ASSUME NEW j \in Cmds
                 PROVE  /\ prev'[j] < j /\ dollar'[j] # j
                        /\ prev'[j] \in Cmds => at'[prev'[j]] \in {"send", "end"}
                        /\ at'[j] = "loop" => waits'[j] < j
      OBVIOUS
    <3>1. CASE j = k
      BY <2>1, <2>2, <2>3, <2>4, <3>1 DEF SavedKnown, Ended
    <3>2. CASE j # k
      BY <2>1, <2>3, <2>4, <3>2 DEF SavedKnown, Ended
    <3> QED
      BY <3>1, <3>2
  <2>7. saved'.by \in Cmds => at'[saved'.by] \notin {"client", "loop", "install"} /\ (saved'.tag # "flight" => at'[saved'.by] \in {"send", "end"})
    BY <2>1, <2>3, <2>5 DEF SavedKnown, Ended
  <2> QED
    BY <2>1, <2>6, <2>7 DEF SavedKnown, Ended
<1>5. ASSUME NEW k \in Cmds, Install(k) PROVE SavedKnown'
  <2>1. /\ at[k] = "install" /\ saved' = InFlight(k) /\ at' = [at EXCEPT ![k] = "resolve"]
        /\ UNCHANGED <<kind, chan, prev, waits, dollar, failed, undone>>
    BY <1>5 DEF Install, At
  <2>2. saved'.by = k /\ saved'.tag = "flight" /\ kind[k] \in Savings
    BY <1>0, <2>1 DEF InFlight, Placed
  <2>3. at'[k] = "resolve" /\ \A j \in Cmds : j # k => at'[j] = at[j]
    BY <1>0, <2>1 DEF SavedTyped
  <2>4. \A j \in Cmds : prev[j] \in Cmds => prev[j] # k
    BY <2>1 DEF SavedKnown, Ended
  <2> QED
    BY <2>1, <2>2, <2>3, <2>4 DEF SavedKnown, Ended
<1>6. ASSUME NEW k \in Cmds, GetDollar(k) PROVE SavedKnown'
  <2>1. PICK d : /\ dollar' = [dollar EXCEPT ![k] = d]
                 /\ d = Unknown \/ d = prev[k] \/ (d = Got(k) /\ Known(k))
    BY <1>6 DEF GetDollar, DollarFrom
  <2>2. /\ at[k] = "resolve" /\ UNCHANGED <<kind, saved, prev, waits, undone>>
        /\ failed' = failed \/ (kind[k] \in Savings /\ failed' = failed \cup {k})
    BY <1>6 DEF GetDollar
  <2>3. PICK place \in {"restore", "end", "query"} : at' = [at EXCEPT ![k] = place]
    BY <1>6 DEF GetDollar, At
  <2>4. d # k
    <3>1. prev[k] < k /\ prev[k] \in SavedValues \cup {Unknown}
      BY <1>0 DEF SavedKnown, SavedTyped
    <3>2. prev[k] # k /\ Unknown # k
      BY <3>1, CmdsInt DEF SavedValues, NoneYet, EmptyList, Unknown
    <3> QED
      BY <2>1, <2>2, <3>2, GotKnown
  <2>5. at'[k] = place /\ dollar'[k] = d /\ \A j \in Cmds : j # k => at'[j] = at[j] /\ dollar'[j] = dollar[j]
    BY <1>0, <2>1, <2>3 DEF SavedTyped
  <2>6. \A j \in Cmds : Ended(j) => j # k /\ at'[j] = at[j]
    BY <2>2, <2>5 DEF Ended
  <2>7. saved.by \in Cmds => at'[saved.by] \notin {"client", "loop", "install"} /\ (saved.tag # "flight" => Ended(saved.by)')
    BY <2>2, <2>3, <2>5, <2>6 DEF SavedKnown, Ended
  <2>8. \A j \in Cmds : prev[j] \in Cmds => Ended(prev[j])'
    BY <2>2, <2>6 DEF SavedKnown, Ended
  <2>9. \A j \in Cmds : dollar'[j] # j /\ (at'[j] = "loop" => waits[j] < j)
    BY <2>4, <2>5 DEF SavedKnown
  <2>10. \A j \in failed' : kind[j] \in Savings
    BY <2>2 DEF SavedKnown
  <2> QED
    BY <2>2, <2>7, <2>8, <2>9, <2>10 DEF SavedKnown, Ended
<1>7. ASSUME NEW k \in Cmds, Save(k) PROVE SavedKnown'
  <2>1. /\ at[k] = "query" /\ saved' = Results(k) /\ at' = [at EXCEPT ![k] = "send"]
        /\ UNCHANGED <<kind, chan, prev, waits, dollar, failed, undone>>
    BY <1>7 DEF Save, At
  <2>2. saved'.by = k /\ saved'.tag = "results"
    BY <2>1 DEF Results
  <2>3. at'[k] = "send" /\ \A j \in Cmds : j # k => at'[j] = at[j]
    BY <1>0, <2>1 DEF SavedTyped
  <2> QED
    BY <2>1, <2>2, <2>3 DEF SavedKnown, Ended
<1>8. ASSUME NEW k \in Cmds, Send(k) \/ SearchFails(k) PROVE SavedKnown'
  <2>1. /\ UNCHANGED <<kind, saved, prev, waits, dollar, undone>>
        /\ \/ at[k] = "send" /\ failed' = failed /\ at' = [at EXCEPT ![k] = "end"]
           \/ at[k] = "query" /\ failed' = failed \cup {k} /\ at' = [at EXCEPT ![k] = "restore"]
    BY <1>8 DEF Send, SearchFails, At
  <2>2. \A j \in Cmds : j # k => at'[j] = at[j]
    BY <1>0, <2>1 DEF SavedTyped
  <2>3. (at[k] = "send" /\ at'[k] = "end") \/ (at[k] = "query" /\ at'[k] = "restore")
    <3>1. at \in [Cmds -> Places]
      BY <1>0 DEF SavedTyped
    <3> QED
      BY <2>1, <3>1
  <2>4. \A j \in failed' : kind[j] \in Savings
    BY <1>0, <2>1 DEF SavedKnown, Placed
  <2> QED
    BY <2>1, <2>2, <2>3, <2>4 DEF SavedKnown, Ended
<1>9. ASSUME NEW k \in Cmds, Restore(k) PROVE SavedKnown'
  <2>1. /\ at[k] = "restore" /\ saved' = Restored(k) /\ at' = [at EXCEPT ![k] = "end"]
        /\ UNCHANGED <<kind, chan, prev, waits, dollar, failed>>
    BY <1>9 DEF Restore, At
  <2>2. saved'.tag # "flight" /\ (saved'.by \in Cmds => saved'.by = prev[k])
    BY <2>1, CmdsInt DEF Restored, Nothing, Results
  <2>3. at'[k] = "end" /\ \A j \in Cmds : j # k => at'[j] = at[j]
    BY <1>0, <2>1 DEF SavedTyped
  <2> QED
    BY <2>1, <2>2, <2>3 DEF SavedKnown, Ended
<1>10. CASE UNCHANGED savedVars
  BY <1>10 DEF savedVars, SavedKnown, Ended
<1>11. CASE SavedNext
  <2>1. PICK k \in Cmds : (\E x \in SavedKinds : Take(k, x)) \/ LoopSteps(k) \/ TaskSteps(k)
    BY <1>11 DEF SavedNext
  <2> QED
    BY <2>1, <1>1, <1>2, <1>3, <1>4, <1>5, <1>6, <1>7, <1>8, <1>9 DEF LoopSteps, TaskSteps
<1> QED
  BY <1>10, <1>11

LEMMA SavedTypes == ASSUME SavedInv, SavedKnown PROVE SavedTypeOK
BY DEF SavedInv, SavedTyped, SavedKnown, SavedTypeOK, SavedValues

\* STORE: a finite set of numbers has a largest one.
LEMMA HasMax ==
  ASSUME NEW S \in SUBSET Nat, IsFiniteSet(S), S # {}
  PROVE  Max(S) \in S
<1> DEFINE Rank(x) == Cardinality({y \in S : y <= x})
           Above   == {Cardinality(S) - Rank(x) : x \in S}
<1>1. Cardinality(S) \in Nat /\ \A x \in S : Rank(x) \in Nat /\ Rank(x) <= Cardinality(S)
  BY FS_Subset, FS_CardinalityType
<1>2. Above \in SUBSET Nat /\ Above # {}
  <2> HIDE DEF Rank
  <2>1. \A x \in S : Cardinality(S) - Rank(x) \in Nat
    BY <1>1
  <2> QED
    BY <2>1
<1>3. PICK d \in Above : \A e \in Above : d <= e
  BY <1>2, LeastNat
<1>4. PICK x \in S : \A y \in S : Rank(y) <= Rank(x)
  <2> HIDE DEF Rank
  <2>1. PICK x \in S : d = Cardinality(S) - Rank(x)
    BY <1>3
  <2>2. ASSUME NEW y \in S PROVE Rank(y) <= Rank(x)
    <3>1. Cardinality(S) - Rank(x) <= Cardinality(S) - Rank(y)
      BY <1>3, <2>1
    <3> QED
      BY <1>1, <3>1
  <2> QED
    BY <2>2
<1>5. ASSUME NEW y \in S PROVE x >= y
  <2> SUFFICES ASSUME x < y PROVE FALSE
    OBVIOUS
  <2>1. {z \in S : z <= x} \subseteq {z \in S : z <= y} /\ y \notin {z \in S : z <= x} /\ y \in {z \in S : z <= y}
    <3>1. (\A z \in S : z <= x => z <= y) /\ ~(y <= x) /\ y <= y
      OBVIOUS
    <3> QED
      BY <3>1, Zenon
  <2>2. IsFiniteSet({z \in S : z <= y})
    BY FS_Subset
  <2>3. Rank(x) < Rank(y)
    BY <2>1, <2>2, Smaller
  <2> HIDE DEF Rank
  <2> QED
    BY <1>1, <1>4, <2>3
<1> QED
  BY <1>5 DEF Max

\* The numbers of messages, and all that a set names, are numbers.
LEMMA NumbersNat ==
  ASSUME StoreInv
  PROVE  MaxOf \in Nat /\ \A u \in listed : NumberOf(u) \in Nat
<1>1. IsFiniteSet(listed) /\ listed \subseteq Nat
  BY MailsFinite, FS_Subset DEF StoreInv, StoreTyped
<1>2. Cardinality(listed) \in Nat /\ \A u \in listed : Cardinality({v \in listed : v <= u}) \in Nat
  BY <1>1, FS_Subset, FS_CardinalityType
<1>3. listed # {} => Max(listed) \in Nat
  BY <1>1, HasMax
<1> QED
  BY <1>1, <1>2, <1>3 DEF MaxOf, NumberOf

LEMMA ExpandNat ==
  ASSUME NEW seq, IsSequence(seq), NEW max \in Nat
  PROVE  Expand(seq, max) \subseteq Nat
<1>1. ASSUME NEW i \in DOMAIN seq PROVE ItemExpand(seq[i], max) \subseteq Nat
  <2>1. CASE seq[i].kind = "number" /\ seq[i].from \in Nat
    BY <2>1 DEF ItemExpand
  <2>2. CASE seq[i].kind = "range" /\ seq[i].from \in Nat \cup {-1} /\ seq[i].to \in Nat \cup {-1}
    BY <2>2 DEF ItemExpand, Star
  <2>3. CASE seq[i].kind = "saved"
    BY <2>3 DEF ItemExpand
  <2> QED
    BY <2>1, <2>2, <2>3, ItemKinds
<1> QED
  BY <1>1 DEF Expand

\* Every state of the account is a change by others or one that updated a message.
Counted == elsewhere \in 0 .. MaxElsewhere /\ jstate <= elsewhere + Cardinality(store.updated)

StoreKnown ==
  /\ Counted /\ store.updated \subseteq Mails /\ DOMAIN store.all \subseteq Mails
  /\ store.pc \in {"resolve", "check", "set", "get", "answer", "end"}
  /\ store.left \cap store.updated = {} /\ store.modified \subseteq Nat
  /\ \A u \in DOMAIN store.all : store.all[u] \in Nat
  /\ store.reply \in {"", "OK", "NO"} /\ (store.reply = "" <=> store.pc # "end")

LEMMA Counts ==
  ASSUME StoreInv, StoreKnown
  PROVE  /\ elsewhere \in Nat /\ MaxElsewhere \in Nat /\ elsewhere <= MaxElsewhere /\ jstate \in Nat
         /\ Cardinality(store.updated) \in Nat /\ jstate <= elsewhere + Cardinality(store.updated)
<1>1. Counted /\ jstate \in Nat /\ MaxElsewhere \in Nat
  BY StoreAssumption DEF StoreKnown, StoreInv, StoreTyped
<1>2. Cardinality(store.updated) \in Nat
  BY MailsFinite, FS_Subset, FS_CardinalityType DEF StoreKnown
<1> QED
  BY <1>1, <1>2 DEF Counted

LEMMA StoreKnownFirst == StoreInit => StoreKnown
<1> SUFFICES ASSUME StoreInit PROVE StoreKnown
  OBVIOUS
<1>1. PICK r \in StoreRequests :
       store = [pc |-> "resolve", arg |-> r, all |-> <<>>, left |-> {}, modified |-> {},
                vanished |-> FALSE, updated |-> {}, emails |-> {}, newState |-> Never,
                reply |-> "", modseqOf |-> <<>>, checked |-> Never, over |-> <<>>]
  BY DEF StoreInit
<1>2. jstate = 0 /\ elsewhere = 0 /\ MaxElsewhere \in Nat
  BY StoreAssumption DEF StoreInit
<1>3. DOMAIN store.all = {} /\ store.updated = {} /\ Cardinality({}) = 0
  <2>1. store.all = <<>>
    BY <1>1
  <2>2. DOMAIN <<>> = {}
    OBVIOUS
  <2> QED
    BY <1>1, <2>1, <2>2, FS_EmptySet
<1>4. Counted
  BY <1>2, <1>3 DEF Counted
<1> QED
  BY <1>1, <1>3, <1>4 DEF StoreKnown

\* What others do is counted.
LEMMA KnownTouches ==
  ASSUME StoreInv, StoreKnown, NEW u \in Mails, Change(u) \/ Destroy(u) \/ Arrive(u) PROVE StoreKnown'
<1>1. elsewhere < MaxElsewhere /\ elsewhere' = elsewhere + 1 /\ jstate' = jstate + 1 /\ UNCHANGED store
  BY DEF Change, Destroy, Arrive, Touch
<1>2. Counted'
  BY <1>1, Counts DEF Counted
<1> QED
  BY <1>1, <1>2 DEF StoreKnown

LEMMA KnownResolves == ASSUME StoreInv, StoreKnown, Resolve PROVE StoreKnown'
<1> DEFINE found == {u \in listed : SetContains(store.arg.seq, NumberOf(u), MaxOf)}
<1>1. /\ UNCHANGED <<jstate, elsewhere>> /\ store.pc = "resolve"
      /\ store'.all = [u \in found |-> NumberOf(u)] /\ store'.left = found
      /\ \/ store'.pc = "end" /\ store'.reply = "OK"
         \/ store'.pc \in {"set", "check"} /\ store'.reply = store.reply
      /\ store'.modified = store.modified /\ store'.updated = store.updated
  <2> HIDE DEF found
  <2> DEFINE s == [store EXCEPT !.all = [u \in found |-> NumberOf(u)], !.left = found]
  <2>1. /\ UNCHANGED <<jstate, elsewhere>> /\ store.pc = "resolve"
        /\ IF found = {} THEN store' = [s EXCEPT !.pc = "end", !.reply = "OK"]
           ELSE store' = [s EXCEPT !.pc = IF s.arg.since = NoModseq THEN "set" ELSE "check"]
    BY DEF Resolve, End, found
  <2> QED
    BY <2>1 DEF StoreInv, StoreTyped, StoreFields
<1>2. found \subseteq Mails /\ \A u \in found : NumberOf(u) \in Nat
  BY NumbersNat DEF StoreInv, StoreTyped
<1>3. store.updated = {} /\ store.reply = ""
  BY <1>1 DEF StoreInv, Numbered
<1> HIDE DEF found
<1>4. DOMAIN store'.all = found /\ \A u \in found : store'.all[u] = NumberOf(u)
  BY <1>1
<1> QED
  BY <1>1, <1>2, <1>3, <1>4 DEF StoreKnown, Counted

LEMMA KnownChecks == ASSUME StoreInv, StoreKnown, CheckUnchanged PROVE StoreKnown'
<1> DEFINE changes  == Changes(store.arg.since)
           modified == store.left \cap Modified(changes)
           unnamed  == Expand(store.arg.seq, MaxOf) \ Range(store.all)
<1>1. /\ UNCHANGED <<jstate, elsewhere>> /\ store.pc = "check"
      /\ store'.modified = {store.all[u] : u \in modified} \cup unnamed
      /\ \/ store'.pc = "end" /\ store'.reply \in {"OK", "NO"}
         \/ store'.pc = "set" /\ store'.reply = store.reply
      /\ store'.all = store.all /\ store'.updated = store.updated
  <2> HIDE DEF modified, unnamed, changes
  <2> DEFINE s == [store EXCEPT !.left = store.left \ modified,
                         !.modified = {store.all[u] : u \in modified} \cup unnamed,
                         !.vanished = unnamed # {} \/ store.left \cap changes.destroyed # {},
                         !.checked = jstate]
  <2>1. /\ UNCHANGED <<jstate, elsewhere>> /\ store.pc = "check"
        /\ IF s.left = {} THEN store' = [s EXCEPT !.pc = "end", !.reply = IF s.vanished THEN "NO" ELSE "OK"]
           ELSE store' = [s EXCEPT !.pc = "set"]
    BY DEF CheckUnchanged, Unchanged, End, modified, unnamed, changes
  <2>2. /\ DOMAIN s = StoreFields /\ s.modified = {store.all[u] : u \in modified} \cup unnamed
        /\ s.all = store.all /\ s.updated = store.updated /\ s.reply = store.reply
    BY DEF StoreInv, StoreTyped, StoreFields
  <2> HIDE DEF s
  <2> QED
    BY <2>1, <2>2 DEF StoreFields
<1>2. store.updated = {} /\ store.left = DOMAIN store.all /\ store.reply = ""
  BY <1>1 DEF StoreInv, Numbered
<1>3. Expand(store.arg.seq, MaxOf) \subseteq Nat
  <2>1. IsSequence(store.arg.seq)
    BY StoreAssumption DEF StoreInv, StoreTyped
  <2> QED
    BY <2>1, ExpandNat, NumbersNat
<1>4. modified \subseteq DOMAIN store.all /\ unnamed \subseteq Nat
  BY <1>2, <1>3
<1> HIDE DEF modified, unnamed
<1>5. store'.modified \subseteq Nat
  BY <1>1, <1>4 DEF StoreKnown
<1> QED
  BY <1>1, <1>2, <1>5 DEF StoreKnown, Counted

LEMMA KnownSets ==
  ASSUME StoreInv, StoreKnown, NEW chunk, NEW refused, SetCall(chunk, refused) PROVE StoreKnown'
<1> DEFINE done == (chunk \ refused) \cap Alive
           now  == IF done = {} THEN jstate ELSE jstate + 1
<1>1. /\ store.pc = "set" /\ chunk \subseteq store.left /\ jstate' = now /\ UNCHANGED elsewhere
      /\ store'.left = store.left \ chunk /\ store'.updated = store.updated \cup done
      /\ store'.pc \in {"set", "get", "answer"} /\ store'.reply = store.reply
      /\ store'.all = store.all /\ store'.modified = store.modified
  <2> HIDE DEF done, now
  <2>1. store' = [store EXCEPT !.left = @ \ chunk, !.updated = @ \cup done, !.newState = now,
                            !.over = [u \in DOMAIN @ \cup done |->
                                        IF u \in done THEN [was |-> mail[u].changed, now |-> now] ELSE @[u]],
                            !.pc = IF store.left # chunk THEN "set" ELSE IF store.arg.silent THEN "answer" ELSE "get"]
    BY DEF SetCall, NewState, done, now
  <2>2. store.pc = "set" /\ chunk \subseteq store.left /\ jstate' = now /\ UNCHANGED elsewhere
    BY DEF SetCall, done, now
  <2> QED
    BY <2>1, <2>2 DEF StoreInv, StoreTyped, StoreFields
<1>2. done \subseteq store.left /\ done \subseteq chunk /\ done \subseteq Mails
  BY <1>1 DEF Alive
<1>3. IsFiniteSet(store.updated \cup done) /\ IsFiniteSet(store.updated)
  BY <1>2, MailsFinite, FS_Subset DEF StoreKnown
<1>4. /\ Cardinality(store.updated) \in Nat /\ Cardinality(store.updated \cup done) \in Nat
      /\ done # {} => Cardinality(store.updated) < Cardinality(store.updated \cup done)
  <2>1. Cardinality(store.updated) \in Nat /\ Cardinality(store.updated \cup done) \in Nat
    BY <1>3, FS_CardinalityType
  <2>2. ASSUME done # {} PROVE Cardinality(store.updated) < Cardinality(store.updated \cup done)
    <3> HIDE DEF done
    <3>1. PICK x \in done : TRUE
      BY <2>2
    <3>2. x \notin store.updated /\ x \in store.updated \cup done
      BY <1>2, <3>1 DEF StoreKnown
    <3> QED
      BY <1>3, <3>2, Smaller
  <2> QED
    BY <2>1, <2>2
<1>5. jstate' <= elsewhere + Cardinality(store'.updated)
  <2>1. jstate \in Nat /\ elsewhere \in Nat /\ jstate <= elsewhere + Cardinality(store.updated)
    BY Counts
  <2>2. CASE done = {}
    <3> HIDE DEF done
    <3>1. store'.updated = store.updated /\ jstate' = jstate
      BY <1>1, <2>2
    <3> QED
      BY <2>1, <3>1
  <2>3. CASE done # {}
    <3>1. jstate' = jstate + 1 /\ store'.updated = store.updated \cup done
      BY <1>1, <2>3
    <3> HIDE DEF done
    <3> QED
      BY <1>4, <2>1, <2>3, <3>1
  <2> QED
    BY <2>2, <2>3
<1>6. Counted'
  BY <1>1, <1>5 DEF StoreKnown, Counted
<1> HIDE DEF done, now
<1> QED
  BY <1>1, <1>2, <1>6 DEF StoreKnown

\* The other steps change none of this, but the place of the command and its reply.
LEMMA KnownElse ==
  ASSUME StoreInv, StoreKnown, StoreFails \/ GetCall \/ \E known \in BOOLEAN : StoreAnswers(known)
  PROVE  StoreKnown'
<1>1. /\ UNCHANGED <<jstate, elsewhere>> /\ store.reply = ""
      /\ store'.all = store.all /\ store'.left = store.left /\ store'.modified = store.modified
      /\ store'.updated = store.updated
      /\ \/ store'.pc = "end" /\ store'.reply \in {"OK", "NO"}
         \/ store'.pc = "answer" /\ store'.reply = store.reply
  <2>0. DOMAIN store = StoreFields /\ (store.pc = "end" \/ store.reply = "")
    BY DEF StoreInv, StoreTyped, Numbered
  <2>1. CASE StoreFails
    BY <2>0, <2>1 DEF StoreFails, End, StoreFields
  <2>2. CASE GetCall
    BY <2>0, <2>2 DEF GetCall, StoreFields
  <2>3. ASSUME NEW known \in BOOLEAN, StoreAnswers(known)
        PROVE  /\ UNCHANGED <<jstate, elsewhere>> /\ store.pc = "answer"
               /\ store'.all = store.all /\ store'.left = store.left /\ store'.modified = store.modified
               /\ store'.updated = store.updated /\ store'.pc = "end" /\ store'.reply \in {"OK", "NO"}
    <3>1. PICK told :
            /\ store.pc = "answer" /\ UNCHANGED <<jstate, elsewhere>>
            /\ store' = [[store EXCEPT !.modseqOf = [u \in told |-> store.newState]] EXCEPT
                           !.pc = "end", !.reply = IF store.vanished \/ ~AllUpdated THEN "NO" ELSE "OK"]
      BY <2>3 DEF StoreAnswers, End
    <3> QED
      BY <2>0, <3>1 DEF StoreFields
  <2> QED
    BY <2>0, <2>1, <2>2, <2>3
<1> QED
  BY <1>1 DEF StoreKnown, Counted

LEMMA StoreKnownStep == ASSUME StoreInv, StoreKnown, [StoreNext]_storeVars PROVE StoreKnown'
<1>1. CASE UNCHANGED storeVars \/ Refresh
  <2>1. UNCHANGED <<jstate, elsewhere, store>>
    BY <1>1 DEF storeVars, Refresh
  <2> QED
    BY <2>1 DEF StoreKnown, Counted
<1>2. CASE StoreNext
  BY <1>1, <1>2, KnownTouches, KnownResolves, KnownChecks, KnownSets, KnownElse DEF StoreNext
<1> QED
  BY <1>1, <1>2

LEMMA StoreTypes == ASSUME StoreInv, StoreKnown PROVE StoreTypeOK
<1>1. /\ IsFiniteSet(Mails) /\ Cardinality(Mails) \in Nat /\ Cardinality(store.updated) \in Nat
      /\ Cardinality(store.updated) <= Cardinality(Mails)
  BY MailsFinite, FS_Subset, FS_CardinalityType DEF StoreKnown
<1>2. jstate \in 0 .. MaxElsewhere + Cardinality(Mails)
  BY <1>1, Counts
<1> QED
  BY <1>2 DEF StoreInv, StoreTyped, Numbered, StoreKnown, StoreTypeOK

-----------------------------------------------------------------------------
(* The parts together: one of them acts, the others stay as they began.       *)

TypesInv == CopyInv /\ TypeOK /\ SavedInv /\ SavedKnown /\ StoreInv /\ StoreKnown /\ ReceiverInv

(***************************************************************************)
(* The types of the parts of a session (copy_move, store, SavedSearch,       *)
(* Receiver::parse), with what they say beyond types: a saved result is one  *)
(* of an earlier command, no message is updated twice, literals fit.  For    *)
(* any mailboxes, commands, limits and changes by others.                    *)
(***************************************************************************)
THEOREM CommandTypesAlways == MCSpec => []TypesOK
<1>1. MCInit => TypesInv
  BY CopyFirst, CopyTypesFirst, SavedFirst, SavedKnownFirst, StoreFirst, StoreKnownFirst, ReceiverFirst
  DEF MCInit, TypesInv
<1>2. TypesInv /\ [MCNext]_MCvars => TypesInv'
  <2> SUFFICES ASSUME TypesInv, [MCNext]_MCvars PROVE TypesInv'
    OBVIOUS
  <2>1. [Next]_vars /\ [SavedNext]_savedVars /\ [StoreNext]_storeVars /\ [ReceiverNext]_receiverVars
    <3>1. CASE UNCHANGED MCvars
      BY <3>1 DEF MCvars
    <3>2. CASE MCNext
      BY <3>2 DEF MCNext
    <3> QED
      BY <3>1, <3>2
  <2>2. CopyInv' /\ TypeOK'
    BY <2>1, CopyStep, CopyTypes DEF TypesInv
  <2>3. SavedInv' /\ SavedKnown'
    BY <2>1, SavedStep, SavedKnownStep DEF TypesInv
  <2>4. StoreInv' /\ StoreKnown'
    BY <2>1, StoreStep, StoreKnownStep DEF TypesInv
  <2>5. ReceiverInv'
    BY <2>1, ReceiverStep DEF TypesInv
  <2> QED
    BY <2>2, <2>3, <2>4, <2>5 DEF TypesInv
<1>3. TypesInv => TypesOK
  BY SavedTypes, StoreTypes, ReceiverImplies DEF TypesInv, TypesOK
<1> QED
  BY <1>1, <1>2, <1>3, PTL DEF MCSpec

=============================================================================
