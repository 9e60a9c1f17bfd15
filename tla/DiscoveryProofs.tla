--------------------------- MODULE DiscoveryProofs ----------------------------
(* Machine-checked safety proofs about Discovery, for any finite set of     *)
(* addresses, any cameras behind them and any bounds.  The inductive        *)
(* invariant is the conjunction of the properties themselves: the socket,   *)
(* the tasks and the file change in the same steps as what they go with.    *)
EXTENDS Discovery, FiniteSetTheorems, SequenceTheorems, TLAPS

Inv == TypeOK /\ OneBlastPerTarget /\ DoneMeansWholeFile

Task == [ip : Ips, asleep : BOOLEAN]

LEMMA InvInit == Init => Inv
<1> SUFFICES ASSUME Init PROVE Inv
  OBVIOUS
<1>1. requests \in 0 .. MaxRequests /\ failures \in 0 .. MaxFailures
  BY BoundsDiscovery DEF Init
<1>2. tasks = <<>> /\ tasks \in Seq(Task)
  BY DEF Init
<1>3. TypeOK
  BY <1>1, <1>2 DEF Init, TypeOK, Task, Sessions
<1>4. QED BY <1>3 DEF Init, Inv, OneBlastPerTarget, DoneMeansWholeFile

-----------------------------------------------------------------------------
(* What the steps do to the tasks.                                          *)

(* _run_discovery makes one task for each listed address.                   *)
LEMMA NewTasksFacts ==
    ASSUME NEW ips \in SUBSET Ips, NEW t \in NewTasks(ips)
    PROVE  /\ t \in Seq(Task)
           /\ \A ip \in ips : \E i \in DOMAIN t : t[i].ip = ip
           /\ Len(t) = Cardinality(ips)
<1>1. Cardinality(ips) \in Nat
  BY NetworkAssumption, FS_Subset, FS_CardinalityType
<1>2. t \in [1 .. Cardinality(ips) -> [ip : ips, asleep : {FALSE}]]
  BY DEF NewTasks
<1>3. [ip : ips, asleep : {FALSE}] \subseteq Task
  BY DEF Task
<1>4. t \in [1 .. Cardinality(ips) -> Task]
  BY <1>2, <1>3
<1>5. t \in Seq(Task) /\ Len(t) = Cardinality(ips)
  BY <1>1, <1>4
<1>6. QED BY <1>5 DEF NewTasks

(* A step of one task leaves its address.                                   *)
LEMMA TaskStepFacts ==
    ASSUME TypeOK, NEW i \in DOMAIN tasks, TaskStep(i)
    PROVE  /\ tasks' \in Seq(Task)
           /\ Len(tasks') = Len(tasks)
           /\ DOMAIN tasks' = DOMAIN tasks
           /\ \A k \in DOMAIN tasks : tasks'[k].ip = tasks[k].ip
<1> DEFINE stepped(b) == [tasks[i] EXCEPT !.asleep = b]
<1>1. tasks \in Seq(Task)
  BY DEF TypeOK, Task
<1>2. tasks[i] \in Task
  BY <1>1
<1>3. \A b \in BOOLEAN : stepped(b) \in Task /\ stepped(b).ip = tasks[i].ip
  BY <1>2 DEF Task
<1>4. tasks' = [tasks EXCEPT ![i] = stepped(TRUE)] \/ tasks' = [tasks EXCEPT ![i] = stepped(FALSE)]
  BY DEF TaskStep, BlastOnce, Wake
<1> HIDE DEF stepped
<1>5. ASSUME NEW b \in BOOLEAN, tasks' = [tasks EXCEPT ![i] = stepped(b)]
      PROVE  /\ tasks' \in Seq(Task)
             /\ Len(tasks') = Len(tasks)
             /\ DOMAIN tasks' = DOMAIN tasks
             /\ \A k \in DOMAIN tasks : tasks'[k].ip = tasks[k].ip
  <2>1. tasks' \in Seq(Task) /\ Len(tasks') = Len(tasks) /\ DOMAIN tasks' = DOMAIN tasks
    BY <1>1, <1>3, <1>5
  <2>2. tasks'[i] = stepped(b) /\ \A k \in DOMAIN tasks \ {i} : tasks'[k] = tasks[k]
    BY <1>1, <1>5
  <2>3. QED BY <1>3, <2>1, <2>2
<1>6. QED BY <1>4, <1>5

(* add_target: one task more for an address that is new, and none for one   *)
(* that is known.                                                           *)
LEMMA AddTargetFacts ==
    ASSUME TypeOK, OneBlastPerTarget, NEW ip \in Ips, AddTarget(ip)
    PROVE  /\ active' \subseteq Ips /\ asked' \subseteq Cams
           /\ tasks' \in Seq(Task)
           /\ task # "running" => tasks' = <<>>
           /\ OneBlastPerTarget'
<1>1. tasks \in Seq(Task) /\ active \subseteq Ips
  BY DEF TypeOK, Task
<1>2. CASE UNCHANGED <<active, tasks>>
  BY <1>1, <1>2, NetworkAssumption
     DEF AddTarget, Probe, OneBlastPerTarget, TypeOK, IsNew
<1>3. CASE task = "running" /\ IsNew(ip)
  <2> DEFINE new == [ip |-> ip, asleep |-> FALSE]
  <2>1. /\ active' = active \cup {ip} /\ ip \notin active
        /\ tasks' = Append(tasks, new) /\ UNCHANGED <<task, asked>>
    BY <1>3 DEF AddTarget, IsNew
  <2>2. new \in Task /\ new.ip = ip
    BY DEF Task
  <2> HIDE DEF new
  <2>3. /\ tasks' \in Seq(Task)
        /\ Len(tasks') = Len(tasks) + 1
        /\ \A k \in 1 .. Len(tasks) : tasks'[k] = tasks[k]
        /\ tasks'[Len(tasks) + 1] = new
        /\ Len(tasks) \in Nat
    BY <1>1, <2>1, <2>2, AppendProperties
  <2>4. Cardinality(active') = Cardinality(active) + 1
    BY <1>1, <2>1, NetworkAssumption, FS_Subset, FS_AddElement
  <2>5. DOMAIN tasks = 1 .. Len(tasks) /\ DOMAIN tasks' = 1 .. Len(tasks')
    BY <1>1, <2>3
  <2>6. Len(tasks) + 1 \in DOMAIN tasks' /\ DOMAIN tasks \subseteq DOMAIN tasks'
    BY <2>3, <2>5
  <2>7. \A a \in active' : \E k \in DOMAIN tasks' : tasks'[k].ip = a
    <3> SUFFICES ASSUME NEW a \in active' PROVE \E k \in DOMAIN tasks' : tasks'[k].ip = a
      OBVIOUS
    <3>1. CASE a = ip
      BY <2>2, <2>3, <2>6, <3>1
    <3>2. CASE a \in active
      BY <1>3, <2>3, <2>5, <2>6, <3>2 DEF OneBlastPerTarget
    <3>3. QED BY <2>1, <3>1, <3>2
  <2>8. OneBlastPerTarget'
    BY <1>3, <2>3, <2>4, <2>7 DEF OneBlastPerTarget
  <2>9. QED BY <1>1, <1>3, <2>1, <2>3, <2>8 DEF TypeOK
<1>4. QED BY <1>2, <1>3 DEF AddTarget

(* The file and the event of capture_single.                                *)
LEMMA CaptureFacts ==
    ASSUME Inv, NEW c \in Cams, OnFrame(c)
    PROVE  TypeOK' /\ DoneMeansWholeFile'
<1>1. CASE StopsWhenWritten(c, TRUE) /\ file' = "whole" /\ UNCHANGED <<failures, spoiled>>
  BY <1>1 DEF Inv, TypeOK, Sessions, OnFrame, StopsWhenWritten, Closed, DoneMeansWholeFile
<1>2. CASE /\ failures < MaxFailures /\ failures' = failures + 1
           /\ file' \in {file, "partial"} /\ spoiled' = (done \/ spoiled)
           /\ StopsWhenWritten(c, FALSE)
  <2>1. UNCHANGED <<machine, session, done>>
    BY <1>2 DEF StopsWhenWritten
  <2>2. failures' \in 0 .. MaxFailures
    BY <1>2, BoundsDiscovery DEF Inv, TypeOK
  <2>3. spoiled' \in BOOLEAN
    BY <1>2
  <2>4. file' \in {"old", "partial", "whole"}
    BY <1>2 DEF Inv, TypeOK
  <2>5. DoneMeansWholeFile'
    BY <1>2, <2>1 DEF Inv, DoneMeansWholeFile
  <2>6. QED BY <2>1, <2>2, <2>3, <2>4, <2>5 DEF Inv, TypeOK, OnFrame, machine
<1>3. QED BY <1>1, <1>2 DEF OnFrame

-----------------------------------------------------------------------------
LEMMA InvStep == Inv /\ [Next]_vars => Inv'
<1> SUFFICES ASSUME Inv, [Next]_vars PROVE Inv'
  OBVIOUS
<1> USE DEF Inv, Sessions
<1>1. CASE StartDiscovery
  <2>1. /\ tasks' \in Seq(Task) /\ Len(tasks') = Cardinality(active')
        /\ \A ip \in active' : \E i \in DOMAIN tasks' : tasks'[i].ip = ip
    BY <1>1, NewTasksFacts DEF StartDiscovery, TypeOK
  <2>2. QED BY <1>1, <2>1
    DEF StartDiscovery, TypeOK, Task, OneBlastPerTarget, DoneMeansWholeFile, capture
<1>2. CASE FailDiscovery
  BY <1>2 DEF FailDiscovery, TypeOK, OneBlastPerTarget, DoneMeansWholeFile, capture
<1>3. CASE SetBlacklist
  BY <1>3, BoundsDiscovery
     DEF SetBlacklist, TypeOK, OneBlastPerTarget, DoneMeansWholeFile, capture, machine
<1>4. CASE Return
  BY <1>4 DEF Return, TypeOK, OneBlastPerTarget, DoneMeansWholeFile, machine
<1>5. ASSUME NEW i \in DOMAIN tasks, TaskStep(i) PROVE Inv'
  <2>1. /\ tasks' \in Seq(Task) /\ Len(tasks') = Len(tasks)
        /\ DOMAIN tasks' = DOMAIN tasks
        /\ \A k \in DOMAIN tasks : tasks'[k].ip = tasks[k].ip
    BY <1>5, TaskStepFacts
  <2>2. task = "running" /\ task' = "running" /\ active' = active
    BY <1>5 DEF TaskStep, TypeOK
  <2>3. OneBlastPerTarget'
    BY <2>1, <2>2 DEF OneBlastPerTarget
  <2>4. asked' \subseteq Cams
    <3>1. tasks[i].ip \in Ips
      <4>1. tasks \in Seq(Task)
        BY DEF TypeOK, Task
      <4>2. tasks[i] \in Task
        BY <1>5, <4>1
      <4>3. QED BY <4>2 DEF Task
    <3>2. Reaches[tasks[i].ip] \subseteq Cams /\ asked \subseteq Cams
      BY <3>1, NetworkAssumption DEF TypeOK
    <3>3. CASE BlastOnce(i)
      BY <3>2, <3>3 DEF BlastOnce, Probe
    <3>4. CASE Wake(i)
      BY <3>2, <3>4 DEF Wake
    <3>5. QED BY <1>5, <3>3, <3>4 DEF TaskStep
  <2>5. QED BY <1>5, <2>1, <2>2, <2>3, <2>4
    DEF TaskStep, TypeOK, Task, DoneMeansWholeFile, capture
<1>6. ASSUME NEW c \in Cams, Lose(c) \/ Answer(c) \/ Connect(c) \/ Disconnect(c)
      PROVE  Inv'
  BY <1>6 DEF Lose, Answer, Connect, Disconnect, Becomes, OnDiscover, TypeOK, OneBlastPerTarget,
              DoneMeansWholeFile, machine, capture
<1>7. ASSUME NEW c \in Cams, OnFrame(c) PROVE Inv'
  <2>1. TypeOK' /\ DoneMeansWholeFile'
    BY <1>7, CaptureFacts
  <2>2. OneBlastPerTarget'
    BY <1>7 DEF OnFrame, StopsWhenWritten, Closed, OneBlastPerTarget, machine
  <2>3. QED BY <2>1, <2>2
<1>8. ASSUME NEW ip \in Ips, NEW remember \in BOOLEAN, RequestTarget(ip, remember)
      PROVE  Inv'
  <2>1. AddTarget(ip) /\ task' = task
    BY <1>8 DEF RequestTarget, AddTarget
  <2>2. /\ active' \subseteq Ips /\ asked' \subseteq Cams /\ tasks' \in Seq(Task)
        /\ task # "running" => tasks' = <<>>
        /\ OneBlastPerTarget'
    BY <2>1, AddTargetFacts
  <2>3. listed' \subseteq Ips /\ requests' \in 0 .. MaxRequests
    BY <1>8, BoundsDiscovery DEF RequestTarget, TypeOK
  <2>4. QED BY <1>8, <2>1, <2>2, <2>3
    DEF RequestTarget, TypeOK, Task, DoneMeansWholeFile, capture
<1>9. CASE UNCHANGED vars
  BY <1>9 DEF vars, machine, capture, TypeOK, OneBlastPerTarget, DoneMeansWholeFile
<1>10. QED
  BY <1>1, <1>2, <1>3, <1>4, <1>5, <1>6, <1>7, <1>8, <1>9 DEF Next

THEOREM Invariant == Spec => []Inv
BY InvInit, InvStep, PTL DEF Spec

(* Types, and no task without its socket (discovery.py _run_discovery).     *)
THEOREM TypeCorrect == Spec => []TypeOK
<1>1. Inv => TypeOK
  BY DEF Inv
<1>2. QED BY <1>1, Invariant, PTL

(* One task for each known address, however it became known (discovery.py   *)
(* _add_target and its list of targets).                                    *)
THEOREM OneTaskEach == Spec => []OneBlastPerTarget
<1>1. Inv => OneBlastPerTarget
  BY DEF Inv
<1>2. QED BY <1>1, Invariant, PTL

(* capture_single tells its waiter only of a frame the file has whole.      *)
THEOREM WholeWhenDone == Spec => []DoneMeansWholeFile
<1>1. Inv => DoneMeansWholeFile
  BY DEF Inv
<1>2. QED BY <1>1, Invariant, PTL
=============================================================================
