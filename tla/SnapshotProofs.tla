---------------------------- MODULE SnapshotProofs ----------------------------
(* Machine-checked proofs about Snapshot, for any number of requests,       *)
(* sessions and frames and any timeout.  What a request was told is right   *)
(* because of what its future says while it waits: Watch(r).                *)
EXTENDS Snapshot, SequenceTheorems, TLAPS

USE DEF NoSession, SessionIds

First(r) == /\ served[r] \in Shown(r)
            /\ \A i \in Shown(r) : served[r] <= i

(* A pending future has seen no frame it could show, one with an image has  *)
(* the first; a frame that was in time left something for the handler to do *)
(* before the clock goes on.                                                *)
Watch(r) ==
    /\ phase[r] # "idle" => found[r] \in 1 .. made
    /\ phase[r] = "waiting" => since[r] <= Len(emitted[found[r]])
    /\ fut[r] # "pending" => phase[r] = "waiting"
    /\ phase[r] = "waiting" /\ fut[r] = "pending" => Shown(r) = {}
    /\ phase[r] = "image" \/ fut[r] = "image" => First(r)
    /\ phase[r] = "waiting" /\ in_time[r] => fut[r] # "pending" /\ age[r] < Timeout
    /\ phase[r] \in {"idle", "timeout"} => ~in_time[r]

FrameBound == \A s \in SessionIds : Len(emitted[s]) <= MaxFrames

Inv ==
    /\ TypeOK
    /\ FrameBound
    /\ NoListenerLeak
    /\ \A r \in Requests : Watch(r)

LEMMA InvInit == Init => Inv
<1> SUFFICES ASSUME Init PROVE Inv
  OBVIOUS
<1>1. \A s \in SessionIds : emitted[s] = <<>>
  BY DEF Init
<1>2. TypeOK
  BY SnapshotAssumption DEF Init, TypeOK
<1>3. FrameBound
  BY <1>1, SnapshotAssumption DEF FrameBound
<1>4. NoListenerLeak
  BY DEF Init, NoListenerLeak
<1>5. \A r \in Requests : Watch(r)
  BY DEF Init, Watch
<1>6. QED BY <1>2, <1>3, <1>4, <1>5 DEF Inv

-----------------------------------------------------------------------------
(* The steps which leave a request and its session's frames alone.          *)

LEMMA WatchKept ==
    ASSUME NEW r \in Requests, Watch(r), made \in Nat, made' \in Nat, made' >= made,
           UNCHANGED <<phase, found, fut, age, emitted, since, served, in_time>>
    PROVE  Watch(r)'
BY DEF Watch, First, Shown

LEMMA CameraSteps ==
    ASSUME Inv,
           \/ Discover \/ ConfigLost
           \/ \E s \in 1 .. made : Open(s) \/ Disconnect(s)
    PROVE  Inv'
<1> DEFINE kept == UNCHANGED <<phase, found, fut, age, emitted, since, served, in_time>>
<1>1. kept
  BY DEF Discover, ConfigLost, Open, Disconnect, requests
<1>2. TypeOK' /\ made' >= made
  <2>1. CASE Discover
    BY <2>1, SnapshotAssumption DEF Inv, TypeOK, Discover, requests
  <2>2. CASE ConfigLost
    BY <2>2 DEF Inv, TypeOK, ConfigLost, requests, camera
  <2>3. ASSUME NEW s \in 1 .. made, Open(s) PROVE TypeOK' /\ made' >= made
    <3>1. made \in Nat /\ transport' \in [SessionIds -> {"none", "open", "closed"}]
      BY <2>3, SnapshotAssumption DEF Inv, TypeOK, Open
    <3>2. QED BY <2>3, <3>1 DEF Inv, TypeOK, Open, requests
  <2>4. ASSUME NEW s \in 1 .. made, Disconnect(s) PROVE TypeOK' /\ made' >= made
    <3>1. made \in Nat /\ made' = made
          /\ transport' \in [SessionIds -> {"none", "open", "closed"}]
      BY <2>4, SnapshotAssumption DEF Inv, TypeOK, Disconnect
    <3>2. connected' \in [SessionIds -> BOOLEAN]
      BY <2>4 DEF Inv, TypeOK, Disconnect
    <3>3. session' \in 0 .. made
      BY <2>4, <3>1 DEF Inv, TypeOK, Disconnect
    <3>4. QED BY <2>4, <3>1, <3>2, <3>3 DEF Inv, TypeOK, Disconnect, requests
  <2>5. QED BY <2>1, <2>2, <2>3, <2>4
<1>3. FrameBound'
  BY <1>1 DEF Inv, FrameBound
<1>4. NoListenerLeak'
  <2>1. CASE Discover
    <3>1. made \in Nat /\ made' = made + 1 /\ made' \in SessionIds
          /\ \A r \in Requests : found[r] \in 0 .. made
      BY <2>1, SnapshotAssumption DEF Discover, Inv, TypeOK
    <3>2. listeners'[made'] \ {OnFrame} = {}
          /\ \A s \in 1 .. made : listeners'[s] = listeners[s]
      BY <2>1, <3>1, SnapshotAssumption DEF Discover, Inv, TypeOK
    <3>3. \A s \in 1 .. made' : s \in 1 .. made \/ s = made'
      BY <3>1
    <3>4. \A r \in Requests : found[r] # made'
      BY <3>1
    <3>5. QED BY <1>1, <3>2, <3>3, <3>4 DEF Inv, NoListenerLeak
  <2>2. CASE UNCHANGED <<made, listeners>>
    BY <1>1, <2>2 DEF Inv, NoListenerLeak
  <2>3. QED BY <2>1, <2>2 DEF ConfigLost, Open, Disconnect, camera
<1>5. \A r \in Requests : Watch(r)'
  BY <1>1, <1>2, WatchKept DEF Inv, TypeOK
<1>6. QED BY <1>2, <1>3, <1>4, <1>5 DEF Inv

LEMMA TickStep == ASSUME Inv, Tick PROVE Inv'
<1>1. \A r \in Requests : phase[r] = "waiting" => age[r] \in 0 .. Timeout - 1 /\ fut[r] = "pending"
  BY SnapshotAssumption DEF Tick, NothingDue, Due, Inv, TypeOK
<1>2. TypeOK'
  <2>1. age' \in [Requests -> 0 .. Timeout]
    BY <1>1, SnapshotAssumption DEF Tick, Inv, TypeOK
  <2>2. QED BY <2>1 DEF Tick, Inv, TypeOK, camera
<1>3. FrameBound' /\ NoListenerLeak'
  BY DEF Tick, Inv, FrameBound, NoListenerLeak, camera
<1>4. ASSUME NEW r \in Requests PROVE Watch(r)'
  <2>1. Watch(r) /\ (phase[r] = "waiting" => fut[r] = "pending" /\ ~in_time[r])
    BY <1>1 DEF Inv, Watch
  <2>2. UNCHANGED <<made, phase, found, fut, emitted, since, served, in_time>>
    BY DEF Tick, camera
  <2>3. QED BY <2>1, <2>2 DEF Watch, First, Shown
<1>5. QED BY <1>2, <1>3, <1>4 DEF Inv

-----------------------------------------------------------------------------
(* The steps of a request.                                                  *)

LEMMA RequestInv == ASSUME Inv, NEW q \in Requests, Request(q) PROVE Inv'
<1>0. session \in 1 .. made /\ session \in SessionIds /\ made \in Nat
  BY SnapshotAssumption DEF Inv, TypeOK, Request
<1>1. Len(emitted[session]) \in 0 .. MaxFrames
  BY <1>0, SnapshotAssumption DEF Inv, TypeOK, FrameBound
<1>2. TypeOK'
  BY <1>0, <1>1 DEF Inv, TypeOK, Request, camera
<1>3. FrameBound'
  BY DEF Inv, FrameBound, Request
<1>4. NoListenerLeak'
  <2> SUFFICES ASSUME NEW s \in 1 .. made
               PROVE  listeners'[s] \ {OnFrame} =
                        {r \in Requests : phase'[r] = "waiting" /\ found'[r] = s}
    BY DEF NoListenerLeak, Request, camera
  <2>1. listeners[s] \ {OnFrame} = {r \in Requests : phase[r] = "waiting" /\ found[r] = s}
    BY DEF Inv, NoListenerLeak
  <2>2. /\ \A r \in Requests \ {q} : phase'[r] = phase[r] /\ found'[r] = found[r]
        /\ phase'[q] = "waiting" /\ found'[q] = session /\ phase[q] = "idle"
    BY DEF Request, Inv, TypeOK
  <2>3. listeners'[s] = IF s = session THEN listeners[s] \cup {q} ELSE listeners[s]
    <3>1. s \in SessionIds /\ listeners \in [SessionIds -> SUBSET (Requests \cup {OnFrame})]
      BY <1>0, SnapshotAssumption DEF Inv, TypeOK
    <3>2. listeners' = [listeners EXCEPT ![session] = @ \cup {q}]
      BY DEF Request
    <3>3. QED BY <1>0, <3>1, <3>2
  <2>4. q # OnFrame
    BY SnapshotAssumption
  <2>5. CASE s = session
    BY <2>1, <2>2, <2>3, <2>4, <2>5
  <2>6. CASE s # session
    BY <2>1, <2>2, <2>3, <2>4, <2>6
  <2>7. QED BY <2>5, <2>6
<1>5. ASSUME NEW r \in Requests PROVE Watch(r)'
  <2>1. Watch(r)
    BY DEF Inv
  <2>2. UNCHANGED <<made, fut, age, emitted, served, in_time>>
    BY DEF Request, camera
  <2>3. CASE r # q
    <3>1. phase'[r] = phase[r] /\ found'[r] = found[r] /\ since'[r] = since[r]
      BY <2>3 DEF Request, Inv, TypeOK
    <3>2. QED BY <2>1, <2>2, <3>1 DEF Watch, First, Shown
  <2>4. CASE r = q
    <3>1. /\ phase[q] = "idle" /\ phase'[q] = "waiting" /\ found'[q] = session
          /\ since'[q] = Len(emitted[session])
      BY DEF Request, Inv, TypeOK
    <3>2. Shown(q)' = {}
      BY <1>1, <2>2, <3>1 DEF Shown
    <3>3. fut[q] = "pending" /\ ~in_time[q]
      BY <2>1, <2>4, <3>1 DEF Watch
    <3>4. QED BY <1>0, <2>2, <2>4, <3>1, <3>2, <3>3 DEF Watch
  <2>5. QED BY <2>3, <2>4
<1>6. QED BY <1>2, <1>3, <1>4, <1>5 DEF Inv

LEMMA AnswerInv ==
    ASSUME Inv, NEW q \in Requests, NEW how \in {"image", "error", "timeout", "gone"},
           Answer(q, how),
           how = "image" => fut[q] = "image",
           how = "timeout" => age[q] = Timeout
    PROVE  Inv'
<1>0. found[q] \in 1 .. made /\ found[q] \in SessionIds /\ made \in Nat
  BY SnapshotAssumption DEF Inv, TypeOK, Answer, Watch
<1>1. TypeOK'
  BY <1>0, SnapshotAssumption DEF Inv, TypeOK, Answer, ListensTo, camera
<1>2. FrameBound'
  BY DEF Inv, FrameBound, Answer
<1>3. NoListenerLeak'
  <2> SUFFICES ASSUME NEW s \in 1 .. made
               PROVE  listeners'[s] \ {OnFrame} =
                        {r \in Requests : phase'[r] = "waiting" /\ found'[r] = s}
    BY DEF NoListenerLeak, Answer, camera
  <2>1. listeners[s] \ {OnFrame} = {r \in Requests : phase[r] = "waiting" /\ found[r] = s}
    BY DEF Inv, NoListenerLeak
  <2>2. /\ \A r \in Requests \ {q} : phase'[r] = phase[r]
        /\ phase'[q] # "waiting" /\ phase[q] = "waiting" /\ found' = found
    BY DEF Answer, Inv, TypeOK
  <2>3. listeners'[s] = IF s = found[q] THEN listeners[s] \ {q} ELSE listeners[s]
    <3>1. s \in SessionIds /\ listeners \in [SessionIds -> SUBSET (Requests \cup {OnFrame})]
      BY <1>0, SnapshotAssumption DEF Inv, TypeOK
    <3>2. listeners' = [listeners EXCEPT ![found[q]] = @ \ {q}]
      BY DEF Answer, ListensTo
    <3>3. QED BY <1>0, <3>1, <3>2
  <2>4. CASE s = found[q]
    BY <2>1, <2>2, <2>3, <2>4
  <2>5. CASE s # found[q]
    BY <2>1, <2>2, <2>3, <2>5
  <2>6. QED BY <2>4, <2>5
<1>4. ASSUME NEW r \in Requests PROVE Watch(r)'
  <2>1. Watch(r)
    BY DEF Inv
  <2>2. UNCHANGED <<made, found, emitted, since, served, in_time>>
    BY DEF Answer, camera
  <2>3. CASE r # q
    <3>1. phase'[r] = phase[r] /\ fut'[r] = fut[r] /\ age'[r] = age[r]
      BY <2>3 DEF Answer, Inv, TypeOK
    <3>2. QED BY <2>1, <2>2, <3>1 DEF Watch, First, Shown
  <2>4. CASE r = q
    <3>1. phase[q] = "waiting" /\ phase'[q] = how /\ fut'[q] = "pending"
      BY DEF Answer, Inv, TypeOK
    <3>2. how = "timeout" => ~in_time[q]
      <4>1. in_time[q] => age[q] < Timeout
        BY <2>1, <2>4, <3>1 DEF Watch
      <4>2. QED BY <4>1, SnapshotAssumption
    <3>3. how = "image" => First(q)'
      BY <2>1, <2>2, <2>4 DEF Watch, First, Shown
    <3>4. QED BY <1>0, <2>2, <2>4, <3>1, <3>2, <3>3 DEF Watch
  <2>5. QED BY <2>3, <2>4
<1>5. QED BY <1>1, <1>2, <1>3, <1>4 DEF Inv

LEMMA RequestSteps == ASSUME Inv, NEW q \in Requests, RequestStep(q) PROVE Inv'
<1>1. CASE Request(q)
  BY <1>1, RequestInv
<1>2. CASE Resume(q)
  BY <1>2, AnswerInv DEF Resume
<1>3. CASE Expire(q)
  BY <1>3, AnswerInv DEF Expire, Expired
<1>4. CASE Gone(q)
  BY <1>4, AnswerInv DEF Gone
<1>5. QED BY <1>1, <1>2, <1>3, <1>4 DEF RequestStep

-----------------------------------------------------------------------------
(* A frame.                                                                 *)

LEMMA FrameInv ==
    ASSUME Inv, NEW s \in 1 .. made, NEW well_formed \in BOOLEAN,
           EmitFrame(s, well_formed)
    PROVE  Inv'
<1> DEFINE raised == Raises(well_formed)
           told == {r \in Audience(s, well_formed) : NotDone(r)}
           n == Len(emitted[s]) + 1
<1>0. s \in SessionIds /\ made \in Nat /\ emitted[s] \in Seq(BOOLEAN)
  BY SnapshotAssumption DEF Inv, TypeOK
<1>1. n \in 1 .. MaxFrames /\ Len(emitted[s]) \in Nat
  BY <1>0, SnapshotAssumption DEF EmitFrame
<1>2. raised \in BOOLEAN
  BY DEF Raises
<1>3. /\ emitted' = [emitted EXCEPT ![s] = Append(@, ~raised)]
      /\ fut' = [r \in Requests |-> IF r \notin told THEN fut[r]
                                    ELSE IF raised THEN "exception" ELSE "image"]
      /\ served' = [r \in Requests |-> IF r \in told THEN n ELSE served[r]]
      /\ in_time' = [r \in Requests |->
                       \/ in_time[r]
                       \/ /\ phase[r] = "waiting" /\ found[r] = s
                          /\ age[r] < Timeout /\ ~raised]
      /\ UNCHANGED <<cameras, session, made, transport, connected, listeners,
                     phase, found, age, since>>
  BY DEF EmitFrame, camera, requests
<1>3a. \A r \in Requests : in_time'[r] <=> \/ in_time[r]
                                           \/ /\ phase[r] = "waiting" /\ found[r] = s
                                              /\ age[r] < Timeout /\ ~raised
  <2> SUFFICES ASSUME NEW r \in Requests
               PROVE  in_time'[r] <=> \/ in_time[r]
                                      \/ /\ phase[r] = "waiting" /\ found[r] = s
                                         /\ age[r] < Timeout /\ ~raised
    OBVIOUS
  <2>1. in_time' = [q \in Requests |->
                      \/ in_time[q]
                      \/ /\ phase[q] = "waiting" /\ found[q] = s
                         /\ age[q] < Timeout /\ ~raised]
    BY DEF EmitFrame
  <2> HIDE DEF raised
  <2>2. QED BY <2>1, Zenon
<1>4. /\ Len(emitted'[s]) = n /\ emitted'[s][n] = ~raised
      /\ emitted'[s] \in Seq(BOOLEAN)
      /\ \A i \in 1 .. Len(emitted[s]) : emitted'[s][i] = emitted[s][i]
      /\ \A z \in SessionIds \ {s} : emitted'[z] = emitted[z]
  BY <1>0, <1>2, <1>3, AppendProperties DEF Inv, TypeOK
<1>5. \A r \in Requests : r \in told =>
         phase[r] = "waiting" /\ found[r] = s /\ fut[r] = "pending"
  BY DEF Audience, NotDone, Inv, NoListenerLeak
<1>6. \A r \in Requests : phase[r] = "waiting" /\ found[r] = s /\ ~raised
                          => r \in told \/ fut[r] # "pending"
  BY SnapshotAssumption DEF Audience, NotDone, Inv, NoListenerLeak
<1> HIDE DEF raised, told, n
<1>7. TypeOK'
  <2>1. emitted' \in [SessionIds -> Seq(BOOLEAN)]
    BY <1>0, <1>3, <1>4 DEF Inv, TypeOK
  <2>2. /\ fut' \in [Requests -> {"pending", "image", "exception"}]
        /\ served' \in [Requests -> 0 .. MaxFrames]
    BY <1>1, <1>3 DEF Inv, TypeOK
  <2>3. in_time' \in [Requests -> BOOLEAN]
    BY <1>3, Zenon DEF Inv, TypeOK
  <2>4. QED BY <1>3, <2>1, <2>2, <2>3 DEF Inv, TypeOK
<1>8. FrameBound'
  BY <1>1, <1>4 DEF Inv, FrameBound
<1>9. NoListenerLeak'
  BY <1>3 DEF Inv, NoListenerLeak
<1>10. ASSUME NEW r \in Requests PROVE Watch(r)'
  <2>1. Watch(r) /\ since[r] \in Nat /\ found[r] \in 0 .. made
    BY DEF Inv, TypeOK
  <2>2. CASE found[r] # s
    <3>1. fut'[r] = fut[r] /\ served'[r] = served[r] /\ in_time'[r] = in_time[r]
      <4>1. r \notin told
        BY <1>5, <2>2
      <4>2. fut'[r] = fut[r] /\ served'[r] = served[r]
        BY <1>3, <4>1
      <4>3. in_time[r] \in BOOLEAN /\ in_time'[r] \in BOOLEAN
        BY <1>7 DEF Inv, TypeOK
      <4>4. QED BY <1>3a, <2>2, <4>2, <4>3, Zenon
    <3>2. found[r] \in 1 .. made => emitted'[found[r]] = emitted[found[r]]
      BY <1>4, <2>2, SnapshotAssumption DEF Inv, TypeOK
    <3>3. phase[r] # "idle" => Shown(r)' = Shown(r)
      <4>1. phase[r] # "idle" => emitted'[found[r]] = emitted[found[r]]
        BY <2>1, <3>2 DEF Watch
      <4>2. QED BY <1>3, <4>1 DEF Shown
    <3>4. phase[r] # "idle" => (First(r)' <=> First(r))
      BY <3>1, <3>3 DEF First
    <3>5. phase[r] = "waiting" => emitted'[found[r]] = emitted[found[r]]
      BY <2>1, <3>2 DEF Watch
    <3>6. QED BY <1>3, <2>1, <3>1, <3>3, <3>4, <3>5 DEF Watch
  <2>3. CASE found[r] = s
    <3>1. /\ Shown(r) = {i \in since[r] + 1 .. Len(emitted[s]) : emitted[s][i]}
          /\ Shown(r)' = {i \in since[r] + 1 .. n : emitted'[s][i]}
      BY <1>3, <1>4, <2>3 DEF Shown
    <3>2. /\ since[r] + 1 .. Len(emitted[s]) \subseteq since[r] + 1 .. n
          /\ \A i \in since[r] + 1 .. n : i \in since[r] + 1 .. Len(emitted[s]) \/ i = n
          /\ since[r] + 1 .. Len(emitted[s]) \subseteq 1 .. Len(emitted[s])
      BY <1>1, <2>1 DEF n
    <3>3. \A i \in Shown(r) : i \in Nat /\ i < n
      BY <1>1, <2>1, <3>1 DEF n
    <3>4. Shown(r) \subseteq Shown(r)'
      BY <1>4, <3>1, <3>2, Zenon
    <3>5. \A i \in Shown(r)' : i \in Shown(r) \/ (i = n /\ ~raised)
      <4> SUFFICES ASSUME NEW i \in since[r] + 1 .. n, emitted'[s][i]
                   PROVE  i \in Shown(r) \/ (i = n /\ ~raised)
        BY <3>1
      <4>1. CASE i = n
        BY <1>4, <4>1
      <4>2. CASE i \in since[r] + 1 .. Len(emitted[s])
        BY <1>4, <3>1, <3>2, <4>2
      <4>3. QED BY <3>2, <4>1, <4>2
    <3>6. phase'[r] = phase[r] /\ found'[r] = s /\ age'[r] = age[r] /\ made' = made
      BY <1>3, <2>3
    <3>7. First(r) => (\A i \in Shown(r)' : served[r] <= i) /\ served[r] \in Shown(r)'
      BY <1>1, <3>3, <3>4, <3>5 DEF First
    <3>8. CASE r \in told
      <4>1. /\ phase[r] = "waiting" /\ fut[r] = "pending" /\ Shown(r) = {}
            /\ fut'[r] = (IF raised THEN "exception" ELSE "image") /\ served'[r] = n
        BY <1>3, <1>5, <2>1, <3>8 DEF Watch
      <4>2. ~raised => n \in Shown(r)'
        <5>1. since[r] < n
          BY <1>1, <2>1, <2>3, <4>1 DEF Watch, n
        <5>2. n \in since[r] + 1 .. n
          BY <1>1, <2>1, <5>1
        <5>3. QED BY <1>4, <3>1, <5>2, Zenon
      <4>3. ~raised => First(r)'
        BY <1>1, <3>5, <4>1, <4>2 DEF First
      <4>4. in_time'[r] => age[r] < Timeout
        <5>1. ~in_time[r]
          BY <2>1, <4>1 DEF Watch
        <5>2. QED BY <1>3a, <5>1
      <4>5. since[r] <= Len(emitted'[s])
        BY <1>1, <1>4, <2>1, <2>3, <4>1 DEF Watch, n
      <4>6. fut'[r] = "image" => ~raised
        BY <4>1
      <4>7. QED BY <1>3, <2>1, <2>3, <3>6, <4>1, <4>3, <4>4, <4>5, <4>6 DEF Watch
    <3>9. CASE r \notin told
      <4>1. fut'[r] = fut[r] /\ served'[r] = served[r]
        BY <1>3, <3>9
      <4>2. First(r) => First(r)'
        BY <3>7, <4>1 DEF First
      <4>3. in_time'[r] => \/ in_time[r]
                           \/ /\ phase[r] = "waiting" /\ found[r] = s
                              /\ age[r] < Timeout /\ ~raised
        BY <1>3a
      <4>4. phase[r] = "waiting" /\ fut[r] = "pending" => raised
        BY <1>6, <2>3, <3>9
      <4>5. phase[r] = "waiting" /\ fut[r] = "pending" => Shown(r)' = {}
        BY <2>1, <3>5, <4>4 DEF Watch
      <4>6. phase[r] = "waiting" => since[r] <= Len(emitted'[s])
        BY <1>1, <1>4, <2>1, <2>3 DEF Watch, n
      <4>7. QED
        BY <1>3, <2>1, <2>3, <3>6, <4>1, <4>2, <4>3, <4>4, <4>5, <4>6 DEF Watch
    <3>10. QED BY <3>8, <3>9
  <2>4. QED BY <2>2, <2>3
<1>11. QED BY <1>7, <1>8, <1>9, <1>10 DEF Inv

-----------------------------------------------------------------------------
THEOREM Invariant == Spec => []Inv
<1>1. Inv /\ [Next]_vars => Inv'
  <2> SUFFICES ASSUME Inv, [Next]_vars PROVE Inv'
    OBVIOUS
  <2>1. CASE Discover \/ ConfigLost
    BY <2>1, CameraSteps
  <2>2. CASE Tick
    BY <2>2, TickStep
  <2>3. CASE \E s \in 1 .. made : SessionStep(s)
    BY <2>3, CameraSteps, FrameInv DEF SessionStep
  <2>4. CASE \E r \in Requests : RequestStep(r)
    BY <2>4, RequestSteps
  <2>5. CASE UNCHANGED vars
    <3>1. TypeOK' /\ FrameBound' /\ NoListenerLeak'
      BY <2>5 DEF Inv, TypeOK, FrameBound, NoListenerLeak, vars, camera, requests
    <3>2. \A r \in Requests : Watch(r)'
      BY <2>5 DEF Inv, Watch, First, Shown, vars, camera, requests
    <3>3. QED BY <3>1, <3>2 DEF Inv
  <2>6. QED BY <2>1, <2>2, <2>3, <2>4, <2>5 DEF Next
<1>2. QED BY InvInit, <1>1, PTL DEF Spec

(* Every variable keeps its type (http_server.py _handle_snapshot).         *)
THEOREM TypeCorrect == Spec => []TypeOK
<1>1. Inv => TypeOK
  BY DEF Inv
<1>2. QED BY <1>1, Invariant, PTL

(* A request takes its listener off the session it put it on, however it    *)
(* ends (http_server.py _handle_snapshot, event_emitter.py off).            *)
THEOREM ListenersExact == Spec => []NoListenerLeak
<1>1. Inv => NoListenerLeak
  BY DEF Inv
<1>2. QED BY <1>1, Invariant, PTL

(* The image of a snapshot is the first frame its session could show after  *)
(* the request came (http_server.py _handle_snapshot).                      *)
THEOREM NextFrame == Spec => []NextFrameServed
<1>1. Inv => NextFrameServed
  BY DEF Inv, Watch, First, NextFrameServed
<1>2. QED BY <1>1, Invariant, PTL

(* "no frame within timeout" is never said of a request that had a frame    *)
(* before its last tick (http_server.py _handle_snapshot).                  *)
THEOREM FrameInTime == Spec => []FrameInTimeIsServed
<1>1. Inv => FrameInTimeIsServed
  BY DEF Inv, Watch, FrameInTimeIsServed
<1>2. QED BY <1>1, Invariant, PTL
=============================================================================
