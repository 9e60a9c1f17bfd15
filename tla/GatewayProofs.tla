---------------------------- MODULE GatewayProofs ----------------------------
(* Machine-checked proofs about the HTTP server's bookkeeping, for every   *)
(* number of cameras, clients, sessions and frames.  Three invariants, one *)
(* for each group of variables: RegistryInv for the sessions, QueueInv for *)
(* the lists of queues, StreamInv for what is in the queues.               *)
EXTENDS Gateway, SequenceTheorems, TLAPS

(* A session not yet made is connected: without this a new registration    *)
(* could name a dead one.  Discoveries are counted by the sessions they    *)
(* make, which bounds the counter.                                         *)
UnmadeIsConnected == \A s \in SessionIds \ Made : connected[s]
DiscoveriesCounted == \A d \in Devs : discoveries[d] <= Len(dev)

(* A dead session can still emit a disconnect, one that drops its camera's *)
(* newer session, only if it was closed before its endpoint opened; and a  *)
(* live session gets out of the registry only in that way.                 *)
EarlyClosed(d) == \E e \in early_closed : dev[e] = d
ZombieWasEarlyClosed ==
    \A s \in SessionIds :
        ~connected[s] /\ (transport[s] \in {"none", "open"} \/ sess_timer[s])
            => s \in early_closed
UnregisteredNeedsEarlyClose ==
    \A s \in Made : connected[s] /\ sessions[dev[s]] # s => EarlyClosed(dev[s])

RegistryInv ==
    /\ RegisteredIsConnected
    /\ UnmadeIsConnected
    /\ DiscoveriesCounted
    /\ early_closed \subseteq Made
    /\ ZombieWasEarlyClosed
    /\ UnregisteredNeedsEarlyClose

(* A handler's epoch is never ahead: a discovery makes every list current. *)
EpochsPast == \A c \in Clients : epoch[c] <= discoveries[Watches[c][1]]
QueueInv == EpochsPast /\ QueuesAreCurrent

(* What a client was and will be written went out already, which is why    *)
(* the next frame can be appended; before it registers it has nothing.     *)
StreamInv ==
    \A c \in Clients :
        /\ phase[c] \in {"idle", "preparing"}
               => queue[c] = <<>> /\ written[c] = <<>> /\ ~overflowed[c]
        /\ since[c] <= frames[Watches[c]]
        /\ \A i \in 1 .. Len(Stream(c)) : Stream(c)[i] <= frames[Watches[c]]
        /\ \A i, j \in 1 .. Len(Stream(c)) : i < j => Stream(c)[i] < Stream(c)[j]
        /\ c \in queues[Watches[c]] /\ ~overflowed[c]
               => Stream(c) = FramesSince(c)

IInv == TypeOK /\ RegistryInv /\ QueueInv /\ StreamInv

LEMMA Constants ==
    /\ MaxSessions \in Nat
    /\ NoSession \notin SessionIds
    /\ \A c \in Clients : Watches[c] \in Feeds /\ Watches[c][1] \in Devs
                          /\ Medium(c) \in Media
                          /\ QueueSize[Medium(c)] \in Nat \ {0}
BY RequestsAssumption, BoundsAssumption
   DEF NoSession, SessionIds, Feeds, Medium

LEMMA MadeIsSession == ASSUME TypeOK PROVE Made \subseteq SessionIds
BY Constants DEF TypeOK, Made, SessionIds

(* A queue's entries move to what was written, in order.                   *)
LEMMA ConcatAppend ==
    \A a, b \in Seq(Nat), x \in Nat : a \o Append(b, x) = Append(a \o b, x)
<1> SUFFICES ASSUME NEW a \in Seq(Nat), NEW b \in Seq(Nat), NEW x \in Nat
             PROVE  a \o Append(b, x) = Append(a \o b, x)
  OBVIOUS
<1>1. a \o b \in Seq(Nat) /\ <<x>> \in Seq(Nat)
  OBVIOUS
<1>2. Append(b, x) = b \o <<x>> /\ Append(a \o b, x) = (a \o b) \o <<x>>
  BY <1>1, AppendIsConcat
<1>3. QED BY <1>1, <1>2, ConcatAssociative

LEMMA MoveHead ==
    ASSUME NEW S, NEW a \in Seq(S), NEW b \in Seq(S), b # <<>>
    PROVE  Append(a, Head(b)) \o Tail(b) = a \o b
<1>1. Head(b) \in S /\ Tail(b) \in Seq(S) /\ <<Head(b)>> \in Seq(S)
  BY HeadTailProperties
<1>2. b = <<Head(b)>> \o Tail(b) /\ Append(a, Head(b)) = a \o <<Head(b)>>
  BY <1>1, AppendIsConcat
<1>3. QED BY <1>1, <1>2, ConcatAssociative

LEMMA Initially == Init => IInv
<1> SUFFICES ASSUME Init PROVE IInv
  OBVIOUS
<1>1. TypeOK
  BY Constants DEF Init, TypeOK
<1>2. RegistryInv
  BY DEF Init, RegistryInv, RegisteredIsConnected, UnmadeIsConnected,
         DiscoveriesCounted, ZombieWasEarlyClosed, UnregisteredNeedsEarlyClose,
         Made
<1>3. QueueInv
  BY Constants DEF Init, QueueInv, EpochsPast, QueuesAreCurrent
<1>4. StreamInv
  BY Constants DEF Init, StreamInv, Stream
<1>5. QED BY <1>1, <1>2, <1>3, <1>4 DEF IInv

-----------------------------------------------------------------------------
(* Steps that leave alone what an invariant speaks of.                     *)

LEMMA RegistryFrame ==
    ASSUME RegistryInv,
           UNCHANGED <<sessions, dev, listeners, transport, connected,
                       sess_timer, discoveries, early_closed>>
    PROVE  RegistryInv'
BY DEF RegistryInv, RegisteredIsConnected, UnmadeIsConnected,
       DiscoveriesCounted, ZombieWasEarlyClosed, UnregisteredNeedsEarlyClose,
       EarlyClosed, Made

LEMMA QueueFrame ==
    ASSUME QueueInv, UNCHANGED <<queues, phase, epoch, discoveries>>
    PROVE  QueueInv'
BY DEF QueueInv, EpochsPast, QueuesAreCurrent

LEMMA StreamFrame ==
    ASSUME StreamInv, UNCHANGED <<queues, phase, queue, written, frames, since,
                                  overflowed>>
    PROVE  StreamInv'
BY DEF StreamInv, Stream, FramesSince

-----------------------------------------------------------------------------
(* _on_discover: the only step that makes a session, and the only one that *)
(* empties a list.                                                         *)
LEMMA DiscoverKeeps ==
    ASSUME IInv, NEW d \in Devs, Discover(d) PROVE IInv'
<1>0. TypeOK /\ RegistryInv /\ QueueInv /\ StreamInv
  BY DEF IInv
<1> DEFINE new == Len(dev) + 1
<1>1. /\ MaxSessions \in Nat /\ Len(dev) \in Nat
      /\ new \in SessionIds /\ new \notin Made /\ new # NoSession
  BY <1>0, Constants DEF TypeOK, Discover, SessionIds, Made, NoSession
<1>2. /\ dev' \in Seq(Devs) /\ Len(dev') = new /\ dev'[new] = d
      /\ \A s \in Made : dev'[s] = dev[s]
  BY <1>0, AppendProperties DEF TypeOK, Discover, Made
<1>3. Made' = Made \cup {new}
  BY <1>1, <1>2 DEF Made
<1>4. /\ sessions' = [sessions EXCEPT ![d] = new]
      /\ queues' = [f \in Feeds |-> IF f[1] = d THEN {} ELSE queues[f]]
      /\ discoveries' = [discoveries EXCEPT ![d] = @ + 1]
      /\ UNCHANGED <<transport, peer, connected, sess_timer, phase, queue,
                     written, frames, since, overflowed, epoch, early_closed>>
  BY DEF Discover, endpoints, clients
<1>5. discoveries[d] \in Nat /\ discoveries[d] + 1 \in 0 .. MaxSessions
      /\ discoveries[d] + 1 <= new
  BY <1>0, <1>1 DEF TypeOK, RegistryInv, DiscoveriesCounted, SessionIds
<1>6. PICK on \in SUBSET (Media \cup {"disconnect"}) :
         listeners' = [listeners EXCEPT ![new] = on]
  <2>1. PICK entry \in CamerasEntries, audio \in BOOLEAN :
           listeners' = [listeners EXCEPT ![new] = Listeners(entry, audio)]
    BY DEF Discover
  <2>2. Listeners(entry, audio) \in SUBSET (Media \cup {"disconnect"})
    BY DEF Listeners, Media
  <2>3. QED BY <2>1, <2>2
<1>7. TypeOK'
  <2>1. sessions' \in [Devs -> {NoSession} \cup SessionIds]
        /\ queues' \in [Feeds -> SUBSET Clients]
        /\ listeners' \in [SessionIds -> SUBSET (Media \cup {"disconnect"})]
    BY <1>0, <1>1, <1>4, <1>6 DEF TypeOK
  <2>2. discoveries' \in [Devs -> 0 .. MaxSessions]
    BY <1>0, <1>4, <1>5 DEF TypeOK
  <2>3. Len(dev') <= MaxSessions
    BY <1>1, <1>2 DEF SessionIds
  <2>4. QED BY <1>0, <1>2, <1>4, <2>1, <2>2, <2>3 DEF TypeOK
<1>8. RegistryInv'
  <2>1. connected[new]
    BY <1>0, <1>1 DEF RegistryInv, UnmadeIsConnected
  <2>2. RegisteredIsConnected'
    <3>1. ASSUME NEW e \in Devs, sessions'[e] # NoSession
          PROVE  /\ sessions'[e] \in Made' /\ dev'[sessions'[e]] = e
                 /\ "disconnect" \in listeners'[sessions'[e]]
                        => connected'[sessions'[e]]
      <4>1. CASE e = d
        BY <1>0, <1>2, <1>3, <1>4, <2>1, <4>1 DEF TypeOK
      <4>2. CASE e # d
        <5>1. sessions'[e] = sessions[e] /\ sessions[e] \in Made
              /\ dev[sessions[e]] = e
              /\ ("disconnect" \in listeners[sessions[e]]
                     => connected[sessions[e]])
          BY <1>0, <1>4, <3>1, <4>2
             DEF TypeOK, RegistryInv, RegisteredIsConnected
        <5>2. listeners'[sessions[e]] = listeners[sessions[e]]
          BY <1>0, <1>1, <1>6, <5>1, MadeIsSession DEF TypeOK
        <5>3. QED BY <1>2, <1>3, <1>4, <5>1, <5>2
      <4>3. QED BY <4>1, <4>2
    <3>2. QED BY <3>1 DEF RegisteredIsConnected
  <2>3. UnmadeIsConnected'
    BY <1>0, <1>3, <1>4 DEF RegistryInv, UnmadeIsConnected
  <2>4. DiscoveriesCounted'
    BY <1>0, <1>1, <1>2, <1>4, <1>5 DEF TypeOK, RegistryInv, DiscoveriesCounted
  <2>5. (early_closed \subseteq Made)' /\ ZombieWasEarlyClosed'
    BY <1>0, <1>3, <1>4 DEF RegistryInv, ZombieWasEarlyClosed
  <2>6. UnregisteredNeedsEarlyClose'
    <3>1. ASSUME NEW s \in Made', connected'[s], sessions'[dev'[s]] # s
          PROVE  \E e \in early_closed' : dev'[e] = dev'[s]
      <4>1. s # new
        BY <1>0, <1>2, <1>4, <3>1 DEF TypeOK
      <4>2. s \in Made /\ dev'[s] = dev[s] /\ connected[s] /\ dev[s] \in Devs
        BY <1>0, <1>2, <1>3, <1>4, <3>1, <4>1 DEF TypeOK, Made
      <4>3. sessions[dev[s]] # s
        BY <1>0, <1>1, <1>4, <3>1, <4>2 DEF TypeOK, Discover, Unknown, Made, NoSession
      <4>4. EarlyClosed(dev[s])
        BY <1>0, <4>2, <4>3 DEF RegistryInv, UnregisteredNeedsEarlyClose
      <4>5. PICK e \in early_closed : dev[e] = dev[s]
        BY <4>4 DEF EarlyClosed
      <4>6. e \in early_closed' /\ dev'[e] = dev'[s]
        BY <1>0, <1>2, <1>4, <4>2, <4>5 DEF RegistryInv
      <4>7. QED BY <4>6
    <3>2. QED BY <3>1 DEF UnregisteredNeedsEarlyClose, EarlyClosed
  <2>7. QED BY <2>2, <2>3, <2>4, <2>5, <2>6 DEF RegistryInv
<1>9. QueueInv'
  <2>1. EpochsPast'
    BY <1>0, <1>4, Constants DEF TypeOK, QueueInv, EpochsPast
  <2>2. \A c \in Clients : Watches[c][1] = d => epoch'[c] # discoveries'[d]
    BY <1>0, <1>4, Constants DEF TypeOK, QueueInv, EpochsPast
  <2>3. ASSUME NEW f \in Feeds
        PROVE  queues'[f] = {c \in Clients : /\ Watches[c] = f
                                             /\ phase'[c] = "streaming"
                                             /\ epoch'[c] = discoveries'[f[1]]}
    <3>1. f[1] \in Devs
      BY DEF Feeds
    <3>2. CASE f[1] = d
      BY <1>4, <2>2, <3>2
    <3>3. CASE f[1] # d
      BY <1>0, <1>4, <3>1, <3>3 DEF TypeOK, QueueInv, QueuesAreCurrent
    <3>4. QED BY <3>2, <3>3
  <2>4. QED BY <2>1, <2>3 DEF QueueInv, QueuesAreCurrent
<1>10. StreamInv'
  <2>1. \A c \in Clients : c \in queues'[Watches[c]] => c \in queues[Watches[c]]
    BY <1>4, Constants
  <2>2. QED BY <1>0, <1>4, <2>1 DEF StreamInv, Stream, FramesSince
<1>11. QED BY <1>7, <1>8, <1>9, <1>10 DEF IInv

-----------------------------------------------------------------------------
(* A disconnect of any session, a zombie's included, takes only entries    *)
(* out of the registry: its own if it was connected, another's only if it  *)
(* was closed before its endpoint opened.                                  *)
LEMMA DisconnectKeeps ==
    ASSUME IInv, NEW s \in Made, NEW left \in BOOLEAN, EmitDisconnect(s, left),
           left => sess_timer[s],
           \/ sess_timer[s]
           \/ transport[s] = "open"
           \/ sessions[dev[s]] = s
    PROVE  IInv'
<1>0. TypeOK /\ RegistryInv /\ QueueInv /\ StreamInv
  BY DEF IInv
<1>1. UNCHANGED <<dev, listeners, peer, queues, phase, queue, written, frames,
                  since, overflowed, discoveries, epoch>>
  BY DEF EmitDisconnect, clients
<1>2. dev[s] \in Devs /\ s \in SessionIds /\ Made' = Made /\ TearDown(s, left)
  BY <1>0, <1>1, MadeIsSession DEF TypeOK, Made, EmitDisconnect
<1>3. /\ connected' = [connected EXCEPT ![s] = FALSE]
      /\ \A t \in SessionIds : t # s => /\ sess_timer'[t] = sess_timer[t]
                                        /\ transport'[t] = transport[t]
      /\ early_closed \subseteq early_closed'
      /\ early_closed' \subseteq early_closed \cup {s}
  BY <1>0, <1>2 DEF TypeOK, TearDown, CloseTransport
<1>4. \A d \in Devs : \/ sessions'[d] = sessions[d]
                      \/ d = dev[s] /\ sessions'[d] = NoSession
  BY <1>0, <1>2 DEF EmitDisconnect, Dropped, TypeOK
<1>5. "disconnect" \in listeners[s] => sessions'[dev[s]] = NoSession
  BY <1>0, <1>2 DEF EmitDisconnect, Dropped, TypeOK
<1>6. TypeOK'
  <2>1. sessions' \in [Devs -> {NoSession} \cup SessionIds]
    BY <1>0, <1>2 DEF EmitDisconnect, Dropped, TypeOK
  <2>2. transport' \in [SessionIds -> {"none", "open", "closed", "failed"}]
    <3>1. CASE connected[s]
      <4>1. transport' = [transport EXCEPT ![s] = IF @ = "open" THEN "closed" ELSE @]
        BY <1>2, <3>1 DEF TearDown, CloseTransport
      <4>2. QED BY <1>0, <1>2, <4>1 DEF TypeOK
    <3>2. CASE ~connected[s]
      BY <1>0, <1>2, <3>2 DEF TypeOK, TearDown, CloseTransport
    <3>3. QED BY <3>1, <3>2
  <2>5. sess_timer' \in [SessionIds -> BOOLEAN]
    <3>1. sess_timer' = [sess_timer EXCEPT ![s] = FALSE]
          \/ sess_timer' = [sess_timer EXCEPT ![s] = left]
      BY <1>2 DEF TearDown, CloseTransport
    <3>2. QED BY Zenon, <1>0, <3>1 DEF TypeOK
  <2>6. connected' \in [SessionIds -> BOOLEAN]
    BY <1>0, <1>2, <1>3 DEF TypeOK
  <2>3. early_closed' \subseteq SessionIds
    BY <1>0, <1>2, <1>3 DEF TypeOK
  <2>4. QED BY <1>0, <1>1, <2>1, <2>2, <2>3, <2>5, <2>6 DEF TypeOK
<1>7. RegistryInv'
  <2>1. RegisteredIsConnected'
    <3>1. ASSUME NEW d \in Devs, sessions'[d] # NoSession
          PROVE  /\ sessions'[d] \in Made' /\ dev'[sessions'[d]] = d
                 /\ "disconnect" \in listeners'[sessions'[d]]
                        => connected'[sessions'[d]]
      <4>1. sessions'[d] = sessions[d] /\ sessions[d] \in Made
            /\ dev[sessions[d]] = d /\ sessions[d] \in SessionIds
            /\ ("disconnect" \in listeners[sessions[d]]
                   => connected[sessions[d]])
        BY <1>0, <1>4, <3>1, MadeIsSession DEF RegistryInv, RegisteredIsConnected
      <4>2. CASE sessions[d] = s
        BY <1>1, <1>2, <1>5, <3>1, <4>1, <4>2
      <4>3. CASE sessions[d] # s
        BY <1>0, <1>1, <1>2, <1>3, <4>1, <4>3 DEF TypeOK
      <4>4. QED BY <4>2, <4>3
    <3>2. QED BY <3>1 DEF RegisteredIsConnected
  <2>2. UnmadeIsConnected'
    BY <1>0, <1>2, <1>3 DEF TypeOK, RegistryInv, UnmadeIsConnected
  <2>3. DiscoveriesCounted'
    BY <1>0, <1>1 DEF RegistryInv, DiscoveriesCounted
  <2>4. (early_closed \subseteq Made)'
    BY <1>0, <1>2, <1>3 DEF RegistryInv
  <2>5. ZombieWasEarlyClosed'
    <3>1. ASSUME NEW t \in SessionIds, ~connected'[t],
                 transport'[t] \in {"none", "open"} \/ sess_timer'[t]
          PROVE  t \in early_closed'
      <4>1. CASE t # s
        BY <1>0, <1>2, <1>3, <3>1, <4>1
           DEF TypeOK, RegistryInv, ZombieWasEarlyClosed
      <4>2. CASE t = s /\ connected[s]
        BY <1>0, <1>2, <3>1, <4>2 DEF TypeOK, TearDown, CloseTransport
      <4>3. CASE t = s /\ ~connected[s]
        <5>1. transport' = transport /\ sess_timer'[s] = left
          BY <1>0, <1>2, <4>3 DEF TypeOK, TearDown, CloseTransport
        <5>2. s \in early_closed
          BY <1>0, <1>2, <3>1, <4>3, <5>1 DEF RegistryInv, ZombieWasEarlyClosed
        <5>3. QED BY <1>3, <4>3, <5>2
      <4>4. QED BY <4>1, <4>2, <4>3
    <3>2. QED BY <3>1 DEF ZombieWasEarlyClosed
  <2>6. UnregisteredNeedsEarlyClose'
    <3>1. ASSUME NEW t \in Made, connected'[t], sessions'[dev[t]] # t
          PROVE  EarlyClosed(dev[t])
      <4>1. t # s /\ connected[t] /\ t \in SessionIds /\ dev[t] \in Devs
        <5>1. t \in SessionIds /\ dev[t] \in Devs
          <6>1. dev \in Seq(Devs) /\ t \in 1 .. Len(dev)
            BY <1>0, <3>1 DEF TypeOK, Made
          <6>2. QED BY <1>0, <3>1, <6>1, MadeIsSession, ElementOfSeq
        <5>2. QED BY <1>0, <1>2, <1>3, <3>1, <5>1 DEF TypeOK
      <4>2. CASE sessions[dev[t]] # t
        BY <1>0, <3>1, <4>1, <4>2 DEF RegistryInv, UnregisteredNeedsEarlyClose
      <4>3. CASE sessions[dev[t]] = t
        <5>1. dev[t] = dev[s] /\ sessions[dev[s]] # s
          BY <1>4, <3>1, <4>1, <4>3
        <5>2. CASE connected[s]
          BY <1>0, <5>1, <5>2 DEF RegistryInv, UnregisteredNeedsEarlyClose
        <5>3. CASE ~connected[s]
          BY <1>0, <1>2, <5>1, <5>3
             DEF RegistryInv, ZombieWasEarlyClosed, EarlyClosed
        <5>4. QED BY <5>2, <5>3
      <4>4. QED BY <4>2, <4>3
    <3>2. QED BY <1>1, <1>2, <1>3, <3>1
              DEF UnregisteredNeedsEarlyClose, EarlyClosed
  <2>7. QED BY <2>1, <2>2, <2>3, <2>4, <2>5, <2>6 DEF RegistryInv
<1>8. QueueInv' /\ StreamInv'
  BY <1>0, <1>1, QueueFrame, StreamFrame
<1>9. QED BY <1>6, <1>7, <1>8 DEF IInv

-----------------------------------------------------------------------------
(* The endpoint opens or does not; a session closed before is one that     *)
(* ZombieWasEarlyClosed names.                                             *)
LEMMA EndpointKeeps ==
    ASSUME IInv, NEW s \in Made,
           ConnectStart(s) \/ ConnectFail(s) \/ ConnectionMade(s)
    PROVE  IInv'
<1>0. TypeOK /\ RegistryInv /\ QueueInv /\ StreamInv /\ s \in SessionIds
  BY MadeIsSession DEF IInv
<1>1. UNCHANGED <<sessions, dev, listeners, connected, queues, phase, queue,
                  written, frames, since, overflowed, discoveries, epoch,
                  early_closed>>
  BY DEF ConnectStart, ConnectFail, ConnectionMade, registry, clients, history
<1>2. TypeOK'
  BY <1>0, <1>1 DEF TypeOK, ConnectStart, ConnectFail, ConnectionMade
<1>3. RegistryInv'
  <2>1. ZombieWasEarlyClosed'
    BY <1>0, <1>1 DEF TypeOK, RegistryInv, ZombieWasEarlyClosed, ConnectStart,
                      ConnectFail, ConnectionMade
  <2>2. QED
    BY <1>0, <1>1, <2>1 DEF RegistryInv, RegisteredIsConnected,
       UnmadeIsConnected, DiscoveriesCounted, UnregisteredNeedsEarlyClose,
       EarlyClosed, Made
<1>4. QueueInv' /\ StreamInv'
  BY <1>0, <1>1, QueueFrame, StreamFrame
<1>5. QED BY <1>2, <1>3, <1>4 DEF IInv

-----------------------------------------------------------------------------
(* on_frame and on_audio: one more chunk, which every receiver gets last.  *)
LEMMA OnChunkKeeps ==
    ASSUME IInv, NEW s \in Made, NEW m \in Media, OnChunk(s, m) PROVE IInv'
<1>0. TypeOK /\ RegistryInv /\ QueueInv /\ StreamInv
  BY DEF IInv
<1> DEFINE f == Feed(dev[s], m)
           n == frames[f] + 1
<1>1. /\ UNCHANGED <<sessions, dev, listeners, transport, peer, connected,
                     sess_timer, queues, phase, written, since, discoveries,
                     epoch, early_closed>>
      /\ frames' = [frames EXCEPT ![f] = n]
      /\ queue' = [c \in Clients |-> IF c \in Receivers(f)
                                     THEN Append(queue[c], n) ELSE queue[c]]
      /\ overflowed' = [c \in Clients |-> \/ overflowed[c]
                                          \/ c \in queues[f] /\ ~HasRoom(c)]
  BY DEF OnChunk, registry, endpoints
<1>2. f \in Feeds /\ n \in Nat
  BY <1>0 DEF TypeOK, Made, Feed, Feeds
<1>3. \A c \in Receivers(f) : c \in Clients /\ Watches[c] = f
                              /\ phase[c] = "streaming" /\ HasRoom(c)
  BY <1>0, <1>2 DEF Receivers, QueueInv, QueuesAreCurrent
<1>4. TypeOK'
  <2>1. frames' \in [Feeds -> Nat] /\ overflowed' \in [Clients -> BOOLEAN]
    BY <1>0, <1>1, <1>2 DEF TypeOK
  <2>2. \A c \in Clients : queue'[c] \in Seq(Nat)
                           /\ Len(queue'[c]) <= QueueSize[Medium(c)]
    <3>1. ASSUME NEW c \in Clients
          PROVE  queue'[c] \in Seq(Nat) /\ Len(queue'[c]) <= QueueSize[Medium(c)]
      <4>1. queue[c] \in Seq(Nat) /\ Len(queue[c]) \in Nat
            /\ Len(queue[c]) <= QueueSize[Medium(c)]
            /\ QueueSize[Medium(c)] \in Nat
        BY <1>0, Constants, LenProperties DEF TypeOK
      <4>2. CASE c \in Receivers(f)
        <5>1. queue'[c] = Append(queue[c], n) /\ HasRoom(c)
          BY <1>1, <1>3, <4>2
        <5>2. Append(queue[c], n) \in Seq(Nat)
              /\ Len(Append(queue[c], n)) = Len(queue[c]) + 1
          BY <1>2, <4>1, AppendProperties
        <5>3. QED BY <4>1, <5>1, <5>2 DEF HasRoom
      <4>3. CASE c \notin Receivers(f)
        BY <1>1, <4>1, <4>3
      <4>4. QED BY <4>2, <4>3
    <3>2. QED BY <3>1
  <2>3. queue' \in [Clients -> Seq(Nat)]
    BY <1>1, <2>2
  <2>4. QED BY <1>0, <1>1, <2>1, <2>2, <2>3 DEF TypeOK
<1>5. RegistryInv' /\ QueueInv'
  BY <1>0, <1>1, RegistryFrame, QueueFrame
<1>6. StreamInv'
  <2> SUFFICES ASSUME NEW c \in Clients
      PROVE /\ phase'[c] \in {"idle", "preparing"}
                   => queue'[c] = <<>> /\ written'[c] = <<>> /\ ~overflowed'[c]
            /\ since'[c] <= frames'[Watches[c]]
            /\ \A i \in 1 .. Len(Stream(c)') : Stream(c)'[i] <= frames'[Watches[c]]
            /\ \A i, j \in 1 .. Len(Stream(c)') :
                   i < j => Stream(c)'[i] < Stream(c)'[j]
            /\ c \in queues'[Watches[c]] /\ ~overflowed'[c]
                   => Stream(c)' = FramesSince(c)'
    BY DEF StreamInv
  <2>1. /\ queue[c] \in Seq(Nat) /\ written[c] \in Seq(Nat)
        /\ Stream(c) \in Seq(Nat) /\ Watches[c] \in Feeds
        /\ frames[Watches[c]] \in Nat /\ since[c] \in Nat
    BY <1>0, Constants, ConcatProperties DEF TypeOK, Stream
  <2>2. since'[c] <= frames'[Watches[c]]
    BY <1>0, <1>1, <1>2, <2>1 DEF TypeOK, StreamInv
  <2>3. CASE c \in Receivers(f)
    <3>1. Watches[c] = f /\ phase[c] = "streaming" /\ c \in queues[f]
      BY <1>3, <2>3 DEF Receivers
    <3>2. Stream(c)' = Append(Stream(c), n)
      <4>1. Stream(c)' = written[c] \o Append(queue[c], n)
        BY <1>1, <2>3 DEF Stream
      <4>2. written[c] \o Append(queue[c], n) = Append(written[c] \o queue[c], n)
        <5>1. \A x \in Nat : written[c] \o Append(queue[c], x)
                              = Append(written[c] \o queue[c], x)
          BY <2>1, ConcatAppend
        <5>2. QED BY <1>2, <5>1
      <4>3. QED BY <4>1, <4>2 DEF Stream
    <3>3. frames'[Watches[c]] = n
      BY <1>0, <1>1, <1>2, <3>1 DEF TypeOK
    <3>4. /\ Len(Stream(c)') = Len(Stream(c)) + 1
          /\ Stream(c)'[Len(Stream(c)) + 1] = n
          /\ \A i \in 1 .. Len(Stream(c)) : Stream(c)'[i] = Stream(c)[i]
      BY <1>2, <2>1, <3>2, AppendProperties
    <3>5. \A i \in 1 .. Len(Stream(c)) : Stream(c)[i] \in Nat /\ Stream(c)[i] < n
      BY <1>0, <1>2, <2>1, <3>1, ElementOfSeq DEF StreamInv
    <3>6. \A i \in 1 .. Len(Stream(c)') : Stream(c)'[i] <= frames'[Watches[c]]
      <4>1. \A i \in 1 .. Len(Stream(c)') : i \in 1 .. Len(Stream(c))
                                              \/ i = Len(Stream(c)) + 1
        <5>1. Len(Stream(c)) \in Nat
          BY <2>1, LenProperties
        <5>2. QED BY <3>4, <5>1
      <4>2. n <= n /\ \A x \in Nat : x < n => x <= n
        BY <1>2
      <4>3. QED BY <3>3, <3>4, <3>5, <4>1, <4>2
    <3>7. \A i, j \in 1 .. Len(Stream(c)') : i < j => Stream(c)'[i] < Stream(c)'[j]
      <4>1. ASSUME NEW i \in 1 .. Len(Stream(c)'), NEW j \in 1 .. Len(Stream(c)'),
                   i < j
            PROVE  Stream(c)'[i] < Stream(c)'[j]
        <5>1. Len(Stream(c)) \in Nat /\ i \in 1 .. Len(Stream(c))
          BY <2>1, <3>4, <4>1, LenProperties
        <5>2. CASE j = Len(Stream(c)) + 1
          BY <3>4, <3>5, <5>1, <5>2
        <5>3. CASE j # Len(Stream(c)) + 1
          <6>1. j \in 1 .. Len(Stream(c))
            BY <3>4, <5>1, <5>3
          <6>2. QED BY <1>0, <3>4, <4>1, <5>1, <6>1 DEF StreamInv
        <5>4. QED BY <5>2, <5>3
      <4>2. QED BY <4>1
    <3>8. ASSUME ~overflowed'[c]
          PROVE  Stream(c)' = FramesSince(c)'
      <4>1. Stream(c) = FramesSince(c)
        BY <1>0, <1>1, <3>1, <3>8 DEF StreamInv
      <4>2. frames[Watches[c]] + 1 - since[c] = frames[Watches[c]] - since[c] + 1
            /\ frames[Watches[c]] - since[c] \in Nat
        BY <1>0, <2>1 DEF StreamInv
      <4>3. Len(Stream(c)) = frames[Watches[c]] - since[c]
        BY <4>1, <4>2 DEF FramesSince
      <4>4. FramesSince(c)' = [i \in 1 .. Len(Stream(c)) + 1 |-> since[c] + i]
        <5>1. since' = since /\ frames'[Watches[c]] = frames[Watches[c]] + 1
          BY <1>1, <3>1, <3>3
        <5>2. FramesSince(c)' = [i \in 1 .. frames'[Watches[c]] - since'[c]
                                     |-> since'[c] + i]
          BY DEF FramesSince
        <5>3. frames'[Watches[c]] - since'[c] = Len(Stream(c)) + 1
              /\ since'[c] = since[c]
          BY <2>1, <4>2, <4>3, <5>1
        <5>4. QED BY <5>2, <5>3
      <4>5. DOMAIN Stream(c)' = 1 .. Len(Stream(c)) + 1
            /\ Stream(c)' \in Seq(Nat)
        BY <1>2, <2>1, <3>2, AppendProperties
      <4>6. \A i \in 1 .. Len(Stream(c)) + 1 : Stream(c)'[i] = since[c] + i
        <5>1. ASSUME NEW i \in 1 .. Len(Stream(c)) + 1
              PROVE  Stream(c)'[i] = since[c] + i
          <6>1. CASE i = Len(Stream(c)) + 1
            BY <2>1, <3>1, <3>4, <4>3, <6>1
          <6>2. CASE i # Len(Stream(c)) + 1
            <7>1. i \in 1 .. Len(Stream(c))
              BY <4>2, <4>3, <6>2
            <7>2. Stream(c)[i] = since[c] + i
              BY <4>1, <4>3, <7>1 DEF FramesSince
            <7>3. QED BY <3>4, <7>1, <7>2
          <6>3. QED BY <6>1, <6>2
        <5>2. QED BY <5>1
      <4>7. Stream(c)' = [i \in 1 .. Len(Stream(c)) + 1 |-> Stream(c)'[i]]
        BY <4>5
      <4>8. QED BY <4>4, <4>6, <4>7
    <3>9. QED BY <1>1, <2>2, <3>1, <3>6, <3>7, <3>8
  <2>4. CASE c \notin Receivers(f)
    <3>1. queue'[c] = queue[c] /\ Stream(c)' = Stream(c)
      BY <1>1, <2>4 DEF Stream
    <3>2. frames[Watches[c]] <= frames'[Watches[c]] /\ frames'[Watches[c]] \in Nat
      BY <1>0, <1>1, <1>2, <2>1 DEF TypeOK
    <3>3. \A i \in 1 .. Len(Stream(c)) : Stream(c)[i] <= frames'[Watches[c]]
      BY <1>0, <2>1, <3>2, ElementOfSeq DEF StreamInv
    <3>4. c \in queues[Watches[c]] /\ ~overflowed'[c]
             => Watches[c] # f /\ ~overflowed[c]
      BY <1>1, <2>4 DEF Receivers
    <3>5. Watches[c] # f => FramesSince(c)' = FramesSince(c)
      BY <1>0, <1>1, <1>2, <2>1 DEF TypeOK, FramesSince
    <3>6. phase[c] \in {"idle", "preparing"} => c \notin queues[f]
      BY <1>0, <1>2 DEF QueueInv, QueuesAreCurrent
    <3>7. phase[c] \in {"idle", "preparing"} => ~overflowed'[c]
      BY <1>0, <1>1, <3>6 DEF StreamInv
    <3>8. QED
      BY <1>0, <1>1, <2>2, <3>1, <3>3, <3>4, <3>5, <3>7 DEF StreamInv
  <2>5. QED BY <2>3, <2>4
<1>7. QED BY <1>4, <1>5, <1>6 DEF IInv

LEMMA SessionStepKeeps ==
    ASSUME IInv, NEW s \in Made, SessionStep(s) PROVE IInv'
<1>0. TypeOK /\ s \in SessionIds /\ sess_timer[s] \in BOOLEAN
  BY MadeIsSession DEF IInv, TypeOK
<1>1. CASE ConnectStart(s) \/ ConnectFail(s) \/ ConnectionMade(s)
  BY <1>1, EndpointKeeps
<1>2. CASE TimedOut(s)
  BY <1>2, DisconnectKeeps DEF TimedOut
<1>3. CASE CloseFromCamera(s)
  BY <1>0, <1>3, DisconnectKeeps DEF CloseFromCamera, Listening
<1>4. CASE \E m \in Media : OnChunk(s, m)
  BY <1>4, OnChunkKeeps
<1>5. QED BY <1>1, <1>2, <1>3, <1>4 DEF SessionStep

-----------------------------------------------------------------------------
(* The handler of a request joins the list that is current when it does,   *)
(* and takes its queue out only of the list of its own feed.               *)
LEMMA ClientStepKeeps ==
    ASSUME IInv, NEW c \in Clients, ClientStep(c) PROVE IInv'
<1>0. TypeOK /\ RegistryInv /\ QueueInv /\ StreamInv
  BY DEF IInv
<1>1. UNCHANGED <<sessions, dev, listeners, transport, peer, connected,
                  sess_timer, frames, overflowed, discoveries, early_closed>>
  BY DEF ClientStep, ClientOpen, ClientPrepared, ClientGet, ClientGone,
         registry, endpoints, history
<1>2. RegistryInv'
  BY <1>0, <1>1, RegistryFrame
<1>3. Watches[c] \in Feeds /\ Watches[c][1] \in Devs
  BY Constants
<1>4. CASE ClientOpen(c)
  <2>1. /\ phase[c] = "idle" /\ phase' = [phase EXCEPT ![c] = "preparing"]
        /\ UNCHANGED <<queues, queue, written, since, epoch>>
    BY <1>4 DEF ClientOpen, history
  <2>2. TypeOK'
    BY <1>0, <1>1, <2>1 DEF TypeOK
  <2>3. \A b \in Clients :
           /\ phase'[b] = "streaming" <=> phase[b] = "streaming"
           /\ phase'[b] \in {"idle", "preparing"}
                 <=> phase[b] \in {"idle", "preparing"}
    BY <1>0, <2>1 DEF TypeOK
  <2>4. QueueInv' /\ StreamInv'
    BY <1>0, <1>1, <2>1, <2>3
       DEF QueueInv, QueuesAreCurrent, EpochsPast, StreamInv, Stream, FramesSince
  <2>5. QED BY <1>2, <2>2, <2>4 DEF IInv
<1>5. CASE ClientPrepared(c)
  <2>1. /\ phase[c] = "preparing"
        /\ phase' = [phase EXCEPT ![c] = "streaming"]
        /\ queues' = [queues EXCEPT ![Watches[c]] = @ \cup {c}]
        /\ since' = [since EXCEPT ![c] = frames[Watches[c]]]
        /\ epoch' = [epoch EXCEPT ![c] = discoveries[Watches[c][1]]]
        /\ UNCHANGED <<queue, written>>
    BY <1>5 DEF ClientPrepared
  <2>2. frames[Watches[c]] \in Nat /\ discoveries[Watches[c][1]] \in 0 .. MaxSessions
    BY <1>0, <1>3 DEF TypeOK
  <2>3. TypeOK'
    BY <1>0, <1>1, <1>3, <2>1, <2>2 DEF TypeOK
  <2>4. EpochsPast'
    BY <1>0, <1>1, <1>3, <2>1, <2>2 DEF TypeOK, QueueInv, EpochsPast
  <2>5. ASSUME NEW f \in Feeds
        PROVE  queues'[f] = {b \in Clients : /\ Watches[b] = f
                                             /\ phase'[b] = "streaming"
                                             /\ epoch'[b] = discoveries'[f[1]]}
    <3>1. queues[f] = {b \in Clients : /\ Watches[b] = f
                                       /\ phase[b] = "streaming"
                                       /\ epoch[b] = discoveries[f[1]]}
      BY <1>0 DEF QueueInv, QueuesAreCurrent
    <3>2. CASE f = Watches[c]
      BY <1>0, <1>1, <2>1, <3>1, <3>2 DEF TypeOK
    <3>3. CASE f # Watches[c]
      BY <1>0, <1>1, <2>1, <3>1, <3>3 DEF TypeOK
    <3>4. QED BY <3>2, <3>3
  <2>6. StreamInv'
    <3>1. ASSUME NEW b \in Clients, b # c
          PROVE  /\ phase'[b] = phase[b] /\ since'[b] = since[b]
                 /\ Stream(b)' = Stream(b) /\ FramesSince(b)' = FramesSince(b)
                 /\ b \in queues'[Watches[b]] => b \in queues[Watches[b]]
      BY <1>0, <1>1, <2>1, <3>1, Constants DEF TypeOK, Stream, FramesSince
    <3>2. Stream(c)' = <<>> /\ since'[c] = frames[Watches[c]]
          /\ phase'[c] = "streaming"
      BY <1>0, <2>1 DEF TypeOK, StreamInv, Stream
    <3>3. FramesSince(c)' = <<>>
      BY <1>1, <2>2, <3>2 DEF FramesSince
    <3>4. QED
      BY <1>0, <1>1, <2>1, <2>2, <3>1, <3>2, <3>3 DEF StreamInv
  <2>7. QED BY <1>2, <2>3, <2>4, <2>5, <2>6 DEF IInv, QueueInv, QueuesAreCurrent
<1>6. CASE ClientGet(c)
  <2>1. /\ phase[c] = "streaming" /\ queue[c] # <<>>
        /\ queue' = [queue EXCEPT ![c] = Tail(@)]
        /\ written' = [written EXCEPT ![c] = Append(@, Head(queue[c]))]
        /\ UNCHANGED <<queues, phase, since, epoch>>
    BY <1>6 DEF ClientGet, history
  <2>2. queue[c] \in Seq(Nat) /\ written[c] \in Seq(Nat)
        /\ Head(queue[c]) \in Nat /\ Tail(queue[c]) \in Seq(Nat)
        /\ Len(Tail(queue[c])) = Len(queue[c]) - 1
    BY <1>0, <2>1, HeadTailProperties DEF TypeOK
  <2>3. TypeOK'
    <3>1. queue' \in [Clients -> Seq(Nat)] /\ written' \in [Clients -> Seq(Nat)]
      BY <1>0, <2>1, <2>2, AppendProperties DEF TypeOK
    <3>2. \A b \in Clients : Len(queue'[b]) <= QueueSize[Medium(b)]
      <4>1. Len(queue[c]) \in Nat
        BY <2>2, LenProperties
      <4>2. QED BY <1>0, <2>1, <2>2, <4>1, Constants DEF TypeOK
    <3>3. QED BY <1>0, <1>1, <2>1, <3>1, <3>2 DEF TypeOK
  <2>4. \A b \in Clients : Stream(b)' = Stream(b)
    <3>1. Append(written[c], Head(queue[c])) \o Tail(queue[c])
             = written[c] \o queue[c]
      BY <2>1, <2>2, MoveHead
    <3>2. QED BY <1>0, <2>1, <3>1 DEF TypeOK, Stream
  <2>5. QueueInv'
    BY <1>0, <1>1, <2>1, QueueFrame
  <2>6. StreamInv'
    <3>1. \A b \in Clients : phase[b] \in {"idle", "preparing"}
             => queue'[b] = queue[b] /\ written'[b] = written[b]
      BY <1>0, <2>1 DEF TypeOK
    <3>2. QED BY <1>0, <1>1, <2>1, <2>4, <3>1 DEF StreamInv, FramesSince
  <2>7. QED BY <1>2, <2>3, <2>5, <2>6 DEF IInv
<1>7. CASE ClientGone(c)
  <2>1. /\ phase[c] \in {"preparing", "streaming"}
        /\ phase' = [phase EXCEPT ![c] = "ended"]
        /\ phase[c] = "streaming" =>
              queues' = [queues EXCEPT ![Watches[c]] = @ \ {c}]
        /\ phase[c] # "streaming" => queues' = queues
        /\ UNCHANGED <<queue, written, since, epoch>>
    BY <1>7 DEF ClientGone, QueueRemoved, history
  <2>2. TypeOK'
    BY <1>0, <1>1, <1>3, <2>1 DEF TypeOK
  <2>3. ASSUME NEW f \in Feeds
        PROVE  queues'[f] = {b \in Clients : /\ Watches[b] = f
                                             /\ phase'[b] = "streaming"
                                             /\ epoch'[b] = discoveries'[f[1]]}
    <3>1. queues[f] = {b \in Clients : /\ Watches[b] = f
                                       /\ phase[b] = "streaming"
                                       /\ epoch[b] = discoveries[f[1]]}
      BY <1>0 DEF QueueInv, QueuesAreCurrent
    <3>2. CASE phase[c] = "streaming" /\ f = Watches[c]
      BY <1>0, <1>1, <2>1, <3>1, <3>2 DEF TypeOK
    <3>3. CASE phase[c] = "streaming" /\ f # Watches[c]
      BY <1>0, <1>1, <2>1, <3>1, <3>3 DEF TypeOK
    <3>4. CASE phase[c] # "streaming"
      BY <1>0, <1>1, <2>1, <3>1, <3>4 DEF TypeOK
    <3>5. QED BY <3>2, <3>3, <3>4
  <2>4. QueueInv'
    BY <1>0, <1>1, <2>1, <2>3 DEF QueueInv, QueuesAreCurrent, EpochsPast
  <2>5. StreamInv'
    <3>1. \A b \in Clients :
             /\ b \in queues'[Watches[b]] => b \in queues[Watches[b]]
             /\ phase'[b] \in {"idle", "preparing"}
                   => phase[b] \in {"idle", "preparing"}
      BY <1>0, <2>1, Constants DEF TypeOK
    <3>2. QED BY <1>0, <1>1, <2>1, <3>1 DEF StreamInv, Stream, FramesSince
  <2>6. QED BY <1>2, <2>2, <2>4, <2>5 DEF IInv
<1>8. QED BY <1>4, <1>5, <1>6, <1>7 DEF ClientStep

-----------------------------------------------------------------------------
LEMMA Invariance == IInv /\ [Next]_vars => IInv'
<1> SUFFICES ASSUME IInv, [Next]_vars PROVE IInv'
  OBVIOUS
<1>1. ASSUME NEW d \in Devs, Discover(d) PROVE IInv'
  BY <1>1, DiscoverKeeps
<1>2. ASSUME NEW d \in Devs, Reconnect(d) PROVE IInv'
  <2>1. sessions[d] \in Made /\ dev[sessions[d]] = d
    BY <1>2 DEF IInv, RegistryInv, RegisteredIsConnected, Reconnect
  <2>2. sess_timer[sessions[d]] \in BOOLEAN
    BY <2>1, MadeIsSession DEF IInv, TypeOK
  <2>3. QED BY <1>2, <2>1, <2>2, DisconnectKeeps DEF Reconnect
<1>3. ASSUME NEW s \in Made, SessionStep(s) PROVE IInv'
  BY <1>3, SessionStepKeeps
<1>4. ASSUME NEW c \in Clients, ClientStep(c) PROVE IInv'
  BY <1>4, ClientStepKeeps
<1>5. CASE UNCHANGED vars
  <2>1. TypeOK'
    BY <1>5 DEF IInv, TypeOK, vars, registry, endpoints, clients, history
  <2>2. QED
    BY <1>5, <2>1, RegistryFrame, QueueFrame, StreamFrame
       DEF IInv, vars, registry, endpoints, clients, history
<1>6. QED BY <1>1, <1>2, <1>3, <1>4, <1>5 DEF Next

(* The variables of http_server.py and of its sessions have their types,   *)
(* and no client's queue holds more than its maxsize.                      *)
THEOREM TypeCorrect == Spec => []TypeOK
<1>1. IInv => TypeOK
  BY DEF IInv
<1>2. QED BY <1>1, Initially, Invariance, PTL DEF Spec

(* The registry of http_server.py never names a dead session, if the       *)
(* session's discovery ran to the end.                                     *)
THEOREM RegistryIsLive == Spec => []RegisteredIsConnected
<1>1. IInv => RegisteredIsConnected
  BY DEF IInv, RegistryInv
<1>2. QED BY <1>1, Initially, Invariance, PTL DEF Spec

(* The queue lists of http_server.py hold exactly the queues of the        *)
(* handlers that registered since the camera was last discovered.          *)
THEOREM QueueListsAreExact == Spec => []QueuesAreCurrent
<1>1. IInv => QueuesAreCurrent
  BY DEF IInv, QueueInv
<1>2. QED BY <1>1, Initially, Invariance, PTL DEF Spec

(* What a client of http_server.py is written is in order, and complete    *)
(* unless its own queue was full.                                          *)
THEOREM StreamsFaithful == Spec => []StreamsAreFaithful
<1>1. IInv => StreamsAreFaithful
  BY DEF IInv, StreamInv, StreamsAreFaithful
<1>2. QED BY <1>1, Initially, Invariance, PTL DEF Spec

(* A camera of http_server.py gets a second live session only after one of *)
(* its sessions was closed before its endpoint opened.                     *)
THEOREM SecondSession == Spec => []SecondSessionNeedsEarlyClose
<1>1. ASSUME IInv, NEW s \in Made, NEW t \in Made, s # t, dev[s] = dev[t],
             connected[s], connected[t]
      PROVE  \E e \in early_closed : dev[e] = dev[s]
  <2>1. sessions[dev[s]] # s \/ sessions[dev[t]] # t
    BY <1>1
  <2>2. EarlyClosed(dev[s])
    BY <1>1, <2>1 DEF IInv, RegistryInv, UnregisteredNeedsEarlyClose
  <2>3. QED BY <2>2 DEF EarlyClosed
<1>2. IInv => SecondSessionNeedsEarlyClose
  BY <1>1 DEF SecondSessionNeedsEarlyClose
<1>3. QED BY <1>2, Initially, Invariance, PTL DEF Spec

-----------------------------------------------------------------------------
(* Each session's life.  A step touches one session at most, and that one   *)
(* as SessionLife has it; the rest of the registry does not matter.         *)

Lives(s) == [Life(s)!Next]_(Life(s)!vars)

(* Two listeners of one disconnect, and a disconnect of a session that is   *)
(* no longer registered: the session goes, or its timeout task, or nothing. *)
LEMMA DisconnectLives ==
    ASSUME TypeOK, NEW s \in SessionIds, NEW left \in BOOLEAN,
           left = sess_timer[s] \/ sess_timer[s],
           EmitDisconnect(s, left), NEW r \in SessionIds
    PROVE  Lives(r)
<1> USE DEF Lives, Life!Next, Life!vars
<1>1. TearDown(s, left) /\ UNCHANGED peer
  BY DEF EmitDisconnect
<1>2. /\ transport \in [SessionIds -> {"none", "open", "closed", "failed"}]
      /\ connected \in [SessionIds -> BOOLEAN]
      /\ sess_timer \in [SessionIds -> BOOLEAN]
  BY DEF TypeOK
<1>3. CASE r # s
  <2>1. /\ transport'[r] = transport[r] /\ connected'[r] = connected[r]
        /\ sess_timer'[r] = sess_timer[r]
    BY <1>1, <1>2, <1>3 DEF TearDown
  <2>2. QED BY <1>1, <2>1
<1>4. CASE r = s /\ connected[s]
  <2>1. /\ transport'[s] = CloseTransport(s)
        /\ ~connected'[s] /\ ~sess_timer'[s]
    BY <1>1, <1>2, <1>4 DEF TearDown
  <2>2. QED BY <1>1, <1>4, <2>1 DEF CloseTransport, Life!Disconnect
<1>5. CASE r = s /\ ~connected[s]
  <2>1. /\ transport'[s] = transport[s] /\ connected'[s] = connected[s]
        /\ sess_timer'[s] = left
    BY <1>1, <1>2, <1>5 DEF TearDown
  <2>2. CASE left = sess_timer[s]
    BY <1>1, <1>5, <2>1, <2>2
  <2>3. CASE ~left /\ sess_timer[s]
    BY <1>1, <1>5, <2>1, <2>3 DEF Life!GiveUp
  <2>4. QED BY <2>2, <2>3
<1>6. QED BY <1>3, <1>4, <1>5

LEMMA EndpointLives ==
    ASSUME TypeOK, NEW s \in SessionIds,
           ConnectStart(s) \/ ConnectFail(s) \/ ConnectionMade(s),
           NEW r \in SessionIds
    PROVE  Lives(r)
<1> USE DEF Lives, Life!Next, Life!vars
<1>1. /\ transport \in [SessionIds -> {"none", "open", "closed", "failed"}]
      /\ peer \in [SessionIds -> {"unresolved", "camera", "nowhere"}]
      /\ connected \in [SessionIds -> BOOLEAN]
      /\ sess_timer \in [SessionIds -> BOOLEAN]
  BY DEF TypeOK
<1>2. CASE r # s
  <2>1. /\ transport'[r] = transport[r] /\ connected'[r] = connected[r]
        /\ sess_timer'[r] = sess_timer[r] /\ peer'[r] = peer[r]
    BY <1>1, <1>2 DEF ConnectStart, ConnectFail, ConnectionMade
  <2>2. QED BY <2>1
<1>3. CASE r = s /\ ConnectStart(s)
  <2>1. /\ peer'[s] = IF connected[s] THEN "camera" ELSE "nowhere"
        /\ UNCHANGED <<transport, connected, sess_timer>>
        /\ transport[s] = "none" /\ peer[s] = "unresolved"
    BY <1>1, <1>3 DEF ConnectStart
  <2>2. QED BY <1>3, <2>1 DEF Life!Connect
<1>4. CASE r = s /\ ConnectFail(s)
  <2>1. /\ transport'[s] = "failed" /\ UNCHANGED <<peer, connected, sess_timer>>
        /\ transport[s] = "none" /\ peer[s] # "unresolved"
    BY <1>1, <1>4 DEF ConnectFail
  <2>2. QED BY <1>4, <2>1 DEF Life!Fail
<1>5. CASE r = s /\ ConnectionMade(s)
  <2>1. /\ transport'[s] = "open" /\ sess_timer'[s]
        /\ UNCHANGED <<peer, connected>>
        /\ transport[s] = "none" /\ peer[s] # "unresolved"
    BY <1>1, <1>5 DEF ConnectionMade
  <2>2. QED BY <1>5, <2>1 DEF Life!Open
<1>6. QED BY <1>2, <1>3, <1>4, <1>5

LEMMA EveryLifeStep ==
    IInv /\ [Next]_vars => \A r \in SessionIds : Lives(r)
<1> SUFFICES ASSUME IInv, [Next]_vars, NEW r \in SessionIds PROVE Lives(r)
  OBVIOUS
<1>0. TypeOK /\ Made \subseteq SessionIds
  BY MadeIsSession DEF IInv
<1>1. CASE UNCHANGED endpoints
  BY <1>1 DEF endpoints, Lives, Life!vars
<1>2. ASSUME NEW d \in Devs, Reconnect(d) PROVE Lives(r)
  <2>1. sessions[d] \in SessionIds
    BY <1>0, <1>2 DEF IInv, RegistryInv, RegisteredIsConnected, Reconnect
  <2>2. sess_timer[sessions[d]] \in BOOLEAN
    BY <1>0, <2>1 DEF TypeOK
  <2>3. QED BY <1>0, <1>2, <2>1, <2>2, DisconnectLives DEF Reconnect
<1>3. ASSUME NEW s \in Made, SessionStep(s) PROVE Lives(r)
  <2>1. s \in SessionIds /\ sess_timer[s] \in BOOLEAN
    BY <1>0 DEF TypeOK
  <2>2. CASE ConnectStart(s) \/ ConnectFail(s) \/ ConnectionMade(s)
    BY <1>0, <2>1, <2>2, EndpointLives
  <2>3. CASE TimedOut(s)
    BY <1>0, <2>1, <2>3, DisconnectLives DEF TimedOut
  <2>4. CASE CloseFromCamera(s)
    BY <1>0, <2>1, <2>4, DisconnectLives DEF CloseFromCamera
  <2>5. ASSUME NEW m \in Media, OnChunk(s, m) PROVE Lives(r)
    BY <1>1, <2>5 DEF OnChunk
  <2>6. QED BY <1>3, <2>2, <2>3, <2>4, <2>5 DEF SessionStep
<1>4. ASSUME NEW d \in Devs, Discover(d) PROVE Lives(r)
  BY <1>1, <1>4 DEF Discover
<1>5. ASSUME NEW c \in Clients, ClientStep(c) PROVE Lives(r)
  BY <1>1, <1>5 DEF ClientStep, ClientOpen, ClientPrepared, ClientGet, ClientGone
<1>6. CASE UNCHANGED vars
  BY <1>1, <1>6 DEF vars
<1>7. QED BY <1>2, <1>3, <1>4, <1>5, <1>6 DEF Next

(* Every session http_server.py makes lives as session.py lets its owner    *)
(* expect, in any order of discovery, timeout, Close and reconnect.         *)
THEOREM EverySessionLivesOn == Spec => SessionsLiveAsTold
<1>1. Init => \A s \in SessionIds : Life(s)!Init
  BY DEF Init, Life!Init
<1>2. IInv /\ [Next]_vars =>
         [\A s \in SessionIds : [Life(s)!Next]_(Life(s)!vars)]_vars
  BY EveryLifeStep DEF Lives
<1>3. QED BY <1>1, <1>2, Initially, Invariance, PTL
          DEF Spec, SessionsLiveAsTold

(* What no session does no session of the registry does: a timeout task     *)
(* runs only where an endpoint has opened.                                  *)
TimerNeedsEndpoint ==
    \A s \in SessionIds : sess_timer[s] => transport[s] \in {"open", "closed"}

LEMMA TimerStep ==
    TimerNeedsEndpoint /\ (\A s \in SessionIds : Lives(s)) => TimerNeedsEndpoint'
<1> SUFFICES ASSUME TimerNeedsEndpoint, NEW s \in SessionIds, Lives(s), sess_timer'[s]
             PROVE  transport'[s] \in {"open", "closed"}
  BY DEF TimerNeedsEndpoint
<1>1. CASE UNCHANGED Life(s)!vars
  BY <1>1 DEF Life!vars, TimerNeedsEndpoint
<1>2. CASE Life(s)!Connect \/ Life(s)!Fail
  BY <1>2 DEF Life!Connect, Life!Fail, TimerNeedsEndpoint
<1>3. CASE Life(s)!Open
  BY <1>3 DEF Life!Open
<1>4. ~Life(s)!Disconnect /\ ~Life(s)!GiveUp
  BY DEF Life!Disconnect, Life!GiveUp
<1>5. QED BY <1>1, <1>2, <1>3, <1>4 DEF Lives, Life!Next

(* A disconnect that takes a failed session out of the registry comes from  *)
(* another session of its camera, one that should no longer exist.          *)
LEMMA FreedByAnother ==
    ASSUME IInv, TimerNeedsEndpoint, NEW d \in Devs, sessions[d] # NoSession,
           transport[sessions[d]] = "failed", sessions'[d] # sessions[d],
           NEW s \in Made, TimedOut(s) \/ CloseFromCamera(s)
    PROVE  EarlyClosed(d)
<1>1. sess_timer[s] \/ transport[s] = "open"
  BY DEF TimedOut, CloseFromCamera, Listening
<1>2. s \in SessionIds /\ sessions \in [Devs -> {NoSession} \cup SessionIds]
  BY MadeIsSession DEF IInv, TypeOK
<1>3. dev[s] = d
  <2>1. sessions' = Dropped(s) \/ sessions' = sessions
    BY DEF TimedOut, CloseFromCamera, EmitDisconnect
  <2>2. QED BY <1>2, <2>1 DEF Dropped
<1>4. s # sessions[d]
  BY <1>1, <1>2 DEF TimerNeedsEndpoint
<1>5. CASE connected[s]
  BY <1>3, <1>4, <1>5 DEF IInv, RegistryInv, UnregisteredNeedsEarlyClose
<1>6. CASE ~connected[s]
  <2>1. s \in early_closed
    BY <1>1, <1>2, <1>6 DEF IInv, RegistryInv, ZombieWasEarlyClosed
  <2>2. QED BY <1>3, <2>1 DEF EarlyClosed
<1>7. QED BY <1>5, <1>6

LEMMA FailedStep ==
    ASSUME IInv, TimerNeedsEndpoint, Next, NEW d \in Devs, sessions[d] # NoSession,
           transport[sessions[d]] = "failed", sessions'[d] # sessions[d]
    PROVE  Reconnect(d) \/ EarlyClosed(d)
<1>0. sessions \in [Devs -> {NoSession} \cup SessionIds]
  BY DEF IInv, TypeOK
<1>1. ASSUME NEW e \in Devs, Discover(e) PROVE FALSE
  BY <1>0, <1>1 DEF Discover, Unknown
<1>2. ASSUME NEW e \in Devs, Reconnect(e) PROVE Reconnect(d)
  <2>1. dev[sessions[e]] = e
    BY <1>2 DEF IInv, RegistryInv, RegisteredIsConnected, Reconnect
  <2>2. sessions' = Dropped(sessions[e]) \/ sessions' = sessions
    BY <1>2 DEF Reconnect, EmitDisconnect
  <2>3. e = d
    BY <1>0, <2>1, <2>2 DEF Dropped
  <2>4. QED BY <1>2, <2>3
<1>3. ASSUME NEW s \in Made, SessionStep(s) PROVE EarlyClosed(d)
  <2>1. ASSUME NEW m \in Media PROVE ~OnChunk(s, m)
    BY DEF OnChunk, registry
  <2>2. ~ConnectStart(s) /\ ~ConnectFail(s) /\ ~ConnectionMade(s)
    BY DEF ConnectStart, ConnectFail, ConnectionMade, registry
  <2>3. QED BY <1>3, <2>1, <2>2, FreedByAnother DEF SessionStep
<1>4. ASSUME NEW c \in Clients PROVE ~ClientStep(c)
  BY DEF ClientStep, ClientOpen, ClientPrepared, ClientGet, ClientGone, registry
<1>5. QED BY <1>1, <1>2, <1>3, <1>4 DEF Next

(* A camera whose connect task died (session.py:101) is blocked in the      *)
(* registry of http_server.py until somebody asks for a reconnect, or until *)
(* a session that was closed too early times out.                           *)
THEOREM FailedBlocks == Spec => FailedBlocksCamera
<1>1. Init => TimerNeedsEndpoint
  BY DEF Init, TimerNeedsEndpoint
<1>2. IInv /\ TimerNeedsEndpoint /\ [Next]_vars => TimerNeedsEndpoint'
  BY EveryLifeStep, TimerStep
<1>3. IInv /\ TimerNeedsEndpoint /\ [Next]_vars =>
        [\A d \in Devs :
            sessions[d] # NoSession /\ transport[sessions[d]] = "failed" =>
                \/ sessions'[d] = sessions[d]
                \/ Reconnect(d)
                \/ \E e \in early_closed : dev[e] = d]_vars
  BY FailedStep DEF EarlyClosed
<1>4. QED BY <1>1, <1>2, <1>3, Initially, Invariance, PTL
          DEF Spec, FailedBlocksCamera
=============================================================================
