---------------------------- MODULE PairingProofs ----------------------------
(* Machine-checked proofs about Pairing, for every value of its constants.  *)
(* The owner's steps are steps of the session or make a new one, so the     *)
(* inductive invariant of SessionProofs holds of each of its sessions.      *)
(* That credentials go out once needs, beside it, that a session which was  *)
(* disconnected hears no second answer: its endpoint is closed.             *)
EXTENDS Pairing, SessionProofs

QuietNext ==
    \/ ConnectStart \/ ConnectFail \/ ConnectionMade \/ CameraHears \/ Arrival
    \/ SessTick \/ ResendTick \/ Tick

LEMMA PairNextCases ==
    PairNext => \/ ListWifiAnswer \/ OnDiscover
                \/ QuietNext /\ OnDisconnect /\ UNCHANGED made
BY DEF PairNext, Quietly, QuietNext

(* What the owner's reactions rest on: no step but OnDiscover revives a     *)
(* session, and none but ListWifiAnswer sends credentials.                  *)
IssuesOther ==
    \E cmds \in {<<"ConnectUser">>, <<"ListWifi">>, LoginCommands} :
    \E t \in Tickets \cup {NoTicket} : Issue(cmds, t)

LEMMA QuietFacts ==
    ASSUME TypeOK, QuietNext
    PROVE  /\ Next
           /\ connected' => connected
           /\ \/ msgs' = msgs
              \/ IssuesOther /\ Listening /\ connected' = connected
<1>0. ticket \in Tickets \cup {NoTicket}
  BY DEF TypeOK
<1>1. CASE ConnectStart \/ ConnectFail \/ ConnectionMade \/ CameraHears
           \/ ResendTick \/ Tick
  BY <1>1 DEF ConnectStart, ConnectFail, ConnectionMade, CameraHears, ResendTick, Tick,
              Next, Endpoint, Timers, lifecycle, commands
<1>2. CASE SessTick
  BY <1>2 DEF SessTick, Disconnect, Next, Timers, commands
<1>3. CASE ReceiveP2pRdy
  BY <1>0, <1>3 DEF ReceiveP2pRdy, IssuesOther, Next, Receive, lifecycle
<1>4. CASE ReceiveWifiSettingsAck
  BY <1>0, <1>4 DEF ReceiveWifiSettingsAck, IssuesOther, Next, Receive, lifecycle
<1>5. ASSUME NEW t \in Tickets, ReceiveConnectUserAck(t)
      PROVE  Next /\ IssuesOther /\ Listening /\ connected' = connected
  BY <1>5 DEF ReceiveConnectUserAck, Login, IssuesOther, Next, Receive, lifecycle
<1>6. ASSUME NEW ids \in SUBSET HeardIds, ReceiveDrwAck(ids)
      PROVE  Next /\ connected' = connected /\ msgs' = msgs
  BY <1>6 DEF ReceiveDrwAck, Next, Receive, lifecycle
<1>7. CASE ReceiveAlive
  BY <1>7 DEF ReceiveAlive, Next, Receive, lifecycle, commands
<1>8. ASSUME NEW len \in CloseLengths, ReceiveClose(len)
      PROVE  Next /\ (connected' => connected) /\ msgs' = msgs
  BY <1>8 DEF ReceiveClose, Disconnect, Next, Receive, lifecycle, commands
<1>9. ASSUME NEW ids \in SUBSET HeardIds, ReceiveCroppedDrwAck(ids)
      PROVE  Next /\ connected' = connected /\ msgs' = msgs
  BY <1>9 DEF ReceiveCroppedDrwAck, Next, Receive, lifecycle
<1>10. QED
  BY <1>1, <1>2, <1>3, <1>4, <1>5, <1>6, <1>7, <1>8, <1>9 DEF QuietNext, Arrival

(* A listing that is handled issues the credentials or nothing.             *)
LEMMA AnswerFacts ==
    ASSUME ListWifiAnswer
    PROVE  /\ UNCHANGED <<pairing, made>>
           /\ \/ /\ ReceiveListWifiAck(<<"WifiSettingsSet">>)
                 /\ ~configured /\ configured' = TRUE
              \/ ReceiveListWifiAck(<<>>) /\ UNCHANGED configured
              \/ UNCHANGED <<vars, configured>>
BY DEF ListWifiAnswer, OnListWifi, Configures

-----------------------------------------------------------------------------
(* The session's invariant.                                                 *)

LEMMA SessionInvInit == Init' => IInv'
BY IInvInit, PTL

LEMMA SessionInvStep == IInv /\ [PairNext]_pairVars => IInv'
<1> SUFFICES ASSUME IInv, [PairNext]_pairVars PROVE IInv'
  OBVIOUS
<1>1. TypeOK
  BY DEF IInv
<1>2. CASE UNCHANGED vars
  BY <1>2, IInvStep
<1>3. CASE Next
  BY <1>3, IInvStep
<1>4. CASE ListWifiAnswer
  <2>1. ASSUME NEW reply \in ListWifiReplies, ReceiveListWifiAck(reply) PROVE Next
    BY <2>1 DEF Next, Receive
  <2>2. <<>> \in ListWifiReplies /\ <<"WifiSettingsSet">> \in ListWifiReplies
    BY OwnerAssumption
  <2>3. QED BY <1>2, <1>3, <1>4, <2>1, <2>2, AnswerFacts
<1>5. CASE OnDiscover
  <2>1. Init'
    BY <1>5 DEF OnDiscover, Init
  <2>2. QED BY <2>1, SessionInvInit
<1>6. CASE QuietNext
  BY <1>1, <1>3, <1>6, QuietFacts
<1>7. QED BY <1>2, <1>4, <1>5, <1>6, PairNextCases DEF pairVars

-----------------------------------------------------------------------------
(* A session of this owner ends by a timeout or a Close, which both need    *)
(* the endpoint, and which close it.                                        *)

EndsClosed ==
    /\ sess_timer # Off => transport = "open"
    /\ ~connected => transport = "closed"

LEMMA EndsDisconnect ==
    ASSUME EndsClosed, Disconnect, transport = "open"
    PROVE  EndsClosed'
BY DEF EndsClosed, Disconnect, CloseTransport

LEMMA EndsStep == IInv /\ EndsClosed /\ [PairNext]_pairVars => EndsClosed'
<1> SUFFICES ASSUME IInv, EndsClosed, [PairNext]_pairVars PROVE EndsClosed'
  OBVIOUS
<1>1. CASE UNCHANGED lifecycle
  BY <1>1 DEF EndsClosed, lifecycle
<1>2. CASE ListWifiAnswer
  BY <1>1, <1>2, AnswerFacts DEF ReceiveListWifiAck, vars
<1>3. CASE OnDiscover
  BY <1>3 DEF OnDiscover, EndsClosed
<1>4. CASE ConnectStart \/ ConnectFail \/ ConnectionMade
  BY <1>4 DEF ConnectStart, ConnectFail, ConnectionMade, EndsClosed
<1>5. CASE SessTick
  <2>1. transport = "open"
    BY <1>5, TimingAssumption DEF SessTick, EndsClosed, Off
  <2>2. QED BY <1>5, <2>1, EndsDisconnect DEF SessTick, EndsClosed
<1>6. CASE ResendTick
  BY <1>6 DEF ResendTick, EndsClosed
<1>7. CASE Tick
  BY <1>7 DEF Tick, EndsClosed
<1>8. ASSUME NEW len \in CloseLengths, ReceiveClose(len) PROVE EndsClosed'
  BY <1>1, <1>8, EndsDisconnect DEF ReceiveClose, Listening
<1>9. CASE CameraHears \/ ReceiveP2pRdy \/ ReceiveWifiSettingsAck \/ ReceiveAlive
  BY <1>1, <1>9 DEF CameraHears, ReceiveP2pRdy, ReceiveWifiSettingsAck, ReceiveAlive
<1>10. ASSUME NEW ids \in SUBSET HeardIds,
              ReceiveDrwAck(ids) \/ ReceiveCroppedDrwAck(ids)
       PROVE  EndsClosed'
  BY <1>1, <1>10 DEF ReceiveDrwAck, ReceiveCroppedDrwAck
<1>11. ASSUME NEW t \in Tickets, ReceiveConnectUserAck(t) PROVE EndsClosed'
  BY <1>1, <1>11 DEF ReceiveConnectUserAck
<1>12. CASE UNCHANGED pairVars
  BY <1>1, <1>12 DEF pairVars, vars
<1>13. QED
  BY <1>2, <1>3, <1>4, <1>5, <1>6, <1>7, <1>8, <1>9, <1>10, <1>11, <1>12,
     PairNextCases DEF QuietNext, Arrival

-----------------------------------------------------------------------------
(* The dicts of the owner.                                                  *)

OwnerTypeOK == pairing \in BOOLEAN /\ configured \in BOOLEAN /\ made \in 1 .. MaxSessions

OneCredential ==
    /\ Credentials = {} \/ \E m \in 1 .. Len(msgs) : Credentials = {m}
    /\ connected => (configured <=> Credentials # {})

OwnerInv == OwnerTypeOK /\ PairingIsLive /\ OneCredential

LEMMA CredentialsKept ==
    ASSUME TypeOK, NEW cmds \in Seq(ControlCommands), NEW t \in Tickets \cup {NoTicket},
           Issue(cmds, t), \A i \in 1 .. Len(cmds) : cmds[i] # "WifiSettingsSet"
    PROVE  Credentials' = Credentials /\ Len(msgs') >= Len(msgs)
<1>1. /\ Len(msgs) \in Nat /\ Len(cmds) \in Nat
      /\ Len(msgs') = Len(msgs) + Len(cmds)
      /\ \A m \in 1 .. Len(msgs) : msgs'[m] = msgs[m]
      /\ \A m \in Len(msgs) + 1 .. Len(msgs') : msgs'[m].cmd = cmds[m - Len(msgs)]
  BY IssueAppends DEF TypeOK
<1>2. \A m \in 1 .. Len(msgs') : \/ m \in 1 .. Len(msgs)
                                 \/ m \in Len(msgs) + 1 .. Len(msgs')
  BY <1>1
<1>3. \A m \in Len(msgs) + 1 .. Len(msgs') : msgs'[m].cmd # "WifiSettingsSet"
  <2>1. \A m \in Len(msgs) + 1 .. Len(msgs') : m - Len(msgs) \in 1 .. Len(cmds)
    BY <1>1
  <2>2. QED BY <1>1, <2>1
<1>4. 1 .. Len(msgs) \subseteq 1 .. Len(msgs') /\ Len(msgs') >= Len(msgs)
  BY <1>1
<1>5. QED BY <1>1, <1>2, <1>3, <1>4 DEF Credentials

LEMMA CredentialsSent ==
    ASSUME TypeOK, NEW t \in Tickets \cup {NoTicket}, Issue(<<"WifiSettingsSet">>, t)
    PROVE  /\ Credentials' = Credentials \cup {Len(msgs) + 1}
           /\ Len(msgs) + 1 \in 1 .. Len(msgs')
<1> DEFINE cmds == <<"WifiSettingsSet">>
<1>1. cmds \in Seq(ControlCommands) /\ Issue(cmds, t) /\ Len(cmds) = 1
      /\ cmds[1] = "WifiSettingsSet"
  <2>1. "WifiSettingsSet" \in ControlCommands
    BY DEF ControlCommands
  <2>2. cmds \in Seq(ControlCommands)
    BY <2>1, Singleton, Zenon
  <2>3. QED BY <2>2
<1>2. /\ Len(msgs) \in Nat /\ Len(msgs') = Len(msgs) + 1
      /\ \A m \in 1 .. Len(msgs) : msgs'[m] = msgs[m]
      /\ msgs'[Len(msgs) + 1].cmd = "WifiSettingsSet"
  <2>1. /\ Len(msgs) \in Nat
        /\ Len(msgs') = Len(msgs) + Len(cmds)
        /\ \A m \in 1 .. Len(msgs) : msgs'[m] = msgs[m]
        /\ \A m \in Len(msgs) + 1 .. Len(msgs') : msgs'[m].cmd = cmds[m - Len(msgs)]
    <3>1. cmds \in Seq(ControlCommands) /\ Issue(cmds, t)
      BY <1>1
    <3> HIDE DEF cmds
    <3>2. /\ Len(msgs') = Len(msgs) + Len(cmds)
          /\ \A m \in 1 .. Len(msgs) : msgs'[m] = msgs[m]
          /\ \A m \in Len(msgs) + 1 .. Len(msgs') : msgs'[m].cmd = cmds[m - Len(msgs)]
      BY <3>1, IssueAppends DEF TypeOK
    <3>3. Len(msgs) \in Nat
      BY DEF TypeOK
    <3>4. QED BY <3>2, <3>3
  <2>2. Len(msgs) + 1 \in Len(msgs) + 1 .. Len(msgs') /\ Len(msgs) + 1 - Len(msgs) = 1
    BY <1>1, <2>1
  <2>3. msgs'[Len(msgs) + 1].cmd = cmds[1]
    BY <2>1, <2>2
  <2>4. QED BY <1>1, <2>1, <2>3
<1>3. \A m : m \in 1 .. Len(msgs') <=> m \in 1 .. Len(msgs) \/ m = Len(msgs) + 1
  BY <1>2
<1>4. QED BY <1>2, <1>3 DEF Credentials

LEMMA QuietCredentials ==
    ASSUME TypeOK, QuietNext
    PROVE  Credentials' = Credentials /\ Len(msgs') >= Len(msgs)
<1>1. CASE msgs' = msgs
  <2>1. Len(msgs) \in Nat
    BY DEF TypeOK
  <2>2. QED BY <1>1, <2>1 DEF Credentials
<1>2. CASE IssuesOther
  <2>1. PICK cmds \in {<<"ConnectUser">>, <<"ListWifi">>, LoginCommands} :
        \E t \in Tickets \cup {NoTicket} : Issue(cmds, t)
    BY <1>2 DEF IssuesOther
  <2>2. PICK t \in Tickets \cup {NoTicket} : Issue(cmds, t)
    BY <2>1
  <2>3. cmds \in Seq(ControlCommands)
    <3>1. "ConnectUser" \in ControlCommands /\ "ListWifi" \in ControlCommands
      BY DEF ControlCommands
    <3>2. /\ <<"ConnectUser">> \in Seq(ControlCommands)
          /\ <<"ListWifi">> \in Seq(ControlCommands)
      BY <3>1, Singleton, Zenon
    <3>3. QED BY <2>1, <3>2, CommandsAssumption
  <2>4. \A i \in 1 .. Len(cmds) : cmds[i] # "WifiSettingsSet"
    <3>1. CASE cmds = <<"ConnectUser">> \/ cmds = <<"ListWifi">>
      BY <3>1
    <3>2. CASE cmds = LoginCommands
      BY <3>2, OwnerAssumption
    <3>3. QED BY <2>1, <3>1, <3>2
  <2>5. QED BY <2>2, <2>3, <2>4, CredentialsKept
<1>3. QED BY <1>1, <1>2, QuietFacts

LEMMA OwnerStep ==
    IInv /\ EndsClosed /\ OwnerInv /\ [PairNext]_pairVars => OwnerInv'
<1> SUFFICES ASSUME IInv, EndsClosed, OwnerInv, [PairNext]_pairVars PROVE OwnerInv'
  OBVIOUS
<1>0. TypeOK /\ Len(msgs) \in Nat /\ ticket \in Tickets \cup {NoTicket}
  BY DEF IInv, TypeOK
<1>1. CASE UNCHANGED pairVars
  BY <1>1 DEF pairVars, vars, lifecycle, commands, OwnerInv, OwnerTypeOK, PairingIsLive,
              OneCredential, Credentials
<1>2. CASE ListWifiAnswer
  <2>1. UNCHANGED <<pairing, made>>
    BY <1>2, AnswerFacts
  <2>2. CASE UNCHANGED <<vars, configured>>
    BY <1>1, <2>1, <2>2 DEF pairVars
  <2>3. CASE ReceiveListWifiAck(<<"WifiSettingsSet">>) /\ ~configured /\ configured' = TRUE
    <3>1. Issue(<<"WifiSettingsSet">>, ticket) /\ UNCHANGED lifecycle /\ Listening
      BY <2>3 DEF ReceiveListWifiAck
    <3>2. connected /\ connected'
      BY <3>1 DEF EndsClosed, Listening, lifecycle
    <3>3. Credentials = {}
      BY <2>3, <3>2 DEF OwnerInv, OneCredential
    <3>4. /\ Credentials' = {Len(msgs) + 1}
          /\ Len(msgs) + 1 \in 1 .. Len(msgs')
      BY <1>0, <3>1, <3>3, CredentialsSent
    <3>5. OneCredential'
      BY <2>3, <3>2, <3>4 DEF OneCredential
    <3>6. OwnerTypeOK' /\ PairingIsLive'
      BY <2>1, <2>3, <3>2 DEF OwnerInv, OwnerTypeOK, PairingIsLive
    <3>7. QED BY <3>5, <3>6 DEF OwnerInv
  <2>4. CASE ReceiveListWifiAck(<<>>) /\ UNCHANGED configured
    <3>1. Issue(<<>>, ticket) /\ UNCHANGED lifecycle
      BY <2>4 DEF ReceiveListWifiAck
    <3>2. Credentials' = Credentials /\ Len(msgs') >= Len(msgs)
      <4>1. <<>> \in Seq(ControlCommands) /\ \A i \in 1 .. Len(<<>>) : FALSE
        OBVIOUS
      <4>2. QED BY <1>0, <3>1, <4>1, CredentialsKept
    <3>3. Len(msgs') \in Nat
      BY <1>1, SessionInvStep DEF IInv, TypeOK
    <3>4. OneCredential'
      BY <1>0, <2>4, <3>1, <3>2, <3>3 DEF OwnerInv, OneCredential, lifecycle
    <3>5. OwnerTypeOK' /\ PairingIsLive'
      BY <2>1, <2>4, <3>1 DEF OwnerInv, OwnerTypeOK, PairingIsLive, lifecycle
    <3>6. QED BY <3>4, <3>5 DEF OwnerInv
  <2>5. QED BY <1>2, <2>2, <2>3, <2>4, AnswerFacts
<1>3. CASE OnDiscover
  <2>1. Credentials' = {}
    BY <1>3 DEF OnDiscover, Credentials
  <2>2. made' \in 1 .. MaxSessions
    BY <1>3, OwnerAssumption DEF OnDiscover, OwnerInv, OwnerTypeOK
  <2>3. QED BY <1>3, <2>1, <2>2
            DEF OnDiscover, OwnerInv, OwnerTypeOK, PairingIsLive, OneCredential
<1>4. CASE QuietNext /\ OnDisconnect /\ UNCHANGED made
  <2>1. Credentials' = Credentials /\ Len(msgs') >= Len(msgs) /\ (connected' => connected)
    BY <1>0, <1>4, QuietCredentials, QuietFacts
  <2>2. Len(msgs') \in Nat
    BY SessionInvStep DEF IInv, TypeOK
  <2>3. Credentials' = {} \/ \E m \in 1 .. Len(msgs') : Credentials' = {m}
    BY <1>0, <2>1, <2>2 DEF OwnerInv, OneCredential
  <2>4. CASE connected /\ ~connected'
    <3>1. pairing' = FALSE /\ configured' = FALSE
      BY <1>4, <2>4 DEF OnDisconnect, Forgets
    <3>2. QED BY <1>4, <2>3, <2>4, <3>1
              DEF OwnerInv, OwnerTypeOK, PairingIsLive, OneCredential
  <2>5. CASE ~(connected /\ ~connected')
    <3>1. UNCHANGED <<pairing, configured>>
      BY <1>4, <2>5 DEF OnDisconnect
    <3>2. connected' <=> connected
      BY <2>1, <2>5
    <3>3. OneCredential'
      BY <2>1, <2>3, <3>1, <3>2 DEF OwnerInv, OneCredential
    <3>4. QED BY <1>4, <3>1, <3>2, <3>3 DEF OwnerInv, OwnerTypeOK, PairingIsLive
  <2>6. QED BY <2>4, <2>5
<1>5. QED BY <1>1, <1>2, <1>3, <1>4, PairNextCases

PairInv == IInv /\ EndsClosed /\ OwnerInv

LEMMA PairInvariant == PairSpec => []PairInv
<1>1. PairInit => PairInv
  <2> SUFFICES ASSUME PairInit PROVE PairInv
    OBVIOUS
  <2>1. IInv /\ EndsClosed
    BY IInvInit DEF PairInit, Init, EndsClosed
  <2>2. Credentials = {}
    BY DEF PairInit, Init, Credentials
  <2>3. 1 \in 1 .. MaxSessions
    BY OwnerAssumption
  <2>4. OwnerInv
    BY <2>2, <2>3 DEF PairInit, Init, OwnerInv, OwnerTypeOK, PairingIsLive, OneCredential
  <2>5. QED BY <2>1, <2>4 DEF PairInv
<1>2. PairInv /\ [PairNext]_pairVars => PairInv'
  BY SessionInvStep, EndsStep, OwnerStep DEF PairInv
<1>3. QED BY <1>1, <1>2, PTL DEF PairSpec

(* Type correctness of the owner and its session.                           *)
THEOREM PairTypeCorrect == PairSpec => []PairTypeOK
<1>1. PairInv => PairTypeOK
  BY DEF PairInv, IInv, OwnerInv, OwnerTypeOK, PairTypeOK
<1>2. QED BY <1>1, PairInvariant, PTL

(* A camera is in the dict of pair.py exactly while its session lives.      *)
THEOREM PairingAlwaysLive == PairSpec => []PairingIsLive
<1>1. PairInv => PairingIsLive
  BY DEF PairInv, OwnerInv
<1>2. QED BY <1>1, PairInvariant, PTL

(* A session sends the credentials once (pair.py on_list_wifi).             *)
THEOREM CredentialsSentOnce == PairSpec => []CredentialsOnce
<1>1. PairInv => CredentialsOnce
  <2> SUFFICES ASSUME PairInv PROVE CredentialsOnce
    OBVIOUS
  <2>1. Cardinality(Credentials) <= 1
    <3>1. CASE Credentials = {}
      BY <3>1, FS_EmptySet
    <3>2. CASE \E m \in 1 .. Len(msgs) : Credentials = {m}
      <4>1. PICK m \in 1 .. Len(msgs) : Credentials = {m}
        BY <3>2
      <4>2. Cardinality({m}) = 1
        BY FS_Singleton
      <4>3. QED BY <4>1, <4>2
    <3>3. QED BY <3>1, <3>2 DEF PairInv, OwnerInv, OneCredential
  <2>2. QED BY <2>1 DEF PairInv, OwnerInv, OneCredential, CredentialsOnce
<1>2. QED BY <1>1, PairInvariant, PTL

(* Each session of the owner keeps the promise about its commands.          *)
THEOREM PairingLosesNothing == PairSpec => []NoSilentLoss
<1>1. PairInv => NoSilentLoss
  BY DEF PairInv, IInv, ChannelInv
<1>2. QED BY <1>1, PairInvariant, PTL

-----------------------------------------------------------------------------
(* The delivery of commands, session by session.  Each delivers its commands *)
(* at least once, the credentials among them, as CommandDelivery says,      *)
(* whatever listing the owner reacts to; only a rediscovery starts afresh,  *)
(* with nothing issued.                                                     *)
SessionsDeliver ==
    /\ Delivery!Init
    /\ [][\/ OnDiscover /\ Delivery!Init'
          \/ [Delivery!Next]_(Delivery!vars)]_pairVars

LEMMA StartsEmpty == Init => Delivery!Init
BY DEF Init, Delivery!Init

LEMMA SessionsDeliverStep ==
    IInv /\ IInv' /\ [PairNext]_pairVars =>
        [\/ OnDiscover /\ Delivery!Init'
         \/ [Delivery!Next]_(Delivery!vars)]_pairVars
<1> SUFFICES ASSUME IInv, IInv', [PairNext]_pairVars
             PROVE  \/ OnDiscover /\ Delivery!Init'
                    \/ [Delivery!Next]_(Delivery!vars)
  OBVIOUS
<1>1. CASE [Next]_vars
  BY <1>1, ServiceStep
<1>2. CASE ListWifiAnswer
  <2>1. ASSUME NEW reply \in ListWifiReplies, ReceiveListWifiAck(reply) PROVE Next
    BY <2>1 DEF Next, Receive
  <2>2. <<>> \in ListWifiReplies /\ <<"WifiSettingsSet">> \in ListWifiReplies
    BY OwnerAssumption
  <2>3. QED BY <1>1, <1>2, <2>1, <2>2, AnswerFacts
<1>3. CASE OnDiscover
  <2>1. Delivery!Init'
    BY <1>3 DEF OnDiscover, Delivery!Init
  <2>2. QED BY <1>3, <2>1
<1>4. CASE QuietNext
  BY <1>1, <1>4, QuietFacts DEF IInv
<1>5. CASE UNCHANGED pairVars
  BY <1>1, <1>5 DEF pairVars
<1>6. QED BY <1>2, <1>3, <1>4, <1>5, PairNextCases

(* Every session of pair.py delivers its commands at least once, the        *)
(* credentials among them; only a rediscovery starts with nothing issued.   *)
THEOREM EachSessionDelivers == PairSpec => SessionsDeliver
<1>1. PairInit => Delivery!Init
  BY StartsEmpty DEF PairInit
<1>2. PairInv => IInv
  BY DEF PairInv
<1>3. QED BY <1>1, <1>2, SessionsDeliverStep, PairInvariant, PTL
          DEF PairSpec, SessionsDeliver
=============================================================================
