------------------------------- MODULE Pairing -------------------------------
(***************************************************************************)
(* The `pair` command (cam_reverse/pair.py) as the owner of a Session: it  *)
(* asks for the networks on login, sends the credentials when the answer   *)
(* lists its SSID, and forgets a camera when its session disconnects, so   *)
(* that the next PunchPkt makes a new session.  One camera; module Session *)
(* is the session it has now.  The owner never closes a session itself.    *)
(***************************************************************************)
EXTENDS Session, WifiListing

CONSTANT MaxSessions   \* bound: sessions made in a behaviour

ASSUME OwnerAssumption ==
    /\ MaxSessions \in Nat \ {0}
    /\ {<<>>, <<"WifiSettingsSet">>} \subseteq ListWifiReplies
    /\ \A i \in 1 .. Len(LoginCommands) : LoginCommands[i] # "WifiSettingsSet"

VARIABLES
    pairing,      \* dev_id is in the dict of that name
    configured,   \* so it is in this session's dict of that name
    made          \* sessions made so far

pairVars == <<vars, pairing, configured, made>>

PairTypeOK ==
    /\ TypeOK
    /\ pairing \in BOOLEAN /\ configured \in BOOLEAN
    /\ made \in 1 .. MaxSessions

(* The first PunchPkt has come.                                            *)
PairInit == Init /\ pairing = TRUE /\ configured = FALSE /\ made = 1

-----------------------------------------------------------------------------
(* on_list_wifi: nothing without a match, and nothing the second time.     *)
AlwaysConfigure(matches) == matches
Configures(matches) == matches /\ ~configured

OnListWifi(matches) ==
    IF Configures(matches)
    THEN ReceiveListWifiAck(<<"WifiSettingsSet">>) /\ configured' = TRUE
    ELSE ReceiveListWifiAck(<<>>) /\ UNCHANGED configured

(* on_disconnect, which runs after Session._on_disconnect.                 *)
ForgetsUnconfigured == IF configured THEN pairing ELSE FALSE
Forgets == FALSE

OnDisconnect ==
    IF connected /\ ~connected'
    THEN pairing' = Forgets /\ configured' = FALSE
    ELSE UNCHANGED <<pairing, configured>>

(* on_discover: a known camera is ignored; otherwise a session is made.    *)
(* The one before is closed and inert (ClosedIsSilent): it is left behind. *)
OnDiscover ==
    /\ ~pairing /\ made < MaxSessions
    /\ pairing' = TRUE /\ configured' = FALSE /\ made' = made + 1
    /\ transport' = "none" /\ peer' = "unresolved" /\ connected' = TRUE
    /\ sess_timer' = Off /\ resend_timer' = Off
    /\ received' = FALSE /\ quiet' = 0 /\ probed' = FALSE
    /\ ticket' = NoTicket
    /\ outgoing_command_id' = 0 /\ unacked_drw' = {}
    /\ msgs' = <<>> /\ wire' = {}
    /\ heard' = {} /\ granted' = <<>>

-----------------------------------------------------------------------------
(* A ListWifiAck, perhaps cropped; `home` is the item that had the SSID to *)
(* look for.  One that raises is dropped before it counts as received.     *)
ListWifiAnswer ==
    /\ \E l \in Listings :
          \/ ~l.raises /\ \E home \in {0} \cup l.items : OnListWifi(home \in l.names)
          \/ l.raises /\ Listening /\ UNCHANGED <<vars, configured>>
    /\ UNCHANGED <<pairing, made>>

(* Every other step of the session; its login is Session's, with           *)
(* on_login's SendListWifi for LoginCommands.                              *)
Quietly(step) == step /\ OnDisconnect /\ UNCHANGED made

Arrival ==
    \/ ReceiveP2pRdy
    \/ \E ids \in SUBSET HeardIds : ReceiveDrwAck(ids)
    \/ \E ids \in SUBSET HeardIds : ReceiveCroppedDrwAck(ids)
    \/ \E t \in Tickets : ReceiveConnectUserAck(t)
    \/ ReceiveWifiSettingsAck
    \/ ReceiveAlive
    \/ \E len \in CloseLengths : ReceiveClose(len)

PairNext ==
    \/ ListWifiAnswer
    \/ OnDiscover
    \/ Quietly(ConnectStart) \/ Quietly(ConnectFail) \/ Quietly(ConnectionMade)
    \/ Quietly(CameraHears) \/ Quietly(Arrival)
    \/ Quietly(SessTick) \/ Quietly(ResendTick) \/ Quietly(Tick)

PairSpec == PairInit /\ [][PairNext]_pairVars

(* Session's fairness: the event loop runs what is ready.                  *)
PairFairness ==
    /\ WF_pairVars(Quietly(ConnectStart))
    /\ WF_pairVars(Quietly(ConnectFail) \/ Quietly(ConnectionMade))
    /\ WF_pairVars(Quietly(SessTick))
    /\ WF_pairVars(Quietly(ResendTick))
    /\ WF_pairVars(Quietly(Tick))

FairPairSpec == PairSpec /\ PairFairness

-----------------------------------------------------------------------------
(* Properties.                                                             *)

(* A session issues the credentials once: two ListWifi answers, or two     *)
(* logins and their answers, do not send them twice, and `configured` says *)
(* whether this session did, also after the camera was rediscovered.       *)
Credentials == {m \in 1 .. Len(msgs) : msgs[m].cmd = "WifiSettingsSet"}
CredentialsOnce ==
    /\ Cardinality(Credentials) <= 1
    /\ connected => (configured <=> Credentials # {})

(* A camera is not given up: it is in the dict exactly while its session   *)
(* lives, so a PunchPkt of a camera that was dropped before or after it    *)
(* was configured starts again.                                            *)
PairingIsLive == pairing <=> connected
=============================================================================
