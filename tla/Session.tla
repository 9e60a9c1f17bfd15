------------------------------- MODULE Session -------------------------------
(***************************************************************************)
(* One camera session (cam_reverse/session.py with the control half of     *)
(* handlers.py and the packet builders of impl.py): the UDP endpoint that   *)
(* a task opens some loop turns after the object exists, the handshake,     *)
(* the two timer tasks, and the table of un-acknowledged Drw commands that  *)
(* are retransmitted under a FRESH command id.                              *)
(*                                                                          *)
(* The camera and the network are the environment.  A datagram may be lost  *)
(* (never heard), heard late or, as an answer, come back any number of      *)
(* times.  Time advances in ticks; a timer task wakes at most Lag ticks     *)
(* after its sleep has run out.                                             *)
(***************************************************************************)
EXTENDS Integers, Sequences, FiniteSets

CONSTANTS
    Tickets,         \* what a ConnectUserAck may leave in session.ticket
    NoTicket,        \* the ticket [0,0,0,0] a session starts with
    LoginCommands,   \* what the owner's on_login callback sends
    ListWifiReplies, \* what an owner may send from its ListWifi listener
    CloseLengths,    \* lengths of the Close packets the camera sends
    IdMod,           \* command ids are a u16 on the wire: 2^16
    SessPeriod, ResendPeriod,   \* the sleeps of the two timer tasks
    AliveAfter, TimeoutMs,      \* thresholds of _sess_timer
    RetryAfter,                 \* threshold of _resend_timer
    Lag,             \* how late, at most, the event loop wakes a task
    MaxMsgs,         \* bound: commands issued in a behaviour
    MaxIds           \* bound: command ids used in a behaviour

(* The control commands some caller of the session sends.                  *)
ControlCommands == {"ConnectUser", "VideoParamSet", "StartVideo",
                    "ListWifi", "WifiSettingsSet"}

ASSUME CommandsAssumption ==
    /\ LoginCommands \in Seq(ControlCommands)
    /\ ListWifiReplies \subseteq Seq(ControlCommands)

ASSUME TimingAssumption ==
    /\ SessPeriod \in Nat \ {0} /\ ResendPeriod \in Nat \ {0}
    /\ AliveAfter \in Nat /\ TimeoutMs \in Nat
    /\ RetryAfter \in Nat /\ Lag \in Nat

(* The horizon: fewer than a whole lap of the u16 id space.                *)
ASSUME HorizonAssumption ==
    /\ IdMod \in Nat \ {0}
    /\ MaxMsgs \in Nat
    /\ MaxIds \in 0 .. IdMod

VARIABLES
    transport,      \* none -> open -> closed, or none -> failed
    peer,           \* where the connect task pointed the socket
    connected,
    sess_timer,     \* ticks slept by _sess_timer, Off when it does not run
    resend_timer,   \* ticks slept by _resend_timer
    received,       \* last_received_packet has been set since __init__
    quiet,          \* ticks since the endpoint opened or a packet counted
    probed,         \* history: a P2PAlive was sent since then
    ticket,
    outgoing_command_id,
    unacked_drw,    \* entries [id, msg, age]; id is the dict key
    msgs,           \* history: the commands issued, in order
    wire,           \* Drw transmissions [id, msg] that left the socket
    heard,          \* the part of wire that has reached the camera
    granted         \* history: the tickets stored, in order, each with the
                    \* number of commands issued before it

lifecycle == <<transport, peer, connected, sess_timer, resend_timer>>
silence   == <<received, quiet, probed>>
commands  == <<outgoing_command_id, unacked_drw, msgs, wire>>
history   == <<heard, granted>>
vars == <<lifecycle, silence, ticket, commands, history>>

Off == -1
WireIdPreincremented(n) == n + 1
WireId(n) == n % IdMod
WireIds == 0 .. IdMod - 1
MsgIds == 1 .. MaxMsgs
Message == [cmd : ControlCommands, ticket : Tickets \cup {NoTicket}]
Transmission == [id : WireIds, msg : MsgIds]
Grant == [ticket : Tickets, issued : 0 .. MaxMsgs]
Pending == [id : WireIds, msg : MsgIds, age : 0 .. RetryAfter + 1]

TypeOK ==
    /\ transport \in {"none", "open", "closed", "failed"}
    /\ peer \in {"unresolved", "camera", "nowhere"}
    /\ connected \in BOOLEAN
    /\ sess_timer \in Off .. SessPeriod + Lag
    /\ resend_timer \in Off .. ResendPeriod + Lag
    /\ received \in BOOLEAN
    /\ quiet \in 0 .. TimeoutMs + 1
    /\ probed \in BOOLEAN
    /\ ticket \in Tickets \cup {NoTicket}
    /\ outgoing_command_id \in 0 .. MaxIds
    /\ unacked_drw \subseteq Pending
    /\ msgs \in Seq(Message) /\ Len(msgs) <= MaxMsgs
    /\ wire \subseteq Transmission
    /\ heard \subseteq Transmission
    /\ granted \in Seq(Grant)

Init ==
    /\ transport = "none" /\ peer = "unresolved" /\ connected = TRUE
    /\ sess_timer = Off /\ resend_timer = Off
    /\ received = FALSE /\ quiet = 0 /\ probed = FALSE
    /\ ticket = NoTicket
    /\ outgoing_command_id = 0 /\ unacked_drw = {}
    /\ msgs = <<>> /\ wire = {}
    /\ heard = {} /\ granted = <<>>

-----------------------------------------------------------------------------
(* The endpoint: scheduled by make_session, opened by the loop.            *)

(* The connect task runs: it reads dst_ip, which _on_disconnect blanks.    *)
ConnectStart ==
    /\ transport = "none" /\ peer = "unresolved"
    /\ peer' = IF connected THEN "camera" ELSE "nowhere"
    /\ UNCHANGED <<transport, connected, sess_timer, resend_timer,
                   silence, ticket, commands, history>>

(* The socket cannot be connected: the task dies, nobody awaits it.        *)
ConnectFail ==
    /\ transport = "none" /\ peer # "unresolved"
    /\ transport' = "failed"
    /\ UNCHANGED <<peer, connected, sess_timer, resend_timer,
                   silence, ticket, commands, history>>

(* connection_made: no look at `connected`; P2pRdy goes out, timers start. *)
ConnectionMade ==
    /\ transport = "none" /\ peer # "unresolved"
    /\ transport' = "open"
    /\ sess_timer' = 0 /\ resend_timer' = 0
    /\ quiet' = 0
    /\ UNCHANGED <<peer, connected, received, probed,
                   ticket, commands, history>>

TransportLeftOpen == transport
CloseTransport == IF transport = "open" THEN "closed" ELSE transport
ResendTimerLeftRunning == resend_timer
ResendTimerCancelled == Off

(* _on_disconnect: a second call returns early and tears nothing down.     *)
Disconnect ==
    \/ /\ connected
       /\ connected' = FALSE
       /\ sess_timer' = Off
       /\ resend_timer' = ResendTimerCancelled
       /\ transport' = CloseTransport
    \/ /\ ~connected
       /\ UNCHANGED <<connected, sess_timer, resend_timer, transport>>

(* The owner calls close(): a reconnect request, or the frame is captured. *)
HostClose ==
    /\ connected
    /\ Disconnect
    /\ UNCHANGED <<peer, silence, ticket, commands, history>>

-----------------------------------------------------------------------------
(* Sending commands.                                                       *)

(* make_data_read_write numbers each command, Session.send registers it in *)
(* unacked_drw (a dict: an entry under the same id is replaced) and hands  *)
(* it to the socket.  ids and message numbers are consecutive.             *)
Numbered(n) == {[id  |-> WireId(outgoing_command_id + i),
                 msg |-> Len(msgs) + 1 + i] : i \in 0 .. n - 1}

Fresh(sends) == {[id |-> s.id, msg |-> s.msg, age |-> 0] : s \in sends}
Register(sends) ==
    {e \in unacked_drw : \A s \in sends : s.id # e.id} \cup Fresh(sends)

Issue(cmds, t) ==
    /\ Len(msgs) + Len(cmds) <= MaxMsgs
    /\ outgoing_command_id + Len(cmds) <= MaxIds
    /\ msgs' = msgs \o [i \in 1 .. Len(cmds) |-> [cmd |-> cmds[i], ticket |-> t]]
    /\ outgoing_command_id' = outgoing_command_id + Len(cmds)
    /\ unacked_drw' = Register(Numbered(Len(cmds)))
    /\ wire' = wire \cup Numbered(Len(cmds))

(* ack_drw for each id of a DrwAck.                                        *)
UnackedCumulatively(ids) == {e \in unacked_drw : \A i \in ids : e.id > i}
Unacked(ids) == {e \in unacked_drw : e.id \notin ids}

-----------------------------------------------------------------------------
(* Datagrams from the camera.  _handle_incoming looks at no session flag:  *)
(* whatever reaches an open socket is handled.                             *)

Listening == transport = "open" /\ peer = "camera"

CameraHears ==
    \E w \in wire \ heard :
        /\ heard' = heard \cup {w}
        /\ UNCHANGED <<lifecycle, silence, ticket, commands, granted>>

(* The tail of _handle_incoming: last_received_packet := now.              *)
Counts == received' = TRUE /\ quiet' = 0 /\ probed' = FALSE

HeardIds == {w.id : w \in heard}

(* handle_p2p_rdy: answer with ConnectUser, under the current ticket.      *)
ReceiveP2pRdy ==
    /\ Listening
    /\ Issue(<<"ConnectUser">>, ticket)
    /\ Counts
    /\ UNCHANGED <<lifecycle, ticket, history>>

(* handle_drw_ack: ids the camera has heard, acknowledged in any order and *)
(* as often as the network delivers the DrwAck.                            *)
ReceiveDrwAck(ids) ==
    /\ Listening
    /\ unacked_drw' = Unacked(ids)
    /\ Counts
    /\ UNCHANGED <<lifecycle, ticket, outgoing_command_id, msgs, wire, history>>

(* A DrwAck whose count exceeds its items: the items present are removed,  *)
(* then the read raises, so the packet does not count as received.         *)
ReceiveCroppedDrwAck(ids) ==
    /\ Listening
    /\ unacked_drw' = Unacked(ids)
    /\ UNCHANGED <<lifecycle, silence, ticket, outgoing_command_id, msgs, wire,
                   history>>

LoginWithOldTicket(t) == Issue(LoginCommands, ticket)
Login(t) == Issue(LoginCommands, t)

(* Drw / ConnectUserAck: store the four bytes at 0x18, emit "login".  The  *)
(* handler looks neither at them nor at the past: a refusal leaves zeros,  *)
(* a short packet a short or empty ticket (padded with zeros in a command),*)
(* and each ack logs in, the first, a repeated or an unasked one.          *)
ReceiveConnectUserAck(t) ==
    /\ Listening
    /\ ticket' = t
    /\ granted' = Append(granted, [ticket |-> t, issued |-> Len(msgs)])
    /\ Login(t)
    /\ Counts
    /\ UNCHANGED <<lifecycle, heard>>

(* Drw / WifiSettingsAck: ask for the list of networks, under the ticket   *)
(* of the moment, logged in or not.                                        *)
ReceiveWifiSettingsAck ==
    /\ Listening
    /\ Issue(<<"ListWifi">>, ticket)
    /\ Counts
    /\ UNCHANGED <<lifecycle, ticket, history>>

(* Drw / ListWifiAck: the owner's listener may send a command in reply.    *)
ReceiveListWifiAck(reply) ==
    /\ Listening
    /\ Issue(reply, ticket)
    /\ Counts
    /\ UNCHANGED <<lifecycle, ticket, history>>

(* Any other Drw (data, a plain acknowledgement) and any command without a *)
(* handler: nothing but the freshness of the session changes.              *)
ReceiveOther ==
    /\ Listening
    /\ Counts
    /\ UNCHANGED <<lifecycle, ticket, commands, history>>

(* P2PAlive and P2PAliveAck never count as received packets.               *)
ReceiveAlive ==
    /\ Listening
    /\ UNCHANGED <<lifecycle, silence, ticket, commands, history>>

(* handle_close builds a DrwAck first, which reads the u16 at offset 6: a  *)
(* Close shorter than 8 bytes raises there and is dropped.                 *)
ReceiveClose(len) ==
    /\ Listening
    /\ \/ /\ len >= 8
          /\ Disconnect
          /\ Counts
       \/ /\ len < 8
          /\ UNCHANGED <<lifecycle, silence>>
    /\ UNCHANGED <<peer, ticket, commands, history>>

-----------------------------------------------------------------------------
(* The two timer tasks, and time.                                          *)

(* delta of _sess_timer: last_received_packet is 0.0, the epoch, until a   *)
(* first packet counts.                                                    *)
DeltaFromFirstPacket == IF received THEN quiet ELSE 0
Delta == IF received THEN quiet ELSE TimeoutMs + 1

ProbedWhenTimedOut == Delta > TimeoutMs
NeedsProbe == Delta > AliveAfter

(* _sess_timer wakes: probe after AliveAfter, disconnect after TimeoutMs   *)
(* and end; a session that is already disconnected is only left alone.     *)
SessTick ==
    /\ sess_timer >= SessPeriod
    /\ probed' = (probed \/ NeedsProbe)
    /\ \/ /\ Delta > TimeoutMs
          /\ connected
          /\ Disconnect
       \/ /\ Delta > TimeoutMs
          /\ ~connected
          /\ sess_timer' = Off
          /\ UNCHANGED <<connected, resend_timer, transport>>
       \/ /\ Delta <= TimeoutMs
          /\ sess_timer' = 0
          /\ UNCHANGED <<connected, resend_timer, transport>>
    /\ UNCHANGED <<peer, received, quiet, ticket, commands, history>>

Due == {e \in unacked_drw : e.age > RetryAfter}
Rank(e) == Cardinality({f \in Due : f.id < e.id})

(* _resend_timer wakes: every due entry, oldest first, gets the next id,   *)
(* leaves the table under the old id and is sent again; the task sleeps on. *)
FreshId(e) == WireId(outgoing_command_id + Rank(e))
Resent == {[id |-> FreshId(e), msg |-> e.msg] : e \in Due}
NotResentOrStale == unacked_drw
NotResent == unacked_drw \ Due
NeverRefiled == {}
Refiled == Fresh(Resent)

TaskEnds == Off
AsleepAgain == 0
WithinHorizon == outgoing_command_id + Cardinality(Due) <= MaxIds

ResendTick ==
    /\ resend_timer >= ResendPeriod
    /\ WithinHorizon
    /\ resend_timer' = AsleepAgain
    /\ outgoing_command_id' = outgoing_command_id + Cardinality(Due)
    /\ unacked_drw' = NotResent \cup Refiled
    /\ wire' = wire \cup Resent
    /\ UNCHANGED <<transport, peer, connected, sess_timer, silence, ticket,
                   msgs, history>>

Capped(n, cap) == IF n < cap THEN n + 1 ELSE cap
Slept(timer, period) == IF timer = Off THEN Off ELSE Capped(timer, period + Lag)

(* One tick of time; no running timer oversleeps by more than Lag (time    *)
(* also passes once the bound on ids has put an end to resending).         *)
Tick ==
    /\ transport = "open"
    /\ sess_timer < SessPeriod + Lag
    /\ resend_timer < ResendPeriod + Lag \/ ~WithinHorizon
    /\ sess_timer' = Slept(sess_timer, SessPeriod)
    /\ resend_timer' = Slept(resend_timer, ResendPeriod)
    /\ quiet' = Capped(quiet, TimeoutMs + 1)
    /\ unacked_drw' = {[e EXCEPT !.age = Capped(@, RetryAfter + 1)]
                           : e \in unacked_drw}
    /\ UNCHANGED <<transport, peer, connected, received, probed, ticket,
                   outgoing_command_id, msgs, wire, history>>

-----------------------------------------------------------------------------
Endpoint == ConnectStart \/ ConnectFail \/ ConnectionMade \/ HostClose
Receive ==
    \/ ReceiveP2pRdy
    \/ \E ids \in SUBSET HeardIds : ReceiveDrwAck(ids)
    \/ \E ids \in SUBSET HeardIds : ReceiveCroppedDrwAck(ids)
    \/ \E t \in Tickets : ReceiveConnectUserAck(t)
    \/ ReceiveWifiSettingsAck
    \/ \E reply \in ListWifiReplies : ReceiveListWifiAck(reply)
    \/ ReceiveOther
    \/ ReceiveAlive
    \/ \E len \in CloseLengths : ReceiveClose(len)
Timers == SessTick \/ ResendTick

Next == Endpoint \/ CameraHears \/ Receive \/ Timers \/ Tick

Spec == Init /\ [][Next]_vars

(* The event loop runs what is ready: the connect task comes to an end,    *)
(* due timers wake and time passes.  Nothing is assumed of the network,    *)
(* the camera or the owner.                                                *)
Fairness ==
    /\ WF_vars(ConnectStart)
    /\ WF_vars(ConnectFail \/ ConnectionMade)
    /\ WF_vars(SessTick)
    /\ WF_vars(ResendTick)
    /\ WF_vars(Tick)

FairSpec == Spec /\ Fairness

-----------------------------------------------------------------------------
(* Properties.                                                             *)

(* A command is never silently forgotten: each command the session issued  *)
(* is pending retransmission unless the camera has heard it, whatever is   *)
(* lost, acknowledged late, twice or under an id already replaced.         *)
NoSilentLoss ==
    \A m \in 1 .. Len(msgs) :
        \/ \E e \in unacked_drw : e.msg = m
        \/ \E w \in heard : w.msg = m

(* An acknowledgement names one command: within a lap of the id space no   *)
(* two transmissions share an id, and the table holds a command once, so   *)
(* that a retransmission really replaces the entry it retries.             *)
AcksUnambiguous ==
    /\ \A v, w \in wire : v.id = w.id => v = w
    /\ \A e, f \in unacked_drw : e.msg = f.msg => e = f

(* Every pending entry is filed under the id of the LATEST transmission of *)
(* its command, so the acknowledgement of what was last sent finds it.     *)
PendingIsLatest ==
    \A e \in unacked_drw :
        /\ [id |-> e.id, msg |-> e.msg] \in wire
        /\ \A w \in wire : w.msg = e.msg => w.id <= e.id

(* A command carries the ticket of the latest ConnectUserAck before it and *)
(* no other: none before the first one, never that of an earlier login,    *)
(* and what is sent on login already carries the ticket that came with it. *)
(* A retransmission keeps the ticket its command was issued under.         *)
HeldBefore(m, t) ==
    \/ /\ t = NoTicket
       /\ \A i \in 1 .. Len(granted) : granted[i].issued >= m
    \/ \E i \in 1 .. Len(granted) :
          /\ granted[i].issued < m
          /\ granted[i].ticket = t
          /\ \A j \in i + 1 .. Len(granted) : granted[j].issued >= m
TicketDiscipline == \A m \in 1 .. Len(msgs) : HeldBefore(m, msgs[m].ticket)

(* After the endpoint is closed the session is inert: no timer wakes and   *)
(* neither the id counter, nor the table, nor the wire changes again.      *)
ClosedIsSilent ==
    [][transport = "closed" =>
           /\ UNCHANGED commands
           /\ sess_timer' = Off /\ resend_timer' = Off]_vars

(* A camera that has answered once is not dropped for silence before a     *)
(* P2PAlive was sent at an EARLIER wake of the timer: there was time for   *)
(* an answer.  Relates AliveAfter, TimeoutMs and the sleep of the task.    *)
ProbedBeforeDrop ==
    [][SessTick /\ connected /\ ~connected' /\ received => probed]_vars

(* Once its endpoint is open, a camera from which nothing that counts      *)
(* arrives any more is eventually disconnected: keepalive traffic, bad     *)
(* packets and resent commands do not extend its life, and a camera that   *)
(* never answered is no exception.                                         *)
SilentCameraIsDropped ==
    <>[][~(quiet' = 0 /\ received')]_vars => [](transport = "open" => <>~connected)

(* An open session retries: an entry that is due is acknowledged, or sent  *)
(* again under another id, or the session ends (or the bound on ids is     *)
(* reached).                                                               *)
PendingIsRetried ==
    \A i \in WireIds :
        (transport = "open" /\ \E e \in Due : e.id = i)
            ~> \/ \A e \in unacked_drw : e.id # i
               \/ transport # "open"
               \/ ~WithinHorizon

(* The session implements at-least-once delivery: a command leaves the     *)
(* table of pending commands only when the camera has heard it and never   *)
(* comes back, whatever acknowledgements and retransmissions cross.        *)
Delivery == INSTANCE CommandDelivery WITH
    issued    <- Len(msgs),
    delivered <- {w.msg : w \in heard},
    confirmed <- {m \in 1 .. Len(msgs) : \A e \in unacked_drw : e.msg # m}

ImplementsDelivery == Delivery!Spec

(* The session lives as SessionLife says: an owner that knows no more of   *)
(* it than that (Gateway) sees nothing else, whatever order the connect    *)
(* task, the timers, Close packets and the owner's own close() come in.    *)
Life == INSTANCE SessionLife WITH timing <- sess_timer # Off

LivesAsTold == Life!Spec

(* "enforces the timeout" (session.py:6): a session is dropped only after  *)
(* timeout_ms without a packet.                                            *)
TimeoutRespected ==
    [][SessTick /\ connected /\ ~connected' => quiet > TimeoutMs]_vars
=============================================================================
