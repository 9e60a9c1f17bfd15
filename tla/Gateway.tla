------------------------------- MODULE Gateway -------------------------------
(***************************************************************************)
(* The HTTP server's bookkeeping (cam_reverse/http_server.py): which camera *)
(* has which session, what a disconnect of a session does to the registry, *)
(* and how frames and audio chunks reach the queues of the HTTP clients.   *)
(*                                                                         *)
(* A session is reduced to its endpoint and its timeout (module Session    *)
(* has the rest); its "disconnect" event runs two listeners in one call,   *)
(* Session._on_disconnect and this server's on_disconnect, if it got as    *)
(* far as attaching it.  Everything runs in one event loop: an action is   *)
(* what runs between two awaits.                                           *)
(***************************************************************************)
EXTENDS Integers, Sequences, FiniteSets

CONSTANTS
    Devs,        \* device ids of the cameras
    Clients,     \* HTTP requests GET /camera/{devId} and GET /audio/{devId}
    Watches,     \* client -> the feed it asks for
    QueueSize,   \* event -> maxsize of a client's queue: 10 frames, 200 chunks
    CamerasEntries, \* what `cameras` of the config may be: a map, or null
    MaxSessions, \* bound: sessions made in a behaviour
    MaxFrames    \* bound: event -> how many of it a camera emits

(* The session events that feed clients, and the lists of queues: one for  *)
(* each camera and event (video_queues and audio_queues).                  *)
Media == {"frame", "audio"}
Feeds == Devs \X Media
Feed(d, m) == <<d, m>>

ASSUME RequestsAssumption == Watches \in [Clients -> Feeds]
ASSUME BoundsAssumption ==
    /\ QueueSize \in [Media -> Nat \ {0}]
    /\ MaxSessions \in Nat /\ MaxFrames \in [Media -> Nat]
ASSUME ConfigAssumption == CamerasEntries \subseteq {"map", "null"}

NoSession == 0
SessionIds == 1 .. MaxSessions

VARIABLES
    sessions,      \* the registry: the session of each device, if any
    dev,           \* the device of each session made so far, in order
    transport,     \* session -> none, open, closed or failed
    peer,          \* session -> unresolved, camera or nowhere
    connected,     \* session -> Session.connected
    sess_timer,    \* session -> its timeout task is running
    listeners,     \* session -> the events this server listens to
    queues,        \* feed -> the clients whose queue is in the list
    phase,         \* client -> idle, preparing, streaming or ended
    queue,         \* client -> the frames in its asyncio.Queue
    written,       \* client -> history: the frames written to it
    frames,        \* feed -> history: how many of its events went out
    since,         \* client -> history: frames[its feed] when registered
    overflowed,    \* client -> history: a frame found its queue full
    discoveries,   \* device -> history: how many sessions it was given
    epoch,         \* client -> history: discoveries[...] when registered
    early_closed   \* history: sessions closed before their endpoint opened

registry  == <<sessions, dev, listeners>>
endpoints == <<transport, peer, connected, sess_timer>>
clients   == <<phase, queue, written>>
history   == <<frames, since, overflowed, discoveries, epoch, early_closed>>
vars == <<registry, endpoints, queues, clients, history>>

Medium(c) == Watches[c][2]

TypeOK ==
    /\ sessions \in [Devs -> {NoSession} \cup SessionIds]
    /\ dev \in Seq(Devs) /\ Len(dev) <= MaxSessions
    /\ transport \in [SessionIds -> {"none", "open", "closed", "failed"}]
    /\ peer \in [SessionIds -> {"unresolved", "camera", "nowhere"}]
    /\ connected \in [SessionIds -> BOOLEAN]
    /\ sess_timer \in [SessionIds -> BOOLEAN]
    /\ listeners \in [SessionIds -> SUBSET (Media \cup {"disconnect"})]
    /\ queues \in [Feeds -> SUBSET Clients]
    /\ phase \in [Clients -> {"idle", "preparing", "streaming", "ended"}]
    /\ queue \in [Clients -> Seq(Nat)] /\ written \in [Clients -> Seq(Nat)]
    /\ \A c \in Clients : Len(queue[c]) <= QueueSize[Medium(c)]
    /\ frames \in [Feeds -> Nat] /\ since \in [Clients -> Nat]
    /\ overflowed \in [Clients -> BOOLEAN]
    /\ discoveries \in [Devs -> 0 .. MaxSessions]
    /\ epoch \in [Clients -> 0 .. MaxSessions]
    /\ early_closed \subseteq SessionIds

Init ==
    /\ sessions = [d \in Devs |-> NoSession]
    /\ dev = <<>>
    /\ transport = [s \in SessionIds |-> "none"]
    /\ peer = [s \in SessionIds |-> "unresolved"]
    /\ connected = [s \in SessionIds |-> TRUE]
    /\ sess_timer = [s \in SessionIds |-> FALSE]
    /\ listeners = [s \in SessionIds |-> {}]
    /\ queues = [f \in Feeds |-> {}]
    /\ phase = [c \in Clients |-> "idle"]
    /\ queue = [c \in Clients |-> <<>>]
    /\ written = [c \in Clients |-> <<>>]
    /\ frames = [f \in Feeds |-> 0]
    /\ since = [c \in Clients |-> 0]
    /\ overflowed = [c \in Clients |-> FALSE]
    /\ discoveries = [d \in Devs |-> 0]
    /\ epoch = [c \in Clients |-> 0]
    /\ early_closed = {}

Made == 1 .. Len(dev)

-----------------------------------------------------------------------------
(* Discovery: a PunchPkt from device d.                                    *)

UnknownOrUnopened(d) ==
    sessions[d] # NoSession => transport[sessions[d]] # "open"
Unknown(d) == sessions[d] = NoSession

(* The listeners _on_discover attaches.  The merge of the camera's defaults *)
(* raises when `cameras` is null (an empty section of the file), after the *)
(* session was registered and before any listener is attached; audio gets  *)
(* one if the setting is on at this moment.                                *)
Listeners(entry, audio) ==
    IF entry = "null" THEN {}
    ELSE {"frame", "disconnect"} \cup (IF audio THEN {"audio"} ELSE {})

(* _on_discover: a device that has a session is ignored; otherwise its     *)
(* queue lists are made anew and a session is made and registered.         *)
Discover(d) ==
    /\ Unknown(d)
    /\ Len(dev) < MaxSessions
    /\ dev' = Append(dev, d)
    /\ sessions' = [sessions EXCEPT ![d] = Len(dev) + 1]
    /\ queues' = [f \in Feeds |-> IF f[1] = d THEN {} ELSE queues[f]]
    /\ \E entry \in CamerasEntries, audio \in BOOLEAN :
          listeners' = [listeners EXCEPT ![Len(dev) + 1] = Listeners(entry, audio)]
    /\ discoveries' = [discoveries EXCEPT ![d] = @ + 1]
    /\ UNCHANGED <<endpoints, clients, frames, since, overflowed, epoch,
                   early_closed>>

-----------------------------------------------------------------------------
(* The endpoint of a session (see Session: same names, same steps).        *)

ConnectStart(s) ==
    /\ transport[s] = "none" /\ peer[s] = "unresolved"
    /\ peer' = [peer EXCEPT ![s] = IF connected[s] THEN "camera" ELSE "nowhere"]
    /\ UNCHANGED <<registry, transport, connected, sess_timer, queues,
                   clients, history>>

ConnectFail(s) ==
    /\ transport[s] = "none" /\ peer[s] # "unresolved"
    /\ transport' = [transport EXCEPT ![s] = "failed"]
    /\ UNCHANGED <<registry, peer, connected, sess_timer, queues,
                   clients, history>>

ConnectionMade(s) ==
    /\ transport[s] = "none" /\ peer[s] # "unresolved"
    /\ transport' = [transport EXCEPT ![s] = "open"]
    /\ sess_timer' = [sess_timer EXCEPT ![s] = TRUE]
    /\ UNCHANGED <<registry, peer, connected, queues, clients, history>>

TransportLeftOpen(s) == transport[s]
CloseTransport(s) == IF transport[s] = "open" THEN "closed" ELSE transport[s]

(* Session._on_disconnect: the first call tears down what is there, a      *)
(* later one returns early (and leaves the timeout task as it is).         *)
TearDown(s, left_running) ==
    \/ /\ connected[s]
       /\ connected' = [connected EXCEPT ![s] = FALSE]
       /\ sess_timer' = [sess_timer EXCEPT ![s] = FALSE]
       /\ transport' = [transport EXCEPT ![s] = CloseTransport(s)]
       /\ early_closed' = IF transport[s] = "none" THEN early_closed \cup {s}
                                                   ELSE early_closed
    \/ /\ ~connected[s]
       /\ sess_timer' = [sess_timer EXCEPT ![s] = left_running]
       /\ UNCHANGED <<connected, transport, early_closed>>

(* on_disconnect: whatever session the device has NOW leaves the registry. *)
NotDropped(s) == sessions
Dropped(s) == [sessions EXCEPT ![dev[s]] = NoSession]

EmitDisconnect(s, left_running) ==
    /\ TearDown(s, left_running)
    /\ sessions' = IF "disconnect" \in listeners[s] THEN Dropped(s) ELSE sessions
    /\ UNCHANGED <<dev, listeners, peer, queues, clients, frames, since,
                   overflowed, discoveries, epoch>>

(* _sess_timer gives up on the camera; the task ends either way.           *)
TimedOut(s) ==
    /\ sess_timer[s]
    /\ EmitDisconnect(s, FALSE)

(* The camera sends Close.                                                 *)
Listening(s) == transport[s] = "open" /\ peer[s] = "camera"

CloseFromCamera(s) ==
    /\ Listening(s)
    /\ EmitDisconnect(s, sess_timer[s])

(* POST /api/cameras/{devId}/reconnect closes the session, if there is one, *)
(* and has discovery probe the camera again (its answer is Discover).      *)
Reconnect(d) ==
    /\ sessions[d] # NoSession
    /\ EmitDisconnect(sessions[d], sess_timer[sessions[d]])

-----------------------------------------------------------------------------
(* Frames, audio and clients.                                              *)

Unbounded(c) == TRUE
HasRoom(c) == Len(queue[c]) < QueueSize[Medium(c)]

(* on_frame, on_audio: the chunk goes to every queue in the list of the    *)
(* device; one that is full misses it.                                     *)
NobodyIfOneIsFull(f) ==
    IF \A c \in queues[f] : HasRoom(c) THEN queues[f] ELSE {}
Receivers(f) == {c \in queues[f] : HasRoom(c)}

OnChunk(s, m) ==
    LET f == Feed(dev[s], m) IN
    /\ Listening(s)
    /\ m \in listeners[s]
    /\ frames[f] < MaxFrames[m]
    /\ frames' = [frames EXCEPT ![f] = @ + 1]
    /\ queue' = [c \in Clients |-> IF c \in Receivers(f)
                                   THEN Append(queue[c], frames[f] + 1)
                                   ELSE queue[c]]
    /\ overflowed' = [c \in Clients |-> \/ overflowed[c]
                                        \/ c \in queues[f] /\ ~HasRoom(c)]
    /\ UNCHANGED <<registry, endpoints, queues, phase, written,
                   since, discoveries, epoch, early_closed>>

(* GET /camera or /audio for a device with a connected session; the handler *)
(* then awaits prepare(), which sends the response headers.                *)
Session(c) == sessions[Watches[c][1]]

ClientOpen(c) ==
    /\ phase[c] = "idle"
    /\ Session(c) # NoSession
    /\ connected[Session(c)]
    /\ phase' = [phase EXCEPT ![c] = "preparing"]
    /\ UNCHANGED <<registry, endpoints, queues, queue, written, history>>

(* prepare() returns: the queue joins the list the device has NOW.         *)
ClientPrepared(c) ==
    LET f == Watches[c] IN
    /\ phase[c] = "preparing"
    /\ phase' = [phase EXCEPT ![c] = "streaming"]
    /\ queues' = [queues EXCEPT ![f] = @ \cup {c}]
    /\ since' = [since EXCEPT ![c] = frames[f]]
    /\ epoch' = [epoch EXCEPT ![c] = discoveries[f[1]]]
    /\ UNCHANGED <<registry, endpoints, queue, written, frames, overflowed,
                   discoveries, early_closed>>

(* The oldest chunk is taken and written.                                  *)
ClientGet(c) ==
    /\ phase[c] = "streaming"
    /\ queue[c] # <<>>
    /\ queue' = [queue EXCEPT ![c] = Tail(@)]
    /\ written' = [written EXCEPT ![c] = Append(@, Head(queue[c]))]
    /\ UNCHANGED <<registry, endpoints, queues, phase, history>>

(* The browser goes away: prepare() or a write raises, or the handler is   *)
(* cancelled.  Its queue leaves the list of the device, if it is in it     *)
(* (list.remove raises otherwise, at the end of the handler).              *)
QueueKept(c) == queues
QueueRemoved(c) == [queues EXCEPT ![Watches[c]] = @ \ {c}]

ClientGone(c) ==
    /\ phase[c] \in {"preparing", "streaming"}
    /\ phase' = [phase EXCEPT ![c] = "ended"]
    /\ queues' = IF phase[c] = "streaming" THEN QueueRemoved(c) ELSE queues
    /\ UNCHANGED <<registry, endpoints, queue, written, history>>

-----------------------------------------------------------------------------
SessionStep(s) ==
    \/ ConnectStart(s) \/ ConnectFail(s) \/ ConnectionMade(s)
    \/ TimedOut(s) \/ CloseFromCamera(s)
    \/ \E m \in Media : OnChunk(s, m)

ClientStep(c) ==
    ClientOpen(c) \/ ClientPrepared(c) \/ ClientGet(c) \/ ClientGone(c)

Next ==
    \/ \E d \in Devs : Discover(d) \/ Reconnect(d)
    \/ \E s \in Made : SessionStep(s)
    \/ \E c \in Clients : ClientStep(c)

Spec == Init /\ [][Next]_vars

-----------------------------------------------------------------------------
(* Properties.                                                             *)

(* The registry never names a dead session: a session found under a device *)
(* is a session of that device, and one that has not been disconnected, if *)
(* its discovery ran to the end.                                           *)
RegisteredIsConnected ==
    \A d \in Devs : sessions[d] # NoSession =>
        /\ sessions[d] \in Made
        /\ dev[sessions[d]] = d
        /\ "disconnect" \in listeners[sessions[d]] => connected[sessions[d]]

(* No queue is leaked and none is shared: a list holds exactly the queues  *)
(* of the handlers that are streaming this feed and registered after its   *)
(* camera was last discovered, although the list a handler joins, after an *)
(* await, and the list it leaves need not be the one it was let in for.    *)
QueuesAreCurrent ==
    \A f \in Feeds :
        queues[f] = {c \in Clients : /\ Watches[c] = f
                                    /\ phase[c] = "streaming"
                                    /\ epoch[c] = discoveries[f[1]]}

(* One client cannot spoil another's stream: what a registered client was  *)
(* and will be written is in the order of the frames, and misses none since *)
(* it registered unless ITS OWN queue was full, whatever the other clients *)
(* of the camera do.                                                       *)
Stream(c) == written[c] \o queue[c]
FramesSince(c) == [i \in 1 .. frames[Watches[c]] - since[c] |-> since[c] + i]
StreamsAreFaithful ==
    \A c \in Clients :
        /\ \A i, j \in 1 .. Len(Stream(c)) : i < j => Stream(c)[i] < Stream(c)[j]
        /\ c \in queues[Watches[c]] /\ ~overflowed[c]
               => Stream(c) = FramesSince(c)

(* Two live sessions of one camera need a session that was closed before   *)
(* its endpoint opened: no other order of discovery, timeout, Close and    *)
(* reconnect makes a second one.                                           *)
SecondSessionNeedsEarlyClose ==
    \A s, t \in Made :
        s # t /\ dev[s] = dev[t] /\ connected[s] /\ connected[t]
            => \E e \in early_closed : dev[e] = dev[s]

(* Each session lives as module SessionLife says, as Session's do: the two *)
(* listeners of a disconnect, and disconnects of sessions the registry no  *)
(* longer names, do nothing to a session that a session does not expect.   *)
Life(s) == INSTANCE SessionLife WITH
    transport <- transport[s], peer <- peer[s],
    connected <- connected[s], timing <- sess_timer[s]

SessionsLiveAsTold ==
    /\ \A s \in SessionIds : Life(s)!Init
    /\ [][\A s \in SessionIds : [Life(s)!Next]_(Life(s)!vars)]_vars

(* A camera whose connect task died stays blocked: its session is in the    *)
(* registry as a connected one, so PunchPkts are ignored, and nothing but a *)
(* reconnect request takes it out again, unless another session of the      *)
(* camera was closed before its endpoint opened and times out later.        *)
FailedBlocksCamera ==
    [][\A d \in Devs :
          sessions[d] # NoSession /\ transport[sessions[d]] = "failed" =>
              \/ sessions'[d] = sessions[d]
              \/ Reconnect(d)
              \/ \E e \in early_closed : dev[e] = d]_vars

(* "each connected HTTP client has an asyncio.Queue that those callbacks   *)
(* push into" (http_server.py:4-6): a client that streams a camera with a  *)
(* session is in its list.                                                 *)
StreamingClientIsFed ==
    \A c \in Clients :
        phase[c] = "streaming" /\ Session(c) # NoSession
            => c \in queues[Watches[c]]
=============================================================================
