------------------------------ MODULE Snapshot -------------------------------
(***************************************************************************)
(* GET /snapshot/{devId} (cam_reverse/http_server.py): a request listens to *)
(* the "frame" event of the session it found, and is answered with the next *)
(* frame or after a timeout.                                                *)
(*                                                                         *)
(* Emitting is synchronous and a listener that raises ends it: the server's *)
(* own on_frame comes first, the one-shot listeners of the requests after  *)
(* it.  One camera; its sessions come and go while requests wait.          *)
(***************************************************************************)
EXTENDS Integers, Sequences, FiniteSets

CONSTANTS
    Requests,    \* the requests for a snapshot
    Timeout,     \* ticks wait_for waits: 10 s
    MaxSessions, \* bound: sessions made in a behaviour
    MaxFrames    \* bound: frames a session emits

NoSession == 0
SessionIds == 1 .. MaxSessions
OnFrame == "on_frame"     \* the server's listener, one per session

ASSUME SnapshotAssumption ==
    /\ Timeout \in Nat \ {0} /\ MaxSessions \in Nat /\ MaxFrames \in Nat
    /\ OnFrame \notin Requests

VARIABLES
    cameras,     \* settings.config["cameras"]: a map, or null
    session,     \* sessions[dev_id], if any
    made,        \* how many sessions were made
    transport,   \* session -> none, open or closed
    connected,   \* session -> Session.connected
    listeners,   \* session -> the listeners of its "frame" event
    phase,       \* request -> idle, waiting, image, error, timeout, gone
    found,       \* request -> the session it listens to
    fut,         \* request -> its future: pending, image or exception
    age,         \* request -> ticks since it began to wait
    emitted,     \* session -> history: for each frame, was it well formed
    since,       \* request -> history: frames of its session before it
    served,      \* request -> history: the frame it was given
    in_time      \* request -> history: a frame was there before the timeout

camera   == <<session, made, transport, connected>>
requests == <<phase, found, age, since>>
vars == <<cameras, camera, listeners, requests, fut, emitted, served, in_time>>

TypeOK ==
    /\ cameras \in {"map", "null"}
    /\ session \in 0 .. made /\ made \in 0 .. MaxSessions
    /\ transport \in [SessionIds -> {"none", "open", "closed"}]
    /\ connected \in [SessionIds -> BOOLEAN]
    /\ listeners \in [SessionIds -> SUBSET (Requests \cup {OnFrame})]
    /\ phase \in [Requests -> {"idle", "waiting", "image", "error", "timeout",
                               "gone"}]
    /\ found \in [Requests -> 0 .. made]
    /\ fut \in [Requests -> {"pending", "image", "exception"}]
    /\ age \in [Requests -> 0 .. Timeout]
    /\ emitted \in [SessionIds -> Seq(BOOLEAN)]
    /\ since \in [Requests -> 0 .. MaxFrames]
    /\ served \in [Requests -> 0 .. MaxFrames]
    /\ in_time \in [Requests -> BOOLEAN]

Init ==
    /\ cameras = "map"
    /\ session = NoSession /\ made = 0
    /\ transport = [s \in SessionIds |-> "none"]
    /\ connected = [s \in SessionIds |-> TRUE]
    /\ listeners = [s \in SessionIds |-> {}]
    /\ phase = [r \in Requests |-> "idle"]
    /\ found = [r \in Requests |-> NoSession]
    /\ fut = [r \in Requests |-> "pending"]
    /\ age = [r \in Requests |-> 0]
    /\ emitted = [s \in SessionIds |-> <<>>]
    /\ since = [r \in Requests |-> 0]
    /\ served = [r \in Requests |-> 0]
    /\ in_time = [r \in Requests |-> FALSE]

-----------------------------------------------------------------------------
(* The camera's sessions (see Gateway) and the config.                     *)

(* _on_discover: with `cameras` null it raises before it listens.          *)
Discover ==
    /\ session = NoSession /\ made < MaxSessions
    /\ made' = made + 1 /\ session' = made + 1
    /\ listeners' = [listeners EXCEPT ![made + 1] =
                        IF cameras = "map" THEN {OnFrame} ELSE {}]
    /\ UNCHANGED <<cameras, transport, connected, requests, fut, emitted,
                   served, in_time>>

Open(s) ==
    /\ transport[s] = "none"
    /\ transport' = [transport EXCEPT ![s] = "open"]
    /\ UNCHANGED <<cameras, session, made, connected, listeners, requests, fut,
                   emitted, served, in_time>>

(* "disconnect" of a session, by its timeout, a Close or a reconnect: the  *)
(* requests that wait for its frames are not told.  A session that was     *)
(* disconnected before its transport opened gets a Close after it too; the *)
(* server drops what is registered then, another session as well.          *)
Disconnect(s) ==
    /\ connected[s] \/ transport[s] = "open"
    /\ connected' = [connected EXCEPT ![s] = FALSE]
    /\ transport' = [transport EXCEPT ![s] = IF connected[s] /\ @ = "open" THEN "closed" ELSE @]
    /\ session' = IF OnFrame \in listeners[s] THEN NoSession ELSE session
    /\ UNCHANGED <<cameras, made, listeners, requests, fut, emitted, served,
                   in_time>>

(* POST /api/config with `cameras` null; apply_config cannot take it back. *)
ConfigLost ==
    /\ cameras = "map" /\ cameras' = "null"
    /\ UNCHANGED <<camera, listeners, requests, fut, emitted, served, in_time>>

-----------------------------------------------------------------------------
(* Frames.                                                                 *)

(* _assemble_frame raises on a frame whose first slice takes no EXIF       *)
(* segment, and without a map of cameras.                                  *)
Raises(well_formed) == ~well_formed \/ cameras = "null"

ServedAgain(r) == TRUE
NotDone(r) == fut[r] = "pending"

(* The one-shot listeners that run: all, unless on_frame raised first.     *)
AudienceOfTheCurrent(s, well_formed) ==
    IF s = session THEN listeners[s] \ {OnFrame} ELSE {}
Audience(s, well_formed) ==
    IF OnFrame \in listeners[s] /\ Raises(well_formed)
    THEN {} ELSE listeners[s] \ {OnFrame}

EmitFrame(s, well_formed) ==
    /\ transport[s] = "open"
    /\ Len(emitted[s]) < MaxFrames
    /\ emitted' = [emitted EXCEPT ![s] = Append(@, ~Raises(well_formed))]
    /\ LET told == {r \in Audience(s, well_formed) : NotDone(r)} IN
       /\ fut' = [r \in Requests |->
                    IF r \notin told THEN fut[r]
                    ELSE IF Raises(well_formed) THEN "exception" ELSE "image"]
       /\ served' = [r \in Requests |->
                       IF r \in told THEN Len(emitted[s]) + 1 ELSE served[r]]
    /\ in_time' = [r \in Requests |->
                     \/ in_time[r]
                     \/ /\ phase[r] = "waiting" /\ found[r] = s
                        /\ age[r] < Timeout /\ ~Raises(well_formed)]
    /\ UNCHANGED <<cameras, camera, listeners, requests>>

-----------------------------------------------------------------------------
(* Requests.                                                               *)

(* The handler up to wait_for; it answers at once if there is no connected *)
(* session.                                                                *)
Request(r) ==
    /\ phase[r] = "idle"
    /\ session # NoSession /\ connected[session]
    /\ phase' = [phase EXCEPT ![r] = "waiting"]
    /\ found' = [found EXCEPT ![r] = session]
    /\ since' = [since EXCEPT ![r] = Len(emitted[session])]
    /\ listeners' = [listeners EXCEPT ![session] = @ \cup {r}]
    /\ UNCHANGED <<cameras, camera, fut, age, emitted, served, in_time>>

(* The handler goes on: it takes its listener off the session IT found;    *)
(* its future and its timeout are gone with it.                            *)
CurrentSession(r) == IF session = NoSession THEN found[r] ELSE session
ListensTo(r) == found[r]

Answer(r, how) ==
    /\ phase[r] = "waiting"
    /\ phase' = [phase EXCEPT ![r] = how]
    /\ listeners' = [listeners EXCEPT ![ListensTo(r)] = @ \ {r}]
    /\ fut' = [fut EXCEPT ![r] = "pending"] /\ age' = [age EXCEPT ![r] = 0]
    /\ UNCHANGED <<cameras, camera, found, since, emitted, served, in_time>>

(* The future is done.                                                     *)
Resume(r) ==
    \/ fut[r] = "image" /\ Answer(r, "image")
    \/ fut[r] = "exception" /\ Answer(r, "error")

(* The timeout of wait_for; a future done in the same turn of the loop     *)
(* does or does not come first (the versions of asyncio differ).           *)
ExpiredIfOnline(r) == age[r] = Timeout /\ connected[found[r]]
Expired(r) == age[r] = Timeout
Expire(r) == Expired(r) /\ Answer(r, "timeout")

(* The handler is cancelled.                                               *)
Gone(r) == Answer(r, "gone")

(* Time passes when everything due has run: a turn of the loop is short    *)
(* next to a tick.                                                         *)
Due(r) == phase[r] = "waiting" /\ (age[r] = Timeout \/ fut[r] # "pending")
NothingDue == \A r \in Requests : ~Due(r)

Tick ==
    /\ \E r \in Requests : phase[r] = "waiting"
    /\ NothingDue
    /\ age' = [r \in Requests |-> IF phase[r] = "waiting" THEN age[r] + 1 ELSE age[r]]
    /\ UNCHANGED <<cameras, camera, listeners, phase, found, since, fut,
                   emitted, served, in_time>>

-----------------------------------------------------------------------------
RequestStep(r) == Request(r) \/ Resume(r) \/ Expire(r) \/ Gone(r)

SessionStep(s) ==
    Open(s) \/ Disconnect(s) \/ \E well_formed \in BOOLEAN : EmitFrame(s, well_formed)

Next ==
    \/ Discover \/ ConfigLost \/ Tick
    \/ \E s \in 1 .. made : SessionStep(s)
    \/ \E r \in Requests : RequestStep(r)

Spec == Init /\ [][Next]_vars

(* The loop runs what is due, and time passes.                             *)
Fairness == WF_vars(Tick) /\ \A r \in Requests : WF_vars(Resume(r) \/ Expire(r))
FairSpec == Spec /\ Fairness

-----------------------------------------------------------------------------
(* Properties.                                                             *)

(* A request that gets an image gets the first frame its session could     *)
(* show after the request came: not an older one, nor one of another       *)
(* session of the camera, nor a later one when two come in one turn.       *)
Shown(r) == {i \in since[r] + 1 .. Len(emitted[found[r]]) : emitted[found[r]][i]}
NextFrameServed ==
    \A r \in Requests : phase[r] = "image" =>
        /\ served[r] \in Shown(r)
        /\ \A i \in Shown(r) : served[r] <= i

(* No listener outlives its request, on any session, and none is lost while *)
(* its request waits, although the camera's session may have been replaced. *)
NoListenerLeak ==
    \A s \in 1 .. made :
        listeners[s] \ {OnFrame} = {r \in Requests : phase[r] = "waiting"
                                                     /\ found[r] = s}

(* "no frame within timeout" is only said of a request that had none before *)
(* its last tick, whatever became of its session.                          *)
FrameInTimeIsServed ==
    \A r \in Requests : phase[r] = "timeout" => ~in_time[r]

(* A request is answered, though its session may die, its frames be        *)
(* malformed or the camera stay silent.                                    *)
EveryRequestIsAnswered ==
    \A r \in Requests : phase[r] = "waiting" ~> phase[r] # "waiting"

(* "malformed frame; report rather than hang" (http_server.py:213): no     *)
(* request goes on waiting when a malformed frame of its session comes.    *)
MalformedIsReported ==
    [][\A r \in Requests, s \in 1 .. made :
          EmitFrame(s, FALSE) /\ phase[r] = "waiting" /\ found[r] = s
              => fut'[r] # "pending"]_vars
=============================================================================
