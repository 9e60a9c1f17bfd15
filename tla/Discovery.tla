------------------------------ MODULE Discovery ------------------------------
(***************************************************************************)
(* LAN discovery (cam_reverse/discovery.py) and two of its owners: the HTTP *)
(* server, which adds targets and blacklists addresses while it runs, and  *)
(* the `frame` command (cam_reverse/capture_single.py), which writes the   *)
(* first frame of any camera to a file and stops (module Pairing has the   *)
(* third).  Datagrams may be lost.  A session of `frame` is reduced to     *)
(* whether it has connected and lives; module Session has the rest.        *)
(***************************************************************************)
EXTENDS Integers, Sequences, FiniteSets

CONSTANTS
    Ips,         \* addresses that are probed: broadcast or a camera's own
    Cams,        \* cameras
    Reaches,     \* address -> the cameras a probe of it may reach
    MaxRequests, \* bound: requests of the server's users
    MaxFailures  \* bound: writes of the file that fail

ASSUME NetworkAssumption == IsFiniteSet(Ips) /\ Reaches \in [Ips -> (SUBSET Cams) \ {{}}]
ASSUME BoundsDiscovery == MaxRequests \in Nat /\ MaxFailures \in Nat

VARIABLES
    command,     \* which command runs: http_server or frame
    listed,      \* discovery_ips, the list itself, read when the task starts
    task,        \* _run_discovery: starting, running, failed or closed
    active,      \* the addresses _add_target knows
    tasks,       \* the tasks that blast: their address, and if they sleep
    asked,       \* the cameras a LanSearch is under way to
    blacklisted, \* the cameras whose address is in blacklisted_ips
    found,       \* the cameras a "discover" event named
    session,     \* frame: camera -> the state of its session, see Sessions
    file,        \* frame: the file: old, partial or whole
    done,        \* frame: the event capture_single waits for
    requests,    \* bound counter
    failures,    \* bound counter
    spoiled      \* history: a write failed after `done` was set

(* No session; one whose connect task has not ended, or has failed; one     *)
(* that has its socket; one that was disconnected; one closed by a frame.  *)
Sessions == {"none", "connecting", "failed", "live", "dead", "closed"}

machine == <<task, active, tasks>>
capture == <<session, file, done, failures, spoiled>>
vars == <<command, listed, machine, asked, blacklisted, found, capture, requests>>

(* Types; and no task sends without the socket, before it is there or after *)
(* it is closed, though the second frame of a capture closes it again.     *)
TypeOK ==
    /\ task # "running" => tasks = <<>>
    /\ command \in {"http_server", "frame"} /\ listed \subseteq Ips
    /\ task \in {"starting", "running", "failed", "closed"}
    /\ active \subseteq Ips /\ tasks \in Seq([ip : Ips, asleep : BOOLEAN])
    /\ asked \subseteq Cams /\ blacklisted \subseteq Cams /\ found \subseteq Cams
    /\ session \in [Cams -> Sessions]
    /\ file \in {"old", "partial", "whole"}
    /\ done \in BOOLEAN /\ spoiled \in BOOLEAN
    /\ requests \in 0 .. MaxRequests /\ failures \in 0 .. MaxFailures

Init ==
    /\ command \in {"http_server", "frame"}
    /\ listed \in SUBSET Ips /\ (command = "frame" => Cardinality(listed) = 1)
    /\ task = "starting" /\ active = {} /\ tasks = <<>> /\ asked = {}
    /\ blacklisted = {} /\ found = {}
    /\ session = [c \in Cams |-> "none"] /\ file = "old" /\ done = FALSE
    /\ requests = 0 /\ failures = 0 /\ spoiled = FALSE

-----------------------------------------------------------------------------
(* The discovery task.                                                     *)

(* Tasks for the addresses in `ips`, in some order.                        *)
NewTasks(ips) ==
    {t \in [1 .. Cardinality(ips) -> [ip : ips, asleep : {FALSE}]] :
        \A ip \in ips : \E i \in DOMAIN t : t[i].ip = ip}

(* The socket is there: every listed address gets a task, and the task     *)
(* listens to add_target and close.  What is listed by now is what counts. *)
StartDiscovery ==
    /\ task = "starting" /\ task' = "running"
    /\ active' = listed /\ tasks' \in NewTasks(listed)
    /\ UNCHANGED <<command, listed, asked, blacklisted, found, capture, requests>>

(* The socket cannot be made: the task dies and nobody is told.            *)
FailDiscovery ==
    /\ task = "starting" /\ task' = "failed"
    /\ UNCHANGED <<command, listed, active, tasks, asked, blacklisted, found,
                   capture, requests>>

(* A send that fails is only logged, so it is a LanSearch that gets lost.   *)
Probe(ip) == asked' = asked \cup Reaches[ip]

(* _blast: the task of one address sends a LanSearch and sleeps for 3 s.   *)
BlastOnce(i) ==
    /\ ~tasks[i].asleep /\ Probe(tasks[i].ip)
    /\ tasks' = [tasks EXCEPT ![i].asleep = TRUE]

WakesUntilFound(i) ==
    found = {} /\ tasks[i].asleep /\ tasks' = [tasks EXCEPT ![i].asleep = FALSE]
    /\ UNCHANGED asked
Wake(i) ==
    /\ tasks[i].asleep /\ tasks' = [tasks EXCEPT ![i].asleep = FALSE]
    /\ UNCHANGED asked

TaskStep(i) ==
    /\ BlastOnce(i) \/ Wake(i)
    /\ UNCHANGED <<command, listed, task, active, blacklisted, found, capture, requests>>

(* _add_target, if it listens yet: a known address is probed at once.      *)
AlwaysNew(ip) == TRUE
IsNew(ip) == ip \notin active

AddTarget(ip) ==
    /\ task' = task
    /\ IF task # "running" THEN UNCHANGED <<active, tasks, asked>>
       ELSE IF IsNew(ip)
       THEN /\ active' = active \cup {ip}
            /\ tasks' = Append(tasks, [ip |-> ip, asleep |-> FALSE])
            /\ UNCHANGED asked
       ELSE Probe(ip) /\ UNCHANGED <<active, tasks>>

(* _on_close.                                                              *)
ClosedSocketOnly == task' = "closed" /\ UNCHANGED <<active, tasks>>
Closed == task' = "closed" /\ tasks' = <<>> /\ UNCHANGED active

-----------------------------------------------------------------------------
(* The network.                                                            *)

Lose(c) ==
    /\ c \in asked /\ asked' = asked \ {c}
    /\ UNCHANGED <<command, listed, machine, blacklisted, found, capture, requests>>

(* on_discover of capture_single: a camera that ever had a session is      *)
(* ignored; another one gets one, and its connect task.                    *)
OnDiscover(c) ==
    IF command = "frame" /\ session[c] = "none"
    THEN session' = [session EXCEPT ![c] = "connecting"]
    ELSE UNCHANGED session

(* The camera answers with a PunchPkt; what comes from a blacklisted       *)
(* address is dropped.                                                     *)
Answer(c) ==
    /\ c \in asked /\ task = "running"
    /\ asked' = asked \ {c}
    /\ IF c \in blacklisted THEN UNCHANGED <<found, session>>
       ELSE found' = found \cup {c} /\ OnDiscover(c)
    /\ UNCHANGED <<command, listed, machine, blacklisted, file, done, failures,
                   spoiled, requests>>

-----------------------------------------------------------------------------
(* The HTTP server's users.                                                *)

(* POST /api/discover, which may remember the address (see Settings), and  *)
(* a reconnect of the camera at `ip` (see Gateway).                        *)
RequestTarget(ip, remember) ==
    /\ command = "http_server" /\ requests < MaxRequests
    /\ requests' = requests + 1
    /\ AddTarget(ip)
    /\ listed' = IF remember THEN listed \cup {ip} ELSE listed
    /\ UNCHANGED <<command, blacklisted, found, capture>>

(* POST /api/config with another blacklist.                                *)
SetBlacklist ==
    /\ command = "http_server" /\ requests < MaxRequests
    /\ requests' = requests + 1
    /\ blacklisted' \in SUBSET Cams
    /\ UNCHANGED <<command, listed, machine, asked, found, capture>>

-----------------------------------------------------------------------------
(* The frame command.                                                      *)

(* on_frame: the file is truncated and written; then discovery and the     *)
(* session are closed and the command is told.  If opening or writing      *)
(* fails the listener raises before that.  Until the command runs again a  *)
(* frame of another camera may come and do all of it once more.            *)
StopsAtFrame(c, written) ==
    /\ Closed
    /\ session' = [session EXCEPT ![c] = "closed"] /\ done' = TRUE
ClosesFirst(c, written) ==
    /\ session' = [session EXCEPT ![c] = "closed"]
    /\ IF written THEN Closed /\ done' = TRUE ELSE UNCHANGED <<machine, done>>
StopsWhenWritten(c, written) ==
    IF written
    THEN /\ Closed
         /\ session' = [session EXCEPT ![c] = "closed"] /\ done' = TRUE
    ELSE UNCHANGED <<machine, session, done>>

OnFrame(c) ==
    /\ session[c] = "live"
    /\ \/ StopsWhenWritten(c, TRUE) /\ file' = "whole" /\ UNCHANGED <<failures, spoiled>>
       \/ /\ failures < MaxFailures /\ failures' = failures + 1
          /\ file' \in {file, "partial"} /\ spoiled' = (done \/ spoiled)
          /\ StopsWhenWritten(c, FALSE)
    /\ UNCHANGED <<command, listed, asked, blacklisted, found, requests>>

Becomes(c, state) ==
    /\ session' = [session EXCEPT ![c] = state]
    /\ UNCHANGED <<command, listed, machine, asked, blacklisted, found, file,
                   done, failures, spoiled, requests>>

(* The connect task makes the socket, or dies: of that nobody is told, and  *)
(* the session stays what it is, without frames and without a timeout.     *)
Connect(c) == session[c] = "connecting" /\ (Becomes(c, "live") \/ Becomes(c, "failed"))

(* The session's timeout, or a Close of the camera: the command does not    *)
(* listen for it.                                                          *)
Disconnect(c) == session[c] = "live" /\ Becomes(c, "dead")

(* The command goes on after done.wait() and returns: all sessions end.    *)
Return ==
    /\ done /\ \E c \in Cams : session[c] \in {"connecting", "live"}
    /\ session' = [c \in Cams |-> "closed"]
    /\ UNCHANGED <<command, listed, machine, asked, blacklisted, found, file,
                   done, failures, spoiled, requests>>

-----------------------------------------------------------------------------
Next ==
    \/ StartDiscovery \/ FailDiscovery \/ SetBlacklist \/ Return
    \/ \E i \in DOMAIN tasks : TaskStep(i)
    \/ \E c \in Cams : Lose(c) \/ Answer(c) \/ OnFrame(c) \/ Connect(c) \/ Disconnect(c)
    \/ \E ip \in Ips, remember \in BOOLEAN : RequestTarget(ip, remember)

Spec == Init /\ [][Next]_vars

(* The loop runs the tasks that are ready, and not every probe and answer  *)
(* is lost.  No fairness makes a session connect, show a frame or end.     *)
Fairness ==
    /\ WF_vars(StartDiscovery \/ FailDiscovery)
    /\ \A i \in 1 .. Cardinality(Ips) : WF_vars(i \in DOMAIN tasks /\ TaskStep(i))
    /\ \A c \in Cams : SF_vars(Answer(c)) /\ WF_vars(Connect(c))

FairSpec == Spec /\ Fairness

-----------------------------------------------------------------------------
(* Properties.                                                             *)

(* However often an address is listed, added, remembered or nudged, one    *)
(* task probes it, and every known address has its task until the close.   *)
OneBlastPerTarget ==
    task = "running" =>
        /\ \A ip \in active : \E i \in DOMAIN tasks : tasks[i].ip = ip
        /\ Len(tasks) = Cardinality(active)

(* An address that was added is probed until its cameras answered, however *)
(* many probes and answers get lost, unless they stay blacklisted.         *)
TargetIsFound ==
    \A c \in Cams :
        <>[](c \notin blacklisted) =>
            (\E ip \in active : c \in Reaches[ip]) ~> (c \in found \/ task = "closed")

(* The command tells of a frame only when the file has it: what is there   *)
(* when it returns is never the beginning of a frame, unless a second      *)
(* camera's frame came before it could return and that one's write failed. *)
DoneMeansWholeFile == done /\ ~spoiled => file = "whole"

(* The command ends, however many datagrams are lost and after failed       *)
(* writes (MaxFailures), if one of the cameras it probes goes on showing    *)
(* frames for as long as it has a session that works.  There is no more to *)
(* promise: a camera whose session failed to connect or was disconnected   *)
(* is never tried again, and one that shows no frame is waited for forever. *)
CaptureEnds ==
    \A c \in Cams :
        WF_vars(OnFrame(c)) =>
            ((command = "frame" /\ \E ip \in listed : c \in Reaches[ip])
                ~> (done \/ task = "failed" \/ session[c] \in {"failed", "dead"}))
=============================================================================
