# A TLA+ model of cam-reverse

`cam_reverse/` is a client for cheap "iLnkP2P" cameras: it finds cameras on the
LAN, keeps a UDP session with each, puts JPEG frames together from lossy
datagrams and serves them to browsers as MJPEG; it can also pair a camera with a
WiFi network or capture one frame to a file. One asyncio event loop runs
everything, so what can go wrong lies between two awaits, in the order of
datagrams, timers and requests, on the network, and in what a failed step leaves
behind. These modules model that. Paths are relative to the repository;
`session.py` means `cam_reverse/session.py`.

## Contents

| module | what it models | run | proofs |
| --- | --- | --- | --- |
| `Session` | one camera session: endpoint, handshake, timers, command table | `delivery`, `first_tick_drop` | `SessionProofs` |
| `CommandDelivery` | what a session promises about its commands (abstract) | `delivery` | `SessionProofs`, `PairingProofs` |
| `SessionLife` | what an owner of a session sees of it (abstract) | `delivery`, `gateway` | `SessionProofs`, `GatewayProofs` |
| `Pairing` | the `pair` command: a `Session`, its owner, the next session | `pairing` | `PairingProofs` |
| `WifiListing`, `CroppedListing` | the list of networks: obfuscation, cropping, parse | `wifi_listing`, `pairing` | `WifiListingProofs` |
| `FrameAssembly` | frames from data packets | `frames`, `id_wrap` | `FrameAssemblyProofs` |
| `Gateway` | registry, queues and streaming clients of the HTTP server | `gateway`, `orphaned_client` | `GatewayProofs` |
| `Snapshot` | snapshot requests against frames, timeouts and sessions | `snapshot`, `malformed_snapshot` | `SnapshotProofs` |
| `Settings` | the live config, its file, every request on either | `settings` | `SettingsProofs` |
| `Discovery` | LAN discovery under the server and under the `frame` command | `discovery` | `DiscoveryProofs` |

`MC*.tla` give the constants that a cfg cannot write down. `PROJECT.json` lists
components, runs, the map from definitions to source lines, a mutant for each
property, findings, hazards and theorems. Checking: `tlc -config
MCSession_delivery.cfg MCSession` (a cfg belongs to the module before its
underscore) and `tlapm SessionProofs.tla`.

## The system and its parts

**Session** (`session.py`, sending half in `impl.py`). Keeps the transport,
`dst_ip` (blanked on disconnect), `connected`, two timer tasks,
`last_received_packet`, `ticket`, `outgoing_command_id`, `unacked_drw`. Hard: the
endpoint is opened by a task some loop turns after the object is handed out;
commands are retransmitted under a *new* id while acknowledgements of the old one
are under way; two thresholds are read at one timer wake. Right if no command is
lost or confused with another, every command carries the ticket of the latest login,
a silent camera is probed and then dropped, a closed session is silent.

**Control handlers** (`handlers.py`) act on the session: answer P2pRdy with
ConnectUser, store the ticket and log in, remove acknowledged commands, ask for
the networks, parse their list, close. Hard: one that raises half way leaves part
of its effect, and `_handle_incoming` then does not count the packet.

**Frame assembly** (`_deal_with_data`). Keeps `cur_image`, `rcv_seq_id`,
`frame_is_bad`, `frame_was_fixed`; reads `fix_packet_loss`, which the web UI
changes at any time. Hard: loss, repetition, reordering and wrap of ids; a
listener that raises inside `start_new_frame`. Right if no image has a hole nobody
noticed or mixes frames, and none that arrived in order is missed.

**HTTP gateway** (`http_server.py`). Keeps `sessions`, `video_queues`,
`audio_queues`, one bounded queue per streaming client, one-shot listeners of
snapshots. Hard: handlers await between a check and a registration; queue lists
are replaced on rediscovery; listeners find sessions by device id and not by
identity; slow clients; a listener that raises hides the event from those behind
it. Right if the registry names live sessions, one per camera, a list holds
exactly the live clients, a slow client hurts only itself, a snapshot shows the
next frame and always ends.

**Settings** (`settings.py`, the config endpoints, the settings page): one mutable
dict, its file, overlay, save, reload. Hard: partial configs, nulls, a save that
fails half way, a page that posts an old copy. **Discovery** (`discovery.py`): one
blasting task per target, targets added while it runs. **Pairing** (`pair.py`) and
**single capture** (`capture_single.py`): owners with registries of their own, a
once-only guard on credentials, a file that must be whole when the command returns.

They meet in events: discovery emits `discover`; the owner calls `make_session`
and attaches listeners; handlers emit `login`, `frame`, `audio`, `ListWifi` and
`disconnect`, all synchronously, in registration order, until one raises. That
rule of `event_emitter.py` is built into the actions: an action is everything that
runs between two awaits, every listener it calls and the final bookkeeping
included.

## Session and CommandDelivery

Variables have the names of the code. `transport` goes none → open → closed, or
none → failed; `peer` is what `dst_ip` was when the connect task read it. `quiet`
counts ticks since the endpoint opened or a packet counted; `received` is false
while `last_received_packet` is still 0.0. `unacked_drw` is a set of entries
`[id, msg, age]`, one per key of the dict; `msg` numbers the commands as they are
issued, so that a command keeps its identity over retransmissions. `wire` holds
what left the socket, `heard` what reached the camera: a lost datagram is one never
heard, a repeated or late answer a receive action taken again or later.

| action | code |
| --- | --- |
| `ConnectStart`, `ConnectFail`, `ConnectionMade` | `make_session`, `_connect`, `connection_made` |
| `HostClose`, `Disconnect` | `close`, `_on_disconnect` with its early return |
| `Issue` | `make_data_read_write`, then `send` for each packet |
| `ReceiveP2pRdy` ... `ReceiveClose` | `_handle_incoming` and the handler it calls |
| `ReceiveCroppedDrwAck` | `handle_drw_ack` whose read raises after some items |
| `SessTick`, `ResendTick` | one wake of `_sess_timer`, `_resend_timer` |
| `Tick` | time; a due timer is at most `Lag` ticks late |

A receive action has no condition that its handler lacks: a datagram of any kind may
come at any time an endpoint is open. `Tickets` is what a ConnectUserAck may leave in
`session.ticket`: what the camera grants, or `NoTicket`, the zeros of a refusal and of
a packet too short to hold a ticket (in a command it is padded with zeros). Such an
ack logs in as well, and so does a repeated one; a WifiSettingsAck is answered under
the ticket of the moment, logged in or not. `granted` records what was stored and how
many commands had been issued before, so that `TicketDiscipline` can say which ticket
a command has to carry.

`delivery` has one ticket and none, the commands of `start_video_stream`, four ids
(`IdMod = MaxIds`, a whole lap) and four commands: ConnectUser and a login with room
for a retransmission, or two logins, or two ConnectUsers beside one. With zero
thresholds every entry may be resent at every wake, so each command can be in flight
under several ids with acks of any of them, late or repeated. It checks that `Session`
implements `CommandDelivery` (at least once, confirmed only if delivered, never taken
back), `confirmed` being mapped to the commands no longer in the table. The liveness
of a session is checked in `pairing`, where it has an owner; `first_tick_drop` uses
the code's numbers in ticks of 100 ms.

`SessionLife` is a session without its packets: transport, `dst_ip`, `connected`,
and whether the timeout task runs. `delivery` checks that `Session` implements it
(`LivesAsTold`), and `gateway` that every session of `Gateway` does, which has the
same variables once per session: the two modules agree on what a session may do.

`MaxMsgs` and `MaxIds` bound the horizon. `MaxIds <= IdMod` is an assumption
(`HorizonAssumption`): after a lap of 65536 ids an old acknowledgement can hit a
new command. A due resend that would pass the bound is not taken, and
`PendingIsRetried` says so.

## Pairing and the list of networks

`Pairing` EXTENDS `Session`: its steps are the session's with `pair.py`'s listeners
run in the same action. `pairing` and `configured` are the two dicts, for one
camera (cameras share nothing). `OnDiscover` makes the next session; the one before
is closed and inert (`ClosedIsSilent`), so its state is replaced. A ListWifiAck is
one of `WifiListing!Listings`: a listing of up to two networks cut off at any byte,
through the length check, the decoder and the parser, and `home` is the item that
carried the SSID. Two sessions of up to three commands and ids are enough for two
logins, a second answer, a disconnect between them, a retransmission and a rediscovery.

`pairing` is checked under `FairPairSpec`: weak fairness on the connect task, the
two timers and time, which the event loop provides; none on the network, the camera
or the user. Under it a camera from which nothing that counts arrives is dropped
(also one whose Close was too short to be handled), and a due entry is
acknowledged, resent or ended with its session.

`CroppedListing` takes one byte after the other off a listing of up to three
networks (`wifi_listing`): which packets raise, and which names and channels of
the others are those the camera sent. The content is one byte pattern in which
neighbouring bytes differ; the proofs are for every content.

## Frame assembly

A packet is `[kind, frame, marked]`; the camera's `Stream` of packets is a
constant, numbered from `FirstId` modulo `IdMod`. The one thing assumed of its content
(`FramingAssumption`) defines what a frame is: image data right behind a header or
other image data belongs to the same frame. An image is a sequence of slices
`[n, head_cut, tail_cut]` of packets, so that what it shows can be compared with
what the camera sent. The network delivers any packet later than
`newest - Window`: loss is skipping, reordering and repetition happen within the
window. `ToggleFix` is the web UI. `shown` collects the images whose listener ran,
`intact` says whether every packet since the last accepted header came in turn.

`rcv_seq_id` is 0 before the first header, so a body packet with the id 1 counts as the
next one then: if the header with the id 0 is lost, an image without a header is
collected and shown (`handlers.py:285`). `ShownIsOneFrame` names this case and allows
no other; that image, too, has slices of one frame only.

`frames` has four frames in eleven packets with the ids 0 to 10, as a camera numbers
them, both header forms, audio, packets with and without a reset marker, a window of
three, a frame the listener raises on (an image that already has an EXIF segment), and
all toggles. `id_wrap` has ids modulo 6.

## Gateway and Snapshot

`Gateway` reduces a session to `transport`, `peer`, `connected` and `sess_timer`,
with the steps of `Session`. A disconnect is one call of two listeners,
`Session._on_disconnect` (`TearDown`) and the server's (`Dropped`, by device id),
if `_on_discover` got as far as attaching it: with `cameras` null it raises after
registering the session. A client goes idle → preparing → streaming → ended, with
the await of `prepare()` between the check of the session (`ClientOpen`) and the
registration of its queue (`ClientPrepared`). Video and audio are the two media;
the audio listener is there if the setting was on at discovery. `frames`, `since`,
`overflowed`, `discoveries`, `epoch` and `early_closed` are history.

`gateway` has two clients of one camera with queues of one, and two sessions:
enough for a full queue beside one with room, for every place a rediscovery can
fall in a client's life, and for a session closed early beside its successor. The
proofs are for any numbers. `FailedBlocksCamera` says who may free a camera whose
connect task died: a reconnect request, or the late timeout of a session that was
closed too early.

`Snapshot` has two requests, two sessions and frames well formed or not. `on_frame`
is the server's listener and comes first; a request's one-shot listener comes after
it, and its future, its timeout and the session it found are what it goes on with. A
session closed before it opened disconnects late, when another may have its place.
Ticks pass when everything due has run; when a timeout and a done future fall in
one turn either may win. Fairness: time, and requests whose future is done or
whose timeout has run out, as the loop gives them.

## Settings and Discovery

`Settings` has one action per request, discovery or start; no handler awaits
between its read and its write. A config is a function of the keys it has, a
camera's entry of the fields it has. `logging` stands for the two sections that hold a
map of plain values. Where a map belongs there may be `Null` or `Scrap`, a piece of a
word: YAML reads both in a file that was cut off. `Beginnings` are what a save that
fails while dumping leaves: a cut between two keys, after a colon or in a word, in any
section, in a camera's entry or in the list of addresses. What is cut may be reloaded or
started from; so `apply_config` has its errors (`Broken`) and what it has applied when it
raises (`PartsBefore`, whatever the order of the keys).

The settings page is a client that keeps the copy it loaded. `Collected` is its
`collect()`: the copy, over it every field of every camera as the form shows it, which
adds fields that the copy lacks, and over that what the user edited. Files and posts
of others lack any keys and fields, and may have nulls, but their values have the types
the code expects (`InputsAssumption`): nothing in it looks at them, so a file that
says `rotate: abc` is not modelled.

`settings` has two cameras, five requests, files and posts of every shape that
`apply_config` tells apart (nothing, null, one field, all fields, a null entry,
unreadable), and two edits, none and one of everything. Five requests are enough for a
start, a discovery, a page that is loaded, one change behind its back and its save, or
for a start, a change, a save that is cut off and a reload or restart with one request
on what it brought. The last request cuts no file off, since nobody would read it.

`Discovery` runs under the HTTP server, which adds targets and changes the
blacklist, or under `frame`, which writes the first frame to a file. A probe that
gets through puts its cameras in `asked`; `Lose` takes them out again. A session of
`frame` is connecting, failed (its connect task died), live, dead (disconnected) or
closed. Two addresses, two cameras, three requests and two failing writes. Fairness:
the loop runs the tasks (weak); an answer to a probe that is asked again and again gets
through some time (strong: without it discovery promises nothing). Nothing makes a
session connect rather than fail, or show a frame. `CaptureEnds` has a camera's frames
as its premise (`WF_vars(OnFrame(c))` in front of the implication) and names the states
of a session in which the command waits forever: failed and dead.

## What the runs show

| run | distinct states | shows |
| --- | --- | --- |
| `delivery` | 248 thousand | no command forgotten, ids unambiguous, the ticket of the latest login, silence after the end, a probe before a drop, at-least-once delivery, a life as `SessionLife` has it |
| `pairing` | 75 thousand | credentials once per session, a camera known exactly while its session lives, a silent camera dropped, a due command retried |
| `frames` | 57 thousand | no hidden hole, no mixed frames, no header missing but one of id 0, no frame missed that came in its turn |
| `gateway` | 478 thousand | registry, queue lists, faithful streams, a second session only after an early close, lives as `SessionLife` has them, who frees a camera whose connect failed |
| `snapshot` | 641 thousand | the next frame, no leaked listener, no false "no frame", every request answered |
| `settings` | 865 thousand | complete entries, a start restores what was saved, null `cameras` stays, a stale page takes away no camera and no field (the values it shows do replace newer ones) |
| `discovery` | 6 thousand | one task per address, targets found, a whole file, a command that ends if a camera goes on showing frames |
| `wifi_listing` | 636 | which cropped listings raise, which fields survive |

Every property of these runs has a mutant in `PROJECT.json`: an operator defined
just before the one it replaces, that changes it the way a plausible bug would
(acks taken as cumulative, a timer left running, an id kept stale after a header,
a full queue that starves the others, defaults over the file). TLC finds the
property violated by it under the same cfg.

## Findings

Runs that end with a counterexample to what the repository says of itself;
`PROJECT.json` quotes the line.

1. `first_tick_drop`: `last_received_packet = 0.0` makes the first timer wake
   (400 ms) drop a camera that has not answered yet, whatever `timeout_ms` is.
2. `id_wrap`: after the packet id wraps, new packets count as retransmits until
   the next header.
3. `orphaned_client`: browsers that stream video or audio over a rediscovery get
   nothing more.
4. `malformed_snapshot`: the snapshot listener that reports a malformed frame
   never runs, because the server's own listener raises on that frame first.

Seen while modelling, part of the actions, without a run of their own:

- `connection_made` does not look at `connected`: a session closed before it opens
  its endpoint and starts its timers (`session.py:47`).
- A connect task that fails leaves its session registered and `connected`, without
  an endpoint or a timer, until a reconnect request (`session.py:101`).
- A Close shorter than eight bytes raises in `_make_drw_ack` and is dropped as a
  bad packet: the session stays (`handlers.py:326`).
- Packets lost at the end of a frame are not noticed, since a header carries no
  count: a cut-off image is shown (`handlers.py:217`), where README.md:259 says that
  images with packet loss are skipped.
- If the header with the id 0, the first of a session, is lost, the packets behind it
  are shown as an image without a header (`handlers.py:285`).
- A header that comes twice sends out what the image has so far, and starts it again
  from that header: the packets in between are a gap then.
- A frame the listener raises on costs the next one too: its header is not stored.
- An audio packet between two packets of a frame leaves a gap in the ids of its
  image data; the streams checked have audio between frames only.
- A cropped control packet is decoded by a length from the wrong base
  (`handlers.py:124`): losing 1 to 16 bytes of a listing drops it whole, losing
  more garbles the first name and can garble the last channel; `xq_bytes_dec`
  raises on one byte (`crypto.py:23`).
- With `cameras` null a post or reload is half applied (`settings.py:54`) and
  `_on_discover` leaves a session no listener ever feeds (`http_server.py:344`). Neither
  a null `cameras` nor a null entry that was saved can be repaired by a request; a saved
  null `logging` ends the next start (`cli.py:57`).
- The settings page posts every field it shows (`assets/config.html:113`), so its save
  sets back a rotation, a mirroring or a remembered address that is newer than its copy,
  although `apply_config` is meant to let "un-edited fields survive" (`settings.py:49`).
- A `frame` command whose camera's session fails to connect or times out waits forever:
  the camera is ignored from then on (`capture_single.py:25`).
- "Remember in config file" (`assets/index.html:39`) writes nothing for an address
  that is in the live list already (`http_server.py:135`).
- An option of the command line is written to the file by the next save of
  anything (`cli.py:55`).
- The audio setting counts at discovery only (`http_server.py:373`).

## Proofs

Eight modules hold machine-checked proofs, for every value of the
constants that satisfies the named ASSUMEs. `PendingIsLatest`, `PairTypeOK`,
`SessionsDeliver`, `OnlyEndsMissing` and the types of `Snapshot` are proved and listed
by no run.

`SessionProofs`: type correctness, `NoSilentLoss`, `AcksUnambiguous`,
`PendingIsLatest`. None is inductive: that a retransmission does not collide needs
every id on the wire to be below `outgoing_command_id` (`IdsGrow`), that an
acknowledgement removes the right entry needs one entry per id (`OneEntryPerId`).
Their conjunction is `ChannelInv`. Each way the table changes (issuing,
acknowledging, resending, ageing) has a lemma that the actions cite. On it rest
`TicketDiscipline` (with `TicketInv`: the ticket the session holds is that of the last
record in `granted`, and no record is ahead of the commands; nothing is assumed of
what the acks carry), `ClosedIsSilent`
(`SilentInv`: no timer of a closed session runs), `ProbedBeforeDrop` (`ProbeInv`:
without a probe, `quiet` is at most `AliveAfter` and what the timer has slept;
assuming `TimeoutMs >= AliveAfter + SessPeriod + Lag`, which holds of the code's
5000 ≥ 600 + 400 for any lag below four seconds), and two refinements, step by step:
`ImplementsDelivery`, every step of the session is one of `CommandDelivery` or a
stutter, and `LivesAsTold`, the same for `SessionLife`.

`PairingProofs`: each step of the owner is one of the session's or makes a new
session, so `SessionProofs`' invariant holds of all of them (`PairingLosesNothing`
is the composition). That credentials go out once needs, beside the guard, that a
session which was disconnected hears no second answer: `EndsClosed`, its endpoint
is closed, because only a timeout or a Close ends a session of this owner. The
refinement carries over too (`SessionsDeliver`: each session of the owner, whatever
listing it reacts to, implements `CommandDelivery`): a listing that is handled is a
session step, and a rediscovery ends in the initial state of `CommandDelivery`.

`FrameAssemblyProofs`: types, `NoHiddenHole`, `ShownIsOneFrame`, assuming that ids
do not wrap (`NoLap`; `id_wrap` shows what happens when they do) and what a frame is
(`FramingAssumption`: a body packet whose predecessor in the stream is a header or a
body has its frame; it does not say that a stream or a frame begins with a header, or
which ids packets have). The strengthening is `LastInSync`: `rcv_seq_id` is the id of
the last slice, whose tail is uncut. An image begins with a header, or with the packet
of id 1 that follows the initial `rcv_seq_id`.
`MissesNothing` needs besides `UpToDate`, that the image is all the image data since
its header while every packet came in its turn, and the assumption `FramesInTurn`:
a frame is what lies between two headers, and its audio lies behind its image data.
`OnlyRetransmitsIgnored`, which `id_wrap` violates, holds under `NoLap` alone, from
the invariant that no image ends beyond the newest packet: the wrap is its only
cause.
`OnlyEndsMissing`, stated in this module and listed by no run, says what a loss can
cost: an image that goes out unspliced is a header, or the packet of id 1, and the
packets of its frame behind it without a gap, so only its end can be missing, or the
one header of id 0 (`GaplessInv`: the same of the image under assembly).

`GatewayProofs`: types, `RegisteredIsConnected`, `QueuesAreCurrent`,
`StreamsAreFaithful`, `SecondSessionNeedsEarlyClose`. The strengthening says that a
session not yet made is fresh, that a disconnected one still able to act was closed
early (`ZombieWasEarlyClosed`), that a connected one the registry does not name has
such a predecessor, that no handler's epoch is ahead of the discoveries of its
camera, and that what a client holds went out already (`StreamInv`).
`SessionsLiveAsTold` maps each session to `SessionLife`; what follows from that
module alone, that a timeout task runs only where an endpoint has opened
(`TimerNeedsEndpoint`), then holds of all sessions, and `FailedBlocksCamera` is
proved from it: the disconnect that frees such a camera is another session's.

`SnapshotProofs`: types, `NoListenerLeak`, `NextFrameServed`,
`FrameInTimeIsServed`. The strengthening is `Watch(r)`: a pending future has seen no
frame it could show, and a frame in time leaves something for the handler to do
before the clock goes on.

`DiscoveryProofs`: types with "no task without the socket", `OneBlastPerTarget` for
any finite set of addresses, `DoneMeansWholeFile`; inductive as they stand.

`WifiListingProofs`: `xq_bytes_dec` inverts `xq_bytes_enc` for every buffer and
rotation, what decoding with a wrong length yields, and the two properties of
`CroppedListing` for any number of networks.

`SettingsProofs`: types, `EntriesComplete`, `RestartRestores`, `NullStays`,
`DiscoveredSurvivesPage`, for any cameras, files, posts and edits of the page, files
that were cut off anywhere included. The lemmas say what
overlaying and restricting do to a dict key by key (`OverIs`, `OverPartial`,
`MergedIs`, `AppliedIs`): an overlay of a config with typed parts is a config, and an
entry that has every field keeps them. The strengthening is `SavedInv`: what was last
saved whole is what the file holds, until somebody edits it or a save cuts it off.

Only model-checked: the liveness properties (`SilentCameraIsDropped`,
`PendingIsRetried`, `EveryRequestIsAnswered`, `TargetIsFound`, `CaptureEnds`), since
the prover handles neither ENABLED nor fairness. No proof needs induction over data or a
RECURSIVE operator.

## Not modelled

- The static pages and `GET /api/logs` with its ring of 2000 records: they change
  nothing another part reads.
- Byte layouts of the packets other than the list of networks, the EXIF bytes: no
  branch depends on them, except where named above.
- `http_server.port` (read once), `blacklisted_ips` as a config key (treated like
  the list of addresses, a file cut off in it included; its effect is in `Discovery`).
- The log level's effect, the command line's parser, the mock camera, tests, the
  dissector and scripts.
- asyncio, aiohttp, YAML, the network and the camera appear as far as the code uses
  them and are marked external in the map where they have a definition of their own.
