---------------------------- MODULE FrameAssembly ----------------------------
(***************************************************************************)
(* Reassembly of JPEG frames from the data channel (_deal_with_data in     *)
(* cam_reverse/handlers.py), up to the "frame" event and what its first    *)
(* listener does with the image (on_frame and _assemble_frame in           *)
(* http_server.py, add_exif_to_jpeg in exif.py).                           *)
(*                                                                         *)
(* The camera sends the packets of Stream in order, numbered with a u16.   *)
(* The network loses, repeats and reorders them, but does not hold one     *)
(* back for Window packets.  A packet stands for its payload: its kind,    *)
(* the frame it belongs to and whether it contains a JPEG reset marker.    *)
(***************************************************************************)
EXTENDS Integers, Sequences

CONSTANTS
    Stream,   \* the camera's packets: records [kind, frame, marked]
    FirstId,  \* the id of the first of them
    IdMod,    \* packet ids are a u16: 2^16
    Window,   \* how far behind the newest packet one may still arrive
    Unshowable  \* packets that make the frame listener raise when they
                \* begin an image (they already contain an EXIF segment)

(* framed: a stream header with JPEG data; raw: a bare JPEG header;        *)
(* body: image data; other: audio, unknown stream, empty or short packet.  *)
Kinds == {"framed", "raw", "body", "other"}
Packets == 1 .. Len(Stream)

ASSUME StreamAssumption ==
    /\ Stream \in Seq([kind : Kinds, frame : Nat, marked : BOOLEAN])
    /\ FirstId \in Nat
    /\ IdMod \in Nat \ {0}
    /\ Window \in Nat
    /\ Unshowable \subseteq Packets

(* What a frame is: image data belongs to the frame of the packet the      *)
(* camera sent before it; a frame begins with a header.                    *)
IsHeader(n) == Stream[n].kind \in {"framed", "raw"}
ASSUME FramingAssumption ==
    \A n \in Packets \ {1} :
        Stream[n].kind = "body" /\ Stream[n - 1].kind # "other"
            => Stream[n].frame = Stream[n - 1].frame

VARIABLES
    newest,           \* the newest packet that has arrived
    fix_packet_loss,  \* the camera's setting, which the web UI may change
    cur_image,        \* slices [n, head_cut, tail_cut] of packets n
    rcv_seq_id,
    frame_is_bad,
    frame_was_fixed,
    shown,            \* history: the images the frame listener delivered
    intact            \* history: since the newest header that was accepted,
                      \* every packet came in its turn (or came once more)

vars == <<newest, fix_packet_loss, cur_image, rcv_seq_id, frame_is_bad,
          frame_was_fixed, shown, intact>>
image == <<cur_image, rcv_seq_id, frame_is_bad, frame_was_fixed>>

PktId(n) == (FirstId + n - 1) % IdMod
Slice == [n : Packets, head_cut : BOOLEAN, tail_cut : BOOLEAN]
WholeSlice(n) == [n |-> n, head_cut |-> FALSE, tail_cut |-> FALSE]
Last(img) == img[Len(img)]

TypeOK ==
    /\ newest \in 0 .. Len(Stream)
    /\ fix_packet_loss \in BOOLEAN
    /\ cur_image \in Seq(Slice)
    /\ rcv_seq_id \in 0 .. IdMod - 1
    /\ frame_is_bad \in BOOLEAN
    /\ frame_was_fixed \in BOOLEAN
    /\ shown \subseteq Seq(Slice)
    /\ intact \in BOOLEAN

Init ==
    /\ newest = 0
    /\ fix_packet_loss \in BOOLEAN
    /\ cur_image = <<>> /\ rcv_seq_id = 0
    /\ frame_is_bad = FALSE /\ frame_was_fixed = FALSE
    /\ shown = {} /\ intact = FALSE

-----------------------------------------------------------------------------
(* start_new_frame: emit the image collected so far unless it is bad, then *)
(* start over with this header.  An exception in the listener leaves       *)
(* start_new_frame at the emit: the header is dropped and nothing is reset. *)

Complete == cur_image # <<>> /\ ~frame_is_bad
Raises == Complete /\ cur_image[1].n \in Unshowable

StaleIdAfter(n) == rcv_seq_id
ExpectedIdAfter(n) == PktId(n) + 1
IdAfterHeader(n) == PktId(n)

StartNewFrame(n) ==
    \/ /\ Raises
       /\ UNCHANGED <<image, shown>>
    \/ /\ ~Raises
       /\ shown' = IF Complete THEN shown \cup {cur_image} ELSE shown
       /\ cur_image' = <<WholeSlice(n)>>
       /\ rcv_seq_id' = IdAfterHeader(n)
       /\ frame_is_bad' = FALSE
       /\ frame_was_fixed' = FALSE

ReceiveHeader(n) ==
    /\ IsHeader(n)
    /\ StartNewFrame(n)

(* Image data at or below the last id in the image: "retransmit".          *)
ReceiveOld(n) ==
    /\ Stream[n].kind = "body"
    /\ PktId(n) <= rcv_seq_id
    /\ UNCHANGED <<image, shown>>

(* The next packet of the image.  Before a first header rcv_seq_id is 0:   *)
(* the packet with the id 1 then begins an image that has no header.       *)
NextOrFirst(n) == PktId(n) = rcv_seq_id + 1 \/ cur_image = <<>>
NextUpToOneMissing(n) == PktId(n) \in rcv_seq_id + 1 .. rcv_seq_id + 2
IsNext(n) == PktId(n) = rcv_seq_id + 1

ReceiveNext(n) ==
    /\ Stream[n].kind = "body"
    /\ IsNext(n)
    /\ cur_image' = Append(cur_image, WholeSlice(n))
    /\ rcv_seq_id' = PktId(n)
    /\ UNCHANGED <<frame_is_bad, frame_was_fixed, shown>>

(* A gap: the frame is bad, unless the user wants it fixed and both the    *)
(* last slice (which must not be the header) and the new one have a reset  *)
(* marker to splice at.                                                    *)
CanSplice(n) ==
    /\ fix_packet_loss
    /\ Len(cur_image) > 1
    /\ Stream[Last(cur_image).n].marked
    /\ Stream[n].marked

ReceiveAfterGap(n) ==
    /\ Stream[n].kind = "body"
    /\ PktId(n) > rcv_seq_id /\ ~IsNext(n)
    /\ \/ /\ CanSplice(n)
          /\ cur_image' =
                Append([cur_image EXCEPT ![Len(cur_image)].tail_cut = TRUE],
                       [WholeSlice(n) EXCEPT !.head_cut = TRUE])
          /\ rcv_seq_id' = PktId(n)
          /\ frame_is_bad' = FALSE
          /\ frame_was_fixed' = TRUE
       \/ /\ ~CanSplice(n)
          /\ frame_is_bad' = TRUE
          /\ UNCHANGED <<cur_image, rcv_seq_id, frame_was_fixed>>
    /\ UNCHANGED shown

(* Audio, unknown streams and packets too short to carry data.             *)
ReceiveOther(n) ==
    /\ Stream[n].kind = "other"
    /\ UNCHANGED <<image, shown>>

Receive(n) ==
    /\ \/ ReceiveHeader(n)
       \/ ReceiveOld(n)
       \/ ReceiveNext(n)
       \/ ReceiveAfterGap(n)
       \/ ReceiveOther(n)
    /\ newest' = IF n > newest THEN n ELSE newest
    /\ intact' = IF IsHeader(n) THEN n > newest /\ ~Raises
                 ELSE intact /\ n <= newest + 1
    /\ UNCHANGED fix_packet_loss

(* The setting is read for every packet; the web UI writes it at any time. *)
ToggleFix ==
    /\ fix_packet_loss' = ~fix_packet_loss
    /\ UNCHANGED <<newest, image, shown, intact>>

(* The network: everything between newest - Window and the end of the      *)
(* stream may be next; what is skipped is lost or late.                    *)
Arrives(n) == n > newest - Window
Deliver(n) == Arrives(n) /\ Receive(n)
Next == ToggleFix \/ \E n \in Packets : Deliver(n)
Spec == Init /\ [][Next]_vars

-----------------------------------------------------------------------------
(* Properties.                                                             *)

Seam(a, b) == a.tail_cut /\ b.head_cut /\ Stream[a.n].marked /\ Stream[b.n].marked
Adjoining(a, b) == b.n = a.n + 1 /\ ~a.tail_cut /\ ~b.head_cut

(* No hidden hole: two neighbouring slices of an image are consecutive     *)
(* packets of the camera, or were spliced at a reset marker on both sides; *)
(* whatever is lost, repeated or late, and whenever the setting changes.   *)
HoleFree(img) ==
    \A i \in 1 .. Len(img) - 1 :
        img[i].n < img[i + 1].n /\ (\/ Adjoining(img[i], img[i + 1])
                                    \/ Seam(img[i], img[i + 1]))
NoHiddenHole == HoleFree(cur_image) /\ \A img \in shown : HoleFree(img)

(* An image that was not spliced shows one frame, although a lost header   *)
(* is recognised only by the gap it leaves in the ids: it has no slice of  *)
(* another frame and begins with a header.  The one exception is an image  *)
(* that begins with the packet of id 1, when the header with the id 0 that *)
(* the camera sent first is lost: rcv_seq_id starts as 0, so no gap shows. *)
OneFrame(img) ==
    (\A i \in 1 .. Len(img) : ~img[i].tail_cut) =>
        /\ IsHeader(img[1].n) \/ PktId(img[1].n) = 1
        /\ \A i \in 1 .. Len(img) : Stream[img[i].n].frame = Stream[img[1].n].frame
ShownIsOneFrame == \A img \in shown : OneFrame(img)

(* A frame whose packets came in their turn, some of them perhaps again,   *)
(* goes out whole as soon as the next header comes, whatever was lost,     *)
(* late or spliced before it; the listener may still raise on it.          *)
FramePackets(f) == {n \in Packets : Stream[n].frame = f /\ Stream[n].kind # "other"}
Whole(f, images) ==
    \E img \in images : {img[i].n : i \in 1 .. Len(img)} = FramePackets(f)
MissesNothing ==
    [][\A n \in Packets :
          Deliver(n) /\ n = newest + 1 /\ IsHeader(n) /\ intact /\ ~Raises
              => Whole(Stream[newest].frame, shown')]_vars

(* "# retransmit" (handlers.py:252): a packet ignored as old was already   *)
(* received, or a newer one was.                                           *)
OnlyRetransmitsIgnored ==
    [][\A n \in Packets :
          Deliver(n) /\ n = newest + 1 /\ intact => ~ReceiveOld(n)]_vars
=============================================================================
