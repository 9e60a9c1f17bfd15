----------------------------- MODULE WifiListing -----------------------------
(***************************************************************************)
(* The payload of a control packet, and the list of networks in a          *)
(* ListWifiAck: the "Xq" obfuscation (cam_reverse/crypto.py), the length   *)
(* the handler decodes (create_response_for_control_command) and the parse *)
(* of the items (parse_list_wifi in handlers.py).                          *)
(*                                                                         *)
(* A buffer is a function of 0 .. length - 1 to bytes.  A packet is what   *)
(* is left of one the camera sent when bytes at its end are missing.       *)
(***************************************************************************)
EXTENDS Integers

CONSTANT NetworkCounts   \* how many networks a camera lists

ASSUME CountsAssumption == NetworkCounts \subseteq Nat

Byte == 0 .. 255
Buffers(n) == [0 .. n - 1 -> Byte]

-----------------------------------------------------------------------------
(* crypto.py: flip the low bit of each byte and rotate, by 4.              *)

Flip(b) == IF b % 2 = 1 THEN b - 1 ELSE b + 1

XqEnc(buf, n, r) ==
    [i \in 0 .. n - 1 |-> Flip(IF i < n - r THEN buf[i + r] ELSE buf[i - (n - r)])]

XqDec(buf, n, r) ==
    [i \in 0 .. n - 1 |-> Flip(IF i < r THEN buf[n - r + i] ELSE buf[i - r])]

Rotate == 4

-----------------------------------------------------------------------------
(* A ListWifiAck of `count` networks: 16 bytes of header, 4 of count, and  *)
(* the items, which are obfuscated.  The length in the header is that of   *)
(* count and items, as the camera sent it.                                 *)

LengthField == 14   \* the header up to the end of the length
Start == 20
ItemLen == 92      \* 0x58 and the u32 there, the channel
SsidLen == 64
Channel == 88 .. 91

Sizes(count) == Start + ItemLen * count
PayloadLen(count) == 4 + ItemLen * count

(* The length to decode: the header's, or that of the packet if it is      *)
(* cropped.                                                                *)
CroppedToPacket(len, payload_len) ==
    IF len > 20 /\ payload_len > len THEN len ELSE payload_len
CroppedLen(len, payload_len) ==
    IF len > 20 /\ payload_len > len THEN len - 20 ELSE payload_len

(* How many bytes behind the count are decoded, if any.                    *)
DecodedBytes(len, count) == CroppedLen(len, PayloadLen(count)) - 4

(* Reading behind the packet raises: its length field, or a byte to        *)
(* decode.  So does decoding one byte; two or three wrap around, and no    *)
(* item fits into what they leave.                                         *)
ParseRaises(len, count) ==
    \/ len < LengthField
    \/ DecodedBytes(len, count) > 0 /\ DecodedBytes(len, count) > len - Start
    \/ DecodedBytes(len, count) = 1

(* Answers without an event: "ListWifi returned []".                       *)
SaysEmpty(len, count) == DecodedBytes(len, count) = 0

(* The items that lie within the packet.                                   *)
ItemsWithin(len, count) ==
    {i \in 1 .. count : Start + ItemLen * i <= len}

(* The bytes behind the count that the parser reads: decoded as far as the *)
(* decoder went, and as they came from there on.                           *)
Parsed(len, count, sent) ==
    LET total == ItemLen * count
        came == XqEnc(sent, total, Rotate)
        n == DecodedBytes(len, count)
        decoded == XqDec(came, n, Rotate)
    IN  [i \in 0 .. len - Start - 1 |-> IF i < n THEN decoded[i] ELSE came[i]]

Field(i, offsets) == {ItemLen * (i - 1) + o : o \in offsets}
SameIn(bytes, sent, places) == \A p \in places : bytes[p] = sent[p]

NameIsWhole(i, bytes, sent) == SameIn(bytes, sent, Field(i, 0 .. SsidLen - 1))
ChannelIsWhole(i, bytes, sent) == SameIn(bytes, sent, Field(i, Channel))

-----------------------------------------------------------------------------
(* What the handler makes of a packet: it raises, it finds no networks, or *)
(* it lists the items in `items`, those in `names` with the name they were *)
(* sent with, and those in `channels` with their own channel.              *)

Content(count) == [j \in 0 .. ItemLen * count - 1 |-> (7 * j + 3) % 256]
Lengths(count) == 12 .. Sizes(count)

Listing(len, count) ==
    LET raises == ParseRaises(len, count)
        items == IF raises \/ SaysEmpty(len, count) THEN {} ELSE ItemsWithin(len, count)
        bytes == IF items = {} THEN <<>> ELSE Parsed(len, count, Content(count))
    IN  [raises |-> raises,
         items |-> items,
         names |-> {i \in items : NameIsWhole(i, bytes, Content(count))},
         channels |-> {i \in items : ChannelIsWhole(i, bytes, Content(count))}]

Listings == UNION {{Listing(len, count) : len \in Lengths(count)} : count \in NetworkCounts}
=============================================================================
