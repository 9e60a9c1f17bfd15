---------------------------- MODULE CroppedListing ----------------------------
(***************************************************************************)
(* A ListWifiAck on its way: it leaves the camera whole and may lose any   *)
(* number of bytes at its end before create_response_for_control_command   *)
(* (module WifiListing) sees it.                                           *)
(***************************************************************************)
EXTENDS WifiListing

VARIABLES count, len   \* the networks sent, the bytes that are left

vars == <<count, len>>

TypeOK == count \in NetworkCounts /\ len \in 0 .. Sizes(count)

Init == count \in NetworkCounts /\ len = Sizes(count)

Lose == len > 0 /\ len' = len - 1 /\ UNCHANGED count

Spec == Init /\ [][Lose]_vars

Whole == len = Sizes(count)

-----------------------------------------------------------------------------
(* The crop branch (handlers.py:124) compares a length without the header  *)
(* of 16 bytes to one with it: a listing of which 1 to 16 bytes are        *)
(* missing is dropped whole, by an exception, and one that lost more is    *)
(* read as far as it came, but for the one that leaves one byte to decode  *)
(* and for what is no longer than header and count.                        *)
RaisesOnSmallLossOnly ==
    ParseRaises(len, count) <=>
        \/ len < LengthField
        \/ /\ count > 0
           /\ \/ len <= Start
              \/ Sizes(count) - len \in 1 .. 16
              \/ len = Start + 5

(* A network that is listed is one the camera sent: of a cropped packet    *)
(* only the first name can be wrong (the decoder rotates by the wrong      *)
(* length), and the channel of a last item that ends in its last 4 bytes.  *)
ListedIsReal ==
    LET l == Listing(len, count) IN
    /\ l.items \ {1} \subseteq l.names
    /\ \A i \in l.items \ l.channels : ~Whole /\ len - (Start + ItemLen * i) < 4
    /\ Whole => l.items = 1 .. count /\ l.names = l.items
=============================================================================
