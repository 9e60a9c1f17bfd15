-------------------------- MODULE WifiListingProofs --------------------------
(* Machine-checked proofs about the payload of a ListWifiAck (modules       *)
(* WifiListing and CroppedListing), for every number of networks, every     *)
(* payload and every length that is left of a packet.                       *)
EXTENDS CroppedListing, TLAPS

(* Flipping the low bit twice gives the byte back, and stays a byte         *)
(* (crypto.py _flip_low_bit).                                               *)
LEMMA FlipInvolution ==
    ASSUME NEW b \in Byte
    PROVE  Flip(b) \in Byte /\ Flip(Flip(b)) = b
<1>1. b \in Int /\ 0 <= b /\ b <= 255 /\ b % 2 \in {0, 1}
  BY DEF Byte
<1>2. CASE b % 2 = 1
  <2>1. Flip(b) = b - 1 /\ b - 1 \in Byte /\ (b - 1) % 2 = 0
    BY <1>1, <1>2 DEF Flip, Byte
  <2>2. QED BY <2>1 DEF Flip, Byte
<1>3. CASE b % 2 = 0
  <2>1. Flip(b) = b + 1 /\ b + 1 \in Byte /\ (b + 1) % 2 = 1
    BY <1>1, <1>3 DEF Flip, Byte
  <2>2. QED BY <2>1 DEF Flip, Byte
<1>4. QED BY <1>1, <1>2, <1>3

(* What the camera encodes the session decodes: for payloads no shorter     *)
(* than the rotation, xq_bytes_dec is the inverse of xq_bytes_enc.          *)
THEOREM DecodeInvertsEncode ==
    ASSUME NEW r \in Nat, NEW n \in Nat, n >= r, NEW buf \in Buffers(n)
    PROVE  XqDec(XqEnc(buf, n, r), n, r) = buf
<1> DEFINE enc == XqEnc(buf, n, r)
           dec == XqDec(enc, n, r)
<1>1. \A i \in 0 .. n - 1 :
         enc[i] = Flip(IF i < n - r THEN buf[i + r] ELSE buf[i - (n - r)])
  BY DEF XqEnc
<1>2. \A i \in 0 .. n - 1 : dec[i] = Flip(IF i < r THEN enc[n - r + i] ELSE enc[i - r])
  BY DEF XqDec
<1>3. ASSUME NEW i \in 0 .. n - 1 PROVE dec[i] = buf[i]
  <2>1. buf[i] \in Byte
    BY DEF Buffers
  <2>2. CASE i < r
    <3>1. n - r + i \in 0 .. n - 1 /\ ~(n - r + i < n - r)
          /\ (n - r + i) - (n - r) = i
      BY <2>2
    <3>2. enc[n - r + i] = Flip(buf[i])
      BY <1>1, <3>1
    <3>3. dec[i] = Flip(enc[n - r + i])
      BY <1>2, <2>2
    <3>4. QED BY <2>1, <3>2, <3>3, FlipInvolution
  <2>3. CASE ~(i < r)
    <3>1. i - r \in 0 .. n - 1 /\ i - r < n - r /\ (i - r) + r = i
      BY <2>3
    <3>2. enc[i - r] = Flip(buf[i])
      BY <1>1, <3>1
    <3>3. dec[i] = Flip(enc[i - r])
      BY <1>2, <2>3
    <3>4. QED BY <2>1, <3>2, <3>3, FlipInvolution
  <2>4. QED BY <2>2, <2>3
<1>4. dec = [i \in 0 .. n - 1 |-> dec[i]] /\ buf = [i \in 0 .. n - 1 |-> buf[i]]
  BY DEF XqDec, Buffers
<1>5. QED BY <1>3, <1>4

(* Decoding only the first n bytes of a longer payload, as the handler does *)
(* with a cropped packet, still yields every byte behind the rotation; the  *)
(* first r are those that follow the n.                                     *)
THEOREM CroppedDecode ==
    ASSUME NEW r \in Nat, NEW n \in Nat, NEW total \in Nat,
           r <= n, n + r <= total, NEW buf \in Buffers(total), NEW i \in 0 .. n - 1
    PROVE  XqDec(XqEnc(buf, total, r), n, r)[i] = buf[IF i < r THEN n + i ELSE i]
<1> DEFINE enc == XqEnc(buf, total, r)
           from == IF i < r THEN n + i ELSE i
<1>1. XqDec(enc, n, r)[i] = Flip(enc[from - r])
  <2>1. i < r => from - r = n - r + i
    BY SMT
  <2>2. ~(i < r) => from - r = i - r
    BY SMT
  <2>3. QED BY <2>1, <2>2 DEF XqDec
<1>2. from - r \in 0 .. total - 1 /\ from - r < total - r
      /\ (from - r) + r = from /\ from \in 0 .. total - 1
  OBVIOUS
<1>3. enc[from - r] = Flip(buf[from])
  <2> HIDE DEF from
  <2>1. QED BY <1>2 DEF XqEnc
<1>4. buf[from] \in Byte
  BY <1>2 DEF Buffers
<1>5. QED BY <1>1, <1>3, <1>4, FlipInvolution

-----------------------------------------------------------------------------
LEMMA TypeStep == TypeOK /\ [Lose]_vars => TypeOK'
BY CountsAssumption DEF TypeOK, Lose, vars, Sizes, Start, ItemLen

(* A packet on its way is a beginning of the one that was sent.             *)
THEOREM TypeCorrect == Spec => []TypeOK
<1>1. Init => TypeOK
  BY CountsAssumption DEF Init, TypeOK, Sizes, Start, ItemLen
<1>2. QED BY <1>1, TypeStep, PTL DEF Spec

(* Which cropped listings raise in create_response_for_control_command      *)
(* (handlers.py:124), whatever number of networks was sent.                 *)
THEOREM RaisesExactly == Spec => []RaisesOnSmallLossOnly
<1>1. TypeOK => RaisesOnSmallLossOnly
  <2> SUFFICES ASSUME TypeOK PROVE RaisesOnSmallLossOnly
    OBVIOUS
  <2>1. count \in Nat /\ len \in Nat /\ len <= 20 + 92 * count
    BY CountsAssumption DEF TypeOK, Sizes, Start, ItemLen
  <2>2. QED BY <2>1 DEF RaisesOnSmallLossOnly, ParseRaises, DecodedBytes, CroppedLen,
            PayloadLen, Sizes, Start, ItemLen, LengthField
<1>2. QED BY <1>1, TypeCorrect, PTL

(* What the parser reads is what the camera sent, wherever the decoder went *)
(* and behind its rotation.                                                 *)
LEMMA ParsedIsSent ==
    ASSUME NEW c \in Nat, NEW l \in Nat, NEW sent \in Buffers(92 * c),
           l <= 20 + 92 * c, DecodedBytes(l, c) >= 4,
           ~ParseRaises(l, c)
    PROVE  /\ DecodedBytes(l, c) \in Nat
           /\ \A p \in 4 .. DecodedBytes(l, c) - 1 : Parsed(l, c, sent)[p] = sent[p]
           /\ l = 20 + 92 * c =>
                 /\ DecodedBytes(l, c) = 92 * c
                 /\ \A p \in 0 .. 92 * c - 1 : Parsed(l, c, sent)[p] = sent[p]
           /\ l # 20 + 92 * c => DecodedBytes(l, c) = l - 24
<1> DEFINE n == DecodedBytes(l, c)
           total == 92 * c
           came == XqEnc(sent, total, 4)
<1>1. /\ n \in Nat /\ total \in Nat /\ n <= l - 20
      /\ l = 20 + total => n = total
      /\ l # 20 + total => n = l - 24 /\ n + 4 <= total
  BY DEF DecodedBytes, ParseRaises, CroppedLen, PayloadLen, Start, ItemLen, LengthField
<1>2. \A p \in 0 .. n - 1 : Parsed(l, c, sent)[p] = XqDec(came, n, 4)[p]
  <2>1. \A p \in 0 .. n - 1 : p \in 0 .. l - 20 - 1
    BY <1>1
  <2>2. Parsed(l, c, sent) =
           [i \in 0 .. l - 20 - 1 |-> IF i < n THEN XqDec(came, n, 4)[i] ELSE came[i]]
    BY DEF Parsed, ItemLen, Rotate, Start
  <2>3. \A p \in 0 .. n - 1 : p < n
    BY <1>1
  <2> HIDE DEF n, came
  <2>4. QED BY <2>1, <2>2, <2>3
<1>3. CASE l = 20 + total
  <2>1. n = total /\ total >= 4
    BY <1>1, <1>3
  <2>2. XqDec(came, n, 4) = sent
    BY <2>1, <1>1, DecodeInvertsEncode
  <2>3. QED BY <1>1, <1>2, <1>3, <2>1, <2>2
<1>4. CASE l # 20 + total
  <2>1. n = l - 24 /\ n + 4 <= total /\ 4 <= n
    BY <1>1, <1>4
  <2>2. ASSUME NEW p \in 4 .. n - 1 PROVE XqDec(came, n, 4)[p] = sent[p]
    <3>1. p \in 0 .. n - 1 /\ ~(p < 4)
      BY <1>1
    <3>2. XqDec(came, n, 4)[p] = sent[IF p < 4 THEN n + p ELSE p]
      BY <1>1, <2>1, <3>1, CroppedDecode
    <3>3. QED BY <3>1, <3>2
  <2>3. \A p \in 4 .. n - 1 : p \in 0 .. n - 1
    BY <1>1
  <2>4. QED BY <1>1, <1>2, <1>4, <2>1, <2>2, <2>3
<1>5. QED BY <1>3, <1>4

(* A listed network is one the camera sent (parse_list_wifi behind the      *)
(* decoder), but for the first name and the last channel of a cropped       *)
(* packet, whatever number of networks was sent.                            *)
THEOREM ListedAreReal == Spec => []ListedIsReal
<1>1. TypeOK => ListedIsReal
  <2> SUFFICES ASSUME TypeOK PROVE ListedIsReal
    OBVIOUS
  <2> DEFINE l == Listing(len, count)
             n == DecodedBytes(len, count)
             sent == Content(count)
             bytes == Parsed(len, count, sent)
             within == ItemsWithin(len, count)
  <2>1. count \in Nat /\ len \in Nat /\ len <= 20 + 92 * count
        /\ (Whole <=> len = 20 + 92 * count)
    BY CountsAssumption DEF TypeOK, Whole, Sizes, Start, ItemLen
  <2>2. sent \in Buffers(92 * count)
    <3>1. \A j \in 0 .. 92 * count - 1 : (7 * j + 3) % 256 \in Byte
      BY <2>1 DEF Byte
    <3>2. QED BY <3>1 DEF Content, Buffers, ItemLen
  <2>3. \A i \in within : i \in 1 .. count /\ 20 + 92 * i <= len
    BY DEF ItemsWithin, Start, ItemLen
  <2>4. Whole => within = 1 .. count
    BY <2>1 DEF ItemsWithin, Start, ItemLen
  <2>5. Whole => ~ParseRaises(len, count) /\ (SaysEmpty(len, count) => count = 0)
    BY <2>1 DEF ParseRaises, SaysEmpty, DecodedBytes, CroppedLen, PayloadLen, Start,
                ItemLen, LengthField
  <2>6. l.items = IF ParseRaises(len, count) \/ SaysEmpty(len, count)
                  THEN {} ELSE within
    BY DEF Listing
  <2>7. CASE l.items = {}
    <3>1. l.names = {} /\ l.channels = {}
      BY <2>6, <2>7 DEF Listing
    <3>2. Whole => 1 .. count = {}
      BY <2>1, <2>4, <2>5, <2>6, <2>7
    <3>3. QED BY <2>7, <3>1, <3>2 DEF ListedIsReal
  <2>8. CASE l.items # {}
    <3>1. ~ParseRaises(len, count) /\ l.items = within /\ within # {}
      BY <2>6, <2>8
    <3>2. /\ l.names = {i \in within : NameIsWhole(i, bytes, sent)}
          /\ l.channels = {i \in within : ChannelIsWhole(i, bytes, sent)}
      BY <3>1, <2>6 DEF Listing
    <3>3. n >= 4
      <4>1. count >= 1 /\ len >= 112
        BY <2>1, <2>3, <3>1
      <4>2. QED BY <2>1, <4>1 DEF DecodedBytes, CroppedLen, PayloadLen, ItemLen
    <3>4. /\ n \in Nat
          /\ \A p \in 4 .. n - 1 : bytes[p] = sent[p]
          /\ Whole => n = 92 * count /\ \A p \in 0 .. n - 1 : bytes[p] = sent[p]
          /\ ~Whole => n = len - 24
      <4>1. /\ DecodedBytes(len, count) \in Nat
            /\ \A p \in 4 .. DecodedBytes(len, count) - 1 : bytes[p] = sent[p]
            /\ len = 20 + 92 * count =>
                  /\ DecodedBytes(len, count) = 92 * count
                  /\ \A p \in 0 .. 92 * count - 1 : bytes[p] = sent[p]
            /\ len # 20 + 92 * count => DecodedBytes(len, count) = len - 24
        <5> HIDE DEF sent
        <5>1. QED BY <2>1, <2>2, <3>1, <3>3, ParsedIsSent
      <4> HIDE DEF bytes, sent
      <4>2. QED BY <2>1, <4>1
    <3>5. ASSUME NEW i \in within, i # 1 \/ Whole PROVE i \in l.names
      <4>1. i \in 1 .. count /\ 20 + 92 * i <= len /\ i \in Nat
        BY <2>1, <2>3
      <4>2. ASSUME NEW o \in 0 .. 63
            PROVE  bytes[92 * (i - 1) + o] = sent[92 * (i - 1) + o]
        <5> DEFINE p == 92 * (i - 1) + o
        <5>1. CASE i # 1
          <6>1. p \in 4 .. n - 1
            BY <2>1, <3>4, <4>1, <5>1
          <6> HIDE DEF p, bytes, sent, n
          <6>2. bytes[p] = sent[p]
            BY <3>4, <6>1
          <6>3. QED BY <6>2 DEF p
        <5>2. CASE Whole
          <6>1. p \in 0 .. n - 1
            BY <2>1, <3>4, <4>1, <5>2
          <6> HIDE DEF p, bytes, sent, n
          <6>2. bytes[p] = sent[p]
            BY <3>4, <5>2, <6>1
          <6>3. QED BY <6>2 DEF p
        <5>3. QED BY <3>5, <5>1, <5>2
      <4>3. NameIsWhole(i, bytes, sent)
        BY <4>2 DEF NameIsWhole, SameIn, Field, ItemLen, SsidLen
      <4>4. QED BY <3>2, <4>3
    <3>6. ASSUME NEW i \in within, Whole \/ len - (20 + 92 * i) >= 4
          PROVE  i \in l.channels
      <4>1. \A o \in 88 .. 91 : 92 * (i - 1) + o \in 4 .. n - 1
        BY <2>1, <2>3, <3>4, <3>6
      <4>2. \A o \in 88 .. 91 : bytes[92 * (i - 1) + o] = sent[92 * (i - 1) + o]
        BY <3>4, <4>1
      <4>3. ChannelIsWhole(i, bytes, sent)
        BY <4>2 DEF ChannelIsWhole, SameIn, Field, ItemLen, Channel
      <4>4. QED BY <3>2, <4>3
    <3>7. l.items \ {1} \subseteq l.names
      BY <3>1, <3>5
    <3>8. \A i \in l.items \ l.channels : ~Whole /\ len - (Start + ItemLen * i) < 4
      <4>1. ASSUME NEW i \in l.items \ l.channels
            PROVE  ~Whole /\ len - (Start + ItemLen * i) < 4
        <5>1. ~Whole /\ ~(len - (20 + 92 * i) >= 4)
          BY <3>1, <3>6
        <5>2. i \in Int
          BY <2>3, <3>1
        <5>3. QED BY <2>1, <5>1, <5>2 DEF Start, ItemLen
      <4>2. QED BY <4>1
    <3>9. Whole => l.items = 1 .. count /\ l.names = l.items
      BY <2>4, <3>1, <3>2, <3>5
    <3>10. QED BY <3>7, <3>8, <3>9 DEF ListedIsReal
  <2>9. QED BY <2>7, <2>8
<1>2. QED BY <1>1, TypeCorrect, PTL
=============================================================================
