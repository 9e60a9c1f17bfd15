------------------------- MODULE FrameAssemblyProofs -------------------------
(* Machine-checked proofs that an image never has a hidden hole and that   *)
(* one that was not spliced shows a single frame, for every camera stream, *)
(* loss, repetition and reordering, and every moment at which the setting  *)
(* changes, as long as the packet ids do not wrap.                         *)
(*                                                                         *)
(* Neither is inductive.  That the next id means the next packet needs     *)
(* rcv_seq_id to be the id of the last slice of the image; that the images *)
(* shown are of one frame needs the same of the image being collected, and *)
(* that no image means rcv_seq_id 0: only the packet with the id 1 can     *)
(* begin an image without a header.                                        *)
EXTENDS FrameAssembly, SequenceTheorems, TLAPS

(* The ids of the whole stream fit one lap of the u16 counter.             *)
NoLap == FirstId + Len(Stream) <= IdMod

LastInSync ==
    /\ cur_image = <<>> => rcv_seq_id = 0
    /\ cur_image # <<>> =>
        /\ rcv_seq_id = PktId(Last(cur_image).n)
        /\ ~Last(cur_image).tail_cut
        /\ Stream[Last(cur_image).n].kind # "other"

ImagesAreOneFrame == ShownIsOneFrame /\ (cur_image # <<>> => OneFrame(cur_image))

IInv == TypeOK /\ NoHiddenHole /\ LastInSync /\ ImagesAreOneFrame

(* Without a lap, ids are as good as packet numbers.                       *)
LEMMA PktIdNoLap ==
    ASSUME NoLap, NEW n \in Packets
    PROVE  PktId(n) = FirstId + n - 1 /\ PktId(n) \in 0 .. IdMod - 1
<1>1. Len(Stream) \in Nat /\ FirstId \in Nat /\ IdMod \in Nat \ {0}
  BY StreamAssumption
<1>2. FirstId + n - 1 \in 0 .. IdMod - 1
  BY <1>1 DEF NoLap, Packets
<1>3. QED BY <1>1, <1>2 DEF PktId

(* An image whose last slice was replaced.                                 *)
LEMMA LastReplaced ==
    ASSUME NEW img \in Seq(Slice), Len(img) > 1, NEW e \in Slice,
           NEW cut, cut = [img EXCEPT ![Len(img)] = e]
    PROVE  /\ cut \in Seq(Slice)
           /\ Len(cut) = Len(img)
           /\ \A i \in 1 .. Len(img) - 1 : cut[i] = img[i]
           /\ cut[Len(img)] = e
<1>1. Len(img) \in Nat /\ Len(img) \in 1 .. Len(img)
  OBVIOUS
<1>2. cut \in Seq(Slice) /\ Len(cut) = Len(img)
      /\ \A i \in 1 .. Len(img) : cut[i] = IF i = Len(img) THEN e ELSE img[i]
  BY <1>1, ExceptSeq
<1>3. \A i \in 1 .. Len(img) - 1 : i \in 1 .. Len(img) /\ i # Len(img)
  BY <1>1
<1>4. (\A i \in 1 .. Len(img) - 1 : cut[i] = img[i]) /\ cut[Len(img)] = e
  BY <1>1, <1>2, <1>3, Zenon
<1>5. QED BY <1>2, <1>4, Zenon

(* An image stays free of holes when a slice is added, if the seam with    *)
(* the former last slice (whose tail may have been cut) is a good one.     *)
LEMMA ExtendedHoleFree ==
    ASSUME NEW img \in Seq(Slice), HoleFree(img),
           NEW new \in Seq(Slice), Len(new) = Len(img) + 1,
           \A i \in 1 .. Len(img) : /\ new[i].n = img[i].n
                                    /\ new[i].head_cut = img[i].head_cut,
           \A i \in 1 .. Len(img) - 1 : new[i].tail_cut = img[i].tail_cut,
           Len(img) >= 1 =>
               /\ new[Len(img)].n < new[Len(img) + 1].n
               /\ \/ Adjoining(new[Len(img)], new[Len(img) + 1])
                  \/ Seam(new[Len(img)], new[Len(img) + 1])
    PROVE  HoleFree(new)
<1>0. Len(img) \in Nat
  OBVIOUS
<1>1. ASSUME NEW i \in 1 .. Len(img)
      PROVE  /\ new[i].n < new[i + 1].n
             /\ Adjoining(new[i], new[i + 1]) \/ Seam(new[i], new[i + 1])
  <2>1. CASE i < Len(img)
    <3>1. i \in 1 .. Len(img) - 1 /\ i \in 1 .. Len(img) /\ i + 1 \in 1 .. Len(img)
      BY <1>0, <2>1
    <3>2. /\ new[i].n = img[i].n /\ new[i + 1].n = img[i + 1].n
          /\ new[i].tail_cut = img[i].tail_cut
          /\ new[i + 1].head_cut = img[i + 1].head_cut
      BY <3>1
    <3>3. /\ img[i].n < img[i + 1].n
          /\ Adjoining(img[i], img[i + 1]) \/ Seam(img[i], img[i + 1])
      BY <3>1 DEF HoleFree
    <3>4. QED BY <3>2, <3>3 DEF Adjoining, Seam
  <2>2. CASE i = Len(img)
    BY <1>0, <2>2
  <2>3. QED BY <1>0, <2>1, <2>2
<1>2. QED BY <1>0, <1>1 DEF HoleFree

(* Image data that goes on where the image ends is of the image's frame.   *)
LEMMA OneFrameGoesOn ==
    ASSUME NEW img \in Seq(Slice), Len(img) >= 1, OneFrame(img),
           NEW n \in Packets, Stream[n].kind = "body",
           Adjoining(Last(img), WholeSlice(n)), Last(img).n \in Packets,
           NEW new \in Seq(Slice), Len(new) = Len(img) + 1,
           \A i \in 1 .. Len(img) : new[i] = img[i],
           new[Len(img) + 1] = WholeSlice(n),
           Stream[Last(img).n].kind # "other"
    PROVE  OneFrame(new)
<1>0. Len(img) \in Nat /\ 1 \in 1 .. Len(img) /\ Len(img) \in 1 .. Len(img)
  OBVIOUS
<1>1. SUFFICES ASSUME \A i \in 1 .. Len(new) : ~new[i].tail_cut
               PROVE  /\ IsHeader(new[1].n) \/ PktId(new[1].n) = 1
                      /\ \A i \in 1 .. Len(new) :
                            Stream[new[i].n].frame = Stream[new[1].n].frame
  BY DEF OneFrame
<1>2. \A i \in 1 .. Len(img) : ~img[i].tail_cut
  BY <1>0, <1>1
<1>3. /\ IsHeader(img[1].n) \/ PktId(img[1].n) = 1
      /\ \A i \in 1 .. Len(img) : Stream[img[i].n].frame = Stream[img[1].n].frame
  BY <1>2 DEF OneFrame
<1>4. Stream[n].frame = Stream[Last(img).n].frame
  <2>1. n = Last(img).n + 1 /\ n - 1 = Last(img).n /\ n # 1
    BY DEF Adjoining, WholeSlice, Packets
  <2>2. QED BY <2>1, FramingAssumption
<1>5. Stream[n].frame = Stream[img[1].n].frame
  BY <1>0, <1>3, <1>4 DEF Last
<1>6. new[1] = img[1] /\ new[Len(img) + 1].n = n
  BY <1>0 DEF WholeSlice
<1>7. ASSUME NEW i \in 1 .. Len(new)
      PROVE  Stream[new[i].n].frame = Stream[new[1].n].frame
  <2>1. CASE i = Len(img) + 1
    BY <1>5, <1>6, <2>1
  <2>2. CASE i \in 1 .. Len(img)
    BY <1>3, <1>6, <2>2
  <2>3. QED BY <1>0, <1>7, <2>1, <2>2
<1>8. QED BY <1>3, <1>6, <1>7

LEMMA Invariance == ASSUME NoLap PROVE IInv /\ [Next]_vars => IInv'
<1> SUFFICES ASSUME IInv, [Next]_vars PROVE IInv'
  OBVIOUS
<1>0. TypeOK /\ NoHiddenHole /\ LastInSync /\ ImagesAreOneFrame
  BY DEF IInv
<1>1. Len(Stream) \in Nat /\ FirstId \in Nat /\ IdMod \in Nat \ {0}
  BY StreamAssumption
<1>2. CASE UNCHANGED <<image, shown>> /\ newest' \in 0 .. Len(Stream)
           /\ fix_packet_loss' \in BOOLEAN /\ intact' \in BOOLEAN
  BY <1>0, <1>2 DEF IInv, TypeOK, NoHiddenHole, LastInSync, image,
                    ImagesAreOneFrame, ShownIsOneFrame
<1>3. ASSUME NEW n \in Packets, Receive(n) PROVE IInv'
  <2>0. /\ newest' \in 0 .. Len(Stream) /\ fix_packet_loss' \in BOOLEAN
        /\ intact' \in BOOLEAN
    <3>1. newest' \in 0 .. Len(Stream) /\ fix_packet_loss' \in BOOLEAN
      BY <1>0, <1>1, <1>3 DEF Receive, TypeOK, Packets
    <3>2. intact' \in BOOLEAN
      BY <1>0, <1>3, Zenon DEF Receive, TypeOK, Raises, Complete
    <3>3. QED BY <3>1, <3>2
  <2>1. CASE UNCHANGED <<image, shown>>
    BY <1>2, <2>0, <2>1
  <2>2. CASE ReceiveHeader(n) /\ StartNewFrame(n) /\ ~Raises
    <3>1. cur_image' = <<WholeSlice(n)>> /\ WholeSlice(n) \in Slice
      BY <2>2 DEF StartNewFrame, WholeSlice, Slice
    <3>2. cur_image' \in Seq(Slice) /\ Len(cur_image') = 1
          /\ Last(cur_image') = WholeSlice(n)
      BY <3>1 DEF Last
    <3>3. \A img \in shown' : img \in shown \/ img = cur_image
      BY <2>2 DEF StartNewFrame
    <3>4. rcv_seq_id' = PktId(n) /\ frame_is_bad' = FALSE /\ frame_was_fixed' = FALSE
      BY <2>2 DEF StartNewFrame, IdAfterHeader
    <3>5. TypeOK'
      BY <1>0, <2>0, <3>2, <3>3, <3>4, PktIdNoLap DEF TypeOK
    <3>6. NoHiddenHole'
      <4>1. HoleFree(cur_image')
        BY <3>2 DEF HoleFree
      <4>2. \A img \in shown' : HoleFree(img)
        BY <1>0, <3>3 DEF NoHiddenHole
      <4>3. QED BY <4>1, <4>2 DEF NoHiddenHole
    <3>7. LastInSync'
      <4>1. Stream[n].kind # "other"
        BY <2>2 DEF ReceiveHeader, IsHeader
      <4>2. QED BY <3>2, <3>4, <4>1 DEF LastInSync, WholeSlice
    <3>8. ImagesAreOneFrame'
      <4>1. IsHeader(n) /\ Stream' = Stream
        BY <2>2 DEF ReceiveHeader
      <4>2. OneFrame(cur_image')
        BY <3>1, <3>2, <4>1 DEF OneFrame, WholeSlice
      <4>3. \A img \in shown' : OneFrame(img)
        BY <1>0, <2>2 DEF StartNewFrame, Complete, ImagesAreOneFrame, ShownIsOneFrame
      <4>4. QED BY <4>2, <4>3 DEF ImagesAreOneFrame, ShownIsOneFrame
    <3>9. QED BY <3>5, <3>6, <3>7, <3>8 DEF IInv
  <2>3. CASE ReceiveNext(n)
    <3>1. WholeSlice(n) \in Slice /\ cur_image \in Seq(Slice)
      BY <1>0 DEF WholeSlice, Slice, TypeOK
    <3>2. /\ cur_image' \in Seq(Slice)
          /\ Len(cur_image') = Len(cur_image) + 1
          /\ \A i \in 1 .. Len(cur_image) : cur_image'[i] = cur_image[i]
          /\ cur_image'[Len(cur_image) + 1] = WholeSlice(n)
      BY <2>3, <3>1, AppendProperties DEF ReceiveNext
    <3>3. Last(cur_image') = WholeSlice(n)
      BY <3>2 DEF Last
    <3>4. TypeOK'
      BY <1>0, <2>0, <2>3, <3>2, PktIdNoLap DEF TypeOK, ReceiveNext
    <3>5. ASSUME Len(cur_image) >= 1
          PROVE  Adjoining(Last(cur_image), WholeSlice(n))
      <4>1. Last(cur_image) \in Slice /\ cur_image # <<>>
        BY <3>1, <3>5 DEF Last
      <4>2. rcv_seq_id = FirstId + Last(cur_image).n - 1
            /\ ~Last(cur_image).tail_cut /\ Last(cur_image).n \in Nat
        BY <1>0, <4>1, PktIdNoLap DEF LastInSync, Slice, Packets
      <4>3. PktId(n) = rcv_seq_id + 1 /\ PktId(n) = FirstId + n - 1 /\ n \in Nat
        BY <2>3, PktIdNoLap DEF ReceiveNext, IsNext, Packets
      <4>4. n = Last(cur_image).n + 1
        BY <1>1, <4>2, <4>3
      <4>5. QED BY <4>2, <4>4 DEF Adjoining, WholeSlice
    <3>6. HoleFree(cur_image')
      <4>1. Len(cur_image) \in Nat /\ HoleFree(cur_image)
        BY <1>0, <3>1 DEF NoHiddenHole
      <4>2. ASSUME Len(cur_image) >= 1
            PROVE  /\ cur_image'[Len(cur_image)].n < cur_image'[Len(cur_image) + 1].n
                   /\ Adjoining(cur_image'[Len(cur_image)],
                                cur_image'[Len(cur_image) + 1])
        <5>1. cur_image'[Len(cur_image)] = Last(cur_image)
              /\ cur_image'[Len(cur_image) + 1] = WholeSlice(n)
          BY <3>2, <4>1, <4>2 DEF Last
        <5>2. Adjoining(Last(cur_image), WholeSlice(n))
          BY <3>5, <4>2
        <5>3. Last(cur_image) \in Slice
          BY <3>1, <4>2 DEF Last
        <5>4. Last(cur_image).n \in Nat /\ WholeSlice(n).n = Last(cur_image).n + 1
          BY <5>2, <5>3 DEF Adjoining, Slice, Packets
        <5>5. Last(cur_image).n < WholeSlice(n).n
          BY <5>4
        <5>6. QED BY <5>1, <5>2, <5>5
      <4>3. QED BY <3>1, <3>2, <4>1, <4>2, ExtendedHoleFree
    <3>7. NoHiddenHole'
      BY <1>0, <2>3, <3>6 DEF NoHiddenHole, ReceiveNext
    <3>8. LastInSync'
      BY <2>3, <3>2, <3>3 DEF LastInSync, ReceiveNext, WholeSlice
    <3>9. ImagesAreOneFrame'
      <4>1. ASSUME cur_image = <<>> PROVE OneFrame(cur_image')
        <5>1. PktId(n) = 1
          BY <1>0, <2>3, <4>1 DEF LastInSync, ReceiveNext, IsNext
        <5>2. Len(cur_image') = 1 /\ cur_image'[1].n = n
          BY <3>2, <4>1 DEF WholeSlice
        <5>3. QED BY <5>1, <5>2 DEF OneFrame
      <4>2. ASSUME cur_image # <<>> PROVE OneFrame(cur_image')
        <5>1. Len(cur_image) >= 1 /\ Last(cur_image) \in Slice
          BY <3>1, <4>2 DEF Last
        <5>2. /\ OneFrame(cur_image) /\ Stream[Last(cur_image).n].kind # "other"
              /\ Stream[n].kind = "body" /\ Last(cur_image).n \in Packets
          BY <1>0, <2>3, <4>2, <5>1
             DEF ImagesAreOneFrame, LastInSync, ReceiveNext, Slice
        <5>3. QED BY <3>1, <3>2, <3>5, <5>1, <5>2, OneFrameGoesOn
      <4>3. OneFrame(cur_image')
        BY <4>1, <4>2
      <4>4. QED BY <1>0, <2>3, <4>3 DEF ImagesAreOneFrame, ShownIsOneFrame, ReceiveNext
    <3>10. QED BY <3>4, <3>7, <3>8, <3>9 DEF IInv
  <2>4. CASE ReceiveAfterGap(n) /\ CanSplice(n)
             /\ cur_image' = Append([cur_image EXCEPT ![Len(cur_image)].tail_cut = TRUE],
                                    [WholeSlice(n) EXCEPT !.head_cut = TRUE])
             /\ rcv_seq_id' = PktId(n)
             /\ frame_is_bad' = FALSE /\ frame_was_fixed' = TRUE
    <3> DEFINE cut == [cur_image EXCEPT ![Len(cur_image)].tail_cut = TRUE]
               added == [WholeSlice(n) EXCEPT !.head_cut = TRUE]
    <3>1. /\ cur_image \in Seq(Slice) /\ Len(cur_image) \in Nat
          /\ Len(cur_image) > 1 /\ HoleFree(cur_image) /\ cur_image # <<>>
      BY <1>0, <2>4 DEF CanSplice, TypeOK, NoHiddenHole
    <3>2. /\ added \in Slice /\ added.n = n /\ added.head_cut = TRUE
          /\ added.tail_cut = FALSE
      BY DEF WholeSlice, Slice
    <3>3. Last(cur_image) \in Slice
      BY <3>1 DEF Last
    <3>4. /\ cut \in Seq(Slice) /\ Len(cut) = Len(cur_image)
          /\ \A i \in 1 .. Len(cur_image) : /\ cut[i].n = cur_image[i].n
                                            /\ cut[i].head_cut = cur_image[i].head_cut
          /\ \A i \in 1 .. Len(cur_image) - 1 : cut[i] = cur_image[i]
          /\ cut[Len(cur_image)].tail_cut = TRUE
      <4> DEFINE last == [Last(cur_image) EXCEPT !.tail_cut = TRUE]
      <4>1. /\ last \in Slice /\ last.n = Last(cur_image).n
            /\ last.head_cut = Last(cur_image).head_cut /\ last.tail_cut = TRUE
        BY <3>3 DEF Slice
      <4>2. cut = [cur_image EXCEPT ![Len(cur_image)] = last]
        BY <3>1 DEF Last
      <4> HIDE DEF cut, last
      <4>3. /\ cut \in Seq(Slice) /\ Len(cut) = Len(cur_image)
            /\ \A i \in 1 .. Len(cur_image) - 1 : cut[i] = cur_image[i]
            /\ cut[Len(cur_image)] = last
        BY <3>1, <4>1, <4>2, LastReplaced, SMT
      <4>4. cut[Len(cur_image)].n = cur_image[Len(cur_image)].n
            /\ cut[Len(cur_image)].head_cut = cur_image[Len(cur_image)].head_cut
        BY <4>1, <4>3 DEF Last
      <4>5. \A i \in 1 .. Len(cur_image) : i = Len(cur_image) \/ i \in 1 .. Len(cur_image) - 1
        BY <3>1
      <4>6. QED BY <4>1, <4>3, <4>4, <4>5
    <3> HIDE DEF cut, added
    <3>5. /\ cur_image' \in Seq(Slice)
          /\ Len(cur_image') = Len(cur_image) + 1
          /\ \A i \in 1 .. Len(cur_image) : cur_image'[i] = cut[i]
          /\ cur_image'[Len(cur_image) + 1] = added
      <4>1. cur_image' = Append(cut, added)
        BY <2>4 DEF cut, added
      <4>2. QED BY <3>2, <3>4, <4>1, AppendProperties
    <3>6. Last(cur_image') = added
      BY <3>5 DEF Last
    <3>7. cut[Len(cur_image)].n < added.n /\ Seam(cut[Len(cur_image)], added)
      <4>1. rcv_seq_id = FirstId + Last(cur_image).n - 1 /\ Last(cur_image).n \in Nat
        BY <1>0, <3>1, <3>3, PktIdNoLap DEF LastInSync, Slice, Packets
      <4>2. PktId(n) > rcv_seq_id /\ PktId(n) = FirstId + n - 1 /\ n \in Nat
        BY <2>4, PktIdNoLap DEF ReceiveAfterGap, Packets
      <4>3. Last(cur_image).n < n
        BY <1>1, <4>1, <4>2
      <4>4. cut[Len(cur_image)].n = Last(cur_image).n
        BY <3>1, <3>4 DEF Last
      <4>5. Stream[Last(cur_image).n].marked /\ Stream[n].marked
        BY <2>4 DEF CanSplice
      <4>6. QED BY <3>2, <3>4, <4>3, <4>4, <4>5 DEF Seam
    <3>8. HoleFree(cur_image')
      <4>1. /\ cur_image'[Len(cur_image)] = cut[Len(cur_image)]
            /\ \A i \in 1 .. Len(cur_image) :
                  /\ cur_image'[i].n = cur_image[i].n
                  /\ cur_image'[i].head_cut = cur_image[i].head_cut
            /\ \A i \in 1 .. Len(cur_image) - 1 :
                  cur_image'[i].tail_cut = cur_image[i].tail_cut
        BY <3>1, <3>4, <3>5
      <4>2. QED BY <3>1, <3>5, <3>7, <4>1, ExtendedHoleFree
    <3>9. TypeOK'
      BY <1>0, <2>0, <2>4, <3>5, PktIdNoLap DEF TypeOK, ReceiveAfterGap
    <3>10. NoHiddenHole'
      BY <1>0, <2>4, <3>8 DEF NoHiddenHole, ReceiveAfterGap
    <3>11. LastInSync'
      <4>1. cur_image' # <<>> /\ Stream[n].kind # "other"
        BY <2>4, <3>1, <3>5 DEF ReceiveAfterGap
      <4>2. QED BY <2>4, <3>2, <3>6, <4>1 DEF LastInSync
    <3>12. ImagesAreOneFrame'
      <4>1. Len(cur_image) \in 1 .. Len(cur_image') /\ cur_image'[Len(cur_image)].tail_cut
        BY <3>1, <3>4, <3>5
      <4>2. OneFrame(cur_image')
        BY <4>1 DEF OneFrame
      <4>3. QED BY <1>0, <2>4, <4>2 DEF ImagesAreOneFrame, ShownIsOneFrame, ReceiveAfterGap
    <3>13. QED BY <3>9, <3>10, <3>11, <3>12 DEF IInv
  <2>5. CASE frame_is_bad' = TRUE
             /\ UNCHANGED <<cur_image, rcv_seq_id, frame_was_fixed, shown>>
    BY <1>0, <2>0, <2>5 DEF IInv, TypeOK, NoHiddenHole, LastInSync,
                            ImagesAreOneFrame, ShownIsOneFrame
  <2>6. QED
    BY <1>3, <2>1, <2>2, <2>3, <2>4, <2>5
       DEF Receive, ReceiveHeader, StartNewFrame, ReceiveOld, ReceiveAfterGap,
           ReceiveOther
<1>4. CASE ToggleFix
  <2>1. fix_packet_loss' \in BOOLEAN /\ newest' \in 0 .. Len(Stream)
        /\ intact' \in BOOLEAN
    BY <1>0, <1>4 DEF ToggleFix, TypeOK
  <2>2. QED BY <1>2, <1>4, <2>1 DEF ToggleFix
<1>5. CASE UNCHANGED vars
  BY <1>0, <1>2, <1>5 DEF vars, image, TypeOK
<1>6. QED BY <1>3, <1>4, <1>5 DEF Next, Deliver

LEMMA Initially == Init => IInv
<1> SUFFICES ASSUME Init PROVE IInv
  OBVIOUS
<1>1. Len(<<>>) = 0 /\ <<>> \in Seq(Slice)
  OBVIOUS
<1>2. Len(Stream) \in Nat /\ IdMod \in Nat \ {0}
  BY StreamAssumption
<1>3. TypeOK
  <2>1. newest \in 0 .. Len(Stream) /\ rcv_seq_id \in 0 .. IdMod - 1
    BY <1>2 DEF Init
  <2>2. /\ fix_packet_loss \in BOOLEAN /\ frame_is_bad \in BOOLEAN
        /\ frame_was_fixed \in BOOLEAN /\ intact \in BOOLEAN
    BY DEF Init
  <2>3. cur_image \in Seq(Slice) /\ shown \subseteq Seq(Slice)
    BY <1>1 DEF Init
  <2>4. QED BY <2>1, <2>2, <2>3 DEF TypeOK
<1>4. NoHiddenHole /\ LastInSync
  BY <1>1 DEF Init, NoHiddenHole, HoleFree, LastInSync
<1>5. ImagesAreOneFrame
  BY DEF Init, ImagesAreOneFrame, ShownIsOneFrame
<1>6. QED BY <1>3, <1>4, <1>5 DEF IInv

LEMMA Inductive == ASSUME NoLap PROVE Spec => []IInv
<1>1. Init => IInv
  BY Initially
<1>2. IInv /\ [Next]_vars => IInv'
  BY Invariance
<1>3. QED BY <1>1, <1>2, PTL DEF Spec

(* The state keeps its types: the packet id stays a u16.                   *)
THEOREM TypeCorrect == ASSUME NoLap PROVE Spec => []TypeOK
<1>1. IInv => TypeOK
  BY DEF IInv
<1>2. QED BY <1>1, Inductive, PTL

(* Every image, the one being collected and those already shown, is free   *)
(* of hidden holes (_deal_with_data in handlers.py).                       *)
THEOREM ImagesHoleFree == ASSUME NoLap PROVE Spec => []NoHiddenHole
<1>1. IInv => NoHiddenHole
  BY DEF IInv
<1>2. QED BY <1>1, Inductive, PTL

(* An image that was not spliced has slices of one frame only, although a  *)
(* lost header shows in nothing but the gap in the ids, and it begins with *)
(* a header, or else with the packet of id 1: a session that lost its first*)
(* header, id 0, collects and shows that frame without it                  *)
(* (_deal_with_data in handlers.py).                                       *)
THEOREM ImagesOneFrame == ASSUME NoLap PROVE Spec => []ShownIsOneFrame
<1>1. IInv => ShownIsOneFrame
  BY DEF IInv, ImagesAreOneFrame
<1>2. QED BY <1>1, Inductive, PTL

-----------------------------------------------------------------------------
(* Nothing is missed.  While every packet came in its turn, the image is    *)
(* all the image data since its header, and it is not bad.                  *)

(* The camera's packets are of one frame if no header lies between them,    *)
(* and audio comes behind the image data of a frame.                        *)
FramesInTurn ==
    /\ \A a, b \in Packets : a <= b =>
          (Stream[a].frame = Stream[b].frame <=> \A n \in a + 1 .. b : ~IsHeader(n))
    /\ \A n \in Packets : n > 1 /\ Stream[n].kind = "body" => Stream[n - 1].kind # "other"

ImageData(a, b) == {n \in a .. b : Stream[n].kind # "other"}
Slices(img) == {img[i].n : i \in 1 .. Len(img)}

UpToDate(h, l) ==
    /\ h \in Packets /\ l \in h .. newest
    /\ IsHeader(h) /\ \A n \in h + 1 .. newest : ~IsHeader(n)
    /\ \A n \in l + 1 .. newest : Stream[n].kind = "other"
    /\ cur_image # <<>> /\ ~frame_is_bad
    /\ Slices(cur_image) = ImageData(h, newest)
    /\ rcv_seq_id = PktId(l) /\ newest \in Packets

IntactInv == intact => \E h, l \in Packets : UpToDate(h, l)

LEMMA PacketIsNat == Len(Stream) \in Nat /\ \A n \in Packets : n \in Nat \ {0}
BY StreamAssumption DEF Packets

LEMMA HeaderIntact ==
    ASSUME NoLap, IInv, NEW n \in Packets, Receive(n), IsHeader(n), intact'
    PROVE  UpToDate(n, n)'
<1>1. n > newest /\ ~Raises /\ newest' = n
  BY DEF Receive
<1>2. StartNewFrame(n)
  BY DEF Receive, ReceiveHeader, ReceiveOld, ReceiveNext, ReceiveAfterGap,
         ReceiveOther, IsHeader
<1>3. /\ cur_image' = <<WholeSlice(n)>> /\ rcv_seq_id' = PktId(n)
      /\ frame_is_bad' = FALSE
  BY <1>1, <1>2 DEF StartNewFrame, IdAfterHeader
<1>4. Slices(cur_image') = {n}
  BY <1>3 DEF Slices, WholeSlice
<1>5. ImageData(n, n) = {n} /\ n \in n .. n
  BY PacketIsNat DEF ImageData, IsHeader
<1>6. \A m \in n + 1 .. n : FALSE
  BY PacketIsNat
<1>7. QED BY <1>1, <1>3, <1>4, <1>5, <1>6 DEF UpToDate

(* A packet that comes once more changes nothing.                           *)
LEMMA RepeatIntact ==
    ASSUME NoLap, IInv, NEW n \in Packets, Receive(n), ~IsHeader(n), n <= newest,
           NEW h \in Packets, NEW l \in Packets, UpToDate(h, l)
    PROVE  UNCHANGED <<image, shown, newest>>
<1>1. newest' = newest
  <2>1. newest \in Nat /\ n \in Nat
    BY PacketIsNat DEF IInv, TypeOK
  <2>2. QED BY <2>1 DEF Receive
<1>2. CASE Stream[n].kind = "other"
  BY <1>1, <1>2 DEF Receive, ReceiveHeader, ReceiveOld, ReceiveNext,
                    ReceiveAfterGap, ReceiveOther, IsHeader
<1>3. CASE Stream[n].kind # "other"
  <2>1. n <= l
    <3>1. n \notin l + 1 .. newest
      BY <1>3 DEF UpToDate
    <3>2. newest \in Nat
      BY PacketIsNat DEF IInv, TypeOK
    <3>3. QED BY <3>1, <3>2, PacketIsNat
  <2>2. PktId(n) <= rcv_seq_id /\ PktId(n) \in Nat /\ rcv_seq_id \in Nat
    <3>1. PktId(n) = FirstId + n - 1 /\ PktId(l) = FirstId + l - 1
      BY PktIdNoLap
    <3>2. QED BY <2>1, <3>1, PacketIsNat, StreamAssumption, PktIdNoLap DEF UpToDate
  <2>3. ReceiveOld(n)
    BY <1>3, <2>2 DEF Receive, ReceiveHeader, ReceiveNext, ReceiveAfterGap,
                      ReceiveOther, IsNext
  <2>4. QED BY <1>1, <2>3 DEF ReceiveOld
<1>4. QED BY <1>2, <1>3

(* The next packet of the frame joins the image.                            *)
LEMMA NextIntact ==
    ASSUME NoLap, FramesInTurn, IInv, NEW n \in Packets, Receive(n), ~IsHeader(n),
           n = newest + 1,
           NEW h \in Packets, NEW l \in Packets, UpToDate(h, l)
    PROVE  \E m \in Packets : UpToDate(h, m)'
<1>0. /\ newest \in Nat /\ n \in Nat /\ h \in Nat /\ l \in Nat /\ newest' = n
      /\ h <= l /\ l <= newest /\ newest \in Packets
  BY PacketIsNat DEF Receive, UpToDate
<1>1. \A m \in h + 1 .. n : ~IsHeader(m)
  <2>1. \A m \in h + 1 .. n : m \in h + 1 .. newest \/ m = n
    BY <1>0
  <2>2. QED BY <2>1 DEF UpToDate
<1>2. ImageData(h, n) = IF Stream[n].kind = "other" THEN ImageData(h, newest)
                        ELSE ImageData(h, newest) \cup {n}
  <2>1. \A m : m \in h .. n <=> m \in h .. newest \/ m = n
    BY <1>0
  <2>2. QED BY <2>1 DEF ImageData
<1>3. CASE Stream[n].kind = "other"
  <2>1. UNCHANGED image
    BY <1>3 DEF Receive, ReceiveHeader, ReceiveOld, ReceiveNext,
                ReceiveAfterGap, ReceiveOther, IsHeader
  <2>2. \A m \in l + 1 .. n : Stream[m].kind = "other"
    <3>1. \A m \in l + 1 .. n : m \in l + 1 .. newest \/ m = n
      BY <1>0
    <3>2. QED BY <1>3, <3>1 DEF UpToDate
  <2>3. l \in h .. n
    BY <1>0
  <2>4. UpToDate(h, l)'
    BY <1>0, <1>1, <1>2, <1>3, <2>1, <2>2, <2>3 DEF UpToDate, image
  <2>5. QED BY <2>4
<1>4. CASE Stream[n].kind # "other"
  <2>1. Stream[n].kind = "body"
    <3>1. Stream[n].kind \in Kinds
      <4> DEFINE Packet == [kind : Kinds, frame : Nat, marked : BOOLEAN]
      <4>1. \A p \in Packet : p.kind \in Kinds
        OBVIOUS
      <4>2. Stream \in Seq(Packet)
        BY StreamAssumption
      <4> HIDE DEF Packet
      <4>3. Stream[n] \in Packet
        BY <4>2 DEF Packets
      <4>4. QED BY <4>1, <4>3
    <3>2. QED BY <1>4, <3>1 DEF Kinds, IsHeader
  <2>2. l = newest
    <3>1. n > 1 /\ n - 1 = newest
      BY <1>0, PacketIsNat
    <3>2. Stream[newest].kind # "other"
      BY <2>1, <3>1 DEF FramesInTurn
    <3>3. newest \notin l + 1 .. newest
      BY <3>2 DEF UpToDate
    <3>4. QED BY <1>0, <3>3
  <2>3. PktId(n) = rcv_seq_id + 1 /\ rcv_seq_id \in Nat
    <3>1. PktId(n) = FirstId + n - 1 /\ PktId(l) = FirstId + l - 1
      BY PktIdNoLap
    <3>2. FirstId \in Nat /\ rcv_seq_id = PktId(l) /\ PktId(l) \in Nat
      BY StreamAssumption, PktIdNoLap DEF UpToDate
    <3>3. QED BY <1>0, <2>2, <3>1, <3>2
  <2>4. ReceiveNext(n)
    BY <2>1, <2>3 DEF Receive, ReceiveHeader, ReceiveOld, ReceiveAfterGap,
                      ReceiveOther, IsNext, IsHeader
  <2>5. /\ cur_image \in Seq(Slice) /\ WholeSlice(n) \in Slice
        /\ cur_image' = Append(cur_image, WholeSlice(n))
        /\ rcv_seq_id' = PktId(n) /\ frame_is_bad' = frame_is_bad
    BY <2>4 DEF ReceiveNext, IInv, TypeOK, WholeSlice, Slice
  <2>6. /\ Len(cur_image') = Len(cur_image) + 1 /\ Len(cur_image) \in Nat
        /\ \A i \in 1 .. Len(cur_image) : cur_image'[i] = cur_image[i]
        /\ cur_image'[Len(cur_image) + 1] = WholeSlice(n)
        /\ cur_image' # <<>>
    BY <2>5, AppendProperties
  <2>7. Slices(cur_image') = Slices(cur_image) \cup {n}
    <3>1. \A i : i \in 1 .. Len(cur_image') <=> i \in 1 .. Len(cur_image) \/ i = Len(cur_image) + 1
      BY <2>6
    <3>2. WholeSlice(n).n = n
      BY DEF WholeSlice
    <3>3. QED BY <2>6, <3>1, <3>2 DEF Slices
  <2>8. n \in h .. n /\ \A m \in n + 1 .. n : Stream[m].kind = "other"
    BY <1>0
  <2>9. UpToDate(h, n)'
    BY <1>0, <1>1, <1>2, <1>4, <2>5, <2>6, <2>7, <2>8 DEF UpToDate
  <2>10. QED BY <2>9
<1>5. QED BY <1>3, <1>4

LEMMA IntactStep ==
    ASSUME NoLap, FramesInTurn
    PROVE  IInv /\ IntactInv /\ [Next]_vars => IntactInv'
<1> SUFFICES ASSUME IInv, IntactInv, [Next]_vars, intact'
             PROVE  \E h, l \in Packets : UpToDate(h, l)'
  BY DEF IntactInv
<1>1. ASSUME UNCHANGED <<image, newest>>, intact
      PROVE  \E h, l \in Packets : UpToDate(h, l)'
  <2>1. PICK h \in Packets, l \in Packets : UpToDate(h, l)
    BY <1>1 DEF IntactInv
  <2>2. UpToDate(h, l)'
    BY <1>1, <2>1 DEF UpToDate, image
  <2>3. QED BY <2>2
<1>2. CASE UNCHANGED vars \/ ToggleFix
  BY <1>1, <1>2 DEF vars, image, ToggleFix
<1>3. ASSUME NEW n \in Packets, Deliver(n)
      PROVE  \E h, l \in Packets : UpToDate(h, l)'
  <2>0. Receive(n) /\ newest \in Nat
    BY <1>3, PacketIsNat DEF Deliver, IInv, TypeOK
  <2>1. CASE IsHeader(n)
    BY <2>0, <2>1, HeaderIntact
  <2>2. CASE ~IsHeader(n)
    <3>1. intact /\ n <= newest + 1
      BY <2>0, <2>2 DEF Receive
    <3>2. PICK h \in Packets, l \in Packets : UpToDate(h, l)
      BY <3>1 DEF IntactInv
    <3>3. CASE n <= newest
      BY <1>1, <2>0, <2>2, <3>1, <3>2, <3>3, RepeatIntact
    <3>4. CASE n = newest + 1
      BY <2>0, <2>2, <3>2, <3>4, NextIntact
    <3>5. QED BY <2>0, <3>1, <3>3, <3>4, PacketIsNat
  <2>3. QED BY <2>1, <2>2
<1>4. QED BY <1>2, <1>3 DEF Next

(* A frame that came in its turn is shown whole when the next header comes. *)
LEMMA WholeWhenNextComes ==
    ASSUME FramesInTurn, IntactInv, NEW n \in Packets, Deliver(n), n = newest + 1,
           IsHeader(n), intact, ~Raises
    PROVE  Whole(Stream[newest].frame, shown')
<1>1. PICK h \in Packets, l \in Packets : UpToDate(h, l)
  BY DEF IntactInv
<1>2. /\ newest \in Packets /\ IsHeader(h) /\ h <= newest
      /\ \A m \in h + 1 .. newest : ~IsHeader(m)
      /\ Slices(cur_image) = ImageData(h, newest)
  BY <1>1, PacketIsNat DEF UpToDate
<1>3. cur_image \in shown'
  <2>1. StartNewFrame(n)
    BY DEF Deliver, Receive, ReceiveHeader, ReceiveOld, ReceiveNext,
           ReceiveAfterGap, ReceiveOther, IsHeader
  <2>2. Complete
    BY <1>1 DEF UpToDate, Complete
  <2>3. QED BY <2>1, <2>2 DEF StartNewFrame
<1>4. ASSUME NEW m \in Packets
      PROVE  Stream[m].frame = Stream[newest].frame <=> m \in h .. newest
  <2>0. m \in Nat /\ h \in Nat /\ newest \in Nat
    BY <1>2, PacketIsNat
  <2>1. CASE m < h
    <3>1. h \in m + 1 .. newest /\ m <= newest
      BY <1>2, <2>0, <2>1
    <3>2. Stream[m].frame # Stream[newest].frame
      BY <1>2, <3>1 DEF FramesInTurn
    <3>3. QED BY <2>0, <2>1, <3>2
  <2>2. CASE m \in h .. newest
    <3>1. m <= newest /\ \A k \in m + 1 .. newest : k \in h + 1 .. newest
      BY <2>0, <2>2
    <3>2. QED BY <1>2, <2>2, <3>1 DEF FramesInTurn
  <2>3. CASE m > newest
    <3>1. n \in newest + 1 .. m /\ newest <= m
      BY <2>0, <2>3
    <3>2. Stream[m].frame # Stream[newest].frame
      BY <1>2, <3>1 DEF FramesInTurn
    <3>3. QED BY <2>0, <2>3, <3>2
  <2>4. QED BY <2>0, <2>1, <2>2, <2>3
<1>5. h .. newest \subseteq Packets
  BY <1>2, PacketIsNat DEF Packets
<1>6. FramePackets(Stream[newest].frame) = ImageData(h, newest)
  BY <1>4, <1>5 DEF FramePackets, ImageData
<1>7. QED BY <1>2, <1>3, <1>6 DEF Whole, Slices

(* A frame whose packets came in their turn goes out whole when the next    *)
(* header comes, whatever was lost, late or spliced before it, if no audio  *)
(* comes between its packets (_deal_with_data and start_new_frame in        *)
(* handlers.py).                                                            *)
THEOREM FramesNotMissed ==
    ASSUME NoLap, FramesInTurn PROVE Spec => MissesNothing
<1>1. Init => IntactInv
  BY DEF Init, IntactInv
<1>2. IInv /\ IntactInv /\ [Next]_vars => IntactInv'
  BY IntactStep
<1>3. IntactInv =>
        [\A n \in Packets :
            Deliver(n) /\ n = newest + 1 /\ IsHeader(n) /\ intact /\ ~Raises
                => Whole(Stream[newest].frame, shown')]_vars
  BY WholeWhenNextComes
<1>4. QED BY <1>1, <1>2, <1>3, Inductive, PTL DEF Spec, MissesNothing

-----------------------------------------------------------------------------
(* What is ignored.  An image never ends beyond the newest packet.          *)

NotAhead ==
    /\ cur_image # <<>> => Last(cur_image).n <= newest
    /\ intact => cur_image # <<>>

LEMMA NotAheadStep == IInv /\ NotAhead /\ [Next]_vars => NotAhead'
<1> SUFFICES ASSUME IInv, NotAhead, [Next]_vars PROVE NotAhead'
  OBVIOUS
<1>0. newest \in Nat /\ cur_image \in Seq(Slice)
  BY PacketIsNat DEF IInv, TypeOK
<1>1. CASE UNCHANGED <<cur_image, newest, intact>>
  BY <1>1 DEF NotAhead
<1>2. ASSUME NEW n \in Packets, Receive(n) PROVE NotAhead'
  <2>0. n \in Nat /\ newest' \in Nat /\ newest' >= newest /\ newest' >= n
    BY <1>0, <1>2, PacketIsNat DEF Receive
  <2>1. CASE UNCHANGED cur_image
    <3>1. cur_image # <<>> => Last(cur_image).n \in Nat
      <4>1. cur_image # <<>> => Last(cur_image) \in Slice
        BY <1>0 DEF Last
      <4>2. QED BY <4>1, PacketIsNat DEF Slice
    <3>2. cur_image # <<>> => Last(cur_image).n <= newest'
      BY <1>0, <2>0, <3>1 DEF NotAhead
    <3>3. intact' => cur_image # <<>>
      <4>1. CASE IsHeader(n)
        <5>1. ReceiveHeader(n)
          BY <1>2, <4>1 DEF Receive, ReceiveOld, ReceiveNext, ReceiveAfterGap,
                            ReceiveOther, IsHeader
        <5>2. CASE Raises
          BY <1>2, <4>1, <5>2 DEF Receive
        <5>3. CASE ~Raises
          <6>1. cur_image' = <<WholeSlice(n)>>
            BY <5>1, <5>3 DEF ReceiveHeader, StartNewFrame
          <6>2. QED BY <2>1, <6>1
        <5>4. QED BY <5>2, <5>3
      <4>2. CASE ~IsHeader(n)
        BY <1>2, <4>2 DEF Receive, NotAhead
      <4>3. QED BY <4>1, <4>2
    <3>4. QED BY <2>1, <3>2, <3>3 DEF NotAhead
  <2>2. CASE cur_image' = <<WholeSlice(n)>>
    BY <2>0, <2>2 DEF NotAhead, Last, WholeSlice
  <2>3. ASSUME NEW img \in Seq(Slice), NEW e \in Slice, e.n = n,
               cur_image' = Append(img, e)
        PROVE  NotAhead'
    <3>1. Last(cur_image') = e /\ cur_image' # <<>>
      BY <2>3, AppendProperties DEF Last
    <3>2. QED BY <2>0, <2>3, <3>1 DEF NotAhead
  <2>4. CASE ReceiveNext(n)
    BY <1>0, <2>3, <2>4 DEF ReceiveNext, WholeSlice, Slice
  <2>5. CASE /\ CanSplice(n)
             /\ cur_image' =
                  Append([cur_image EXCEPT ![Len(cur_image)].tail_cut = TRUE],
                         [WholeSlice(n) EXCEPT !.head_cut = TRUE])
    <3>1. [cur_image EXCEPT ![Len(cur_image)].tail_cut = TRUE] \in Seq(Slice)
      <4>1. Len(cur_image) > 1 /\ Len(cur_image) \in 1 .. Len(cur_image)
        BY <1>0, <2>5 DEF CanSplice
      <4>2. cur_image[Len(cur_image)] \in Slice
        BY <1>0, <4>1
      <4>3. [cur_image[Len(cur_image)] EXCEPT !.tail_cut = TRUE] \in Slice
        BY <4>2 DEF Slice
      <4>4. QED BY <1>0, <4>1, <4>3, ExceptSeq
    <3>2. /\ [WholeSlice(n) EXCEPT !.head_cut = TRUE] \in Slice
          /\ [WholeSlice(n) EXCEPT !.head_cut = TRUE].n = n
      BY DEF WholeSlice, Slice
    <3>3. QED BY <2>3, <2>5, <3>1, <3>2
  <2>6. QED
    BY <1>2, <2>1, <2>2, <2>4, <2>5
       DEF Receive, ReceiveHeader, StartNewFrame, ReceiveOld, ReceiveAfterGap,
           ReceiveOther, image
<1>3. CASE ToggleFix \/ UNCHANGED vars
  BY <1>1, <1>3 DEF ToggleFix, vars, image
<1>4. QED BY <1>2, <1>3 DEF Next, Deliver

LEMMA NewIsNotOld ==
    ASSUME NoLap, IInv, NotAhead, intact, NEW n \in Packets, n > newest
    PROVE  ~ReceiveOld(n)
<1> SUFFICES ASSUME Stream[n].kind = "body" PROVE ~(PktId(n) <= rcv_seq_id)
  BY DEF ReceiveOld
<1>0. /\ newest \in Nat /\ n \in Nat /\ FirstId \in Nat
      /\ PktId(n) = FirstId + n - 1
  BY PacketIsNat, PktIdNoLap, StreamAssumption DEF IInv, TypeOK
<1>1. cur_image # <<>>
  BY DEF NotAhead
<1> DEFINE l == Last(cur_image).n
<1>2. l \in Packets
  <2>1. Last(cur_image) \in Slice
    BY <1>1 DEF IInv, TypeOK, Last
  <2>2. QED BY <2>1 DEF Slice
<1>3. rcv_seq_id = FirstId + l - 1 /\ l \in Nat /\ l <= newest
  BY <1>1, <1>2, PktIdNoLap, PacketIsNat DEF IInv, LastInSync, NotAhead
<1>4. QED BY <1>0, <1>3

(* What the comment "# retransmit" of handlers.py:252 says is true until    *)
(* the u16 ids wrap, and of every loss, repetition and reordering: the wrap *)
(* is the only cause of the violation that run id_wrap finds.               *)
THEOREM IgnoresOnlyRetransmits ==
    ASSUME NoLap PROVE Spec => OnlyRetransmitsIgnored
<1>1. Init => NotAhead
  BY DEF Init, NotAhead
<1>2. IInv /\ NotAhead =>
        [\A n \in Packets :
            Deliver(n) /\ n = newest + 1 /\ intact => ~ReceiveOld(n)]_vars
  <2>1. ASSUME IInv, NotAhead, intact, NEW n \in Packets, n = newest + 1
        PROVE  ~ReceiveOld(n)
    <3>1. newest \in Nat
      BY <2>1, PacketIsNat DEF IInv, TypeOK
    <3>2. QED BY <2>1, <3>1, NewIsNotOld
  <2>2. QED BY <2>1
<1>3. QED BY <1>1, <1>2, NotAheadStep, Inductive, PTL
          DEF Spec, OnlyRetransmitsIgnored

-----------------------------------------------------------------------------
(* What a loss can cost.  The header carries no count, so nothing tells     *)
(* that the end of a frame is missing (handlers.py:217); but no more than   *)
(* the end can be missing in an image that was not spliced: it is a header, *)
(* or the packet of id 1 if the camera's first header was lost, and the     *)
(* packets behind it, without a gap, of one frame.                          *)

Gapless(img) ==
    (\A i \in 1 .. Len(img) : ~img[i].tail_cut) =>
        \A i \in 1 .. Len(img) : img[i].n = img[1].n + i - 1
OnlyEndsMissing == \A img \in shown : OneFrame(img) /\ Gapless(img)

GaplessInv ==
    /\ \A img \in shown : Gapless(img)
    /\ cur_image # <<>> => Gapless(cur_image)

(* The packet that comes next in its turn is the next one of the camera.    *)
LEMMA NextIsAdjacent ==
    ASSUME NoLap, IInv, NEW n \in Packets, ReceiveNext(n)
    PROVE  cur_image # <<>> => /\ Last(cur_image).n \in Packets
                               /\ n = Last(cur_image).n + 1
<1> SUFFICES ASSUME cur_image # <<>>
             PROVE  Last(cur_image).n \in Packets /\ n = Last(cur_image).n + 1
  OBVIOUS
<1>0. n \in Nat /\ FirstId \in Nat /\ PktId(n) = FirstId + n - 1
  BY PacketIsNat, PktIdNoLap, StreamAssumption
<1>1. PktId(n) = rcv_seq_id + 1 /\ Stream[n].kind = "body"
  BY DEF ReceiveNext, IsNext
<1>3. Last(cur_image) \in Slice
  BY DEF IInv, TypeOK, Last
<1>4. Last(cur_image).n \in Packets /\ Last(cur_image).n \in Nat
  BY <1>3, PacketIsNat DEF Slice
<1>5. rcv_seq_id = FirstId + Last(cur_image).n - 1
  BY <1>4, PktIdNoLap DEF IInv, LastInSync
<1>6. QED BY <1>0, <1>1, <1>4, <1>5

LEMMA GaplessNext ==
    ASSUME NoLap, IInv, GaplessInv, NEW n \in Packets, ReceiveNext(n)
    PROVE  Gapless(cur_image')
<1>1. /\ cur_image \in Seq(Slice) /\ WholeSlice(n) \in Slice
      /\ cur_image' = Append(cur_image, WholeSlice(n))
  BY DEF ReceiveNext, IInv, TypeOK, WholeSlice, Slice
<1>2. /\ Len(cur_image') = Len(cur_image) + 1 /\ Len(cur_image) \in Nat
      /\ \A i \in 1 .. Len(cur_image) : cur_image'[i] = cur_image[i]
      /\ cur_image'[Len(cur_image) + 1] = WholeSlice(n)
  BY <1>1, AppendProperties
<1>3. SUFFICES ASSUME \A i \in 1 .. Len(cur_image') : ~cur_image'[i].tail_cut,
                      NEW i \in 1 .. Len(cur_image')
               PROVE  cur_image'[i].n = cur_image'[1].n + i - 1
  BY DEF Gapless
<1>4. \A j \in 1 .. Len(cur_image) : ~cur_image[j].tail_cut
  BY <1>2, <1>3
<1>5. \A j \in 1 .. Len(cur_image) : cur_image[j].n = cur_image[1].n + j - 1
  <2>1. CASE cur_image = <<>>
    BY <2>1
  <2>2. CASE cur_image # <<>>
    BY <1>4, <2>2 DEF GaplessInv, Gapless
  <2>3. QED BY <2>1, <2>2
<1>6. CASE i \in 1 .. Len(cur_image)
  BY <1>2, <1>5, <1>6
<1>7. CASE i = Len(cur_image) + 1 /\ cur_image = <<>>
  <2>1. i = 1 /\ cur_image'[1].n = n
    BY <1>2, <1>7 DEF WholeSlice
  <2>2. QED BY <2>1, PacketIsNat
<1>8. CASE i = Len(cur_image) + 1 /\ cur_image # <<>>
  <2>0. Len(cur_image) \in 1 .. Len(cur_image) /\ 1 \in 1 .. Len(cur_image)
    BY <1>1, <1>2, <1>8
  <2>1. cur_image[1] \in Slice
    BY <1>1, <2>0
  <2>2. cur_image[1].n \in Nat
    BY <2>1, PacketIsNat DEF Slice
  <2>3. n = cur_image[Len(cur_image)].n + 1
    BY <1>8, NextIsAdjacent DEF Last
  <2>4. cur_image[Len(cur_image)].n = cur_image[1].n + Len(cur_image) - 1
    BY <1>5, <2>0
  <2>5. cur_image'[i].n = n /\ cur_image'[1] = cur_image[1]
    BY <1>2, <1>8, <2>0 DEF WholeSlice
  <2>6. QED BY <1>2, <1>8, <2>2, <2>3, <2>4, <2>5
<1>9. QED BY <1>2, <1>3, <1>6, <1>7, <1>8

LEMMA GaplessStep ==
    ASSUME NoLap PROVE IInv /\ IInv' /\ GaplessInv /\ [Next]_vars => GaplessInv'
<1> SUFFICES ASSUME IInv, IInv', GaplessInv, [Next]_vars PROVE GaplessInv'
  OBVIOUS
<1>1. CASE UNCHANGED <<cur_image, shown>>
  BY <1>1 DEF GaplessInv
<1>2. ASSUME NEW n \in Packets, Receive(n) PROVE GaplessInv'
  <2>1. CASE /\ cur_image' = <<WholeSlice(n)>>
             /\ shown' = IF Complete THEN shown \cup {cur_image} ELSE shown
    <3>1. Gapless(cur_image')
      <4>1. Len(cur_image') = 1
        BY <2>1
      <4>2. \A i \in 1 .. 1 : i = 1
        OBVIOUS
      <4>3. cur_image'[1].n \in Nat
        BY <2>1, PacketIsNat DEF WholeSlice
      <4>4. cur_image'[1].n = cur_image'[1].n + 1 - 1
        BY <4>3
      <4>5. QED BY <4>1, <4>2, <4>4 DEF Gapless
    <3>2. QED BY <2>1, <3>1 DEF GaplessInv, Complete
  <2>2. CASE ReceiveNext(n)
    BY <2>2, GaplessNext DEF GaplessInv, ReceiveNext
  <2>3. CASE CanSplice(n) /\ ReceiveAfterGap(n) /\ ~UNCHANGED cur_image
    <3> DEFINE cut == [cur_image EXCEPT ![Len(cur_image)].tail_cut = TRUE]
               e == [WholeSlice(n) EXCEPT !.head_cut = TRUE]
    <3>1. cur_image' = Append(cut, e) /\ shown' = shown
      BY <2>3 DEF ReceiveAfterGap
    <3>2. cur_image \in Seq(Slice) /\ Len(cur_image) > 1 /\ Len(cur_image) \in Nat
      BY <2>3 DEF CanSplice, IInv, TypeOK
    <3>3. cut \in Seq(Slice) /\ Len(cut) = Len(cur_image)
          /\ cut[Len(cur_image)].tail_cut
      <4>1. Len(cur_image) \in 1 .. Len(cur_image) /\ cur_image[Len(cur_image)] \in Slice
        BY <3>2
      <4>2. [cur_image[Len(cur_image)] EXCEPT !.tail_cut = TRUE] \in Slice
            /\ [cur_image[Len(cur_image)] EXCEPT !.tail_cut = TRUE].tail_cut
        BY <4>1 DEF Slice
      <4>3. QED BY <3>2, <4>2, LastReplaced
    <3>4. e \in Slice
      BY DEF WholeSlice, Slice
    <3> HIDE DEF cut, e
    <3>5. Len(cur_image) \in 1 .. Len(cur_image') /\ cur_image'[Len(cur_image)].tail_cut
      BY <3>1, <3>2, <3>3, <3>4, AppendProperties
    <3>6. QED BY <3>1, <3>5 DEF GaplessInv, Gapless
  <2>4. QED
    BY <1>1, <1>2, <2>1, <2>2, <2>3
       DEF Receive, ReceiveHeader, StartNewFrame, ReceiveOld, ReceiveAfterGap,
           ReceiveOther, image
<1>3. CASE ToggleFix \/ UNCHANGED vars
  BY <1>1, <1>3 DEF ToggleFix, vars, image
<1>4. QED BY <1>2, <1>3 DEF Next, Deliver

(* An image that goes out unspliced is a header and the packets of its      *)
(* frame behind it without a gap, whatever is lost, repeated or late: only  *)
(* its end can be missing, and its header only if that was the packet with  *)
(* the id 0 in front of it (_deal_with_data in handlers.py).                *)
THEOREM OnlyEndsAreMissing == ASSUME NoLap PROVE Spec => []OnlyEndsMissing
<1>1. Init => GaplessInv
  BY DEF Init, GaplessInv
<1>2. IInv /\ GaplessInv => OnlyEndsMissing
  BY DEF IInv, ImagesAreOneFrame, ShownIsOneFrame, GaplessInv, OnlyEndsMissing
<1>3. QED BY <1>1, <1>2, GaplessStep, Inductive, PTL DEF Spec
=============================================================================
