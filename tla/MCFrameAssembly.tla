--------------------------- MODULE MCFrameAssembly ---------------------------
(* Instances of FrameAssembly for TLC: camera streams written out.         *)
EXTENDS FrameAssembly

Packet(kind, frame, marked) == [kind |-> kind, frame |-> frame, marked |-> marked]

(* Four frames, audio between the first two; data with and without reset   *)
(* markers; the second frame starts with a bare JPEG header.               *)
FourKinds ==
    << Packet("framed", 1, FALSE), Packet("body", 1, TRUE),
       Packet("body", 1, FALSE),   Packet("body", 1, TRUE),
       Packet("other", 1, FALSE),
       Packet("raw", 2, FALSE),    Packet("body", 2, TRUE),
       Packet("body", 2, TRUE),
       Packet("framed", 3, FALSE), Packet("body", 3, TRUE),
       Packet("framed", 4, FALSE) >>

(* Frames of a header and two data packets each.                           *)
Frames(count) ==
    [n \in 1 .. 3 * count |-> Packet(IF n % 3 = 1 THEN "framed" ELSE "body",
                                     (n + 2) \div 3, n % 2 = 0)]
FourFrames == Frames(4)

NoneUnshowable == {}
SecondUnshowable == {6}
=============================================================================
