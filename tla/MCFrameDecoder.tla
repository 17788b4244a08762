--------------------------- MODULE MCFrameDecoder ---------------------------
(***************************************************************************)
(* FrameDecoder on all streams of noise, a frame, noise and a frame, with  *)
(* at most NoiseBefore bytes before the first frame, which is enough for a *)
(* header, and NoiseBetween bytes before the second.                       *)
(***************************************************************************)
EXTENDS FrameDecoder

CONSTANTS NoiseBefore, NoiseBetween

Noise(n)  == UNION {[1 .. m -> Bytes] : m \in 0 .. n}
SentFrames == {Encode(t, p) : t \in KnownTypes, p \in Payloads}

MCStreams ==
    {[bytes |-> n \o f \o m \o g, starts |-> {Len(n), Len(n \o f \o m)}] :
        n \in Noise(NoiseBefore), f \in SentFrames,
        m \in Noise(NoiseBetween), g \in SentFrames}
=============================================================================
