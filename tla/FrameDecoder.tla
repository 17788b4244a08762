---------------------------- MODULE FrameDecoder ----------------------------
(***************************************************************************)
(* The frame decoder of drive_protocol.py: from a byte stream with noise   *)
(* in it, read in chunks of any size, back to frames.                      *)
(*                                                                         *)
(* Bytes are small numbers, the CRC is one of them, and payloads are short *)
(* enough to enumerate; what matters is kept: sync bytes may occur in a    *)
(* payload or in a CRC, noise may look like a header and, by accident,     *)
(* like a whole frame.                                                     *)
(***************************************************************************)
EXTENDS Naturals, Sequences, FiniteSetsExt, SequencesExt

CONSTANTS
    Bytes,           \* 0 .. 255
    SYNC0, SYNC1,
    KnownTypes,      \* KNOWN_TYPES
    MaxPayload,      \* MAX_PAYLOAD
    MaxBuffer,       \* max_buffer
    MaxChunk,        \* READ_CHUNK of serial_link.py: the most that one read returns
    Streams          \* what the MCU may send: bytes, and where its frames start

HeaderLen == 4
CrcLen    == 1
MaxFrame  == HeaderLen + MaxPayload + CrcLen

\* No type and no length is a sync byte.  A read and a partial frame are within
\* max_buffer, by far in the code (256 + 61 bytes, of 4096).
ASSUME BytesAssumption ==
    /\ Bytes \subseteq Nat /\ Bytes = 0 .. Max(Bytes)
    /\ SYNC0 \in Bytes /\ SYNC1 \in Bytes /\ SYNC0 # SYNC1
    /\ KnownTypes \subseteq Bytes \ {SYNC0, SYNC1}
    /\ \A n \in 0 .. MaxPayload : n \in Bytes \ {SYNC0, SYNC1}
ASSUME BufferAssumption ==
    /\ MaxPayload \in Nat /\ MaxChunk \in Nat /\ MaxBuffer \in Nat
    /\ MaxChunk + MaxFrame - 1 <= MaxBuffer

VARIABLES
    stream,      \* the bytes sent and the offsets of the frames among them
    fed,         \* how many bytes were fed
    buf,         \* _buf
    base,        \* history: the offset in the stream of the first byte of buf
    out,         \* the frames returned, each with its offset and length
    crcErrors,   \* crc_errors
    resyncs      \* resyncs

vars == <<stream, fed, buf, base, out, crcErrors, resyncs>>

(***************************************************************************)
(* Encoding.  crc16 is external to the argument: any function of the body  *)
(* into the CRC bytes, here one that depends on the order.                 *)
(***************************************************************************)
Crc(body) == FoldLeft(LAMBDA c, b : 2 * c + b + 1, 0, body) % (Max(Bytes) + 1)

Encode(type, payload) ==
    LET body == <<type, Len(payload)>> \o payload
    IN  <<SYNC0, SYNC1>> \o body \o <<Crc(body)>>

Payloads == UNION {[1 .. m -> Bytes] : m \in 0 .. MaxPayload}
\* At each of its starts a stream has a frame, whole or cut off at its end.
ASSUME StreamsAssumption ==
    \A s \in Streams :
        /\ s.bytes \in Seq(Bytes) /\ s.starts \subseteq Nat
        /\ \A p \in s.starts : \E t \in KnownTypes, m \in Payloads :
              \A i \in 1 .. Len(Encode(t, m)) :
                 p + i <= Len(s.bytes) => s.bytes[p + i] = Encode(t, m)[i]

(***************************************************************************)
(* feed().  A pass of its loop starts at an offset i of the bytes s, all   *)
(* before it deleted.  What it did: how many bytes are deleted now, whether *)
(* feed() returns, the frames found, and what it adds to the counts.       *)
(***************************************************************************)
Waits(i) == [keep |-> i, ends |-> TRUE, frames |-> <<>>, crcErrors |-> 0, resyncs |-> 0]
GoesOn(i, frames, crc, resync) ==
    [keep |-> i, ends |-> FALSE, frames |-> frames, crcErrors |-> crc, resyncs |-> resync]

\* Mutant: nothing is kept for a sync pair that straddles two reads.
NoSyncKeepsNothing(s, i) == Waits(Len(s))

\* No sync pair: the last byte may be half of one.
NoSync(s, i) == Waits(IF Len(s) - i > 1 THEN Len(s) - 1 ELSE i)

\* Mutant: the length is not checked.
PlausibleAnyLength(type, len) == type \in KnownTypes

Plausible(type, len) == type \in KnownTypes /\ len <= MaxPayload

\* Mutant: the whole frame is dropped.
AfterBadCrcSkipsFrame(k, total) == k + total

\* Only the sync pair is dropped: the real frame may start inside.
AfterBadCrc(k, total) == k + 2

\* A pass that finds the sync pair at k.
AtSync(s, k) ==
    LET len   == s[k + 4]
        total == HeaderLen + len + CrcLen
        body  == SubSeq(s, k + 3, k + HeaderLen + len)
    IN  IF Len(s) - k < HeaderLen THEN Waits(k)
        ELSE IF ~Plausible(s[k + 3], len) THEN GoesOn(k + 2, <<>>, 0, 1)
        ELSE IF Len(s) - k < total THEN Waits(k)
        ELSE IF Crc(body) = s[k + total]
        THEN GoesOn(k + total, <<[at |-> k, len |-> total]>>, 0, 0)
        ELSE GoesOn(AfterBadCrc(k, total), <<>>, 1, 0)

SyncPairs(s, i) == {k \in i .. (Len(s) - 2) : s[k + 1] = SYNC0 /\ s[k + 2] = SYNC1}
Pass(s, i) == IF SyncPairs(s, i) = {} THEN NoSync(s, i) ELSE AtSync(s, Min(SyncPairs(s, i)))

\* A pass and what the passes after it did.
Then(p, r) ==
    [keep |-> r.keep, ends |-> r.ends, frames |-> p.frames \o r.frames,
     crcErrors |-> p.crcErrors + r.crcErrors, resyncs |-> p.resyncs + r.resyncs]

\* The loop, from each offset.
ScanFrom(s) ==
    LET Loop[i \in 0 .. Len(s)] ==
            IF Pass(s, i).ends THEN Pass(s, i) ELSE Then(Pass(s, i), Loop[Pass(s, i).keep])
    IN  Loop
Scan(s) == ScanFrom(s)[0]

\* The same frames, d bytes further in the stream.
Shift(frames, d) == [j \in DOMAIN frames |-> [frames[j] EXCEPT !.at = @ + d]]

\* A stream far out of sync is cut to the last MAX_FRAME bytes first.
Feed(n) ==
    /\ n <= Len(stream.bytes) - fed
    /\ LET longer == buf \o SubSeq(stream.bytes, fed + 1, fed + n)
           over   == Len(longer) > MaxBuffer
           cut    == IF over THEN Len(longer) - MaxFrame ELSE 0
           s      == SubSeq(longer, cut + 1, Len(longer))
           r      == Scan(s)
       IN /\ buf' = SubSeq(s, r.keep + 1, Len(s))
          /\ base' = base + cut + r.keep
          /\ out' = out \o Shift(r.frames, base + cut)
          /\ crcErrors' = crcErrors + r.crcErrors
          /\ resyncs' = resyncs + r.resyncs + (IF over THEN 1 ELSE 0)
    /\ fed' = fed + n
    /\ UNCHANGED stream

Init ==
    /\ stream \in Streams /\ fed = 0
    /\ buf = <<>> /\ base = 0 /\ out = <<>> /\ crcErrors = 0 /\ resyncs = 0

Next == \E n \in 1 .. MaxChunk : Feed(n)

Spec == Init /\ [][Next]_vars
-----------------------------------------------------------------------------
(***************************************************************************)
(* Properties.                                                             *)
(***************************************************************************)

\* What waits in the buffer is less than a frame, so what follows noise waits for at most
\* a frame's bytes: noise that passes for a header, with a known type and a length within
\* MAX_PAYLOAD, does make the decoder wait for that frame's end.  A length beyond it, the
\* "bogus length" of drive_protocol.py:214-215, does not.
TypeOK ==
    /\ fed \in 0 .. Len(stream.bytes)
    /\ buf \in Seq(Bytes) /\ Len(buf) < MaxFrame
    /\ base + Len(buf) = fed
    /\ out \in Seq([at : Nat, len : Nat])
    /\ crcErrors \in Nat /\ resyncs \in Nat

\* How the stream was cut into reads changes nothing: the frames, the counts and
\* what is left are those of one feed() of it all.
ChunkingDoesNotMatter ==
    LET r == Scan(SubSeq(stream.bytes, 1, fed))
    IN  /\ out = r.frames /\ base = r.keep
        /\ crcErrors = r.crcErrors /\ resyncs = r.resyncs

\* No frame is lost to the noise before it: each one that arrived whole was
\* returned or is still in the buffer, except under a run of noise that passed
\* for a frame, CRC included.
NoFrameIsLost ==
    \A p \in stream.starts :
       \/ p >= base
       \/ \E j \in DOMAIN out : out[j].at <= p /\ p < out[j].at + out[j].len

\* For the induction: what waits in the buffer is the end of what was fed.
BufferInv ==
    /\ fed \in 0 .. Len(stream.bytes) /\ base \in 0 .. fed
    /\ buf = SubSeq(stream.bytes, base + 1, fed)
=============================================================================
