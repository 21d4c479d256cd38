------------------------- MODULE SelectFrameDecoder -------------------------
(***************************************************************************)
(* SelectFrameDecodingWriter: the frames of a select response are decoded  *)
(* as they arrive, cut anywhere into chunks.  A frame is a header that     *)
(* says its type and length, a payload, and a tail with a checksum.  The   *)
(* sizes are scaled: a header of HeaderLen values instead of 20 bytes, a   *)
(* tail of TailLen values instead of 4 bytes.  The payload of a data frame *)
(* is passed on before its checksum has been seen.                         *)
(***************************************************************************)
EXTENDS ByteSinks

HeaderLen == 2       \* <<type, length>>
TailLen == 2         \* <<unused, checksum>>
OffsetLen == 8       \* what a length counts besides the payload

DataFrame == 11
ContinuousFrame == 14
EndFrame == 15

NewDecoder == [header |-> <<>>, remains |-> 0, tail |-> <<>>, crc |-> 0, error |-> FALSE]

Checksum(crc, bytes) ==
    LET upTo[n \in 0 .. Len(bytes)] == IF n = 0 THEN crc ELSE 7 * upTo[n - 1] + bytes[n].value
    IN  upTo[Len(bytes)]

EmptyChecksum == 1

(* What the server sends. *)
Frame(type, payload, checked) ==
    LET crc == IF checked THEN Checksum(EmptyChecksum, payload) ELSE 0
    IN  <<Byte(type), Byte(Len(payload) + OffsetLen)>> \o payload \o <<Byte(0), Byte(crc)>>

(* Phase 1 of parseFrame: the header, and what follows from a whole one. *)
WithHeader(d, piece) ==
    LET header == d.header \o piece
    IN  IF Len(header) < HeaderLen
        THEN [d EXCEPT !.header = header]
        ELSE [d EXCEPT !.header = header, !.remains = header[2].value - OffsetLen,
                       !.crc = EmptyChecksum]

(* Phase 2: the payload; a data frame's goes to the inner writer. *)
WithPayload(d, sink, piece) ==
    LET inner == IF d.header[1].value = DataFrame THEN SinkWrite(sink, piece) ELSE sink
        failed == d.header[1].value = DataFrame /\ ~ Wrote(sink, piece) /\ inner.state # "good"
    IN  [decoder |-> IF failed
                     THEN [d EXCEPT !.error = TRUE]
                     ELSE [d EXCEPT !.crc = Checksum(@, piece), !.remains = @ - Len(piece)],
         sink |-> inner]

(* Mutant of WithTail: a checksum is read and not compared. *)
WithTailUnchecked(d, piece) ==
    IF Len(d.tail \o piece) < TailLen
    THEN [d EXCEPT !.tail = @ \o piece]
    ELSE NewDecoder

(* Phase 3: the tail; a whole one ends the frame or is an error. *)
WithTail(d, piece) ==
    LET tail == d.tail \o piece
    IN  IF Len(tail) < TailLen
        THEN [d EXCEPT !.tail = tail]
        ELSE IF tail[2].value # 0 /\ tail[2].value # d.crc
        THEN [d EXCEPT !.error = TRUE]
        ELSE NewDecoder

(* One phase of parseFrame with the bytes it takes of the chunk; nothing *)
(* is left to do when the chunk is used up or after an error.             *)
ParsePhase(r) ==
    LET d == r.decoder
        has == Len(r.chunk)
        After(n, decoder, sink) == [decoder |-> decoder, sink |-> sink, chunk |-> Drop(r.chunk, n)]
    IN  IF has = 0 \/ d.error
        THEN r
        ELSE IF Len(d.header) < HeaderLen
        THEN LET n == Least(HeaderLen - Len(d.header), has)
             IN  After(n, WithHeader(d, Take(r.chunk, n)), r.sink)
        ELSE IF d.remains > 0
        THEN LET n == Least(d.remains, has)
                 passed == WithPayload(d, r.sink, Take(r.chunk, n))
             IN  After(n, passed.decoder, passed.sink)
        ELSE LET n == Least(TailLen - Len(d.tail), has)
             IN  After(n, WithTail(d, Take(r.chunk, n)), r.sink)

(* processBuffer: the phases in turn; each takes a byte at least. *)
ProcessBuffer(d, sink, chunk) ==
    LET after[n \in 0 .. Len(chunk)] ==
            IF n = 0 THEN [decoder |-> d, sink |-> sink, chunk |-> chunk] ELSE ParsePhase(after[n - 1])
    IN  after[Len(chunk)]
=============================================================================
