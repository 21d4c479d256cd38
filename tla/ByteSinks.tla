----------------------------- MODULE ByteSinks -----------------------------
(***************************************************************************)
(* The sinks a response body can be written to: OStreamWriter on a string  *)
(* stream or on a file, and MemoryWriter on a buffer.  A sink has what has *)
(* been written, a capacity and a state.                                   *)
(***************************************************************************)
EXTENDS AesCtr, SequencesExt

Least(m, n) == IF m < n THEN m ELSE n

Take(s, n) == SubSeq(s, 1, n)
Drop(s, n) == SubSeq(s, n + 1, Len(s))

NewSink(kind, capacity) == [kind |-> kind, data |-> <<>>, capacity |-> capacity, state |-> "good"]

Room(sink) == sink.capacity - Len(sink.data)

(* MemoryWriter::onWrite: all of it or nothing. *)
MemoryWrite(sink, bytes) ==
    IF Len(bytes) > Room(sink)
    THEN [sink EXCEPT !.state = "fail"]
    ELSE [sink EXCEPT !.data = @ \o bytes]

(* OStreamWriter::onWrite on a file: a full disk takes what fits and makes *)
(* the stream bad, and a bad stream takes nothing.  The stream's buffer is *)
(* left out: the failure shows at the write that causes it, not at a later *)
(* one or at the close.  (FileDownload has the buffer.)                    *)
FileWrite(sink, bytes) ==
    IF sink.state # "good" THEN sink
    ELSE [sink EXCEPT !.data = @ \o Take(bytes, Least(Len(bytes), Room(sink))),
                      !.state = IF Len(bytes) > Room(sink) THEN "bad" ELSE "good"]

SinkWrite(sink, bytes) ==
    CASE sink.kind = "memory" -> MemoryWrite(sink, bytes)
      [] sink.kind = "file"   -> FileWrite(sink, bytes)
      [] sink.kind = "string" -> [sink EXCEPT !.data = @ \o bytes]

(* Is the count that write returns different from zero? *)
Wrote(sink, bytes) ==
    CASE sink.kind = "memory" -> Len(bytes) <= Room(sink)
      [] sink.kind = "file"   -> SinkWrite(sink, bytes).state = "good"
      [] sink.kind = "string" -> TRUE
=============================================================================
