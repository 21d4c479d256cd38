---------------------------- MODULE FileDownload ----------------------------
(***************************************************************************)
(* OSSClient::getObjectToFile: the download of an object, or of one range  *)
(* of it, into a file, resumed after each interrupted transfer from the    *)
(* last byte written.  The sink is one-shot, so the engine makes a single  *)
(* attempt per call of getObject and the loop here is the only retry.      *)
(*                                                                         *)
(* Meanwhile the object may be replaced, the network may break off or      *)
(* garble a transfer, the disk may fail and the token may be canceled.     *)
(* The file is a std::ofstream: what is written is in its buffer first,    *)
(* and the disk may fail when the buffer is emptied, at the close too.     *)
(*                                                                         *)
(* A byte is known by the version it belongs to, its index in it and       *)
(* whether it arrived intact; version 0 is what the file held before.      *)
(* Objects are not empty: whether curl hands over an empty body is its own *)
(* affair.                                                                 *)
(***************************************************************************)
EXTENDS Integers, Sequences

CONSTANTS
    Sizes,             (* Sizes[v]: the size of version v of the object    *)
    Ranges,            (* the ranges <<rangeStart, rangeEnd>> asked for    *)
    OldLengths,        (* the lengths the file may have before             *)
    MaxGarbled         (* bound: how many chunks arrive garbled            *)

ASSUME FileDownloadAssumption ==
    /\ Sizes \in Seq(Nat \ {0})
    /\ Sizes # <<>>
    /\ \A r \in Ranges : r[1] \in Nat /\ r[2] \in Int /\ (r[2] = -1 \/ r[1] <= r[2])
    /\ OldLengths \subseteq Nat
    /\ MaxGarbled \in Nat

VARIABLES
    range,             (* <<rangeStart, rangeEnd>>, <<0, -1>> for all      *)
    verifies,          (* EnableCRC64CheckDownload                         *)
    object,            (* the version of the object on the server          *)
    canceled,          (* has the token been canceled?                     *)
    garbled,           (* chunks garbled so far                            *)
    file,              (* the content of the file on the disk              *)
    pc,                (* where getObjectToFile is                         *)
    offset,            (* offset                                           *)
    response,          (* the response being received                      *)
    stream,            (* fileStream: "null", "good" or "fail"             *)
    buffer,            (* what fileStream has not given to the disk: once  *)
                       (* it is closed, what the disk has refused          *)
    position,          (* fileStream->tellp()                              *)
    seen,              (* the bytes the CRC observer has been given        *)
    outcome            (* what the call returns                            *)

requestVars == <<range, verifies>>
worldVars   == <<object, canceled, garbled>>
streamVars  == <<stream, buffer, position, file>>
vars == <<requestVars, worldVars, streamVars, seen, pc, offset, response, outcome>>

MaxSize == CHOOSE n \in {Sizes[v] : v \in DOMAIN Sizes} :
               \A v \in DOMAIN Sizes : Sizes[v] <= n

Byte(v, i, intact) == [of |-> v, at |-> i, intact |-> intact]
Hole == Byte(0, -1, TRUE)

NoResponse == [of |-> 0, next |-> 0, last |-> -1, hashed |-> FALSE]

Goto(from, to) == pc = from /\ pc' = to

Init ==
    /\ range \in Ranges
    /\ verifies \in BOOLEAN
    /\ object = 1
    /\ canceled = FALSE
    /\ garbled = 0
    /\ \E n \in OldLengths : file = [i \in 1..n |-> Byte(0, i - 1, TRUE)]
    /\ pc = "loop"
    /\ offset = 0
    /\ response = NoResponse
    /\ stream = "null"
    /\ buffer = <<>>
    /\ position = 0
    /\ seen = <<>>
    /\ outcome = "none"

-----------------------------------------------------------------------------
(* The request of one round.                                               *)

\* Mutant of FirstByte: the caller's range is forgotten when resuming.
FirstByteOfFile == IF offset = 0 THEN range[1] ELSE offset

FirstByte == range[1] + offset

\* A range the object has, even in part; "standard" makes the server refuse
\* the others.
Satisfiable ==
    /\ FirstByte < Sizes[object]
    /\ range[2] = -1 \/ FirstByte <= range[2]

LastByte ==
    IF range[2] = -1 \/ range[2] >= Sizes[object] THEN Sizes[object] - 1 ELSE range[2]

\* getObject fails before a byte of a 2xx body arrives: the token is canceled,
\* the connection cannot be made, the server refuses the range.
CallFails(error) ==
    /\ Goto("loop", "failed")
    /\ stream' = "null"
    /\ outcome' = error
    /\ UNCHANGED <<requestVars, worldVars, buffer, position, file, seen, offset, response>>

CallCanceled == canceled /\ CallFails("canceled")
Unreachable  == CallFails("network")
Refused      == ~ canceled /\ ~ Satisfiable /\ CallFails("refused")

Respond ==
    /\ ~ canceled
    /\ Satisfiable
    /\ Goto("loop", "receive")
    /\ stream' = "null"
    /\ \E hashed \in BOOLEAN :
          response' = [of |-> object, next |-> FirstByte, last |-> LastByte, hashed |-> hashed]
    /\ UNCHANGED <<requestVars, worldVars, buffer, position, file, seen, offset, outcome>>

-----------------------------------------------------------------------------
(* The body.  The first chunk opens the file: truncated for a download     *)
(* from the start, at the offset for a resumed one.                        *)

\* Mutant of Opened: always truncated.
OpenedEmpty == IF stream = "null" THEN <<>> ELSE file

Opened == IF stream = "null" /\ offset = 0 THEN <<>> ELSE file

Start == IF stream = "null" THEN offset ELSE position

\* Writing beyond the end of a file leaves a hole.
WriteAt(content, at, bytes) ==
    LET n == Len(content)
        end == at + Len(bytes)
    IN [i \in 1..(IF end > n THEN end ELSE n) |->
           IF i \in at+1..end THEN bytes[i - at]
           ELSE IF i <= n THEN content[i] ELSE Hole]

\* The first k of the buffered bytes reach the disk.
Flush(k) ==
    /\ file' = WriteAt(file, position - Len(buffer), SubSeq(buffer, 1, k))
    /\ buffer' = SubSeq(buffer, k + 1, Len(buffer))

Arriving(n, intact) ==
    [i \in 1..n |-> Byte(response.of, response.next + i - 1, intact)]

\* recvBodyCallback: the supplier at the first chunk, the writer, the observer.
\* The bytes are the stream's.
Receive(n, intact) ==
    /\ pc = "receive"
    /\ n <= response.last - response.next + 1
    /\ intact \/ garbled < MaxGarbled
    /\ garbled' = IF intact THEN garbled ELSE garbled + 1
    /\ stream' = "good"
    /\ file' = Opened
    /\ buffer' = buffer \o Arriving(n, intact)
    /\ position' = Start + n
    /\ seen' = seen \o Arriving(n, intact)
    /\ response' = [response EXCEPT !.next = @ + n]
    /\ UNCHANGED <<requestVars, object, canceled, pc, offset, outcome>>

\* A write to a full buffer empties it, or a part of it, first ...
Overflow(k) ==
    /\ pc = "receive"
    /\ Flush(k)
    /\ UNCHANGED <<requestVars, worldVars, stream, position, seen, pc, offset, response, outcome>>

\* ... and fails when the disk does, as it does when the file could not be
\* opened: the callback breaks off the transfer.
DiskFails ==
    /\ Goto("receive", "failed")
    /\ response.next <= response.last
    /\ stream' = "fail"
    /\ file' \in {file, Opened}
    /\ outcome' = "disk"
    /\ UNCHANGED <<requestVars, worldVars, buffer, position, seen, offset, response>>

\* The transfer ends early, cut off by the network or by the token.
Interrupted ==
    /\ Goto("receive", "failed")
    /\ outcome' \in IF canceled THEN {"canceled", "network"} ELSE {"network"}
    /\ UNCHANGED <<requestVars, worldVars, streamVars, seen, offset, response>>

-----------------------------------------------------------------------------
(* After getObject.                                                        *)

IsFullDownload == range = <<0, -1>>

\* The server's hash is that of the whole version.
WholeVersion == [i \in 1..Sizes[response.of] |-> Byte(response.of, i - 1, TRUE)]

Checked ==
    /\ verifies
    /\ IsFullDownload
    /\ offset = 0
    /\ response.hashed

\* Mutant of Succeed: nothing is compared.
SucceedUnchecked ==
    /\ Goto("receive", "done")
    /\ response.next > response.last
    /\ outcome' = "ok"
    /\ \E k \in 0..Len(buffer) : Flush(k)
    /\ UNCHANGED <<requestVars, worldVars, stream, position, seen, offset, response>>

\* The comparison is of what the observer has seen.  The stream is closed by its
\* destructor: nobody learns how much of the buffer that brings to the disk.
Succeed ==
    /\ Goto("receive", "done")
    /\ response.next > response.last
    /\ outcome' = IF Checked /\ seen # WholeVersion THEN "crcMismatch" ELSE "ok"
    /\ \E k \in 0..Len(buffer) : Flush(k)
    /\ UNCHANGED <<requestVars, worldVars, stream, position, seen, offset, response>>

\* Without a stream, or with one that has failed, the round is the last one.
EndLoop ==
    /\ stream \in {"null", "fail"}
    /\ Goto("failed", "done")
    /\ UNCHANGED <<requestVars, worldVars, streamVars, seen, offset, response, outcome>>

\* So it is with one that fails now, when it is flushed.
FlushFails ==
    /\ stream = "good"
    /\ Goto("failed", "done")
    /\ stream' = "fail"
    /\ \E k \in 0..Len(buffer) - 1 : Flush(k)
    /\ UNCHANGED <<requestVars, worldVars, position, seen, offset, response, outcome>>

\* Mutants of Resume: fail() is not asked, and tellp() is -1; a round without a
\* stream is not the last one; the stream is not flushed, and what its buffer
\* holds is lost with it.
ResumeAnyStream ==
    /\ stream # "null"
    /\ Goto("failed", "loop")
    /\ offset' = IF stream = "fail" THEN -1 ELSE position
    /\ Flush(Len(buffer))
    /\ UNCHANGED <<requestVars, worldVars, stream, position, seen, response, outcome>>

ResumeWithoutStream ==
    /\ stream # "fail"
    /\ Goto("failed", "loop")
    /\ offset' = IF stream = "null" THEN offset ELSE position
    /\ Flush(Len(buffer))
    /\ UNCHANGED <<requestVars, worldVars, stream, position, seen, response, outcome>>

ResumeUnflushed ==
    /\ stream = "good"
    /\ Goto("failed", "loop")
    /\ offset' = position
    /\ buffer' = <<>>
    /\ UNCHANGED <<requestVars, worldVars, stream, position, file, seen, response, outcome>>

\* The next round begins where the stream has got to.
Resume ==
    /\ stream = "good"
    /\ Goto("failed", "loop")
    /\ offset' = position
    /\ Flush(Len(buffer))
    /\ UNCHANGED <<requestVars, worldVars, stream, position, seen, response, outcome>>

-----------------------------------------------------------------------------
(* The rest of the world.                                                  *)

Replace ==
    /\ object < Len(Sizes)
    /\ object' = object + 1
    /\ UNCHANGED <<requestVars, canceled, garbled, streamVars, seen, pc, offset, response,
                   outcome>>

Cancel ==
    /\ ~ canceled
    /\ canceled' = TRUE
    /\ UNCHANGED <<requestVars, object, garbled, streamVars, seen, pc, offset, response,
                   outcome>>

-----------------------------------------------------------------------------
GetObjectToFile ==
    \/ CallCanceled \/ Unreachable \/ Refused \/ Respond
    \/ \E n \in 1..MaxSize, intact \in BOOLEAN : Receive(n, intact)
    \/ \E k \in 1..Len(buffer) : Overflow(k)
    \/ DiskFails    \/ Interrupted
    \/ Succeed      \/ EndLoop      \/ FlushFails      \/ Resume

Next == GetObjectToFile \/ Replace \/ Cancel

Spec == Init /\ [][Next]_vars

\* The caller's thread runs on.
FairSpec == Spec /\ WF_vars(GetObjectToFile)

-----------------------------------------------------------------------------
(* Properties.                                                             *)

Bytes == [of : 0..Len(Sizes), at : Int, intact : BOOLEAN]

\* The types of the variables; the offset is a place in the object.
TypeOK ==
    /\ range \in Ranges
    /\ verifies \in BOOLEAN
    /\ object \in DOMAIN Sizes
    /\ canceled \in BOOLEAN
    /\ garbled \in 0..MaxGarbled
    /\ file \in Seq(Bytes)
    /\ pc \in {"loop", "receive", "failed", "done"}
    /\ offset \in 0..MaxSize
    /\ response \in [of : 0..Len(Sizes), next : 0..MaxSize, last : -1..MaxSize-1, hashed : BOOLEAN]
    /\ stream \in {"null", "good", "fail"}
    /\ buffer \in Seq(Bytes)
    /\ position \in 0..MaxSize
    /\ seen \in Seq(Bytes)
    /\ outcome \in {"none", "ok", "crcMismatch", "canceled", "network", "refused", "disk"}

\* What has been written, on the disk or not yet.
Written == file \o buffer

\* However often the transfer was interrupted, and whatever part was asked for,
\* each byte written is where the caller expects it: no gap, none twice.
BytesInPlace ==
    stream = "good" =>
        \A i \in 1..position : Written[i].of # 0 /\ Written[i].at = range[1] + i - 1

\* A download reported as successful has written the whole of what was asked
\* for, as long as the version served last, and nothing of what the file held
\* before.  The file has all of that unless the disk failed after the last byte
\* had been accepted, which nothing looks at; then its end is missing, but
\* nothing that an earlier round brought.
SuccessIsComplete ==
    outcome = "ok" =>
        /\ Len(Written) = response.last - range[1] + 1
        /\ \A i \in 1..Len(Written) : Written[i].of # 0
        /\ Len(file) >= offset

\* A full download with the check on, completed in one transfer whose response
\* has a hash, has received and written exactly the version served.  The check
\* says that of what was received: the file is the version unless the disk has
\* refused the end of it.
VerifiedSuccess ==
    outcome = "ok" /\ Checked => seen = WholeVersion /\ Written = WholeVersion

\* Nothing is lost by an interruption: what the file has before the offset of the
\* round in progress it keeps, and nothing is written there again.
ResumeKeepsBytes ==
    [][offset > 0 => \A i \in DOMAIN file : i <= offset =>
           i \in DOMAIN file' /\ file'[i] = file[i]]_vars

\* The token ends the loop, wherever it is.
CancelEnds == canceled ~> pc = "done"

\* "If the download is interrupted mid-stream, retries from the last written
\* offset [...]. Retries indefinitely until the download succeeds" (OSSClient.h):
\* a download that has been resumed does not end for trouble with the network.
RetriesUntilSuccess ==
    pc = "done" /\ offset > 0 /\ stream # "fail" => outcome # "network"
=============================================================================
