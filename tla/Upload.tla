------------------------------- MODULE Upload -------------------------------
(***************************************************************************)
(* The body of an upload over its attempts: putObject, or uploadPart for   *)
(* each part of a multipart upload, with the client's encryption or        *)
(* without.  The body is a ByteContent; each attempt reads a span of it,   *)
(* through the cipher and then through the TeeByteContent whose observers  *)
(* compute the checksum and report the progress, into sendBodyCallback.    *)
(* SyncClient models the decision to repeat; here it is the same test, for *)
(* errors that are retryable.                                              *)
(***************************************************************************)
EXTENDS TransferLimits, SequencesExt

CONSTANT PartSizes     \* the part sizes the application may choose

ASSUME UploadAssumption == PartSizes \subseteq Nat \ {0}

(* "memory" stands for StringContent, MemoryContent and FileContent, which *)
(* give each span a cursor of its own; "stream" is a StreamContent that    *)
(* has found out by itself that its stream is seekable; "declared" and     *)
(* "pipe" are told, without a length, that it is or is not.                *)
BodyKinds == {"memory", "stream", "declared", "pipe"}

IsOneShot(kind) == kind = "pipe"
HasLength(kind) == kind \in {"memory", "stream"}

(* The application hands a stream over at this position; what comes before *)
(* is not part of the body.                                                *)
Pos == 1
Junk == <<Byte(99)>>

VARIABLES
    plan,      \* [encrypted, size]: the client and the part size in use
    acked,     \* the parts whose upload succeeded
    compared,  \* those of them whose checksums were compared
    stored,    \* part -> what the server holds of it
    phase,     \* "idle", "begin", "send", "reply", "done" or "refused"
    part,      \* the part of the call under way
    body,      \* [kind, at, spanned, failing]: the ByteContent and its stream
    span,      \* [at, read, before]: the attempt's own cursor, bytes it has given,
               \* and those the attempt before it gave
    tee,       \* [first, crc, written, last, reported]: TeeByteContent, its observers
    wire,      \* what the server has received of the attempt
    tries,     \* attempts made
    spoilt,    \* was a byte of this attempt spoilt?
    garbled,   \* bytes spoilt so far
    outcome    \* of the last call: "none", "ok", "crc" or "error"

callVars == <<phase, part, body, span, tee, wire, tries, spoilt, outcome>>
uploadVars == <<plan, acked, compared, stored, garbled, callVars>>

Parts == 1 .. ((Size + plan.size - 1) \div plan.size)
Offset(p) == (p - 1) * plan.size
PartText(p) == SubSeq(Text, Offset(p) + 1, IF Offset(p) + plan.size < Size THEN Offset(p) + plan.size ELSE Size)

NewBody(kind) == [kind |-> kind, at |-> Pos, spanned |-> FALSE, failing |-> FALSE]
NoSpan == [at |-> Pos, read |-> 0, before |-> 0]
NewTee == [first |-> TRUE, crc |-> <<>>, written |-> 0, last |-> 0, reported |-> 0]

UploadInit ==
    /\ plan \in [encrypted : BOOLEAN, size : PartSizes]
    /\ acked = {} /\ compared = {}
    /\ stored = [p \in 1 .. Size |-> <<>>]
    /\ phase = "idle" /\ part = 1 /\ body = NewBody("memory") /\ span = NoSpan
    /\ tee = NewTee /\ wire = <<>> /\ tries = 0 /\ spoilt = FALSE /\ outcome = "none"
    /\ garbled = 0
-----------------------------------------------------------------------------
(* OSSEncryptionClient::uploadPart: the cipher of the object, moved to the *)
(* part; putObject uses it as it is.                                       *)
PartIV(p) == SeekIV(IV, Offset(p))

Sent(p, n, bytes) == IF plan.encrypted THEN Process(PartIV(p), n, bytes) ELSE bytes

(* Mutant of Misaligned: any part size will do. *)
NeverMisaligned == FALSE

(* validateMultiPartContext, and the same test when the upload is initiated. *)
Misaligned == plan.encrypted /\ plan.size < Size /\ (plan.size % Block) # 0

RefuseParts ==
    /\ phase = "idle" /\ acked = {} /\ Misaligned
    /\ phase' = "refused"
    /\ UNCHANGED <<plan, acked, compared, stored, garbled, part, body, span, tee, wire, tries, spoilt, outcome>>

CallUpload(p, kind) ==
    /\ phase \in {"idle", "done"} /\ outcome \in {"none", "ok"}
    /\ ~Misaligned
    /\ p \in Parts \ acked
    /\ phase' = "begin" /\ part' = p /\ body' = NewBody(kind) /\ tee' = NewTee
    /\ tries' = 0 /\ outcome' = "none"
    /\ UNCHANGED <<plan, acked, compared, stored, garbled, span, wire, spoilt>>

(* StreamContent::spanSource: pos_ of a declared stream is -1, which seekg *)
(* refuses.                                                                *)
StreamSpan ==
    IF body.spanned /\ body.kind = "stream" THEN [body EXCEPT !.at = Pos]
    ELSE IF body.spanned /\ body.kind = "declared" THEN [body EXCEPT !.failing = TRUE]
    ELSE [body EXCEPT !.spanned = TRUE]

(* Mutant of Reset: the progress forgets what it has reported. *)
ResetForgets == [tee EXCEPT !.crc = <<>>, !.written = 0]

(* resetObserver: the checksum and the progress start again. *)
Reset == [tee EXCEPT !.crc = <<>>, !.last = tee.written, !.written = 0]

(* The transport begins an attempt: TeeByteContent::spanSource and, inside, *)
(* the body's.                                                              *)
Begin ==
    /\ phase = "begin"
    /\ phase' = "send"
    /\ tries' = tries + 1
    /\ body' = IF body.kind = "memory" THEN body ELSE StreamSpan
    /\ span' = [NoSpan EXCEPT !.before = IF tries = 0 THEN 0 ELSE span.read]
    /\ tee' = [(IF tee.first THEN tee ELSE Reset) EXCEPT !.first = FALSE]
    /\ wire' = <<>> /\ spoilt' = FALSE
    /\ UNCHANGED <<plan, acked, compared, stored, garbled, part, outcome>>

(* What the body's source has left: its own cursor in memory, the shared   *)
(* position in a stream.                                                   *)
Cursor == IF body.kind = "memory" THEN span.at ELSE body.at
Left == IF body.failing THEN <<>> ELSE SubSeq(Junk \o PartText(part), Cursor + 1, Pos + Len(PartText(part)))

(* The bytes curl is still to send: it stops at the length it was given. *)
Due == IF HasLength(body.kind) THEN Len(PartText(part)) - Len(wire) ELSE Len(Left)

(* ProgressObserver::data and CRC64Observer::data *)
Observed(t, bytes) ==
    LET written == t.written + Len(bytes)
    IN  [t EXCEPT !.crc = @ \o bytes, !.written = written,
                  !.reported = IF written > t.last THEN written ELSE @]

(* What becomes of a byte on a bad wire. *)
Spoilt(byte) == [byte EXCEPT !.value = @ + Size]

(* sendBodyCallback, and the network with what it was given. *)
SendChunk(n) ==
    /\ phase = "send" /\ ~body.failing
    /\ n <= Due /\ n <= Len(Left)
    /\ LET bytes == Sent(part, span.read, SubSeq(Left, 1, n))
       IN  /\ tee' = Observed(tee, bytes)
           /\ \/ wire' = wire \o bytes /\ UNCHANGED <<spoilt, garbled>>
              \/ /\ garbled < MaxGarbled
                 /\ wire' = wire \o [bytes EXCEPT ![n] = Spoilt(@)]
                 /\ spoilt' = TRUE /\ garbled' = garbled + 1
    /\ span' = [span EXCEPT !.at = @ + n, !.read = @ + n]
    /\ body' = IF body.kind = "memory" THEN body ELSE [body EXCEPT !.at = @ + n]
    /\ UNCHANGED <<plan, acked, compared, stored, phase, part, tries, outcome>>

(* The server has the whole body: of the length it was told, or up to the  *)
(* end of the source.                                                      *)
Stored ==
    /\ phase = "send" /\ ~body.failing /\ Due = 0
    /\ phase' = "reply"
    /\ stored' = [stored EXCEPT ![part] = wire]
    /\ UNCHANGED <<plan, acked, compared, garbled, part, body, span, tee, wire, tries, spoilt, outcome>>
-----------------------------------------------------------------------------
(* The retryer after an error that is retryable. *)
Fails(error) ==
    IF tries < UploadAttempts /\ ~IsOneShot(body.kind)
    THEN phase' = "begin" /\ UNCHANGED outcome
    ELSE phase' = "done" /\ outcome' = error

(* The connection breaks, the server fails, or its answer is lost. *)
AttemptFails ==
    /\ phase \in {"send", "reply"} /\ ~body.failing
    /\ Fails("error")
    /\ UNCHANGED <<plan, acked, compared, stored, garbled, part, body, span, tee, wire, tries, spoilt>>

(* A source that fails short of its end: CURL_READFUNC_ABORT, which is not *)
(* retryable.                                                              *)
SourceFails ==
    /\ phase = "send" /\ body.failing
    /\ phase' = "done" /\ outcome' = "error"
    /\ UNCHANGED <<plan, acked, compared, stored, garbled, part, body, span, tee, wire, tries, spoilt>>

(* CRC64ResponseChecker: the server's checksum is that of what it stored.  *)
(* There is nothing to compare when the client's check of uploads is off,  *)
(* or when the response carries no checksum.                               *)
CrcAgrees(hashed) == ~hashed \/ tee.crc = stored[part]

Answered ==
    /\ phase = "reply"
    /\ \E hashed \in BOOLEAN :
          IF CrcAgrees(hashed)
          THEN /\ phase' = "done" /\ outcome' = "ok" /\ acked' = acked \cup {part}
               /\ compared' = IF hashed THEN compared \cup {part} ELSE compared
          ELSE Fails("crc") /\ UNCHANGED <<acked, compared>>
    /\ UNCHANGED <<plan, stored, garbled, part, body, span, tee, wire, tries, spoilt>>

Uploaded == phase = "done" /\ outcome = "ok" /\ acked = Parts

UploadNext ==
    \/ RefuseParts
    \/ \E p \in Parts, kind \in BodyKinds : CallUpload(p, kind)
    \/ Begin
    \/ \E n \in ChunkSizes : SendChunk(n)
    \/ Stored \/ AttemptFails \/ SourceFails \/ Answered
-----------------------------------------------------------------------------
(* The object as one pass of the cipher over the whole text would make it. *)
ObjectBytes == IF plan.encrypted THEN Process(IV, 0, Text) ELSE Text

(* An upload that succeeded has stored its part of the object, as if the   *)
(* whole had been sent at once: the source was rewound and the cipher of   *)
(* the part restarted for each attempt.  When the checksums were compared  *)
(* no byte spoilt on the way is in it; when they were not, each byte is    *)
(* the object's or what became of that one on the way.                     *)
StoredIsBody ==
    \A p \in acked :
        LET want == SubSeq(ObjectBytes, Offset(p) + 1, Offset(p) + Len(PartText(p)))
        IN  /\ Len(stored[p]) = Len(want)
            /\ \A i \in DOMAIN want :
                  \/ stored[p][i] = want[i]
                  \/ p \notin compared /\ stored[p][i] = Spoilt(want[i])

(* The observers outlive the attempts, and yet each attempt is observed on *)
(* its own: a checksum error is the network's doing, not a trace of what   *)
(* an earlier attempt has read.  The progress last reported is never       *)
(* behind what the attempt under way has given, nor behind what the one    *)
(* before it had: a repetition is silent until it is past that one.  (It   *)
(* remembers one attempt only: a third that follows a short second reports *)
(* again what the first has reported.)  An upload that succeeded ends with *)
(* the report of its last byte.                                            *)
EachAttemptObserved ==
    /\ outcome = "crc" => spoilt
    /\ phase \in {"send", "reply"} => tee.reported >= span.read /\ tee.reported >= span.before
    /\ outcome = "ok" => tee.reported = Len(PartText(part))
=============================================================================
