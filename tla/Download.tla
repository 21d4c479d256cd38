------------------------------ MODULE Download ------------------------------
(***************************************************************************)
(* The body of a download over its attempts: getObject of a range, by the  *)
(* plain client or the encryption client, or selectObject.  Each response  *)
(* of status 2xx asks the supplier for a chain of writers when its first   *)
(* bytes arrive: decryption, then what is skipped of the first block, then *)
(* the application's sink; or the frame decoder, then the sink.  Between   *)
(* two attempts another object may have taken the place of the first.      *)
(***************************************************************************)
EXTENDS SelectFrameDecoder, TransferLimits

(* A version of the object: its bytes, and whose envelope it carries. *)
Plain(text)     == [bytes |-> text, envelope |-> "none"]
Encrypted(text) == [bytes |-> Process(IV, 0, text), envelope |-> "ours"]

Replacements ==
    {Plain(<<>>), Plain([i \in 1 .. Size |-> Byte(50 + i)]),
     [Encrypted(Text) EXCEPT !.envelope = "foreign"]}

NoVersion == [bytes |-> <<>>, envelope |-> "absent"]
Rest == -1     \* a range without an end

(* Room in the sinks: for all of it, or for a byte less than the object. *)
Sinks == [kind : {"string"}, capacity : {2 * Size}, oneShot : {FALSE}]
           \cup [kind : {"file", "memory"}, capacity : {Size - 1, 2 * Size}, oneShot : BOOLEAN]

Gets == [op : {"get"}, decrypting : BOOLEAN, first : 0 .. Size - 1,
         last : {Rest} \cup (0 .. Size - 1), to : Sinks]
Selects == [op : {"select"}, decrypting : {FALSE}, first : {0}, last : {Rest}, to : Sinks]
Calls == {c \in Gets \cup Selects : c.last = Rest \/ c.first <= c.last}

VARIABLES
    object,     \* the version the server holds
    call,       \* the request
    step,       \* "idle", "request", "body" or "end"
    attempts,   \* attempts made
    served,     \* [version, checked, rotten]: what this response is made from
    coming,     \* bytes of the response still on the way
    chain,      \* the writers of the last supplier call, and their sink
    arrived,    \* length of the last chunk
    result      \* "none", "ok" or "error"

downloadVars == <<object, call, step, attempts, served, coming, chain, arrived, result>>

NoCall == [op |-> "none", decrypting |-> FALSE, first |-> 0, last |-> Rest,
           to |-> [kind |-> "string", capacity |-> 0, oneShot |-> FALSE]]
NothingServed == [version |-> NoVersion, checked |-> FALSE, rotten |-> FALSE, framed |-> FALSE]
NoChain == [asked |-> FALSE, source |-> NothingServed, decrypts |-> FALSE, iv |-> IV, at |-> 0,
            discard |-> 0, framed |-> FALSE, decoder |-> NewDecoder,
            sink |-> NewSink("string", 0)]

DownloadInit ==
    /\ object = NoVersion /\ call = NoCall /\ step = "idle" /\ attempts = 0
    /\ served = NothingServed /\ coming = <<>> /\ chain = NoChain /\ arrived = 0 /\ result = "none"
-----------------------------------------------------------------------------
(* Mutant of AlignedStart: the range is asked for as it is. *)
NotAligned == call.first

(* OSSEncryptionClient::getObject: the range starts at a block's first byte. *)
AlignedStart == (call.first \div Block) * Block
DiscardCount == call.first - AlignedStart
Requested == IF call.decrypting THEN AlignedStart ELSE call.first

InRange(bytes, from) ==
    SubSeq(bytes, from + 1,
           IF call.last = Rest THEN Len(bytes) ELSE Least(call.last + 1, Len(bytes)))

CallDownload(c) ==
    /\ step = "idle" /\ object # NoVersion
    /\ step' = "request" /\ call' = c
    /\ UNCHANGED <<object, attempts, served, coming, chain, arrived, result>>

(* Another application puts an object of the same name between attempts. *)
Replace(version) ==
    /\ step = "request" /\ attempts > 0 /\ object # version
    /\ object.envelope # "foreign" /\ object.bytes # <<>>
    /\ object' = version
    /\ UNCHANGED <<call, step, attempts, served, coming, chain, arrived, result>>

(* The frames of a query that selects the whole object: in one data frame  *)
(* or in two with a sign of life between them.  A byte of the first may be *)
(* spoilt on the way.                                                      *)
Framings(bytes, checked) ==
    LET end == Frame(EndFrame, <<Byte(0)>>, checked)
    IN  { Frame(DataFrame, bytes, checked) \o end,
          Frame(DataFrame, Take(bytes, 1), checked) \o Frame(ContinuousFrame, <<>>, checked)
              \o Frame(DataFrame, Drop(bytes, 1), checked) \o end }

(* The server answers the request; the supplier is not asked yet. *)
Answers(framed, checked, rotten, bytes) ==
    /\ step = "request"
    /\ step' = "body" /\ attempts' = attempts + 1
    /\ served' = [version |-> object, checked |-> checked, rotten |-> rotten, framed |-> framed]
    /\ coming' = bytes
    /\ chain' = [chain EXCEPT !.asked = FALSE] /\ arrived' = 0
    /\ UNCHANGED <<object, call, result>>

(* A range that begins past the end of the object is answered with an error. *)
AnswerGet ==
    /\ call.op = "get"
    /\ object.bytes = <<>> => (call.first = 0 /\ call.last = Rest)
    /\ Answers(FALSE, FALSE, FALSE, InRange(object.bytes, Requested))

AnswerSelectRaw ==
    call.op = "select" /\ Answers(FALSE, FALSE, FALSE, object.bytes)

AnswerSelect ==
    /\ call.op = "select" /\ object.bytes # <<>>
    /\ \E checked \in BOOLEAN : \E frames \in Framings(object.bytes, checked) :
          \/ Answers(TRUE, checked, FALSE, frames)
          \/ MaxGarbled > 0 /\ Answers(TRUE, checked, TRUE, [frames EXCEPT ![HeaderLen + 1] = Byte(0)])

(* An answer that no repetition would change, such as that for an object   *)
(* too short for the range.                                                *)
Denied ==
    /\ step = "request" /\ attempts' = attempts + 1
    /\ step' = "end" /\ result' = "error"
    /\ UNCHANGED <<object, call, served, coming, chain, arrived>>
-----------------------------------------------------------------------------
(* The suppliers of getObject, of the encryption client's getObject with   *)
(* buildDecryptWriter, and of selectObject.  An envelope that cannot be    *)
(* opened gives an ErrorWriter, which is bad from the beginning.           *)
Supply ==
    LET sink == NewSink(call.to.kind, call.to.capacity)
        envelope == IF call.decrypting THEN served.version.envelope ELSE "none"
    IN  [asked |-> TRUE, source |-> served,
         decrypts |-> envelope = "ours",
         iv |-> SeekIV(IV, Requested), at |-> 0,
         discard |-> IF call.decrypting THEN DiscardCount ELSE 0,
         framed |-> served.framed, decoder |-> NewDecoder,
         sink |-> IF envelope = "foreign" THEN [sink EXCEPT !.state = "bad"] ELSE sink]

(* fail() and bad() through the chain: the decoder's error is a failure    *)
(* that hides what its sink says.                                          *)
Failed(c) == c.decoder.error \/ c.sink.state # "good"
Bad(c) == ~c.decoder.error /\ c.sink.state = "bad"

(* write() through the chain *)
Written(c, bytes) ==
    LET opened == IF c.decrypts THEN Process(c.iv, c.at, bytes) ELSE bytes
        kept   == Drop(opened, Least(c.discard, Len(opened)))
    IN  IF c.framed
        THEN LET r == ProcessBuffer(c.decoder, c.sink, opened)
             IN  [c EXCEPT !.decoder = r.decoder, !.sink = r.sink]
        ELSE [c EXCEPT !.at = @ + Len(bytes),
                       !.discard = @ - (Len(opened) - Len(kept)),
                       !.sink = IF kept = <<>> THEN @ ELSE SinkWrite(@, kept)]

Accepts(c) == ~Failed(c)

(* An attempt is over with an error that is worth a repetition. *)
Breaks(made) ==
    IF made < DownloadAttempts /\ ~call.to.oneShot
    THEN step' = "request" /\ UNCHANGED result
    ELSE step' = "end" /\ result' = "error"

(* recvBodyCallback: the first chunk of a response asks the supplier; a    *)
(* chain that has failed before, or is bad now, ends the transfer.         *)
Arrive(n) ==
    /\ step = "body" /\ n <= Len(coming)
    /\ LET asked == IF chain.asked THEN chain ELSE Supply
       IN  IF Accepts(asked)
           THEN /\ chain' = Written(asked, Take(coming, n))
                /\ IF Bad(chain') THEN Breaks(attempts) ELSE UNCHANGED <<step, result>>
           ELSE chain' = asked /\ Breaks(attempts)
    /\ coming' = Drop(coming, n) /\ arrived' = n
    /\ UNCHANGED <<object, call, attempts, served>>

(* The connection breaks, or the server fails. *)
Interrupted ==
    /\ step \in {"request", "body"}
    /\ attempts' = IF step = "request" THEN attempts + 1 ELSE attempts
    /\ Breaks(attempts')
    /\ UNCHANGED <<object, call, served, coming, chain, arrived>>

(* The response is complete: nothing looks at the sink any more. *)
Complete ==
    /\ step = "body" /\ coming = <<>>
    /\ step' = "end" /\ result' = "ok"
    /\ UNCHANGED <<object, call, attempts, served, coming, chain, arrived>>

DownloadNext ==
    \/ \E c \in Calls : CallDownload(c)
    \/ \E version \in Replacements : Replace(version)
    \/ AnswerGet \/ AnswerSelectRaw \/ AnswerSelect \/ Denied
    \/ \E n \in ChunkSizes : Arrive(n)
    \/ Interrupted \/ Complete
-----------------------------------------------------------------------------
(* What the application asked for of a version: its text, when the client  *)
(* has the key, from the first byte of the range.                          *)
Expected(version) ==
    LET open == call.decrypting /\ version.envelope = "ours"
    IN  InRange(IF open THEN Process(IV, 0, version.bytes) ELSE version.bytes, call.first)

(* A byte that was spoilt is not compared. *)
SameBut(rotten, got, want) ==
    \A i \in DOMAIN got : got[i] # want[i] => (rotten /\ i = 1)

(* However the body is cut into chunks and however often it begins again,  *)
(* a sink holds the first bytes of the range it was made for: nothing of   *)
(* an earlier attempt, nothing missing before something that is there,     *)
(* nothing still encrypted, nothing of the frames around the payload.      *)
SinkIsPrefix ==
    chain.source # NothingServed =>
        LET got == chain.sink.data
            want == Expected(chain.source.version)
        IN  Len(got) <= Len(want) /\ SameBut(chain.source.rotten, got, want)

(* The bytes of the end frame, which follows the data.                     *)
EndLength == HeaderLen + 1 + TailLen

(* A download that succeeded has all of its range, unless its chain says   *)
(* that it failed: the transport asks the chain after a chunk only whether *)
(* it is bad, and does not come back to it after the last one.  What is    *)
(* missing is then not more than that chunk.  A spoilt byte whose frame    *)
(* carries a checksum is found out at the frame's tail, so the download    *)
(* succeeds with it only if the tail came together with all that follows   *)
(* it, in one chunk.  When the last response had no body the supplier was  *)
(* not asked, and the sink is that of an earlier attempt or none.          *)
SuccessIsTheRange ==
    result = "ok" =>
        LET got == chain.sink.data
            want == Expected(served.version)
        IN  IF ~chain.asked
            THEN want = <<>> /\ (got # <<>> => attempts > 1)
            ELSE IF Failed(chain)
            THEN /\ Len(want) - Len(got) <= arrived
                 /\ SameBut(served.rotten /\ (served.checked => arrived > EndLength), got, want)
            ELSE Len(got) = Len(want) /\ SameBut(served.rotten /\ ~served.checked, got, want)
=============================================================================
