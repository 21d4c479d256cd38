------------------------- MODULE FileDownloadProofs -------------------------
(***************************************************************************)
(* The resumed download, for objects of any sizes and any number of        *)
(* versions, any ranges, and any number of rounds.                         *)
(***************************************************************************)
EXTENDS FileDownload, SequenceTheorems, WellFoundedInduction, TLAPS

-----------------------------------------------------------------------------
(* Writing at the end of a file appends to it.                             *)

LEMMA WriteAtEndAppends ==
    ASSUME NEW S, NEW content \in Seq(S), NEW bytes \in Seq(S)
    PROVE  WriteAt(content, Len(content), bytes) = content \o bytes
<1> DEFINE m == Len(content)
           n == Len(bytes)
           written == WriteAt(content, m, bytes)
<1>1. m \in Nat /\ n \in Nat
  BY LenProperties
<1>2. /\ content \o bytes \in Seq(S)
      /\ Len(content \o bytes) = m + n
      /\ \A i \in 1..m+n : (content \o bytes)[i] = IF i <= m THEN content[i] ELSE bytes[i - m]
  BY ConcatProperties
<1>3. DOMAIN (content \o bytes) = 1..m+n /\ content \o bytes = [i \in 1..m+n |-> (content \o bytes)[i]]
  BY <1>2, LenProperties
<1>4. written = [i \in 1..m+n |-> IF i \in m+1..m+n THEN bytes[i - m]
                                  ELSE IF i <= m THEN content[i] ELSE Hole]
  BY <1>1 DEF WriteAt
<1>5. \A i \in 1..m+n : written[i] = (content \o bytes)[i]
  BY <1>1, <1>2, <1>4
<1> QED
  BY <1>3, <1>4, <1>5

\* A flush moves bytes from the buffer to the end of the file, the first k of
\* them; what has been written stays what it was.
LEMMA FlushMovesBytes ==
    ASSUME file \in Seq(Bytes), buffer \in Seq(Bytes), position \in Nat,
           Len(file) = position - Len(buffer), NEW k \in 0..Len(buffer), Flush(k)
    PROVE  /\ file' \in Seq(Bytes) /\ buffer' \in Seq(Bytes)
           /\ Written' = Written
           /\ Len(file') = position - Len(buffer') /\ Len(file') = Len(file) + k
           /\ \A i \in 1..Len(file) : file'[i] = file[i]
<1> DEFINE m == Len(file)
           n == Len(buffer)
           front == SubSeq(buffer, 1, k)
           back == SubSeq(buffer, k + 1, n)
<1>1. m \in Nat /\ n \in Nat /\ k \in 0..n
  BY LenProperties
<1>2. /\ front \in Seq(Bytes) /\ Len(front) = k
      /\ \A i \in 1..k : front[i] = buffer[i]
  <2>1. \A i \in 1..k : buffer[i] \in Bytes
    BY <1>1, ElementOfSeq
  <2>2. /\ front \in Seq(Bytes)
        /\ Len(front) = IF 1 <= k THEN k - 1 + 1 ELSE 0
        /\ \A i \in 1..k - 1 + 1 : front[i] = buffer[1 + i - 1]
    BY <1>1, <2>1, SubSeqProperties
  <2> QED
    BY <1>1, <2>2
<1>3. /\ back \in Seq(Bytes) /\ Len(back) = n - k
      /\ \A i \in 1..n - k : back[i] = buffer[k + i]
  <2>1. \A i \in k + 1..n : buffer[i] \in Bytes
    BY <1>1, ElementOfSeq
  <2>2. /\ back \in Seq(Bytes)
        /\ Len(back) = IF k + 1 <= n THEN n - (k + 1) + 1 ELSE 0
        /\ \A i \in 1..n - (k + 1) + 1 : back[i] = buffer[(k + 1) + i - 1]
    BY <1>1, <2>1, SubSeqProperties
  <2> HIDE DEF back
  <2>3. n - (k + 1) + 1 = n - k /\ Len(back) = n - k
    BY ONLY <1>1, <2>2
  <2>4. ASSUME NEW i \in 1..n - k PROVE back[i] = buffer[k + i]
    <3>1. (k + 1) + i - 1 = k + i
      BY ONLY <1>1, i \in 1..n - k
    <3>2. back[i] = buffer[(k + 1) + i - 1]
      BY ONLY <2>2, <2>3, i \in 1..n - k
    <3> QED
      BY ONLY <3>1, <3>2
  <2> QED
    BY ONLY <2>2, <2>3, <2>4
<1>4. file' = file \o front /\ buffer' = back
  BY WriteAtEndAppends, <1>2 DEF Flush, m, n
<1> HIDE DEF m, n, front, back
<1>5. /\ file \o front \in Seq(Bytes)
      /\ Len(file \o front) = m + k
      /\ \A i \in 1..m + k : (file \o front)[i] = IF i <= m THEN file[i] ELSE front[i - m]
  BY <1>2, ConcatProperties DEF m
<1>6. front \o back = buffer
  <2>1. /\ front \o back \in Seq(Bytes)
        /\ Len(front \o back) = k + (n - k)
        /\ \A i \in 1..k + (n - k) : (front \o back)[i] = IF i <= k THEN front[i] ELSE back[i - k]
    BY <1>2, <1>3, ConcatProperties
  <2>2. k + (n - k) = n
    BY <1>1
  <2>3. ASSUME NEW i \in 1..n PROVE (front \o back)[i] = buffer[i]
    <3>1. CASE i <= k
      <4>1. i \in 1..k
        BY ONLY <1>1, <3>1, i \in 1..n
      <4> QED
        BY <4>1, <3>1, <2>1, <2>2, <1>2
    <3>2. CASE ~ (i <= k)
      <4>1. i - k \in 1..n - k /\ k + (i - k) = i
        BY ONLY <1>1, <3>2, i \in 1..n
      <4>2. (front \o back)[i] = back[i - k]
        BY ONLY <3>2, <2>1, <2>2, i \in 1..n
      <4> QED
        BY ONLY <4>1, <4>2, <1>3
    <3> QED
      BY <3>1, <3>2
  <2>4. buffer \in Seq(Bytes) /\ Len(buffer) = n
    BY DEF n
  <2> QED
    BY <2>1, <2>2, <2>3, <2>4, SeqEqual
<1>7. file' \o buffer' = file \o buffer
  <2>1. file \in Seq(Bytes) /\ front \in Seq(Bytes) /\ back \in Seq(Bytes)
    BY <1>2, <1>3
  <2>2. (file \o front) \o back = file \o (front \o back)
    BY ONLY <2>1, ConcatAssociative
  <2> QED
    BY ONLY <1>4, <1>6, <2>2
<1>8. Len(file') = position - Len(buffer') /\ Len(file') = Len(file) + k
  <2>1. m = position - n /\ position \in Nat
    BY DEF m, n
  <2>2. Len(file') = m + k /\ Len(buffer') = n - k
    BY <1>3, <1>4, <1>5
  <2>3. m + k = position - (n - k)
    BY ONLY <1>1, <2>1
  <2> QED
    BY <2>2, <2>3 DEF m
<1>9. ASSUME NEW i \in 1..Len(file) PROVE file'[i] = file[i]
  <2>1. i \in 1..m + k /\ i <= m
    BY <1>1 DEF m
  <2> QED
    BY <2>1, <1>4, <1>5
<1> QED
  BY <1>3, <1>4, <1>5, <1>7, <1>8, <1>9 DEF Written

\* What a chunk brings.
LEMMA ArrivingBytes ==
    ASSUME NEW n \in Nat, NEW intact \in BOOLEAN, response.of \in 0..Len(Sizes), response.next \in Int
    PROVE  /\ Arriving(n, intact) \in Seq(Bytes)
           /\ Len(Arriving(n, intact)) = n
           /\ \A i \in 1..n : Arriving(n, intact)[i] = Byte(response.of, response.next + i - 1, intact)
<1>1. \A i \in 1..n : Byte(response.of, response.next + i - 1, intact) \in Bytes
  BY DEF Byte, Bytes
<1>2. Arriving(n, intact) \in [1..n -> Bytes]
  BY <1>1 DEF Arriving
<1>3. Arriving(n, intact) \in Seq(Bytes)
  BY <1>2, IsASeq
<1>4. Len(Arriving(n, intact)) = n
  BY <1>2, <1>3, LenProperties
<1> QED
  BY <1>3, <1>4 DEF Arriving

-----------------------------------------------------------------------------
(* The invariant: where a round is, what it has written, on the disk or    *)
(* not yet, and what a success has seen.                                   *)

Typed ==
    /\ range[1] \in Nat /\ range[2] \in Int
    /\ object \in 1..Len(Sizes)
    /\ file \in Seq(Bytes) /\ buffer \in Seq(Bytes) /\ seen \in Seq(Bytes)
    /\ offset \in Nat /\ position \in Nat
    /\ response \in [of : 0..Len(Sizes), next : Int, last : Int, hashed : BOOLEAN]
    /\ pc \in {"loop", "receive", "failed", "done"}
    /\ stream \in {"null", "good", "fail"}

\* A round begins where the file ends; one that has opened the file has written
\* to it.
Rounds ==
    /\ pc = "loop" =>
          /\ buffer = <<>>
          /\ IF stream = "null" THEN offset = 0 ELSE stream = "good" /\ offset = position
    /\ stream = "null" => buffer = <<>>
    /\ stream = "good" => position > 0 /\ position >= offset
    /\ pc = "receive" =>
          /\ stream # "fail"
          /\ response.of # 0
          /\ response.next = range[1] + Start
          /\ response.next <= response.last + (IF stream = "null" THEN 0 ELSE 1)

\* What is written follows on what earlier rounds have brought to the disk ...
Appended ==
    stream = "good" \/ (stream = "null" /\ offset > 0) =>
        Len(file) = Start - Len(buffer) /\ offset <= Len(file)

\* ... and is what has been downloaded, between two rounds and within one.
Placed(i) == Written[i].of # 0 /\ Written[i].at = range[1] + i - 1

InOrder ==
    stream = "good" \/ (stream = "null" /\ offset > 0) => \A i \in 1..Start : Placed(i)

\* In the first round the observer sees what is written.
Observed ==
    offset = 0 => /\ stream = "good" => Written = seen
                  /\ stream = "null" => seen = <<>>

Succeeded ==
    outcome = "ok" =>
        /\ pc = "done" /\ stream = "good"
        /\ response.last = range[1] + position - 1
        /\ Checked => seen = WholeVersion

Inv == Typed /\ Rounds /\ Appended /\ InOrder /\ Observed /\ Succeeded

LEMMA InvInit == Init => Inv
<1> SUFFICES ASSUME Init PROVE Inv
  OBVIOUS
<1>1. /\ range[1] \in Nat /\ range[2] \in Int /\ object \in 1..Len(Sizes)
      /\ offset = 0 /\ position = 0 /\ pc = "loop" /\ stream = "null" /\ seen = <<>>
      /\ outcome = "none" /\ buffer = <<>>
      /\ response \in [of : 0..Len(Sizes), next : Int, last : Int, hashed : BOOLEAN]
  BY FileDownloadAssumption, LenProperties, EmptySeq DEF Init, NoResponse
<1>2. file \in Seq(Bytes)
  <2>1. PICK n \in OldLengths : file = [i \in 1..n |-> Byte(0, i - 1, TRUE)]
    BY DEF Init
  <2>2. n \in Nat
    BY FileDownloadAssumption
  <2>3. \A i \in 1..n : Byte(0, i - 1, TRUE) \in Bytes
    BY <2>2, FileDownloadAssumption, LenProperties DEF Byte, Bytes
  <2>4. file \in [1..n -> Bytes]
    BY <2>1, <2>3
  <2> QED
    BY <2>2, <2>4, IsASeq
<1>3. seen \in Seq(Bytes) /\ buffer \in Seq(Bytes)
  BY <1>1, EmptySeq
<1> QED
  BY <1>1, <1>2, <1>3 DEF Inv, Typed, Rounds, Appended, InOrder, Observed, Succeeded

\* A chunk goes to the end of what has been written.
LEMMA ReceiveAppends ==
    ASSUME Inv, NEW n \in Int, n >= 1, NEW intact \in BOOLEAN, Receive(n, intact)
    PROVE  /\ n \in Nat
           /\ file' \in Seq(Bytes) /\ buffer' \in Seq(Bytes)
           /\ Len(file') = Start' - Len(buffer') /\ offset <= Len(file')
           /\ Opened \o buffer \in Seq(Bytes) /\ Len(Opened \o buffer) = Start
           /\ \A i \in 1..Start : (Opened \o buffer)[i] = Written[i] /\ Placed(i)
           /\ Written' = (Opened \o buffer) \o Arriving(n, intact)
<1> DEFINE arriving == Arriving(n, intact)
<1>1. /\ pc = "receive" /\ n \in Nat
      /\ file' = Opened /\ buffer' = buffer \o arriving
      /\ Start' = Start + n /\ offset' = offset
  BY DEF Receive, Start
<1>2. \/ stream = "good" /\ Opened = file
      \/ stream = "null" /\ offset > 0 /\ Opened = file /\ buffer = <<>>
      \/ stream = "null" /\ offset = 0 /\ Opened = <<>> /\ buffer = <<>> /\ Start = 0
  BY <1>1 DEF Inv, Typed, Rounds, Opened, Start
<1>3. /\ Opened \in Seq(Bytes) /\ buffer \in Seq(Bytes) /\ Start \in Nat /\ offset \in Nat
      /\ Len(Opened) \in Nat /\ Len(buffer) \in Nat
  BY <1>2, EmptySeq, LenProperties DEF Inv, Typed, Start
<1>4. Len(Opened) = Start - Len(buffer) /\ offset <= Len(Opened)
  BY <1>2, EmptySeq DEF Inv, Appended
<1>5. arriving \in Seq(Bytes) /\ Len(arriving) = n
  BY <1>1, ArrivingBytes DEF Inv, Typed
<1> HIDE DEF arriving
<1>6. /\ Opened \o buffer \in Seq(Bytes) /\ Len(Opened \o buffer) = Len(Opened) + Len(buffer)
      /\ buffer \o arriving \in Seq(Bytes) /\ Len(buffer \o arriving) = Len(buffer) + n
  BY ONLY <1>3, <1>5, ConcatProperties
<1>7. Len(Opened \o buffer) = Start
  BY ONLY <1>3, <1>4, <1>6
<1>8. Len(file') = Start' - Len(buffer')
  <2>1. Len(Opened) = (Start + n) - (Len(buffer) + n)
    BY ONLY <1>1, <1>3, <1>4
  <2> QED
    BY ONLY <1>1, <1>6, <2>1
<1>9. \A i \in 1..Start : (Opened \o buffer)[i] = Written[i] /\ Placed(i)
  <2>1. CASE Start = 0
    BY <2>1
  <2>2. CASE Opened = file /\ (stream = "good" \/ (stream = "null" /\ offset > 0))
    BY <2>2 DEF Inv, InOrder, Written
  <2> QED
    BY <1>2, <2>1, <2>2
<1>10. Written' = (Opened \o buffer) \o arriving
  BY <1>1, <1>3, <1>5, ConcatAssociative DEF Written
<1>11. /\ file' \in Seq(Bytes) /\ buffer' \in Seq(Bytes)
       /\ offset <= Len(file')
  BY <1>1, <1>3, <1>4, <1>6
<1> QED
  BY <1>1, <1>6, <1>7, <1>8, <1>9, <1>10, <1>11 DEF arriving

LEMMA ReceiveStep ==
    ASSUME Inv, NEW n \in Int, n >= 1, NEW intact \in BOOLEAN, Receive(n, intact)
    PROVE  Inv'
<1> DEFINE arriving == Arriving(n, intact)
<1>1. /\ pc = "receive"
      /\ n <= response.last - response.next + 1
      /\ stream' = "good"
      /\ position' = Start + n
      /\ seen' = seen \o arriving
      /\ response' = [response EXCEPT !.next = @ + n]
      /\ UNCHANGED <<range, verifies, object, canceled, pc, offset, outcome>>
  BY DEF Receive, requestVars
<1> DEFINE before == Opened \o buffer
<1>2. /\ n \in Nat
      /\ before \in Seq(Bytes) /\ Len(before) = Start
      /\ \A i \in 1..Start : before[i] = Written[i] /\ Placed(i)
      /\ Written' = before \o arriving
  BY ReceiveAppends
<1> HIDE DEF before
<1>3. /\ arriving \in Seq(Bytes) /\ Len(arriving) = n
      /\ \A i \in 1..n : arriving[i] = Byte(response.of, response.next + i - 1, intact)
  BY <1>2, ArrivingBytes DEF Inv, Typed
<1>4. /\ seen' \in Seq(Bytes)
      /\ \A i \in 1..Start + n : Written'[i] = IF i <= Start THEN before[i] ELSE arriving[i - Start]
  <2> HIDE DEF arriving
  <2>1. seen \in Seq(Bytes)
    BY DEF Inv, Typed
  <2>2. \A i \in 1..Len(before) + Len(arriving) :
            (before \o arriving)[i] = IF i <= Len(before) THEN before[i] ELSE arriving[i - Len(before)]
    BY ONLY <1>2, <1>3, ConcatProperties
  <2>3. seen \o arriving \in Seq(Bytes)
    BY ONLY <1>3, <2>1, ConcatProperties
  <2> QED
    BY ONLY <1>1, <1>2, <1>3, <2>2, <2>3
<1>5. /\ Start \in Nat /\ response.next = range[1] + Start /\ response.of # 0
      /\ range[1] \in Nat /\ response.of \in 0..Len(Sizes) /\ response.next \in Int /\ response.last \in Int
  BY <1>1 DEF Inv, Typed, Rounds, Start
<1>6. Start' = Start + n
  BY <1>1 DEF Start
<1>7. Typed'
  <2>1. response' \in [of : 0..Len(Sizes), next : Int, last : Int, hashed : BOOLEAN]
    <3>1. response \in [of : 0..Len(Sizes), next : Int, last : Int, hashed : BOOLEAN]
      BY DEF Inv, Typed
    <3>2. response.next + n \in Int
      BY <1>5
    <3> QED
      BY ONLY <1>1, <3>1, <3>2
  <2>2. position' \in Nat
    BY ONLY <1>1, <1>2, <1>5
  <2>3. Typed /\ UNCHANGED <<range, object, offset, pc>> /\ stream' = "good"
    BY ONLY Inv, <1>1 DEF Inv
  <2>4. file' \in Seq(Bytes) /\ buffer' \in Seq(Bytes) /\ seen' \in Seq(Bytes)
    BY <1>4, ReceiveAppends
  <2> QED
    BY ONLY <2>1, <2>2, <2>3, <2>4 DEF Typed
<1>8. Rounds'
  <2>1. response'.next = response.next + n /\ response'.of = response.of /\ response'.last = response.last
    BY <1>1 DEF Inv, Typed
  <2>2. Start >= offset /\ offset \in Nat
    BY <1>1, <1>5 DEF Inv, Typed, Rounds, Start
  <2>3. /\ n \in Nat /\ n >= 1 /\ n <= response.last - response.next + 1
        /\ range' = range /\ position' = Start + n /\ offset' = offset
        /\ pc' = "receive" /\ stream' = "good"
    BY ONLY <1>1, <1>2, n >= 1
  <2>4. position' > 0 /\ position' >= offset'
    BY ONLY <1>5, <2>2, <2>3
  <2>5. response'.next = range'[1] + Start'
    BY ONLY <1>5, <1>6, <2>1, <2>3
  <2>6. response'.next <= response'.last + 1
    <3>1. response.next \in Int /\ response.last \in Int /\ n \in Nat /\ n <= response.last - response.next + 1
      BY ONLY <1>5, <2>3
    <3>2. response.next + n <= response.last + 1
      BY ONLY <3>1
    <3> QED
      BY ONLY <2>1, <3>2
  <2>7. response'.of # 0
    BY ONLY <1>5, <2>1
  <2> QED
    BY ONLY <2>3, <2>4, <2>5, <2>6, <2>7 DEF Rounds
<1>9. Appended' /\ InOrder'
  <2>1. Appended'
    BY <1>1, ReceiveAppends DEF Appended
  <2>2. ASSUME NEW i \in 1..Start' PROVE Placed(i)'
    <3> SUFFICES Written'[i].of # 0 /\ Written'[i].at = range[1] + i - 1
      BY <1>1 DEF Placed
    <3>0. i \in 1..Start + n
      BY ONLY <1>6, i \in 1..Start'
    <3>1. CASE i <= Start
      <4>1. i \in 1..Start /\ Written'[i] = before[i]
        BY ONLY <3>0, <3>1, <1>2, <1>4, <1>5
      <4> QED
        BY <4>1, <1>2 DEF Placed
    <3>2. CASE ~ (i <= Start)
      <4>1. i - Start \in 1..n
        BY ONLY <3>0, <3>2, <1>2, <1>5
      <4>2. Written'[i] = arriving[i - Start]
        BY ONLY <3>0, <3>2, <1>4
      <4>3. Written'[i] = Byte(response.of, response.next + (i - Start) - 1, intact)
        BY ONLY <4>1, <4>2, <1>3
      <4>4. response.next + (i - Start) - 1 = range[1] + i - 1
        BY ONLY <4>1, <1>5, <3>0
      <4> QED
        BY ONLY <4>3, <4>4, <1>5 DEF Byte
    <3> QED
      BY <3>1, <3>2
  <2> QED
    BY <2>1, <2>2 DEF InOrder
<1>10. Observed'
  <2> SUFFICES ASSUME offset = 0 PROVE Written' = seen'
    BY <1>1 DEF Observed
  <2>1. before = seen
    <3>1. CASE stream = "good"
      BY <1>1, <3>1 DEF Inv, Observed, Opened, Written, before
    <3>2. CASE stream = "null"
      <4>1. Opened = <<>> /\ buffer = <<>> /\ seen = <<>>
        BY <3>2 DEF Inv, Rounds, Observed, Opened
      <4> QED
        BY <4>1 DEF before
    <3> QED
      BY <1>1, <3>1, <3>2 DEF Inv, Typed, Rounds
  <2> QED
    BY <2>1, <1>1, <1>2
<1>11. Succeeded'
  BY <1>1 DEF Inv, Succeeded
<1> QED
  BY <1>7, <1>8, <1>9, <1>10, <1>11 DEF Inv

-----------------------------------------------------------------------------
(* The other steps.                                                        *)

\* A round begins where the last one has ended.
LEMMA BetweenRounds ==
    ASSUME Inv, pc = "loop", stream' = "null", UNCHANGED <<range, file, buffer, offset>>
    PROVE  Appended' /\ InOrder'
<1>1. Written' = Written /\ Start' = offset /\ offset \in Nat
  BY DEF Written, Start, Inv, Typed
<1>2. offset > 0 => stream = "good" /\ Start = offset
  BY DEF Inv, Rounds, Start
<1> QED
  BY <1>1, <1>2 DEF Inv, Appended, InOrder, Placed

\* A round that cannot begin leaves the file alone, and is the last one.
LEMMA CallFailsStep ==
    ASSUME Inv, NEW error, error # "ok", CallFails(error)
    PROVE  Inv'
<1>1. /\ pc = "loop" /\ pc' = "failed" /\ stream' = "null" /\ outcome' = error
      /\ UNCHANGED <<range, verifies, object, buffer, position, file, seen, offset, response>>
  BY DEF CallFails, Goto, requestVars, worldVars
<1>2. Typed' /\ Rounds' /\ Succeeded'
  BY <1>1 DEF Inv, Typed, Rounds, Succeeded
<1>3. Appended' /\ InOrder'
  BY <1>1, BetweenRounds
<1>4. Observed'
  BY <1>1 DEF Inv, Typed, Rounds, Observed
<1> QED
  BY <1>2, <1>3, <1>4 DEF Inv

LEMMA RespondStep == ASSUME Inv, Respond PROVE Inv'
<1>1. /\ pc = "loop" /\ pc' = "receive" /\ stream' = "null"
      /\ \E hashed \in BOOLEAN :
            response' = [of |-> object, next |-> FirstByte, last |-> LastByte, hashed |-> hashed]
      /\ UNCHANGED <<range, verifies, object, buffer, position, file, seen, offset, outcome>>
  BY DEF Respond, Goto, requestVars, worldVars
<1>2. object \in 1..Len(Sizes) /\ Sizes[object] \in Nat \ {0} /\ range[1] \in Nat /\ range[2] \in Int /\ offset \in Nat
  BY FileDownloadAssumption DEF Inv, Typed
<1>3. FirstByte \in Int /\ LastByte \in Int /\ FirstByte <= LastByte
  BY <1>2 DEF Respond, Satisfiable, FirstByte, LastByte
<1>4. Typed'
  BY <1>1, <1>2, <1>3 DEF Inv, Typed
<1>5. Rounds'
  BY <1>1, <1>2, <1>3 DEF Inv, Rounds, Start, FirstByte
<1>6. Appended' /\ InOrder'
  BY <1>1, BetweenRounds
<1>7. Observed'
  BY <1>1 DEF Inv, Typed, Rounds, Observed
<1>8. Succeeded'
  BY <1>1 DEF Inv, Succeeded
<1> QED
  BY <1>4, <1>5, <1>6, <1>7, <1>8 DEF Inv

\* A step that leaves the bytes where they are.
LEMMA BytesStay ==
    ASSUME Inv, UNCHANGED <<range, file, buffer, stream, position, seen, offset>>
    PROVE  Appended' /\ InOrder' /\ Observed'
<1>1. Written' = Written /\ Start' = Start
  BY DEF Written, Start
<1> QED
  BY <1>1 DEF Inv, Appended, InOrder, Placed, Observed

\* A flush, of a stream that has been written to, by whichever step.
LEMMA FlushStep ==
    ASSUME Inv, stream = "good", NEW k \in 0..Len(buffer), Flush(k),
           UNCHANGED <<range, position, seen>>, stream' \in {"good", "fail"},
           offset' \in {offset, position}, Len(file') >= offset'
    PROVE  /\ file' \in Seq(Bytes) /\ buffer' \in Seq(Bytes)
           /\ Appended' /\ InOrder'
           /\ offset' = offset => Observed'
<1>1. /\ file \in Seq(Bytes) /\ buffer \in Seq(Bytes) /\ position \in Nat
      /\ Len(file) = position - Len(buffer)
  BY DEF Inv, Typed, Appended, Start
<1>2. /\ file' \in Seq(Bytes) /\ buffer' \in Seq(Bytes)
      /\ Written' = Written
      /\ Len(file') = position - Len(buffer')
  BY ONLY <1>1, FlushMovesBytes, k \in 0..Len(buffer), Flush(k)
<1>3. Start = position /\ (stream' = "good" => Start' = position)
  BY DEF Start
<1>4. Appended'
  BY <1>2, <1>3 DEF Appended
<1>5. InOrder'
  BY <1>2, <1>3 DEF Inv, InOrder, Placed
<1>6. offset' = offset => Observed'
  BY <1>2 DEF Inv, Observed
<1> QED
  BY <1>2, <1>4, <1>5, <1>6

\* What a flush leaves in the file is never less than what it found.
LEMMA FlushGrows ==
    ASSUME Inv, stream = "good", NEW k \in 0..Len(buffer), Flush(k)
    PROVE  /\ Len(file') >= offset
           /\ \A i \in 1..offset : i \in DOMAIN file' /\ file'[i] = file[i]
           /\ k = Len(buffer) => Len(file') = position /\ buffer' = <<>>
<1>1. /\ file \in Seq(Bytes) /\ buffer \in Seq(Bytes) /\ position \in Nat
      /\ Len(file) = position - Len(buffer) /\ offset <= Len(file)
      /\ offset \in Nat /\ Len(file) \in Nat /\ Len(buffer) \in Nat
  BY LenProperties DEF Inv, Typed, Appended, Start
<1>2. /\ buffer' \in Seq(Bytes)
      /\ Len(file') = position - Len(buffer') /\ Len(file') = Len(file) + k
      /\ \A i \in 1..Len(file) : file'[i] = file[i]
  BY ONLY <1>1, FlushMovesBytes, k \in 0..Len(buffer), Flush(k)
<1>3. Len(file') >= offset /\ \A i \in 1..offset : i \in 1..Len(file)
  BY ONLY <1>1, <1>2, k \in 0..Len(buffer)
<1>4. ASSUME k = Len(buffer) PROVE Len(file') = position /\ buffer' = <<>>
  <2>1. Len(buffer') \in Nat
    BY ONLY <1>2, LenProperties
  <2>2. Len(file') = position /\ Len(buffer') = 0
    <3>1. Len(file') = position - Len(buffer') /\ Len(file') = Len(file) + Len(buffer)
      BY ONLY <1>2, <1>4
    <3>2. Len(file) + Len(buffer) = position /\ position \in Nat
      BY ONLY <1>1
    <3>3. Len(file') = position
      BY ONLY <3>1, <3>2
    <3> QED
      BY ONLY <2>1, <3>1, <3>2, <3>3
  <2>3. buffer' = <<>>
    BY ONLY <1>2, <2>2, EmptySeq
  <2> QED
    BY ONLY <2>2, <2>3
<1> QED
  BY <1>2, <1>3, <1>4

\* The body comes to an end, or the disk does.
LEMMA BodyEnds == ASSUME Inv, DiskFails \/ Interrupted \/ Succeed PROVE Inv'
<1>1. CASE DiskFails
  <2>1. /\ pc = "receive" /\ pc' = "failed" /\ stream' = "fail" /\ outcome' = "disk"
        /\ file' \in Seq(Bytes)
        /\ UNCHANGED <<range, verifies, object, buffer, position, seen, offset, response>>
    BY <1>1, EmptySeq DEF DiskFails, Goto, requestVars, worldVars, Opened, Inv, Typed
  <2>2. Typed' /\ Rounds'
    BY <2>1 DEF Inv, Typed, Rounds
  <2>3. Appended' /\ InOrder' /\ Observed' /\ Succeeded'
    BY <2>1 DEF Appended, InOrder, Observed, Succeeded
  <2> QED
    BY <2>2, <2>3 DEF Inv
<1>2. CASE Interrupted
  <2>1. /\ pc = "receive" /\ pc' = "failed" /\ outcome' # "ok"
        /\ UNCHANGED <<range, verifies, object, stream, buffer, position, file, seen, offset, response>>
    BY <1>2 DEF Interrupted, Goto, requestVars, worldVars, streamVars
  <2>2. Typed' /\ Rounds' /\ Succeeded'
    BY <2>1 DEF Inv, Typed, Rounds, Succeeded
  <2>3. Appended' /\ InOrder' /\ Observed'
    BY <2>1, BytesStay
  <2> QED
    BY <2>2, <2>3 DEF Inv
<1>3. CASE Succeed
  <2>1. PICK k \in 0..Len(buffer) :
          /\ pc = "receive" /\ pc' = "done" /\ response.next > response.last
          /\ outcome' = IF Checked /\ seen # WholeVersion THEN "crcMismatch" ELSE "ok"
          /\ Flush(k)
          /\ UNCHANGED <<range, verifies, object, stream, position, seen, offset, response>>
    BY <1>3 DEF Succeed, Goto, requestVars, worldVars
  <2>2. stream = "good" /\ response.last = range[1] + position - 1
    <3>1. /\ response.next \in Int /\ response.last \in Int /\ range[1] \in Nat /\ position \in Nat
          /\ stream \in {"null", "good"}
      BY <2>1 DEF Inv, Typed, Rounds
    <3>2. /\ response.next = range[1] + Start
          /\ response.next <= response.last + (IF stream = "null" THEN 0 ELSE 1)
      BY <2>1 DEF Inv, Rounds
    <3>3. stream = "good"
      BY ONLY <2>1, <3>1, <3>2
    <3> QED
      BY <2>1, <3>1, <3>2, <3>3 DEF Start
  <2>3. /\ file' \in Seq(Bytes) /\ buffer' \in Seq(Bytes)
        /\ Appended' /\ InOrder' /\ Observed'
    <3>1. Len(file') >= offset
      BY ONLY Inv, <2>1, <2>2, FlushGrows
    <3> QED
      BY ONLY Inv, <2>1, <2>2, <3>1, FlushStep
  <2>4. Typed' /\ Rounds'
    BY <2>1, <2>2, <2>3 DEF Inv, Typed, Rounds
  <2>5. Succeeded'
    BY <2>1, <2>2 DEF Succeeded, Checked, IsFullDownload, WholeVersion
  <2> QED
    BY <2>3, <2>4, <2>5 DEF Inv
<1> QED
  BY <1>1, <1>2, <1>3

\* A write or a flush empties the buffer, or fails to; the loop ends or goes on.
LEMMA OverflowStep == ASSUME Inv, NEW k \in 1..Len(buffer), Overflow(k) PROVE Inv'
<1>1. /\ pc = "receive" /\ Flush(k)
      /\ UNCHANGED <<range, verifies, object, stream, position, seen, pc, offset, response, outcome>>
  BY DEF Overflow, requestVars, worldVars
<1>2. k \in 0..Len(buffer) /\ buffer # <<>>
  BY EmptySeq, LenProperties DEF Inv, Typed
<1>3. stream = "good"
  BY <1>1, <1>2 DEF Inv, Typed, Rounds
<1>4. Len(file') >= offset
  BY ONLY Inv, <1>1, <1>2, <1>3, FlushGrows
<1>5. /\ file' \in Seq(Bytes) /\ buffer' \in Seq(Bytes)
      /\ Appended' /\ InOrder' /\ Observed'
  BY ONLY Inv, <1>1, <1>2, <1>3, <1>4, FlushStep
<1>6. Typed' /\ Rounds' /\ Succeeded'
  BY <1>1, <1>3, <1>5 DEF Inv, Typed, Rounds, Start, Succeeded
<1> QED
  BY <1>5, <1>6 DEF Inv

LEMMA LoopStep == ASSUME Inv, EndLoop \/ FlushFails \/ Resume PROVE Inv'
<1>1. CASE EndLoop
  <2>1. /\ pc = "failed" /\ pc' = "done"
        /\ UNCHANGED <<range, verifies, object, stream, buffer, position, file, seen, offset, response,
                       outcome>>
    BY <1>1 DEF EndLoop, Goto, requestVars, worldVars, streamVars
  <2>2. Typed' /\ Rounds' /\ Succeeded'
    BY <2>1 DEF Inv, Typed, Rounds, Succeeded
  <2>3. Appended' /\ InOrder' /\ Observed'
    BY <2>1, BytesStay
  <2> QED
    BY <2>2, <2>3 DEF Inv
<1>2. CASE FlushFails
  <2>1. PICK k \in 0..Len(buffer) - 1 :
          /\ pc = "failed" /\ pc' = "done" /\ stream = "good" /\ stream' = "fail" /\ Flush(k)
          /\ UNCHANGED <<range, verifies, object, position, seen, offset, response, outcome>>
    BY <1>2 DEF FlushFails, Goto, requestVars, worldVars
  <2>2. k \in 0..Len(buffer)
    BY LenProperties DEF Inv, Typed
  <2>3. Len(file') >= offset
    BY ONLY Inv, <2>1, <2>2, FlushGrows
  <2>4. /\ file' \in Seq(Bytes) /\ buffer' \in Seq(Bytes)
        /\ Appended' /\ InOrder' /\ Observed'
    BY ONLY Inv, <2>1, <2>2, <2>3, FlushStep
  <2>5. Typed' /\ Rounds' /\ Succeeded'
    BY <2>1, <2>4 DEF Inv, Typed, Rounds, Succeeded
  <2> QED
    BY <2>4, <2>5 DEF Inv
<1>3. CASE Resume
  <2>1. /\ pc = "failed" /\ pc' = "loop" /\ stream = "good" /\ offset' = position
        /\ Flush(Len(buffer))
        /\ UNCHANGED <<range, verifies, object, stream, position, seen, response, outcome>>
    BY <1>3 DEF Resume, Goto, requestVars, worldVars
  <2>2. Len(buffer) \in 0..Len(buffer) /\ position \in Nat /\ position > 0
    BY <2>1, LenProperties DEF Inv, Typed, Rounds
  <2>3. Len(file') = position /\ buffer' = <<>>
    BY ONLY Inv, <2>1, <2>2, FlushGrows
  <2>4. Len(file') >= offset'
    BY ONLY <2>1, <2>2, <2>3
  <2>5. /\ file' \in Seq(Bytes) /\ buffer' \in Seq(Bytes)
        /\ Appended' /\ InOrder'
    BY ONLY Inv, <2>1, <2>2, <2>4, FlushStep
  <2>6. Typed' /\ Rounds' /\ Observed' /\ Succeeded'
    BY <2>1, <2>2, <2>3, <2>5 DEF Inv, Typed, Rounds, Observed, Succeeded
  <2> QED
    BY <2>5, <2>6 DEF Inv
<1> QED
  BY <1>1, <1>2, <1>3

LEMMA InvStep == Inv /\ [Next]_vars => Inv'
<1> SUFFICES ASSUME Inv, [Next]_vars PROVE Inv'
  OBVIOUS
<1>1. CASE CallCanceled \/ Unreachable \/ Refused
  BY <1>1, CallFailsStep DEF CallCanceled, Unreachable, Refused
<1>2. CASE Respond
  BY <1>2, RespondStep
<1>3. CASE \E n \in 1..MaxSize, intact \in BOOLEAN : Receive(n, intact)
  BY <1>3, ReceiveStep
<1>4. CASE \E k \in 1..Len(buffer) : Overflow(k)
  BY <1>4, OverflowStep
<1>5. CASE DiskFails \/ Interrupted \/ Succeed
  BY <1>5, BodyEnds
<1>6. CASE EndLoop \/ FlushFails \/ Resume
  BY <1>6, LoopStep
<1>7. CASE Replace \/ Cancel \/ UNCHANGED vars
  <2>1. /\ UNCHANGED <<range, verifies, stream, buffer, position, file, seen, pc, offset, response,
                       outcome>>
        /\ object' \in 1..Len(Sizes)
    <3>1. object \in 1..Len(Sizes) /\ Len(Sizes) \in Nat
      BY FileDownloadAssumption, LenProperties DEF Inv, Typed
    <3>2. CASE Replace
      BY <3>1, <3>2 DEF Replace, requestVars, streamVars
    <3>3. CASE Cancel \/ UNCHANGED vars
      BY <3>1, <3>3 DEF Cancel, vars, requestVars, worldVars, streamVars
    <3> QED
      BY <1>7, <3>2, <3>3
  <2>2. Typed' /\ Rounds'
    BY <2>1 DEF Inv, Typed, Rounds, Start
  <2>3. Appended' /\ InOrder' /\ Observed'
    BY <2>1, BytesStay
  <2>4. Succeeded'
    BY <2>1 DEF Inv, Succeeded, Checked, IsFullDownload, WholeVersion
  <2> QED
    BY <2>2, <2>3, <2>4 DEF Inv
<1> QED
  BY <1>1, <1>2, <1>3, <1>4, <1>5, <1>6, <1>7 DEF Next, GetObjectToFile

LEMMA InvAlways == Spec => []Inv
BY InvInit, InvStep, PTL DEF Spec

-----------------------------------------------------------------------------
(* What follows.                                                           *)

\* Each byte written is where the caller expects it, after any number of
\* interruptions: no gap and none twice.
THEOREM BytesAreInPlace == Spec => []BytesInPlace
<1>1. Inv => BytesInPlace
  BY DEF Inv, InOrder, Start, Placed, BytesInPlace
<1> QED
  BY <1>1, InvAlways, PTL

\* The length of what has been written.
LEMMA WrittenLength ==
    ASSUME Inv, stream = "good"
    PROVE  Len(Written) = position /\ offset <= Len(file)
<1>1. /\ file \in Seq(Bytes) /\ buffer \in Seq(Bytes) /\ position \in Nat
      /\ Len(file) = position - Len(buffer) /\ offset <= Len(file)
      /\ Len(file) \in Nat /\ Len(buffer) \in Nat
  BY LenProperties DEF Inv, Typed, Appended, Start
<1>2. Len(file \o buffer) = Len(file) + Len(buffer)
  BY ONLY <1>1, ConcatProperties
<1>3. Len(file) + Len(buffer) = position
  BY ONLY <1>1
<1> QED
  BY ONLY <1>1, <1>2, <1>3 DEF Written

\* A success has written the whole of the range, as long as the version served
\* last, with nothing of what the file held before; the disk has refused
\* nothing that an earlier round had brought.
THEOREM SuccessIsWhole == Spec => []SuccessIsComplete
<1>1. ASSUME Inv, outcome = "ok"
      PROVE  /\ Len(Written) = response.last - range[1] + 1
             /\ \A i \in 1..Len(Written) : Written[i].of # 0
             /\ Len(file) >= offset
  <2>1. stream = "good" /\ response.last = range[1] + position - 1
    BY <1>1 DEF Inv, Succeeded
  <2>2. Len(Written) = position /\ offset <= Len(file)
    BY <1>1, <2>1, WrittenLength
  <2>3. \A i \in 1..position : Written[i].of # 0
    BY <1>1, <2>1 DEF Inv, InOrder, Start, Placed
  <2>4. range[1] \in Nat /\ position \in Nat /\ offset \in Nat /\ Len(file) \in Nat
    BY <1>1, LenProperties DEF Inv, Typed
  <2>5. position = response.last - range[1] + 1
    BY ONLY <2>1, <2>4
  <2>6. Len(file) >= offset
    BY ONLY <2>2, <2>4
  <2> QED
    BY ONLY <2>2, <2>3, <2>5, <2>6
<1>2. Inv => SuccessIsComplete
  BY <1>1 DEF SuccessIsComplete
<1> QED
  BY <1>2, InvAlways, PTL

\* A full download in one transfer, checked against a hash, has received and
\* written the version served, byte for byte.  What of it is in the file is
\* what the disk has accepted.
THEOREM VerifiedIsExact == Spec => []VerifiedSuccess
<1>1. Inv => VerifiedSuccess
  BY DEF Inv, Succeeded, Observed, Checked, VerifiedSuccess
<1> QED
  BY <1>1, InvAlways, PTL

\* No step of a resumed round touches a byte before the offset at which the
\* round began.
THEOREM ResumingKeeps == Spec => ResumeKeepsBytes
<1>1. Inv /\ [Next]_vars => [offset > 0 => \A i \in DOMAIN file : i <= offset =>
                                 i \in DOMAIN file' /\ file'[i] = file[i]]_vars
  <2> SUFFICES ASSUME Inv, [Next]_vars, offset > 0, NEW i \in DOMAIN file, i <= offset
               PROVE  i \in DOMAIN file' /\ file'[i] = file[i]
    OBVIOUS
  <2>1. CASE UNCHANGED file
    BY <2>1
  <2>2. CASE DiskFails
    BY <2>2 DEF DiskFails, Opened, Inv, Typed
  <2>3. CASE \E n \in 1..MaxSize, intact \in BOOLEAN : Receive(n, intact)
    BY <2>3 DEF Receive, Opened, Inv, Typed
  <2>4. ASSUME stream = "good", NEW k \in 0..Len(buffer), Flush(k)
        PROVE  i \in DOMAIN file' /\ file'[i] = file[i]
    <3>1. i \in 1..offset
      BY LenProperties DEF Inv, Typed
    <3> QED
      BY <2>4, <3>1, FlushGrows
  <2>5. CASE \E k \in 1..Len(buffer) : Overflow(k)
    <3>1. PICK k \in 1..Len(buffer) : Overflow(k)
      BY <2>5
    <3>2. k \in 0..Len(buffer) /\ buffer # <<>> /\ Flush(k) /\ pc = "receive"
      BY <3>1, EmptySeq, LenProperties DEF Overflow, Inv, Typed
    <3>3. stream = "good"
      BY <3>2 DEF Inv, Typed, Rounds
    <3> QED
      BY <3>2, <3>3, <2>4
  <2>6. CASE Succeed
    <3>1. (Succeed /\ stream = "null") => FALSE
      <4> SUFFICES ASSUME Succeed, stream = "null" PROVE FALSE
        OBVIOUS
      <4>1. /\ pc = "receive" /\ response.next > response.last
            /\ response.next \in Int /\ response.last \in Int
        BY DEF Succeed, Goto, Inv, Typed
      <4>2. response.next <= response.last + 0
        BY <4>1 DEF Inv, Rounds
      <4> QED
        BY ONLY <4>1, <4>2
    <3>2. stream = "good" /\ \E k \in 0..Len(buffer) : Flush(k)
      BY <2>6, <3>1 DEF Succeed, Goto, Inv, Typed, Rounds
    <3> QED
      BY <3>2, <2>4
  <2>7. CASE FlushFails \/ Resume
    <3>1. Len(buffer) \in Nat
      BY LenProperties DEF Inv, Typed
    <3>2. stream = "good" /\ \E k \in 0..Len(buffer) : Flush(k)
      BY <2>7, <3>1 DEF FlushFails, Resume
    <3> QED
      BY <3>2, <2>4
  <2> QED
    BY <2>1, <2>2, <2>3, <2>5, <2>6, <2>7
    DEF Next, GetObjectToFile, CallCanceled, Unreachable, Refused, CallFails, Respond, Interrupted,
        EndLoop, Replace, Cancel, vars, streamVars
<1> QED
  BY <1>1, InvAlways, PTL DEF Spec, ResumeKeepsBytes
-----------------------------------------------------------------------------
(* The largest version, and with it the bounds of TypeOK.                   *)

\* Induction over the natural numbers, for a property that is a set.
LEMMA NatSetInduction ==
    ASSUME NEW S, 0 \in S, \A n \in Nat : n \in S => n + 1 \in S
    PROVE  Nat \subseteq S
<1> DEFINE Less == OpToRel(<, Nat)
<1>1. IsWellFoundedOn(Less, Nat)
  BY NatLessThanWellFounded
<1>2. \A m, n \in Nat : m < n => <<m, n>> \in Less
  BY DEF OpToRel
<1> HIDE DEF Less
<1> SUFFICES ASSUME Nat \ S # {} PROVE FALSE
  OBVIOUS
<1>3. PICK n \in Nat \ S : \A m \in Nat \ S : ~ (<<m, n>> \in Less)
  BY <1>1, WFMin
<1>4. n # 0 /\ n - 1 \in Nat /\ n - 1 < n /\ (n - 1) + 1 = n
  BY <1>3
<1>5. n - 1 \in S
  BY <1>2, <1>3, <1>4
<1> QED
  BY <1>3, <1>4, <1>5

\* MaxSize is what it is called: some version has it and none has more.
LEMMA MaxSizeIsLargest ==
    MaxSize \in Nat /\ \A v \in DOMAIN Sizes : Sizes[v] <= MaxSize
<1> DEFINE N == Len(Sizes)
           Reached == {n \in Nat : \E w \in 1..N : \A v \in 1..N : v <= n + 1 => Sizes[v] <= Sizes[w]}
<1>1. N \in Nat \ {0} /\ DOMAIN Sizes = 1..N /\ \A v \in 1..N : Sizes[v] \in Nat
  BY FileDownloadAssumption, EmptySeq, LenProperties
<1> HIDE DEF N
<1>2. 0 \in Reached
  <2>1. 1 \in 1..N /\ \A v \in 1..N : v <= 0 + 1 => v = 1
    BY <1>1
  <2> QED
    BY <1>1, <2>1
<1>3. ASSUME NEW n \in Nat, n \in Reached
      PROVE  n + 1 \in Reached
  <2>1. PICK w \in 1..N : \A v \in 1..N : v <= n + 1 => Sizes[v] <= Sizes[w]
    BY <1>3
  <2>2. \A v \in 1..N : v <= (n + 1) + 1 => v <= n + 1 \/ v = n + 2
    BY <1>1
  <2>3. CASE n + 2 \in 1..N /\ Sizes[w] <= Sizes[n + 2]
    <3>1. \A v \in 1..N : v <= (n + 1) + 1 => Sizes[v] <= Sizes[n + 2]
      BY <1>1, <2>1, <2>2, <2>3
    <3> QED
      BY <2>3, <3>1
  <2>4. CASE ~ (n + 2 \in 1..N /\ Sizes[w] <= Sizes[n + 2])
    <3>1. \A v \in 1..N : v <= (n + 1) + 1 => Sizes[v] <= Sizes[w]
      BY <1>1, <2>1, <2>2, <2>4
    <3> QED
      BY <2>1, <3>1
  <2> QED
    BY <2>3, <2>4
<1>4. N - 1 \in Reached
  <2> HIDE DEF Reached
  <2>1. \A n \in Nat : n \in Reached => n + 1 \in Reached
    BY <1>3
  <2>2. Nat \subseteq Reached
    BY <1>2, <2>1, NatSetInduction
  <2> QED
    BY <1>1, <2>2
<1>5. \E n \in {Sizes[v] : v \in DOMAIN Sizes} : \A v \in DOMAIN Sizes : Sizes[v] <= n
  <2>1. PICK w \in 1..N : \A v \in 1..N : v <= (N - 1) + 1 => Sizes[v] <= Sizes[w]
    BY <1>4
  <2>2. \A v \in 1..N : v <= (N - 1) + 1
    BY <1>1
  <2>3. Sizes[w] \in {Sizes[v] : v \in DOMAIN Sizes}
    BY <1>1, <2>1
  <2>4. \A v \in DOMAIN Sizes : Sizes[v] <= Sizes[w]
    BY ONLY <1>1, <2>1, <2>2
  <2> QED
    BY ONLY <2>3, <2>4
<1>6. MaxSize \in {Sizes[v] : v \in DOMAIN Sizes} /\ \A v \in DOMAIN Sizes : Sizes[v] <= MaxSize
  BY <1>5 DEF MaxSize
<1> QED
  BY <1>1, <1>6

Responses == [of : 0..Len(Sizes), next : 0..MaxSize, last : -1..MaxSize-1, hashed : BOOLEAN]

\* A response stays within its version.
LEMMA RespondType == ASSUME Inv, Respond PROVE response' \in Responses
<1>1. object \in 1..Len(Sizes) /\ Sizes[object] \in Nat /\ Sizes[object] <= MaxSize /\ MaxSize \in Nat
  BY FileDownloadAssumption, LenProperties, MaxSizeIsLargest DEF Inv, Typed
<1>2. PICK hashed \in BOOLEAN :
         response' = [of |-> object, next |-> FirstByte, last |-> LastByte, hashed |-> hashed]
  BY DEF Respond
<1>3. range[1] \in Nat /\ range[2] \in Int /\ offset \in Nat
  BY DEF Inv, Typed
<1>4. FirstByte \in Nat /\ FirstByte < Sizes[object] /\ (range[2] = -1 \/ FirstByte <= range[2])
  BY <1>3 DEF Respond, Satisfiable, FirstByte
<1>5. FirstByte \in 0..MaxSize
  BY <1>1, <1>4
<1>6. LastByte \in -1..MaxSize-1
  BY <1>1, <1>3, <1>4 DEF LastByte
<1> QED
  BY <1>1, <1>2, <1>5, <1>6, FileDownloadAssumption, LenProperties DEF Responses

\* A chunk stays within the response.
LEMMA ReceiveType ==
    ASSUME Inv, response \in Responses,
           NEW n \in Int, n >= 1, NEW intact \in BOOLEAN, Receive(n, intact)
    PROVE  response' \in Responses /\ position' \in 0..MaxSize
<1>1. /\ pc = "receive" /\ n <= response.last - response.next + 1
      /\ position' = Start + n /\ response' = [response EXCEPT !.next = @ + n]
  BY DEF Receive
<1>2. /\ response.next \in 0..MaxSize /\ response.last \in -1..MaxSize-1 /\ MaxSize \in Nat
  BY MaxSizeIsLargest DEF Responses
<1>3. response.next + n \in 0..MaxSize
  BY ONLY <1>1, <1>2, n \in Int, n >= 1
<1>4. Start \in Nat /\ range[1] \in Nat /\ response.next = range[1] + Start
  BY <1>1 DEF Inv, Typed, Rounds, Start
<1>5. Start + n \in 0..MaxSize
  BY ONLY <1>2, <1>3, <1>4, n \in Int, n >= 1
<1> QED
  BY <1>1, <1>3, <1>5 DEF Responses

LEMMA TypeStep == ASSUME Inv, TypeOK, Inv', [Next]_vars PROVE TypeOK'
<1> DEFINE Outcomes == {"none", "ok", "crcMismatch", "canceled", "network", "refused", "disk"}
<1>1. /\ file' \in Seq(Bytes) /\ buffer' \in Seq(Bytes) /\ seen' \in Seq(Bytes)
      /\ object' \in DOMAIN Sizes
      /\ pc' \in {"loop", "receive", "failed", "done"}
      /\ stream' \in {"null", "good", "fail"}
  BY FileDownloadAssumption, LenProperties DEF Inv, Typed
<1>2. range' \in Ranges /\ verifies' \in BOOLEAN
  BY DEF TypeOK, Next, GetObjectToFile, CallCanceled, Unreachable, Refused, CallFails, Respond,
         Receive, Overflow, DiskFails, Interrupted, Succeed, EndLoop, FlushFails, Resume, Replace,
         Cancel, vars, requestVars
<1>3. canceled' \in BOOLEAN
  BY DEF TypeOK, Next, GetObjectToFile, CallCanceled, Unreachable, Refused, CallFails, Respond,
         Receive, Overflow, DiskFails, Interrupted, Succeed, EndLoop, FlushFails, Resume, Replace,
         Cancel, vars, worldVars
<1>4. outcome' \in Outcomes
  BY DEF TypeOK, Next, GetObjectToFile, CallCanceled, Unreachable, Refused, CallFails, Respond,
         Receive, Overflow, DiskFails, Interrupted, Succeed, EndLoop, FlushFails, Resume, Replace,
         Cancel, vars
<1>5. /\ garbled' \in 0..MaxGarbled /\ offset' \in 0..MaxSize
      /\ response' \in Responses /\ position' \in 0..MaxSize
  <2>1. /\ garbled \in 0..MaxGarbled /\ MaxGarbled \in Nat /\ offset \in 0..MaxSize
        /\ response \in Responses /\ position \in 0..MaxSize
    BY FileDownloadAssumption DEF TypeOK, Responses
  <2>2. ASSUME NEW n \in 1..MaxSize, NEW intact \in BOOLEAN, Receive(n, intact)
        PROVE  <1>5!:
    <3>1. response' \in Responses /\ position' \in 0..MaxSize
      BY <2>1, <2>2, MaxSizeIsLargest, ReceiveType
    <3> QED
      BY <2>1, <2>2, <3>1 DEF Receive
  <2>3. CASE Respond
    BY <2>1, <2>3, RespondType DEF Respond, worldVars
  <2>4. CASE Resume
    BY <2>1, <2>4 DEF Resume, worldVars
  <2>5. CASE UNCHANGED <<garbled, offset, response, position>>
    BY <2>1, <2>5
  <2> QED
    BY <2>2, <2>3, <2>4, <2>5
    DEF Next, GetObjectToFile, CallCanceled, Unreachable, Refused, CallFails, Overflow, DiskFails,
        Interrupted, Succeed, EndLoop, FlushFails, Replace, Cancel, vars, worldVars, streamVars
<1> QED
  BY <1>1, <1>2, <1>3, <1>4, <1>5 DEF TypeOK, Responses

\* No offset, position or response leaves the object, whatever the versions,
\* the ranges and the interruptions.
THEOREM TypesHold == Spec => []TypeOK
<1>1. Init => TypeOK
  <2> SUFFICES ASSUME Init PROVE TypeOK
    OBVIOUS
  <2>1. Typed
    BY InvInit DEF Inv
  <2>2. NoResponse \in [of : 0..Len(Sizes), next : 0..MaxSize, last : -1..MaxSize-1, hashed : BOOLEAN]
    BY MaxSizeIsLargest, FileDownloadAssumption, LenProperties DEF NoResponse
  <2>3. /\ range \in Ranges /\ verifies \in BOOLEAN /\ canceled = FALSE /\ garbled = 0
        /\ offset = 0 /\ position = 0 /\ outcome = "none" /\ response = NoResponse
    BY DEF Init
  <2>4. garbled \in 0..MaxGarbled /\ offset \in 0..MaxSize /\ position \in 0..MaxSize
    BY <2>3, MaxSizeIsLargest, FileDownloadAssumption
  <2>5. object \in DOMAIN Sizes
    BY <2>1, FileDownloadAssumption, LenProperties DEF Typed
  <2> QED
    BY <2>1, <2>2, <2>3, <2>4, <2>5 DEF Typed, TypeOK
<1> QED
  BY <1>1, InvAlways, InvStep, TypeStep, PTL DEF Spec
=============================================================================
