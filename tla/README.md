# A TLA+ model of the Alibaba Cloud OSS C++ SDK v2

This directory models the core of the SDK: what happens to one operation between
the call of a client and its outcome, the threads, queues and pools it passes
through, and the bytes it carries both ways. Every definition is translated from the
source; `PROJECT.json` maps it to the lines it stands for. Paths below are
relative to the repository (`sdk/src/...`, `sdk/include/alibabacloud/oss2/...`).

## 1. The system

An application calls one of ~60 operations on `OSSClient` (synchronous) or
`OSSAsyncClient`. The operation turns its request model into an
`OperationInput`, hands it to the client's engine, and turns the
`OperationOutput` or `OperationError` back into a result model.

| Component | State | Operations | Interacts with |
|---|---|---|---|
| Synchronous engine `internal/sync/ClientImpl` | `DisableState` (flag, mutex, condition variable), `clockOffset` | `Execute`, `Presign`, `disableRequest`, `enableRequest` | runs the middleware stack on the caller's thread |
| Middleware `internal/sync/*` | per call: `ExecuteContext`, the loop of the retryer | `Retryer` - `Signer` - `ResponseChecker` - `Transport` | credentials provider, signer, transport, token |
| Asynchronous engine `internal/async/AsyncClientImpl` | `clockOffset`, the scheduler, the stack; per call: `AsyncExecuteState` | `ExecuteAsync`, `onOperationFinished` | caller's thread, I/O thread of the transport, scheduler's thread |
| Errors `error/*` | none | five categories compared with five conditions | retryer, callers |
| Retryer `retry/*` | none | `isErrorRetryable`, `calcDelayTime` | both engines |
| Cancellation `utils/Cancellation.*` | deadline, mutex, condition variable | `cancel`, `cancelAfter`, `waitFor`, `isCanceled` | application, back-off, transports |
| curl easy transport `transport/curl/CurlHttpClient` | the pool | `send`, body and progress callbacks | pool, token, disable flag |
| curl multi transport `transport/curl/CurlMultiTransport` | `stopped_`, queue, transfers in flight, I/O thread | `sendAsync`, `ioLoop`, destructor | pool, asynchronous engine |
| Handle pool `transport/curl/CurlContainer.h` | free handles, `poolSize_` | `Acquire`, `Release`, destructor | both curl transports |
| Scheduled executor `utils/DefaultScheduledExecutor` | priority queue, `stop`, one thread | `schedule`, destructor | asynchronous engine |
| Thread executors `utils/DefaultExecutor`, `utils/PooledThreadExecutor` | threads, task queue, `stopped_` | `execute`, destructor | application, `executeTask` |
| Streams and observers `io/*`, `internal/ByteStreamUtils` | position, checksum, progress | `spanSource`, `write`, `reset` | transports, operations |
| Download to a file `client/*/…Extension.cpp` | file, offset, checksum | `getObjectToFile` and its resume loop | synchronous engine, streams |
| Select decoder `internal/SelectFrameDecoder` | buffer, header, payload and tail counters | `onWrite` | `selectObject`, transports |
| Encryption client `crypto/*` | cipher, part context | `putObject`, `getObject`, `uploadPart` | synchronous client, ciphers |
| WinHTTP transports `transport/winhttp/*` | request contexts, count in flight | `send`, `sendAsync`, status callback, destructor | Windows only |
| Listing `Paginator.h` | the request of the next page, `first_`, `done_` | `hasNext`, `nextPage` | synchronous client |
| Signers, transform, models, agentic clients, utilities | none | pure conversions | the engines |

Behaviours that are hard:

* **Interleaving.** The engines share a disable flag and a clock offset with
  no lock; asynchronous operations change threads up to four times per attempt.
* **Retries and cancellation.** A token can be canceled, its source destroyed,
  or the client disabled at any point of an attempt or of a back-off; which of
  them is noticed depends on where the operation is and on its delay.
* **Stale state.** Contexts, responses, streams, observers and sinks survive from
  one attempt to the next.
* **Shutdown.** The transports, the pool, the executors and the asynchronous
  engine each stop threads that others still feed, and the last reference to them may
  be dropped on one of these threads.
* **Boundaries.** Chunks, frames, cipher blocks, parts and ranges are cut
  independently of one another.
* **Limits.** The handle pool at its maximum, an attempt count of zero, a
  failing `curl_easy_init`.

What makes each component correct is listed with its module in section 3;
what can go wrong, line by line, is the list `hazards` of `PROJECT.json`.

## 2. Modules

| Module | Role |
|---|---|
| `ErrorModel` | the error codes, as pairs of category and code, and the conditions they satisfy |
| `Operation` | abstract specification: what any client promises of an operation |
| `HttpExchange` | abstract specification: what the engine relies on in an asynchronous transport |
| `Executor` | abstract specification: what an executor promises of a task |
| `Pipeline` | the decisions both engines take: what the checkers find, whether to retry, what a server may answer |
| `SyncClient` | the synchronous engine, with its application and its clock |
| `AsyncClient` | the asynchronous engine, with its caller, I/O and scheduler threads, and its destruction |
| `CurlContainer` | the pool of easy handles |
| `CurlMultiTransport` | `sendAsync`, the I/O thread and the destructor, over the pool |
| `WinHttpAsyncClient` | the asynchronous WinHTTP client: contexts driven by completions, and the destructor |
| `WinHttpClient` | the synchronous WinHTTP `send`, its waits and its polls |
| `ScheduledExecutor` | the scheduled executor |
| `ThreadExecutors` | the default and the pooled executor, and who drops the last reference to them |
| `AesCtr` | the counter mode of the encryption client and the offsets into it |
| `TransferLimits` | the object and the limits that uploads and downloads share |
| `ByteSinks` | the sinks of a response body |
| `SelectFrameDecoder` | the writer that decodes the frames of `selectObject` |
| `Upload` | a body over the attempts of `putObject` and `uploadPart` |
| `Download` | a response body over the attempts of `getObject` and `selectObject` |
| `Transfer` | the round trip: an object uploaded, then downloaded |
| `FileDownload` | the resuming loop of `getObjectToFile`, its file and its checksum |
| `MC…` | the instances TLC checks |
| `…Proofs` | the theorems about the module of that name: `SyncClientProofs`, `AsyncClientProofs`, `CurlMultiTransportProofs`, `WinHttpAsyncClientProofs`, `ScheduledExecutorProofs`, `ThreadExecutorsProofs`, `FileDownloadProofs`, `TransferProofs` |

How they compose. `SyncClient` and `AsyncClient` extend `Pipeline`, which
extends `ErrorModel`, and both implement `Operation`. `CurlMultiTransport`
extends `CurlContainer`. `Transfer` extends `Upload` and `Download`: these stand
on `TransferLimits` and with it on `AesCtr`, and `Download` on
`SelectFrameDecoder` and `ByteSinks` besides. `WinHttpAsyncClient` implements
`HttpExchange`, `ThreadExecutors` implements `Executor`; the refinement mapping
stands at the end of each implementing module. Definitions labelled *Mutant of X*
are plausible mistakes in `X`, kept to show that a property notices them; no
specification uses them.

## 3. How the modules correspond to the code

### Pipeline

`CheckedError` is the chain `onPreServiceError`, `onClockSkewError`,
`onPostServiceError`, checksum of `ClientImplBase.cpp`; `MayRetry` the retryer's
test; `AttemptBound` what the loop makes of `retryMaxAttempts`, which an
operation may set to zero or less. A reply is a status and a fault. A rejection
for the signing time always carries a date, which is the server's clock: the
case without one, where the code corrects nothing and reports a 403, is an
ordinary reply of the model.

### SyncClient

`pc[o]` is where operation `o`'s thread is. The prologue (`CallDisabled`,
`Call`, `Refuse`, `Prepare`) is `ClientImpl::Execute` up to the stack; `Sign`,
`SignFails` the signer; `SendCanceled`, `CheckToken`, `Send`, `TransportFails`,
`Abort`, `AbortFails`, `Receive` the transport; `Check`, `StoreSkew` the response
checkers; `Return` to `TokenWait` the retryer and `waitForRetry`. `CheckToken` and
`Send` are two steps because the token may be canceled between the test of it and
the call; `Check` and `StoreSkew` are two because no lock covers the read and the write of the
shared offset; `Abort` and `AbortFails` because the disable flag is read once to
stop the transfer and again to name the reason; `ClientWait` and `LookAtToken`
because the flag and the token are read one after the other. The length of a delay is random,
so `RetryAtOnce`, `StartClientWait` and `StartTokenWait` are all open when
another attempt is due. A wait may end at any time: that is its timeout.

Properties: attempts are bounded, and one for a body that cannot be replayed;
an outcome is about the last attempt; nobody is told "canceled" without a cause;
clock skew is corrected after one rejection; a canceled token lets one call start at
most, the one whose test was already past (`OneCallAfterCancel`); a back-off on the client honours the disable flag; the engine implements
`Operation`, which includes that every operation ends.

### AsyncClient

`pc[o]` is where `AsyncExecuteState` `o` is, `worker` the task the scheduler's
thread is in. `CallAsync` to `Push` go down the stack: the token is looked at
(`CheckToken`), `sendAsync` finds the transport open (`Send`), gets its handle, which
may take as long as another transfer, and queues the request (`Push`). `Start` is
`drainPending`, on the I/O thread, as are `TransportFails`, `Receive` and `Check`; `QueueRetry`, `QueueFinish` come back up;
`RunRetry`, `RunFinish` are the scheduler. `Check` is one step: the built-in
transport has one I/O thread, so no two checkers run at once. A failed attempt
leaves `response` alone, as the code does. The transport is taken at its word
(it answers each `sendAsync` once, from another thread), which is what
`CurlMultiTransport` and `WinHttpAsyncClient` are checked for.

The client may be destroyed at any moment, by the application or by a callback,
which then runs on the scheduler's thread (`destroyer`). `client` follows the
members of `AsyncClientImpl` in the order in which they go: the transport, whose
destructor answers or drops what it has ("stopping"), the stack, the scheduler.
What can become of an operation is in its `pc`: its queued task is "dropped";
its request is "late", pushed after the transport has taken its queue for the
last time, so that it keeps its handle and nobody answers it, and the
destructor of the handle pool, which waits for that handle, never ends; or it is
"lost", in a repetition that meets a destroyed stack. The last is undefined in
C++; the model lets the operation go no further, and nothing is claimed of the
program after it. `FirstAttemptsSurvive` says that only an operation that is
being repeated can be lost or late: no other thread is inside the client once
the destructor runs, because it is the application's business not to destroy a
client while a thread of its own is inside `ExecuteAsync`. That is assumed
(`CallAsync` and the guard of `Destroy`), and so are the built-in transport and
executor, which go with the client.

### CurlContainer and CurlMultiTransport

Handles are interchangeable, so the pool is a count. `Acquire` is `Look`
(`HasResourcesAvailable`), `GrowBegin` to `GrowEnd` (`growPool`, one handle at a
time, under its lock) and `Take` (the wait). `sendAsync` is `Enter`, the two
tests of `stopped_`, `Acquire` and `Push`; `ioLoop` is `Drain`, `Perform`,
`Process`, `Poll` and, after the stop, `LastPerform`, `Swap`, `CleanUp`, `Exit`;
the destructor is `Stop`, `Join`, `Destroyed`. The destructor may run while a
sender is inside `sendAsync` - the second test of `stopped_` exists for that -
but waits with the members until the sender is out, which the code leaves to its
caller. `late` records the requests queued after `cleanupInflight` has taken the
queue: the code never answers those, and never gets their handle back. The
properties except exactly them: no other request loses its answer or its handle.

### HttpExchange and WinHttpAsyncClient

`context[r]` is an `AsyncRequestContext` with what WinHTTP knows of its handle;
`thread[r]` the thread that calls back; `answer[r]` what the callback was given.
Each handler is the set of contexts it may leave behind, because every call of
WinHTTP may fail and a completion may come before the call has returned:
`OnSendComplete`, `WriteNextChunk`, `OnDataAvailable`, `OnReadComplete` and, choosing
between them, `OnComplete` with the token's test before it (`Completed`). `Reported`
is the number of bytes WinHTTP gives with a query or a read: none at the end, where a
query may still announce what the read then does not find. `contentLength[r]` is what
`resolveContentLength` finds: a body of unknown length has no source, and the code sends
nothing of it. `Send` is `sendAsync`,
`Callback` is `statusCallback`, `Leave` what follows `finish` on the same thread,
and `Destroy`, `TestCount` and `Notify` the destructor's wait for `inflightCount_`.
WinHTTP is external, and modelled by the promises its documentation makes and the
code uses: every operation is completed, in the end by a time-out, and the
notification that a handle is closing comes last. The destructor's wait and
`onRequestFinished` are at the grain of the mutex; that the mutex itself is still
there when the last request takes it is not claimed (the count is zero before the
mutex is taken, so a destructor that tests the count then may be through first).

Properties: no two operations of WinHTTP are ever pending on one handle, and
the context outlives the one that is; every request is answered once, as a success only when
both bodies have gone over whole (`Exchanges`, which is `HttpExchange`); the
destructor returns. A request body counts for `Exchanges` as far as its length is
known. One whose length is not known, such as a stream that cannot seek, is not sent
by either WinHTTP transport, and the request may succeed without it: that is what the code
does, and nothing here approves of it.

### WinHttpClient

`pc` is the operation `send` is at, `waits` whether it waits for `event`. `Done`
and `Failed` are what follows a wait, `PollAborted` the poll of `waitForAction`,
`Return` the guard that closes the handle and waits once more. The module states one
property, which the code does not have (section 6).

### ScheduledExecutor

`thread` is where `run` is; time is a counter. `EndWait` shows the peculiarity
of the code: the sleep's predicate is `stop` alone, so a task scheduled during
the sleep with an earlier deadline is held up, at most once (`OversleepsOnce`).
`Stop` may also be a task's doing, when it drops the last reference to the
executor: the thread is then detached and ends by itself.

### Executor and ThreadExecutors

`kind` is the executor in use. `refs` are the holders of references to the client
that owns it: the application, and each task in `Keepers`, whose closure captured
the client to keep it alive. Whoever drops the last one (`AppDrops`,
`DropsInBody`, `ClosureDies`, `LambdaDies`) becomes the thread `by` that runs the
destructor. `Execute` is `execute` of either; `Look` to `NextIteration` are
`workerLoop`; `ThreadStarts` to `ThreadEnds` the lambda of
`DefaultExecutor::execute`, which detaches its own thread before it dies; the rest
the two destructors. `execute` of the pool is two steps, since `notify_one`
comes after the unlock. A thread that joins itself ends the program
(`JoinsItself`): `std::system_error` leaves a destructor.

Properties: what is accepted runs once, also when the destructor has begun, and
what comes later does not; the destructor returns when nothing is left to run
(`KeepsPromise`); once it has, no thread looks at the mutex or the queue
(`QuietWhenGone`); and the default executor, unlike the pool, survives a client that
its own task kept alive (`SurvivesItsTasks`).

### Upload, Download, Transfer and what they stand on

A byte is its value and the bytes of keystream it has been combined with, so that
encrypting with one counter and decrypting with another shows. Sizes are scaled: a
block of 2 bytes, a frame's header and tail of 2 values.

`Upload` follows one body through its attempts: `CallUpload` is `uploadPart` or
`putObject`, `Begin` the attempt's `spanSource` through `TeeByteContent`, its
observers and the body (`StreamSpan`, `Reset`), `SendChunk` `sendBodyCallback`,
`Answered` the server's checksum against the observer's, if the check is on and the
response has one (`CrcAgrees`). The kinds of body are
those the code treats alike: with a cursor for each span, a stream that found out
that it can seek, one that was declared to, and one that can be read once. The
encryption client's alignment test is `Misaligned`, its counter for a part
`PartIV`.

`Download` follows one call of `getObject` or `selectObject`: `Supply` builds the
chain of writers when the first bytes of a response arrive - decoder, discarding
and decrypting writer, sink - and `Arrive` is `recvBodyCallback` with the tests it
makes before and after a write. `AlignedStart` is the encryption client's widening of
the range. Between attempts another application may replace the object, also by one of another
key. `SelectFrameDecoder` is `parseFrame` in its three phases; it passes payload on
before it has seen the frame's checksum, as the code does. Of a file sink the stream's
buffer is left out: its failure shows at the write that causes it (`FileDownload` has
the buffer).

Properties. What the server holds of a part that succeeded is the body that was
sent for it, encrypted or not; where no checksums were compared a byte may be what the
network made of it, where they were, none is (`StoredIsBody`). Each attempt's checksum
and count are those of its own bytes. The progress last reported is never behind
what the attempt under way has given, nor behind what the attempt before it had, and a
success ends with the report of the last byte (`EachAttemptObserved`): the observer remembers
one attempt, so a third that follows a short second does report again what the first has
reported, and its progress goes back. A sink always holds a prefix of what was
asked for (`SinkIsPrefix`). A success is the whole range (`SuccessIsTheRange`), with
exceptions that the code has and the property names: a sink that fails in the last
chunk without going bad; a decoder whose error falls into the last chunk, which for a
small response to `selectObject` is the only one, so that a spoilt byte passes although its
frame has a checksum - but only when that frame's tail and all that follows it came in
that one chunk; and a last response without a body, for which the supplier is not asked,
so that the sink of an earlier attempt, or none, is what the caller finds.

What a reader of the code may trip over and the properties leave open: the length
of a `FileContent` is not enforced by its readers; a frame whose payload length is
below 8, which the server of the model never sends, makes the decoder's count negative;
`ByteWriter.h` speaks of a
`reset()` of observable writers that does not exist; `seekIV` adds to half of the
counter without a carry (`TransferAssumption` keeps the counter below the wrap).

### FileDownload

`pc` is where the loop of `getObjectToFile` is: before a `getObject` ("loop"),
inside its body callback ("receive"), after one that failed ("failed"), at its
end. `stream` is `fileStream` - absent until the first chunk asks the supplier
for a sink - and `position` its `tellp`; `seen` is what the checksum observer,
which outlives the rounds, has been given. What the stream has been given is in its
`buffer` before it is in the `file`: any part of it may reach the disk at any write
(`Overflow`), the whole does when a broken round is flushed (`Resume`), unless the disk
fails then (`FlushFails`). After a success nothing flushes or tests the stream: its
destructor brings as much to the disk as the disk will have (`Succeed`), and the call has
returned a success, checked or not, whatever that is. The properties of a success are
therefore about what was written, to the disk or the buffer, and about the disk only that
nothing of an earlier round is missing. The sink is one-shot, so a call of
`getObject` is one attempt, and a call is modelled by how it can end: before the
body (`CallCanceled`, `Unreachable`, `Refused`), during it (`DiskFails`,
`Interrupted`) or well (`Succeed`); `EndLoop`, `FlushFails` and `Resume` are what
follows a failure. A byte of the file is its version, its index
and whether it arrived intact, so that a gap, a byte written twice and a mixture
of versions all show. Between any two steps the object may be replaced, and no
request carries an `If-Match`: a resumed download may mix versions, and no
property here says otherwise. Not in the module: empty objects, the progress
observer, the parsing of the range, and `OSSAsyncClient::getObjectToFile`, which
does not resume.

## 4. Runs

| Run | Question | Instance | Result |
|---|---|---|---|
| `sync` | Do the safety properties of the synchronous engine and its refinement of `Operation` hold? | 2 operations, one with a token and 3 attempts, one whose body cannot be replayed; 1 `disableRequest`, 1 step of the clock; replies 200 and 200 with a wrong checksum, and the server's rejections | holds, 930,590 states |
| `sync_token_backoff` | Does `disableRequest` end every back-off? | the same | violated |
| `async` | The same questions for the asynchronous engine, and what its destruction can break | 2 retryable operations, 2 attempts, 1 step of the clock, the same replies; destroyed at any moment by the application or by a callback | holds, 475,636 states |
| `async_stale_status` | Does a transport error come without a status? | the same | violated |
| `curl_multi` | Are handles conserved and requests answered, also at shutdown? | 3 senders, 2 handles, 1 failing growth | holds, 48,038 states |
| `winhttp_async` | Do completions, failures, cancellation and the destructor leave one operation per handle, one answer per request, and an end? | 2 requests, one perhaps sent from the other's callback; bodies of 0 or 1 piece each way, of known or unknown length | holds, 670,968 states |
| `winhttp_broken_body` | Is a response body that breaks off reported? | 1 request, bodies of up to 2 pieces | violated |
| `scheduled_executor` | Is a task held up once at most, and does every one run, also at shutdown? | 3 tasks, delays of 0, 1, 3, clock to 5 | holds, 331,265 states |
| `thread_executors` | Does either executor keep the promise of `Executor`, whoever destroys it? | 4 tasks, 2 of which keep the client alive; a pool of 2 | holds, 32,849 states |
| `transfer` | Does an object survive the round trip through every kind of body and sink, repeated attempts, chunks and encryption? | 4 bytes, blocks of 2, parts of 2, 3 or 4, chunks of 1, 2, 6 or 13, 3 attempts to upload and 2 to download, 1 spoilt byte; every range; counters next to their carry | holds, 637,827 states |
| `file_download` | Are the bytes of a resumed download in place, and a verified one the object? | an object of 3 bytes, replaced by one of 2 and one of 4; the whole of it and three ranges; a file that is empty or longer before; 1 garbled chunk | holds, 69,224 states |
| `file_download_gives_up` | Does a resumed download outlast the network's failures? | the same | violated |

Why these bounds are enough to be of interest. Two operations are what it takes
to race on the shared offset and the flag; three attempts have a middle one,
which follows and precedes a back-off; one `disableRequest` and any number of
`enableRequest` (it needs a disabled client, so one) give every order of the two
around each step; one step of the clock after a correction makes a second
correction necessary. When the asynchronous client is destroyed, one operation
can be in its repetition while the other is anywhere else, which is as many
threads as the client has. A pool of two grows from one to its limit, and a third
sender then waits; one initialisation failure leaves the pool either empty or
smaller than asked. One piece has a first, a last and an empty body; two WinHTTP requests are
one that ends while the other runs or is begun by its callback. Three scheduled tasks are a
sleeper's, an earlier newcomer's and one between them; four tasks are two for
the workers, one that waits in the queue and one that a task submits. Two blocks have
a range that starts inside the first and one that starts at the second; a part of
three bytes is the one the encryption client refuses; chunks of one and two cut a
header, a payload and a tail in every place, one of six is longer than an end frame, so that
the tail of the frame before it can come together with it, and one of 13 is a whole response to a
select; two attempts are one that leaves something behind and one that finds it, and a
third attempt of an upload is one that follows a second shorter than the first. Three bytes are one before, at and after an
interruption; the second version is shorter than an offset can be, the third
longer than the first; the ranges are open, closed, and closed at both ends
inside the object or beyond it; the old file is longer than any version. Bounds
are constants (`MaxToggles`, `MaxDrifts`, `MaxInitFailures`, `MaxPieces`,
`MaxTime`, `MaxGarbled`) and appear in guards and initial values only.

### Fairness

* `SyncClient`: weak fairness of each running operation. Its thread is only
  ever blocked by waits with a timeout and by transfers, which the transport's
  own timeouts end. Nothing obliges the application to call, cancel or disable.
* `AsyncClient`: weak fairness of the operation's threads and of a destructor that
  has begun; strong fairness of the scheduler for each queued task, because its
  queue is ordered by deadlines and `worker` is busy now and then.
  `ScheduledExecutor` shows why that is justified (`EveryTaskRuns`). The
  destructor is not shown to return: it does not when a request is late.
* `CurlMultiTransport`: weak fairness of senders that have begun, of the I/O
  thread and of a destructor that has begun; strong fairness of each transfer's
  completion, because `curl_multi_perform` is called in every turn of a loop
  that is also elsewhere, and curl's timeouts finish every transfer.
* `WinHttpAsyncClient`: weak fairness of each request's completions and of the
  thread that calls back, and of the destructor's test once it has been woken.
* `ScheduledExecutor`: weak fairness of time, of the thread and of the join.
* `ThreadExecutors`: weak fairness of the workers, of each task's thread, of a
  caller between its unlock and its notification, and of the destructor: threads are
  scheduled and tasks end. Nobody has to submit or to drop anything.
* `FileDownload`: weak fairness of the caller's thread. Nothing bounds the number
  of rounds: only the token is shown to end the loop (`CancelEnds`).
* `Transfer`, `WinHttpClient`: none; their properties are safety properties.

### Deadlock

Deadlock checking is off in every run: operations end, time is bounded, and an
application may do nothing more. That every operation, request, task and
destructor comes to its end is stated as liveness instead.

## 5. Proofs

Eight modules hold theorems. None of what they say depends on the size of an instance:
they are for every set of operations, requests or tasks, every number of attempts and
every size of a pool, a version, a range, an object or a chunk that satisfies the named
assumptions (`PipelineAssumption`, `SyncAssumption`, `AsyncAssumption`,
`ContainerAssumption`, `WinHttpAsyncClientAssumption`, `FileDownloadAssumption`,
`CipherAssumption`, `TransferAssumption`, `UploadAssumption`, and the
`ExecutorAssumption` of each executor module). Every invariant and every action
property the passing runs check is a theorem.
Both clients' proofs begin with the facts about retries they use:
`RetryStaysBounded` is the arithmetic of `retryMaxAttempts`, `ServerRepliesType`
types what a server may answer.

### The synchronous client

* `TypeCorrect`: `Spec => []TypeOK`. Type correctness carries one real fact,
  `retries[o] < AttemptBound`, which is inductive only together with where the
  operation is: `TypeInv` adds that `sends[o]` is at most `retries[o]` until the
  attempt in progress is sent and at most one more afterwards (`Counted`), that
  an operation waiting to retry may retry (`WaitsToRetry`) and that there is a
  response to check where one is checked (`HasResponse`).
* `AttemptsAreBounded`: `Spec => []AttemptsBounded`, from the same invariant and
  `OneShotsStay`: an operation whose body cannot be replayed never repeats.
* `OutcomeIsFresh`: `Spec => []OutcomeIsOfLastAttempt`. A stale response is held
  while the next attempt is under way, so the invariant `Fresh` says of every
  control point whose response it is: an earlier attempt's (`BeforeOutcome`),
  this one's ("check"), this one's or none (`AfterOutcome`).
* `CancellationIsCaused`: `Spec => []CanceledHasACause`, from `CauseInv`: every
  running operation of a disabled client has seen it disabled, and an error that
  satisfies the condition has a cause wherever the operation is.
* `SkewCorrectionConverges`: `CorrectClockSkew => (Spec => []SkewHeals)`. The
  invariant `SkewInv` charges each rejection to a step of the clock or to the
  operation's correction, `rejects[o] <= drifts + Corrected(o)`, with one
  rejection less while an answer that blames the signing time is being checked.
  The shared offset appears nowhere in it: that is why the race on it is harmless.
* `OneLateCallAtMost`: `Spec => []OneCallAfterCancel`. `TypeInv` says of
  an operation that has made a late call that its token is canceled and that it does
  not stand before another call, so the next test of the token stops it (`LateCounted`).
* `DisabledBackoffsEnd`: the action property `DisableEndsBackoffs`, from
  `OnlySendCounts` (the one step that makes a call) and `HeldInv` (where a held-back
  operation can be).
* `ClientImplementsOperation`: `Spec => Abstract!Spec`, the safety part of
  `ImplementsOperation`. `AbstractStep` turns what a step does to one operation
  (`Refines`) into a step of `Operation`; `RefinementStep` finds that for each
  action, using `Fresh` for the answer an operation holds.

### The asynchronous client

* `TypeCorrect`, `CallbackRunsOnce` and `FirstAttemptsAreSafe` share the invariant
  `TypeInv`: besides the counters (`Counted`) it says where an operation can be at
  each stage of the client's end (`Repeated`). Once the destructor has begun, whoever goes
  down the stack is the scheduler's thread; once the transport is gone, nothing is
  in flight and whoever comes back up is that thread too; and the scheduler's thread
  is only ever in a repetition. Without it neither the
  bound on retries nor `FirstAttemptsSurvive` is inductive.
* `SuccessIsFresh`: `Spec => []SuccessIsOfLastAttempt`, from `OutcomeInv`. Because
  the state keeps its response, `Fresh` here speaks of the error as well: without an
  error, the response is the attempt's own.
* `SkewCorrectionConverges` and `OneLateCallAtMost`, along the same lines as
  above, over the threads an operation changes between.
* `ClientImplementsOperation`: `Spec => Abstract!Spec`, destruction included. The
  abstract operation may hold an answer of an earlier attempt (`StaleAnswers`), as
  this client does and the synchronous one does not.

### The curl transport

* `TypeCorrect`, `HandlesAreConserved`, `AnswersAreFinal` and `ShutdownAnswers`:
  `Spec => []` of `TypeOK`, `HandlesConserved`, `AnsweredIsGone` and
  `OnlyLateOnesAreDropped`. One invariant carries them: a request that was queued
  and is not answered is in exactly one container (`Placed`), each stage of the I/O
  thread has emptied what it passed (`Staged`), one user at a time grows the pool,
  within its limit (`Growing`), and the handles add up. How a handle taken or given
  back changes their number is stated once (`HandleTaken`, `HandleReturned`,
  `HandlesStay`), from the library's facts on finite sets.

### The asynchronous WinHTTP client

* `BuffersOutliveOperations`: `Spec => []OneOperationPerHandle`. The invariant `Inv`
  says of every context (`Consistent`) which states, handles and pending operations
  go together and what has been sent and stored by then, and that `inflightCount` is the number
  of requests under way (`Underway`), for which the lemmas on finite sets are used
  (`CountFollows`, `CountIsPositive`). The handlers are sets of contexts, so what they
  do is stated once, `CompletionAdvances`, and used by every step.
* `ClientIsAnExchange`: `Spec => Exchanges`, all of `HttpExchange`, which has no
  fairness. `ExchangeStep` turns what a step does to one request into an abstract step,
  `RequestRefines` finds that for each action; that the destructor returns last is the
  count again.

### The executors

* `SleepsHoldUpOnce`: `Spec => []OversleepsOnce` for the scheduled executor. The
  invariant says that a sleep is late only for newcomers (`Sleeping`) and that what
  was overslept has left the queue before the thread sleeps again (`Overslept`).
* `GoneIsQuiet` and `ClosuresAreHarmless`: `Spec => []QuietWhenGone` and
  `Spec => []SurvivesItsTasks` for the thread executors. The invariant says when the
  destructor runs (`Ended`), that a caller yet to notify keeps it away (`Notifying`),
  that a thread of the default executor is in its table or about to be joined until it
  has detached itself (`DefaultInv`), and that the pool's queue holds what was accepted,
  once, with no worker gone while there is any (`PoolInv`). `NothingLeft` draws from it
  that nothing is accepted or running once all are joined.
* `ExecutorsKeepPromise`: `Spec => Promise!Init /\ [][Promise!Next]_(Promise!vars)`,
  the safety part of `KeepsPromise`. `StepMaps` maps each action; that a worker or a
  running task keeps the destructor from returning (`AtWork`) is what it rests on.

`ExecutorAssumption` asks that tasks have other names than threads and states: in the
instances they are model values, which have.

### The download to a file

* `BytesAreInPlace`, `SuccessIsWhole`, `VerifiedIsExact` and `ResumingKeeps`: the three
  invariants and the action property of `FileDownload`. The inductive invariant says
  where a round begins and ends (`Rounds`), that what has been written, the file and
  the buffer together, is as long as what has been downloaded and each byte is at its
  place, that in the first round the checksum has seen what was written (`Observed`),
  and what a success has compared
  (`Succeeded`). `WriteAtEndAppends` is why it holds: the code writes at an explicit
  position, which is always the file's end.
* `TypesHold`: `Spec => []TypeOK`. A disk that fails leaves the stream's position at
  -1, which the next round's arithmetic would take up were the loop not to end there;
  and that no position is beyond the largest version takes an induction over the
  versions, because `MaxSize` is the maximum of a set (`MaxSizeIsLargest`).

### The round trip

`Transfer` composes `Upload` and `Download`, and `TransferProofs` has one inductive
invariant for each; the second rests on the first only for what the stored object is.

* The cipher. `SeekAligned`: a counter moved to a block's offset is at that block's
  key, which is where `TransferAssumption` (the lower half of the counter does not wrap
  within the object) is needed. With `ProcessOfPiece` it gives `WholeIsPiece`: a part
  encrypted on its own is that piece of one pass over the whole object.
* `UploadInv`, over the attempts of all parts: no misaligned part is sent (`Planned`);
  the source is where the attempt has read to (`Sourced`), whatever kind of body it is;
  the observers, which outlive the attempts, count what this attempt read (`Watched`)
  and the progress is ahead of this attempt and the one before (`Reports`); the server
  holds what was sent, and of an acknowledged part all of it (`Held`), spoilt at most
  where nothing was compared. `StoredParts` (`Spec => []StoredIsBody`) and
  `ObservedAttempts` (`Spec => []EachAttemptObserved`) follow.
* The decoder of frames. A stream is described by its layout (`IsLayout`): where each
  frame starts, how long it is, and which of the rows it shows. `IsAt` says what the
  decoder's fields are after so many bytes of a stream, in the header, the payload or the
  tail of a frame (`InFrame`) or at the stream's end (`AllRead`). `PhaseStep` shows that
  a turn of `parseFrame` keeps the decoder at its place and the sink at the rows that
  place shows, or ends in an error with what is in the sink still a beginning of the
  rows; `ChunkDecoded` draws from it, by induction over the bytes left, that this is so
  for a chunk cut anywhere. That the framings a server of the model sends are layouts,
  and that a checked frame with a spoilt byte is never taken for an intact one, is
  `StreamsLaid`, which rests on the arithmetic of the checksum (`ChecksumTells`).
* `DownloadInv`: what has been served and what of it is still to come (`Served`); that
  the sink holds a beginning of the range it was made for; and, while a response
  arrives, that the chain stands where the bytes to come begin (`OnTheWay`): the
  discard and the cipher for a plain body (`PlainAt`), the decoder for a framed one
  (`FramedAt`), and for a chain that has failed that it lacks no more than the last
  chunk and what was to come (`Lacks`). `SinksHoldPrefixes`
  (`Spec => []SinkIsPrefix`) and `SuccessesAreWhole`
  (`Spec => []SuccessIsTheRange`) follow; the second says how much a success may lack
  because nothing looks at the chain after the last chunk, and when a spoilt byte of a
  checked frame can pass: a decoder that has not failed at the end of a chunk shows none
  of a frame that is behind it (`Behind`), and the frame's tail is followed by the end
  frame at least.

The loop of `processBuffer` and the checksum are recursive functions, not `RECURSIVE`
operators, so that these modules can have theorems. What they compute is proved by
induction over a set of numbers (`NatSetInduction`): first that the function the
definition chooses exists, then the property, one number at a time.

Only TLC checks the rest: liveness under fairness (`EveryRequestAnswered`,
`DestructorReturns`, `EveryTaskRuns`, `CancelEnds`, and the fairness of `Operation` and
`Executor` in `ImplementsOperation` and `KeepsPromise`) and the runs that end in a
violation. Liveness and `ENABLED` are out of the prover's reach.

## 6. What the violated runs show

* `sync_token_backoff`: `OSSClient.h` promises that `disableRequest` cancels all
  requests in flight. A back-off of 200 ms or more of an operation with a token
  waits for the token only and goes on to another attempt.
* `async_stale_status`: `Operation.h` documents a status of 0 when there was no
  response. The asynchronous client reports the status of an earlier attempt.
* `winhttp_broken_body`: the migration guide promises that a download resumes after
  a network failure. It can only when the transport reports one: the synchronous
  WinHTTP transport returns a response whose body broke off as if it were whole.
* `file_download_gives_up`: `OSSClient.h` promises that an interrupted download is
  retried indefinitely. The loop ends with the error of the first request that
  fails before its body, such as one that cannot connect.

## 7. Plan

Done: all modules of section 2. Of the plan made at the start, the destruction of the
asynchronous client became part of `AsyncClient`, the transfer of bytes, the select
decoder and the offsets of the cipher became `Transfer` and what it stands on, and
the WinHTTP clients and the thread executors have modules of their own.

Next, in this order:

1. The condition variable inside `CancellationToken::waitFor`: a deadline that moves
   while somebody waits, and the source that goes away.
2. `WinHttpClient`: a passing run beside the violated one, that states what its `send`
   does promise of a body, and a proof of it.
3. The progress and checksum observers of a download that is not a file's.
4. `Paginator`: that the pages of a listing that changes between requests have every
   entry that stayed.

## 8. Not modelled

Signing, URLs, XML and the request and result models are conversions without
control of their own; hashing, encryption, base64 and the XML parser are
libraries. They are most of the tree, with the samples: the models here cover what
decides, waits, retries or owns. `Presign` builds a URL and touches no shared state
but the offset it reads. Logging and metrics change nothing the properties see. The
agentic clients use the same engines with other request models. `Paginator` is a
sequential loop over a request, whose one decision is where the next page starts.

Inside the modules, not modelled: handles' options, proxies and TLS; `readToCount`; the
envelope of an encrypted object beyond whether its key is the client's; the parser of
a select's meta request, which is given a whole buffer; transports and executors of
the application's own.
