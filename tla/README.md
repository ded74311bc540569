# TLA+ models of the mokonzi web server, proxy, client and image service

The repository holds the C programs of an operating systems course: a web server
(`ml_server`), an HTTP proxy (`ml_proxy`) with an RPC service that shrinks JPEG
images, and a client that loads them with requests (`ml_client`). Server and
proxy are boss-worker programs: one thread accepts connections and hands them to
a fixed pool of workers through a bounded queue. The image service is built on
the Independent JPEG Group's library, which the repository carries as source
(`ml_proxy/jpeg-6b`).

The models cover both: the concurrent core, where TLC explores interleavings and
TLAPS proves the safety properties for every size, and the sequential parts,
which are written as operators and checked against definitions of what they are
to compute.

## 1. Inventory

### 1.1 Components

| component | state it keeps | operations | talks to |
|---|---|---|---|
| socket queue, `safeq.c` (two copies of one file) | ring of sockets (`array`, `front`, `back`, `capacity`, `size`), mutex, two condition variables | `initialize`, `teardown`, `put`, `get` | called by boss and workers |
| proxy life cycle, `proxy.c`, `main.c`, loop of `worker.c` | listening socket, worker pool, `TERMINATE` | `initialize`, `run`, `teardown`, SIGINT handler, `ml_worker` | queue, kernel |
| proxy requests, `worker.c` | per worker: `buffer`, `hClient`, `hServer` | `processConnection`, `processProxyRequest`, `processJPG`, `proxySocket` | client, remote server, RPC service; the descriptor table is shared |
| proxy parsing, `http.c` | none | `parseStatus`, `isJpeg`, `sendProxyError` | reads the buffer of a worker |
| image service, `rpc.c`, `lowres.c`, `lowres-write.c` | per call: socket, addresses, file, reply; two JPEG objects | `img_proc_2_svc` | remote server, JPEG library |
| server life cycle, `server.c`, `main.c`, loop of `worker.c` | listening socket, `terminate` | `initialize`, `run`, SIGINT handler, `ml_worker` | queue, kernel |
| server dialogue, `worker.c`, `http.c` | per worker: `inBuffer`, reused for every connection | `readLine`, handshake, HTTP and shared-memory requests | client |
| shared-memory transfer, `http.c` | segment header (`done`, `size`), one block of data, a semaphore | `processSHMRequest`, `share`, `beast*` | a reader outside the repository |
| server urls and pages, `http.c` | none | `resolveURL`, `respond*` | file system |
| test client, `client.c` | `ready`, mutex, condition variable, per-worker counters | creation of workers, start barrier, request loop, report | server or proxy |
| JPEG files and scans | marker reader, entropy coders, scan script | write and read headers, code and decode MCUs, restart, passes | data source and destination |
| JPEG memory, coefficients, output | virtual arrays, coefficient buffers, state of the decompressor | access, (de)compress a row, `jpeg_*` calls | the two above and below |
| JPEG samples, rows, colors, blocks | row buffers, context rows, tables | prepare, down- and upsample, convert, transform | application's rows |
| JPEG palette, lossless transforms | histogram, cache, colormap; workspace arrays | quantize, `jpeg_new_colormap`; `jtransform_*` | decompressor; transcoder |
| command lines, three `main.c` | none | parse `argv` | not modelled |
| rest of the JPEG library | | memory back ends, parameters, message texts, sample programs | not modelled |

### 1.2 What is hard here

* *Concurrency*: any number of workers sleep on one condition variable; puts and
  gets race for one mutex; SIGINT is delivered to any thread and does two things
  (`shutdown`, then the flag) between which other threads run; descriptors are
  numbers that the kernel gives out again while another thread may still use them.
* *Failure*: each system call of the set-up and of a request can fail. The
  clean-up code after `goto` labels is shared by paths that have done different
  amounts of work; errors of the JPEG library arrive there by `longjmp`.
* *Ordering*: pills behind sockets at shutdown; a buffer compared before the
  result of the read that should have filled it; `done` set without the semaphore.
* *Waiting*: a server worker reads without a timeout; a proxy worker writes
  without one; a full queue makes the boss wait; a writer and a reader of shared
  memory wait for each other; the client's workers wait for the last to be created.
* *Suspension*: the JPEG library may run out of input or room at almost any byte,
  MCU or row, and is then called again with whatever state it has kept.
* *Stale memory*: parser and url resolution look at bytes that earlier requests
  left; a spare row, a cache, a strip of an array outlive what they belonged to.

What makes each component correct is written as the properties of section 4.
`PROJECT.json` lists every hazard at its line, with the properties that cover it.
One has none: `worker.c:244` of the proxy overwrites the result of `write`, so
that a short write shortens an answer unnoticed; nothing in the code promises
otherwise, and there is no property to state.

## 2. Modules

### 2.1 The programs

`BoundedFifo` is what `safeq.c` promises. `SafeQueue` is the file itself and is
shown to implement `BoundedFifo`, by TLC on a small ring and by proof for all of
them. The two life cycles are *composed from* `BoundedFifo`: every call of the
boss or of a worker is a step of that module, made in the same step as the
caller's own change of state. What the life cycles assume of the queue is thus
what `SafeQueue` has been shown to give, fairness included (`ImplementsFairFifo`);
what `SafeQueue` assumes of its callers is a property of the life cycles
(`QueueUsedAsPromised`).

`ConnectionService` is what a boss-worker program promises its clients:
connections are taken in the order in which they were accepted, each by one
worker, which closes it once. There is no queue, no boss and no shutdown in it.
Both life cycles are shown to implement it (`ServedInOrder`), and so is
`ProxyDescriptors`, where threads know connections only by numbers that are given
out again (`ServedUnlessStray`: until an unset `hServer` is closed).

| module | models | state and actions |
|---|---|---|
| `BoundedFifo` | the contract of the queue | `queue`, who has a call in progress (`pending`), its argument or result (`value`); a call is made, then takes effect and returns in one step |
| `ConnectionService` | the contract of a program that serves connections | the connections that wait, which of them is ahead of which, whom each worker serves, who has been served |
| `SafeQueue` | `safeq.c` | the fields of `sockets`, `m_qaccess`, the sleepers of each condition variable, a program counter per thread; one step per stretch of code between two points where another thread can run |
| `ProxyLifecycle` | `proxy.c`, loop of the proxy's `worker.c`, `h_interrupt` | `boss` and `worker[w]` are labels of the C functions, `i` and `p_workers` its variables, `handler` the thread inside the handler, `conn[c]` the fate of a connection; `processConnection` is one step that begins and one that ends it |
| `ServerLifecycle` | the same for the server | also the bad sockets that a failing `accept` puts in the queue, and the clients that have spoken |
| `ProxyDescriptors` | the proxy's `worker.c`, inside `processConnection` | `fd`, the descriptor table of the process, and each worker's variables; one step per system call |
| `ServerConnection` | the server's `worker.c` and `http.c`, for one worker | the buffer, what the clients send, what each was told |
| `ShmChannel` | `ml_http_processSHMRequest`, `share`, `beast*` | the segment's `size`, `data` and `done`, the semaphore, the worker's labels, and a reader |
| `ClientWorkers` | `client.c` | labels of the main thread and of each worker, `ready`, the mutex, the sleepers, open and lost descriptors, counters |
| `ShrinkService` | `img_proc_2_svc` and the image code it calls | label of the call, socket, addresses, both JPEG objects as far as the library tests their state, the growing output buffer |
| `ProxyHttp`, `ServerUrl`, `ClientRequest` | `parseStatus`, `isJpeg`; `resolveURL`; the file index | operators on strings and numbers |

### 2.2 The JPEG library

| module | models |
|---|---|
| `JpegMarkers` | `jcmarker.c` and `jdmarker.c`: headers with their tables, each written once, read piece by piece from a source that may have to wait |
| `JpegRestart` | restart markers: `process_restart`, `next_marker`, `jpeg_resync_to_restart` |
| `JpegHuffman`, `JpegHuffmanTable` | `jchuff.c`, `jdhuff.c`: coding and decoding of blocks with byte stuffing and lookahead; the best table for given counts |
| `JpegProgressive` | `jcphuff.c`, `jdphuff.c`: bands and single bits of coefficients |
| `JpegScans` | `jcmaster.c`, `jdinput.c`: scripts of scans, passes, and what the decoder makes of them |
| `JpegCoefficients` | `jccoefct.c`, `jctrans.c`, `jdcoefct.c`: blocks to MCUs and back, suspension at any MCU, block smoothing |
| `JpegVirtualArray` | the virtual arrays of `jmemmgr.c` with their backing store |
| `JpegDecompressor` | `jdapimin.c`, `jdapistd.c`, `jdinput.c`, `jdmaster.c`: calls in their states, suspended and repeated; buffered-image mode, where output runs beside the input |
| `JpegRows` | `jcapistd.c`, `jcmainct.c`, `jcprepct.c`, `jdmainct.c`, `jdpostct.c`: rows through circular buffers with context |
| `JpegSampling`, `JpegColor` | `jcsample.c`, `jdsample.c`, `jdmerge.c`, `jdmaster.c`; `jccolor.c`, `jdcolor.c`: sampling, scaling and colors |
| `JpegDct` | the integer transforms, slow, fast and reduced, with the managers that quantize and choose |
| `JpegTransform` | `transupp.c`: turning and mirroring without decoding |
| `JpegPalette` | `jquant1.c`, `jquant2.c`: colors of a palette, dithering, change of the palette between passes |

### 2.3 Modules for model checking and for proofs

`MCInput` is a small machine for pure functions: first a function is chosen, then
its argument, and a function that works in several calls (a reader that is
suspended, a pass after another) goes on with what it has. `MCFunctions` offers
the functions of the programs this way, `MCJpeg` those of files, scans and
coefficients, `MCJpegPixels` rows, sampling and colors, `MCJpegBlocks` blocks,
code tables and transforms, `MCJpegPalette` the palette; each holds the reference
definitions next to the properties. `MCFunctions` EXTENDS the others and gives
one run. `MCProxyDescriptors` adds symmetry to `ProxyDescriptors`. The other
modules are checked as they are.

`SafeQueueProofs`, `ProxyLifecycleProofs`, `ProxyDescriptorsProofs`,
`ServerProofs`, `ShmChannelProofs`, `ClientWorkersProofs`, `ShrinkServiceProofs`
and `JpegProofs` hold the theorems (section 5). Where a theorem is about what a
loop computes, the module writes the loop as a recursive function (`Rounds` of
`ServerUrl`, `FlippedRow` of `JpegTransform`), not as a RECURSIVE operator; the folds
of `JpegHuffman` are shown to be such functions first.

### 2.4 Choices a reader should know

* `pthread_cond_wait` unlocks and sleeps in one step, as POSIX says, and may
  return without a notification. Storing an item, notifying and unlocking are one
  step: nobody else can look at the queue in between.
* In `ProxyLifecycle` a descriptor number is identified with the connection it
  was accepted for; that this is not always so is the subject of `ProxyDescriptors`.
* `shutdown` on the listening socket resets the connections in its backlog and
  makes `accept` fail from then on; before `listen` it does nothing. One thread
  at a time runs the SIGINT handler.
* In `ProxyDescriptors` the unassigned `hServer` is any number, and
  `freeaddrinfo` of the unassigned `result` may end the process. Data is a page
  named by its connection. The `sendProxyError` of a failing step is part of it.
* In `ServerConnection` a line that a client cuts short may or may not restore
  the line that was in the buffer: both are explored. Request lines are told
  apart by what the code tests; why a GET is refused is not. `http.c:86-93` does not
  ask whether `sscanf` has found a method and a url, and takes them from memory that
  `malloc` returned and nobody set: a line that lacks them may get any answer that an
  earlier request could have got (`Answers` is a set for each line).
* `ProxyHttp`: a buffer still holds older bytes behind the request. `http.c:67`
  copies a port into `ascii[10]` without a limit; a text that fills the array
  (`PORT_SIZE`) makes the request `Undefined`, and nothing is modelled behind that.
  `OPTIMIZE` is the switch of `main.c` that lets `processConnection` send images to
  the RPC service.
* `ShmChannel`: the repository has only the writing side. The reader is external
  and does what the segment's fields suggest; it may give up and remove the
  semaphore, after which `semop` fails. A byte is its position in the page. When
  the segment can be attached and the semaphore not opened (`http.c:128-131`), the
  worker leaves without setting `done`, and a reader waits for ever: the request
  `no_semaphore`, which `ReaderFinishes` excludes.
* `ClientWorkers`: server and proxy are whatever `connect` and `read` find.
* `ShrinkService`: an image file is the sequence of markers the library meets,
  chosen while it is read. The library's own errors may come wherever it is
  entered. `rpc.c:137` reads a `caddr_t` as if it were a pointer to the buffer,
  which a compiler rejects as written; it is modelled with the type it means. The
  download is not freed when a picture takes its place, and the stub frees the
  reply's buffer a second time: the process may end there. `init_destination`
  computes the size of the output buffer in 32 bits (`Allocated`, modulo
  `SizeLimit`): too little for a large image, which makes it grow later, and
  nothing at all for a multiple of 2^32.
* `ServerUrl`: `malloc` returns memory that is fresh or holds anything. The
  `memset` at `http.c:249` clears as many bytes as a pointer has: eight.
* JPEG: the sizes that the format fixes (rows of a block, lengths of codes, number
  of coefficients, sampling factors) are CONSTANTs, or shrunk in the INSTANCE, so
  that TLC can go through all small cases; transforms and colors keep theirs.
  Integers there have 32 bits, which the inputs never exceed.

### 2.5 Variants

Some definitions are preceded by a variant with a plausible bug
(`FullTestedTooLate` before `Full`, `ConnectFailsEarly` before `ConnectFails`).
They are part of no specification. Put in the place of the definition they
precede, each makes TLC find a violation:

| variants | property they violate |
|---|---|
| `AdvanceWrapsEarly` | `RingConsistent` |
| `WakeOneWhenEmptied` (one signal, and only on the first item) | `NoLostWakeup` |
| `FullTestedTooLate`, `WakeNobody` | `ImplementsFifo`, `ImplementsFairFifo` |
| `SkipWithoutClose`, `ExitOnTerminate` | `ProxyLifecycle!ServedInOrder`, `AcceptedIsClosed` |
| `OnePillShort` | `PillPerWorker` |
| `JoinableAtOnce` (detached workers) | `QueueUsedAsPromised` |
| `LeaveListener` | `ShutdownCompletes` |
| `KeepConnection` | `ServerLifecycle!ServedInOrder` |
| `ReturnOnBadSocket` | `AcceptedIsServed`, `ShutDownCompletes` |
| `ConnectFailsEarly`, `EndOfAnswerCloses` | `DescriptorsHeld`, `OwnPageUnlessStray` |
| `IgnoreResult` | `AnsweredForOwnLines` |
| `PieceAtStart`, `OverwriteBlock` | `InOrder`, `WholeWhenFinished` |
| `DetachOnly`, `AcquireAgain` | `ReaderFinishes`, `WorkerReturns` |
| `WakesPast`, `SignalStart` | `StartTogether`, `ClientFinishes` |
| `CloseAfterSuccess`, `JoinedButLast` | `SkippedOnlyAfterFailures`, `ReportIsComplete` |
| `StayInScan`, `KeepPermanent` | `NeverMisused`, `NothingHeld` |
| `LoseCount`, `FillWithNothing` | `FinalIsLength`, `CallEnds` |
| `UriStartsAnywhere`, `StepBackOnce`, `IndexOfEqualParts` | `TextIsRead` |
| `OneAhead`, `NotStuffed`, `LeaveIt` | `ScanIsDecoded` |
| `ContinueAnew`, `finish_every_pass` | `HeadersComeThrough`, `ScriptIsCarriedOut` |
| `TransferredShort` | `StripIsCurrent` |
| `AdvancedInRow`, `OutputFullRows` | `CoefficientsInPlace` |
| `NoRowAhead`, `KeepOutputScan` | `OutputArrives` |
| `CountAll`, `KeepSpare` | `RowsInPlace`, `SampledAsPlanned` |
| `TakenDownAtOnce`, `KeepPseudoSymbol` | `SamplesComeBack`, `OptimalTable` |
| `KeepTables`, `KeepCache` | `TransformedImage`, `ColorsInPalette` |

## 3. Fairness

* Each thread keeps running: weak fairness of its next step. A mutex need not
  be handed out fairly; the liveness of queue and client holds without it, because
  a thread that finds nothing to do goes to sleep and leaves the mutex to others.
* Workers call `ml_safeq_get` again and again (that is their loop); the boss
  owes nothing to the queue.
* Spurious wakeups and SIGINT happen finitely often. If either went on for ever
  a thread could be kept from its own code.
* `BoundedFifo` promises that *some* waiting get succeeds, never which.
* Proxy: that `processConnection` returns is assumed (`EndConnection` is fair).
  Its reads have a timeout of 10 seconds. Its writes have none, and a server that
  sends for ever is read for ever, so this is an assumption on peers.
* Proxy: `pthread_join` on a handle that was never set (`HandleUnset`) may crash,
  return (with an error, or for another thread's handle), or block. The boss's
  fairness ends there, so all three are behaviours, and `ShutdownCompletes` asks for
  the exit or for that state.
* Server: nothing bounds a read. `FairSpec` asks nothing of clients, and under it
  shutdown can fail: with every worker reading from a silent client and the queue
  full, the boss sleeps in `ml_safeq_put` (`server.c:182`) and SIGINT does not end
  the server. `SpeakingSpec`, under which the run checks, adds that each client
  finally sends its request or hangs up.
* Failures of `accept` may go on for ever, and none is ever forced: on an open
  socket `accept` may block until a client comes. That is why the handler has to
  shut the socket down (`LeaveListener` violates `ShutdownCompletes`).
* Shared memory: worker and reader take their steps (weak fairness), and neither
  is kept out of the semaphore for ever while the other takes it again and again
  (strong fairness of `semop`, which Linux queues in order). Without it `share`,
  which spins, could keep the reader out. `semop` on a removed semaphore returns.
* Client: each thread keeps running; pages are finite, and a read has a timeout.
* Image service: its one thread keeps running (`WF_vars(Step)`). Errors of the
  library and the end of the process are never forced. That a file which stops
  short comes to an end is not assumed: the source inserts an end marker, after the
  end of the file or the receive timeout, and `CallEnds` rests on that.

## 4. Runs

All bounds are the CONSTANTs in the `.cfg` files; no state constraint is used.

| run | instance | shows |
|---|---|---|
| `queue` (`MCSafeQueue.cfg`) | a boss, 2 workers, 2 slots, 2 sockets | `RingConsistent`, `NoLostWakeup`, `ImplementsFifo`, `ImplementsFairFifo` |
| `proxy` (`MCProxyLifecycle.cfg`) | 2 workers, 2 places, 3 connections | `PillPerWorker`, `QueueUsedAsPromised`, `ServedInOrder`, `ShutdownCompletes`, `AcceptedIsClosed` |
| `server` (`MCServerLifecycle.cfg`) | 2 workers, 1 place, 2 connections, any number of failing accepts, clients that finally speak | `ServedInOrder`, `AcceptedIsServed`, `ShutDownCompletes` |
| `proxy_descriptors` (`MCProxyDescriptors.cfg`) | 2 workers, 3 clients, 4 descriptors | `DescriptorsHeld`, `OwnPageUnlessStray` |
| `server_connection` (`MCServerConnection.cfg`) | 2 connections of at most 2 lines | `AnsweredForOwnLines` |
| `shm` (`MCShmChannel.cfg`) | blocks of 2 bytes, a header of 2, content of 5, 2 requests | `InOrder`, `WholeWhenFinished`, `ReaderFinishes`, `WorkerReturns` |
| `client` (`MCClientWorkers.cfg`) | 2 workers with 2 requests, 3 descriptors | `StartTogether`, `SkippedOnlyAfterFailures`, `ReportIsComplete`, `ClientFinishes` |
| `shrink` (`MCShrinkService.cfg`) | 2 calls, files of at most 6 markers, images of 2 rows, 5 bytes of output in a size modulo 4 | `NeverMisused`, `NothingHeld`, `FinalIsLength`, `CallEnds` |
| `functions` (`MCFunctions.cfg`) | section 4.1 | thirteen properties, section 4.1 |
| `proxy_init_failure` | as `proxy`; `pthread_create` may fail for any worker (in the trace, for the first) | violation: `InitFailureIsReported` |
| `proxy_stray_close` | as `proxy_descriptors` | violation: `OwnPage` |
| `url_old_memory` | urls of at most 7 characters | violation: `HandlesDirectoryChanges` |

Why the bounds are enough. A ring of two slots wraps, can be full, empty and
half full, and three threads are what it takes for one to be notified while
another overtakes it; every other size is covered by the proofs. In the life
cycles, connections and pills together exceed the places of the queue, so the
boss waits in `put` while accepting and while posting pills; two workers are
needed for one to exit while another is still in use of the queue. Four
descriptors for three clients and two workers run out, so that `socket` fails,
and numbers are given out again while another worker holds an old copy. In
`ServerConnection` two connections suffice since the buffer remembers only the
last; two lines are what a handshake and a request take. The content of
`ShmChannel` takes three blocks, the last not full, and the second request finds
the segment as the first has left it. The client has fewer descriptors than
requests, so that failed connects use them up, and the second worker may be
created before, at or after the moment the first begins to wait. Six markers
make a file with two scans and something behind its end; two calls show that
nothing is carried over.

`CHECK_DEADLOCK FALSE` stands where the model ends: after the last connection of
`ServerConnection`, after the last call or the end of the process in
`ShrinkService`, and when an input was chosen and worked on in the runs of
`MCFunctions`. Everywhere else the end of the process is a stuttering step
(`Stopped`), so a deadlock would be reported.

### 4.1 The functions

| property | inputs | what it compares with |
|---|---|---|
| `TextIsRead` | requests with 6 characters behind `GET http://`, ports of up to 3, and stale bytes behind them; paths of 7, followed by a space or by a stale byte; urls of 9; 200 numbers of files | all ways to split a request into host, port and uri; the name after the last `/`, and whether it goes to `processJPG`; a walk down the directories; only files of the list, and every one when there are not too many |
| `ScanIsDecoded` | scans of 5 segments out of 12 intervals, with lost and stray restart markers; 6 symbols with every legal code; bands of 7 coefficients, input that ends anywhere | data is put where it belongs; blocks come back as they were |
| `HeadersComeThrough` | files with tables, restarts, changed tables, cut after any byte | the reader arrives at what the writer had, however often it is suspended |
| `ScriptIsCarriedOut` | scripts of up to 3 scans over 2 components; sequential and progressive; with optimized tables, in transcoding | a script is accepted just when a decoder will take it without a warning; then each scan is sent once, in order, with its header and statistics |
| `StripIsCurrent` | 4 rows, strips of up to 2, memory for part of them | what was written last is what is read |
| `CoefficientsInPlace` | images of 1 to 9 columns and 2 to 9 rows, 1 to 3 components, suspended at any MCU | blocks where the geometry says; smoothing bounded by the neighbours and by what is known |
| `OutputArrives` | 3 iMCU rows, 2 scans, input 2 units ahead of what is read | rows shown have been decoded, in the scan that was asked for; output waits only for input that can come |
| `RowsInPlace` | 1 to 9 rows, 5 pairs of sampling factors, 2 or 3 row groups, with and without context, suspension at any row | each row from the rows it lies on, the edge repeated; no row from below the image but in the case `GoesBelow` |
| `SampledAsPlanned` | all pairs of sampling factors, 4 scales, 3 widths; each method on short rows; merged upsampling row by row | a plan whose parts fit together; samples that average their pixels, pixels made of the samples around them; merged equal to separate upsampling |
| `SamplesComeBack` | 7 levels for each sample; single frequencies and corner cases of blocks; changed tables between scans | the color or block that went in, within the tolerance of the method |
| `OptimalTable` | counts of 5 symbols | each symbol that occurs gets a code, none all ones or over the limit; without the limit no code is shorter |
| `TransformedImage` | images of 1, 3 and 4 components and mixed sampling, 8 transforms, trimming, grayscale | each pixel, transformed from its block, where the turned image has it |
| `ColorsInPalette` | small images, palettes chosen, given or fixed, 2 passes with changes between | the color of this pass's palette nearest to the pixel, or to it with the errors carried there; cubes that are full; shades kept within two levels on average over an ordered-dither cell |

Details where the code is less than one would think, and what the inputs are
restricted to because of it:

* A port has fewer characters than `ascii` has room for: `PORT_SIZE` is 10 in the
  code and 4 here. A longer one runs over the end of the array, or leaves `atoi`
  without an end of the digits, and `RequestIsParsed` says nothing of it.
* When a request ends with its uri, and the uri with `.jp`, `ml_http_isJpeg` takes the
  byte behind the request for the `g`: what an earlier client left there decides
  whether the request goes to the RPC service. `JpegByName` has just this exception.
* `smoothing_ok` latches what is known of the coefficients when an output pass
  begins; input may go on meanwhile, and does in `CoefficientsInPlace`.
* `ml_client/README` names the files 1 to 50; the index runs from 0 to one less
  than their number. The property is about the index.
* `jdmaster.c` (130-145) refuses a *scaled* image with a sampling factor of three
  that it decodes at full size; `SampledAsPlanned` allows refusals only then.
* `JDCT_IFAST` errs by up to 128 levels at quantization step 1 (`libjpeg.doc`
  calls it less accurate); it is checked for coarse steps.
* When a two-pass palette hands out a strip in several calls, the rows left in the
  image are counted from the start of the strip, without the rows of it that are
  already out (`jdpostct.c:224`). With strips of more than two rows, calls for several
  rows get rows from below the image, which were never filled. `RowsInPlace` is
  checked for these calls too: the rows of the image are right, and `GoesBelow` is the
  one case in which more than these come out.
* A request for ordered dithering becomes Floyd-Steinberg when a two-pass method
  is merely enabled (`jinit_2pass_quantizer`), unless it is set again before
  `jpeg_start_output`, as `libjpeg.doc` (1106-1109) has it, and as the model does.
* Forced grayscale with a luminance sampled more coarsely than the colors would
  leave the workspace of `transupp.c`; such images are not among the inputs.

### 4.2 What the violations show

1. **`proxy.c:169`** When `pthread_create` fails for any worker (in TLC's trace for
   the first, when none exists yet), the clean-up that follows joins *all* the workers, also those that were never created,
   through handles `malloc` left unset.
2. **`worker.c:159`** (proxy) After a name that does not resolve, `close(hServer)`
   closes whatever number is in the unassigned variable; the counterexample ends
   with a client that receives what is not its page.
3. **`http.c:332`** (server) The search for the `/` to go back to at a `../` begins
   behind the last byte written, in memory that nobody has set. When that byte
   is a `/` of an earlier use, no directory is taken back.

Around these, the same modules check that the *rest* holds: with the stray close
excluded (`strayClose`, a history variable) clients get their own pages and no
descriptor leaks; over fresh memory urls are resolved as they should be.

Two more oddities the models contain. A server worker compares its buffer with
the handshake before it looks at the result of the read (`worker.c:68`): a client
that sends nothing is greeted when the client before it sent the handshake last;
`AnsweredForOwnLines` shows that the refusal that follows is still the right one.
And the server's boss returns from `main` while workers answer (`server.c:178`),
which ends the process; the code promises those clients nothing.

## 5. Proofs

Checked by TLAPS for every value of the constants, under the assumptions named in
the module of the component (finitely many workers, sizes in `Nat`). The
properties of the state machines are not inductive; what is proved is a stronger
invariant. About functions the induction is over a number, and goes through the
least element of a set (`SetInduction`, from the well-foundedness of `<`): for a
set that holds 0 and with `n` also `n + 1`, nothing is outside.

**`SafeQueueProofs`** (from `SafeQueueAssumption`: puts and gets are different
threads, finitely many threads put, the capacity is positive). `TypeCorrect`,
`RingIsConsistent`, `NoWakeupIsLost`. `Inv` adds that a thread inside a call finds
the ring allocated (`CallsFindQueue`), that whoever sleeps is in
`pthread_cond_wait` (`SleepersWait`), and that a put carries a socket
(`PutsCarrySockets`). The heart of `NoWakeupIsLost` is a count: a get frees one
slot and wakes one put if any sleeps, so the puts awake (`PutsAwake`) stay at
least as many as the free slots; a put that fills a slot leaves the set of those
awake. It takes lemmas on the cardinality of that set, which is why producers are
finite. `SafeQueueIsFifo`: `Spec => ImplementsFifo`, with the slots from `front` on
as the abstract queue (`Contents`). Storing at `back` appends (`PutAppends`),
advancing `front` takes the tail (`GetTakesHead`), every other step leaves the
abstract queue alone (`SameContents`).

**`ProxyLifecycleProofs`** (from `LifecycleAssumption`: at least one worker, no more
workers than places in the queue, distinct names). `TypeCorrect`,
`QueueIsUsedAsPromised`: where a worker may be while the queue exists follows from
how far the boss has come, so `Inv` has a clause per label of `proxy.c` (`Phases`),
and one says which labels lie inside of a call. With it `ProxyUsesAFifo`
(`Spec => Q!Spec`) closes the composition: the proxy takes only steps of
`BoundedFifo`, in the states in which `SafeQueue` allows them, and `SafeQueue`
implements `BoundedFifo`, so what is proved of the proxy holds with `safeq.c` in
the place of the contract.
`OnePillPerWorker` and `ConnectionHasOneOwner` need each other: `Owned` says that
no two places of a connection differ; `Tidy` that no connection stands behind a
pill. That teardown drops no connection is because each worker has then taken its
pill, and all pills have been taken, so that nothing stood in front of them; or
because `initialize` failed and no connection was accepted. Pills queued and taken
are counted by a bijection between finite sets. `FirstComeFirstServed`:
`Spec => ServedInOrder`. The queue, and behind it the connection the boss is about
to put, are the connections that wait, in that order (`Waiting`, `Ahead`). There is
one lemma per step of `ConnectionService`; a put that takes effect moves nobody,
pills are not seen, and a worker that skips a connection at shutdown takes and
closes it.

**`ProxyDescriptorsProofs`** `DescriptorTypes`, `NothingLeaksOrIsClosedTwice`,
`ClientsReadTheirOwnPages`. `DescriptorsHeld` counts holders; the invariant `Held`
says instead that no two places of a number differ, and that it has one just when
it is open. `Meaning` says what the number in each place stands for. Both hold
until the first stray close. That the kernel gives out the lowest free number
takes the well-foundedness of `<`. `AnsweredFromOwnBytes`: `http.c` parses a
request in a buffer that is never cleared, up to where `read` has put bytes; what
is behind them is not told apart by any of the parser's searches, so two buffers
that agree up to there give the same host, port and uri (or the same undefined
outcome, for a port that is too long). `processConnection` then also does the same,
unless the request ends with its uri and the uri with `.jp`: only there does
`ml_http_isJpeg` get as far as the byte behind (`UriEndsRequest`). `ServedInTurn`: until the
first stray close the descriptors implement `ConnectionService`. A connection that
waits is found through its number, so beside `Held`, by which a number has one
place, it takes `Accepted`: a connection has one number, and no worker has it for
a server's.

**`ServerProofs`** `ServerTypes`, `ConnectionHasOneOwner`: the connection followed
from `accept` through the boss's call of put and the queue, where -1 may stand
between, to one worker and to `close` (`Owned`). `QueueIsUsedAsPromised`,
`ServerUsesAFifo` and `FirstComeFirstServed` as for the proxy; here the results -1
of `accept` stand between the connections without changing their order, and there
is no teardown. `ConnectionTypes`,
`AnswersOwnLines`: `Underway` says at each point of `processConnection` that what is
sent and what the buffer, if `result` vouches for it, makes the worker add are
together an answer the client is owed (`Owed`), of which a line without method or
url has several. `ResolvedInItsMemory`: for a url of any length and any
memory `malloc` returns, `resolveURL` writes inside the block it was given and gets
to the end of the url. The induction is over the rounds of its loop: what is
written behind the root is never more than what has been read.

**`ShmChannelProofs`** `ShmTypes`, `BytesInOrder`, `WholeAnswer`. The invariant
follows a byte through the block (`Pending`, `Written`), with `Exclusion` for the
semaphore. A failed `semop` breaks completeness and not order, so the invariant
has two halves, `NothingLost` and `Ascending`.

**`ClientWorkersProofs`** `ClientTypes`, `WorkersStartTogether`,
`DescriptorsLostByFailures`, `ReportCountsAll`: from the main thread's program
(`Started`), an account of who holds a descriptor (`Account`), and the fact that
workers joined so far have exited (`Joined`). `FileIsInRange`: the index computed
from `rand()` is one of the list for any `RAND_MAX` and number of files, and each
is chosen for some value while their number is below the square root of `RAND_MAX`,
about.

**`ShrinkServiceProofs`** `LibraryIsUsedWell`, `ReleasedOnReturn`. `Reading` says at
each point of `change_res_JPEG_F` what the decompressor is ready for; above all, an
image of one scan is between markers again when its last row is there, so that
no later call is suspended. `Releases` says what each point still holds.
`LengthOfThePicture`, `ByteHasRoom`: the destination of `lowres-write.c` counts what
it was given (`Counting`), and there is room for one more byte between calls
(`Writable`), so that the reply is as long as what was written, however often the
buffer has been filled. That is so when any memory was allocated: for an image whose
size is a multiple of 2^32, `Writable` has no room from the start, `ByteHasRoom`
says so, and `LengthOfThePicture` assumes that it is not one. `Emit` emits a number of bytes one after another; the
induction is over that number.

**`JpegProofs`** is about images of any size, in seven parts.

* `StripsAreCurrent` (`JpegVirtualArray`). A row is in the window, in the backing
  store, in both or in none; `Kept` says which of them holds what was last
  written, and that a window that is not dirty can be dropped. From
  `ArrayAssumption`, with `Junk \notin Values`: what memory happens to hold is told
  apart from every value that is written.
* `OutputOfAllScans` (`JpegDecompressor`). `DecompressorInv` ties the scans in each
  row to how far the input is (`RowsRead`), and the output to the input (`InStep`).
* `DecodedInItsPlace` (`JpegRestart`). An induction over the intervals of a scan:
  `State` says what the reader has in hand before an interval, `Following` which
  marker comes next. At most two restart markers in a row are lost together with
  their data, as far as `jpeg_resync_to_restart` looks ahead.
* `ColorComesBack` (`JpegColor`) for each of the 2^24 colors: the exact sums of the
  conversions are compared with the rounded ones (`RoundedToSample`,
  `RoundedToDifference`).
* `InverseTransformIsLimited` (the table of `jdmaster.c`, in `JpegColor`): with the
  mask that the transforms put on their index it returns a sample for every value,
  and the nearest one up to twice the range off.
* `TransformsCompose`, `TransformsAreLossless`, `MergedSteps` (`JpegTransform`).
  `AllTurned` brings the eight routines into one formula, `Turned`; `TurnedTwice`
  follows a coefficient through two of them. What is left over in a partial iMCU
  stays at its edge in both steps, and this is why images of any size come back.
  Padding is not compared: `do_flip_v` and `do_rot_180` do not copy that of the columns. With `-trim` nothing is
  claimed, edges are then lost on purpose.
* `CodesAreDecoded`, `BlocksAreDecoded`, `BytesAreRead`, `BlocksInARowAreDecoded`
  (`JpegHuffman`), for every legal table. The model's folds are first shown to be
  runs of steps (`FoldIs`). Codes ascend with their places (`LongerIsBeyond`), so a
  prefix of a code is beyond all shorter ones: the lookahead table and the search bit
  by bit find the same symbol, and leave what is behind it. For a block, `Done` says
  how many steps bring the decoder over what the encoder has written for the first
  coefficients, with the zeros it still holds back; the induction is over the
  coefficients. For the bytes, `HasRead` says what the decoder holds after those
  written so far; what is added in the last byte is ones. Together: blocks in a row
  come back from the bytes of the file. Assumed is `Widths`, codes and lookahead of
  at most 16 bits (the format's limit; the prover knows powers of two by cases),
  `Runs`, that a run is longer than one zero (16 in the code), and of the blocks
  `Codable`: the table has codes for their values, which are below 2^16.

So every safety property of the state machines is proved (`FinalIsLength` where
memory was allocated). Only model-checked are:

* all liveness properties and `ImplementsFairFifo`, which need ENABLED;
* the properties of `MCFunctions` and of the modules it brings together, which are
  stated with RECURSIVE operators that the prover does not read. Parts of what they
  say are theorems for inputs of any size: about parsing (`AnsweredFromOwnBytes`),
  the memory of a url (`ResolvedInItsMemory`), the index of a file (`FileIsInRange`),
  restart markers (`DecodedInItsPlace`), coded blocks (`BlocksInARowAreDecoded`, of
  `ScanIsDecoded`), colors (`ColorComesBack`) and turned images.

## 6. Plan

1. done: the queue, the life cycles, descriptors and the server's dialogue, with
   their safety properties proved;
2. done: shared memory, client, image service, parsing, and their proofs;
3. done: the JPEG library between the image service's calls and the bytes of a
   file: markers, entropy coding, scans, coefficients, memory, output, rows,
   sampling, colors, transforms, palettes;
4. done: proofs about the library's arrays, its output, restarts, entropy coding,
   colors and lossless transforms, and about what the programs compute in loops;
5. left: proofs about sampling (averages, weights that sum to one) and about the
   prefix codes of `JpegHuffmanTable`; the memory manager's small and large objects;
   the parameters of `jcparam.c` (quality to quantization tables); short writes of
   the proxy, if the code should come to handle them; the refinement of one
   worker's `processConnection` in `ProxyLifecycle` by `ProxyDescriptors`.

## 7. Not modelled

* *Command lines* of the three programs: sequential conversion of `argv`.
* *Wording and layout* of pages, headers, listings and messages; ports, addresses
  and the file system.
* *The rest of the JPEG library*: small and large objects of the memory manager
  and its back ends for other systems, parameters and message texts,
  floating-point transforms (TLC has no reals), and the sample
  programs with the image formats they read and write. The service calls none of
  it but the defaults of `jcparam.c`, whose scripts and tables are inputs here.
  `jdatadst.c` is replaced by `lowres-write.c`, which is modelled. The row loops
  of the quantizers for three components are modelled by the general ones.
* *Coefficients beyond what samples can give*, as a damaged file may hold: the
  transforms would overflow 32 bits, and C does not say with what outcome.
* *Bytes of the proxy's transfers*: short reads and writes.
* *What happens after memory was overwritten*: behind a port too long for `ascii[10]`
  (`http.c:67`), a host name too long for `clientName[124]` (`worker.c:111`), or the
  first byte of a picture for which no memory was allocated (`lowres-write.c:31`).
* *Weak memory*: threads run under sequential consistency. `TERMINATE` and
  `terminate` are plain `int`s read by several threads, and a compiler or
  processor that delayed their visibility is outside these models.
