# Verification of the EM32F967 drivers

TLA+ models, model-checking configurations and machine-checked proofs for the
Zephyr drivers of the ELAN EM32F967 (`src/drivers`, `src/soc/elan/em32f967`).
The source is the reference; `PROJECT.json` maps every definition to the lines
it stands for.

    tlc -workers 2 -config UdcDataEp_out.cfg MCUdcDataEp.tla     # one run
    tlapm UdcDataEp_proofs.tla                                    # proofs of one module

## 1. Inventory

The USB device controller and the SPI controller have concurrency that tests
hardly reach and carry most of the repository's own logic; the hash driver, the
watchdog and the battery-backed RAM have protocols, registers and memory that
outlive a call, an interrupt or a restart. These are modelled; the rest is
listed with its reason.

| Component | State it keeps | Operations | What is hard |
|---|---|---|---|
| USB device controller, data endpoints (`usb/udc/udc_elan_elandev.c`) | per endpoint: buffer queue, enabled/halted, `data_size_in/out`; message queue; `ep_out_num(_new)`; EPnEN, EPnSTALL, interrupt masks and status flags, FIFOs | enqueue, dequeue, set/clear halt, enable, disable; driver thread; OUT, IN, SETUP and reset interrupts | handlers without locks preempt the API and the thread; the thread takes its message before the mutex; the queue is purged when full; one flag stands for a packet and another takes its place |
| USB device controller, control endpoint (same file) | `setup_pkg`, `ep0_cur_ref`, `ep0_proc_ref`, address and configuration states, remote wakeup | SETUP interrupt, SETUP message, data and status stages, suspend, resume, reset | packets overtaken by the next SETUP; references zeroed by reset; synthesized requests |
| USB clocks, PHY, registers (`udc_elan_elandev.c`, `udc_e967.h`) | registers only | power up and down | straight-line code |
| SPI context (`spi/spi_context.h`) | lock and owner, configuration pointer, completion semaphore and status, mode and callback, buffer walk | lock, release, wait, complete, chip select, unconditional unlock | owner and configuration of different clients; late completions; synchronous and asynchronous calls on one context |
| SPI driver (`spi/spi_em32.c`) | `tx_count`, `rx_count`; FIFOs, masks, overrun flag | configure, transceive (interrupt, DMA, polled), handler, release | the handler and the calling thread run the same transfer function; overrun; timeouts |
| SPI2 driver (`spi/spi_elandev_spi2.c`) | registers | polled transceive | none concurrent |
| SHA-256 (`crypto/crypto_em32_sha.c`) | session state, small buffer, accumulation buffer, chunk mode | begin, update, finish, free | switch of buffering mode in mid-stream, padding, timeouts |
| Battery-backed RAM (`bbram/bbram_em32.c`) | status word in RAM, cached flags, write enable | check and clear flags, read, write | restart between write and read; magic number overlaps flags |
| Watchdog (`watchdog/wdt_em32.c`) | timeout, installed flag, lock register | install, setup, feed, disable, interrupt | unlock-write-lock by thread and interrupt; arithmetic |
| Flash (`flash/flash_em32.c`) | semaphore, key registers | read, write, erase | range arithmetic, key left armed |
| Entropy (`entropy/entropy_em32_trng.c`) | control register | get entropy | no lock |
| GPIO, clock control, pin control | registers | configure, set, interrupts; gate and ungate | read-modify-write from several contexts |
| UART, hardware info, SoC start-up | registers | polled I/O | none |

Interactions: classes of the USB stack call the controller driver under the UDC
core's mutex and get buffers back as events; the driver thread and the
interrupts talk through the message queue and the per-endpoint flags. SPI
clients call into the context from any thread; the handler completes them by a
semaphore or a callback. The SPI driver asks the clock driver for its rate once
per configuration and has no other shared state with it. The watchdog restarts
the chip, wherever the threads are; the battery-backed RAM is the one component
whose state is still there afterwards.

`PROJECT.json` lists the hazards of this code at the line where they bite and
the properties that would catch each.

## 2. Modules

### UdcDataEp, PacketPipe, MCUdcDataEp, UdcDataEp_proofs, UdcPipe_proofs

`UdcDataEp` is the driver seen from the data endpoints. `queue` is `cfg->fifo`,
`flag` is `data_size_in`/`data_size_out`, `sf` and `inten` are the status flag
and the interrupt mask, `msgq` the message queue, `hand`, `api` and `isr` say
where the driver thread, the API call and the handler are.

* An API call is one action up to the first point where an interrupt between
  its writes can be seen, and one more for each such point: enqueue puts the
  buffer and then notifies; enable and disable write the flag, the status flag
  and mask, and the enable bits in the order of the code. The enqueue of a renamed
  endpoint is three steps before the notification, because a reset may zero the
  new number at any of them: the test of `ep_out_num` (`EnqueueTest`, 423), the put
  on the endpoint `ep_out_num_new` names then (`EnqueueMove`, 424), and the second
  reading of it, for the message (`EnqueueName`, 426). `astray` is the queue of
  endpoint 0, OUT, where a buffer goes that a reset catches after the test.
* The driver thread takes a message (`MsgGet`), locks (`MsgLock`) and handles
  it: `XferOut` is one step because the code holds `irq_lock`; `XferIn...` is
  three because it does not.
* `H2dEnter`/`H2dRead` and `D2hEnter`/`D2hExit` are the OUT and IN interrupts
  from the dispatch on the lowest index to the return. The OUT status flag is
  cleared first, the IN one last, as in the code.
* `HostOut` and `HostIn` are the host and the controller: a FIFO holds one
  packet, a disabled or stalled endpoint answers nothing.
* `SetupMsgIsr`, `ResetIsr`, `EnqueueCtl` and `DequeueCtl` are what the control
  endpoint does to this state: its messages, the renaming, and the buffers that
  went astray; the rest of it is in `UdcControl`.
* `missed`, `cut` and `stranded` are history: why the last message of a pipe was
  lost, that a reset came between lines 423 and 424, and that enable or disable
  dropped the notice of a packet. The driver does not read them; properties name
  them where the code gives no guarantee.

`PacketPipe` is the abstract specification of an OUT endpoint: packets are
accepted and delivered, oldest first. `ImplementsPipe` is the refinement: inside
the device are the packets of the first buffer and of the FIFO.

### UdcControl, MCUdcControl, UdcControl_proofs

`UdcControl` is the driver seen from the control endpoint. The controller
answers SET_ADDRESS and SET_CONFIGURATION by itself; the driver invents these
requests, and SET_FEATURE for suspend and resume, so that the stack above it
follows. A packet is the number of its request; what the stack is given is the
pair of numbers of the two halves that `TakeSetup` and `CopyHigh` copied.

* `SetupIsr`, the poll of the IN endpoint, suspend, resume and reset are one
  step each: a handler keeps the threads out. The driver thread is one step per
  point where an interrupt can be seen: `TakeSetup`/`CopyHigh` are the copy of
  `setup_pkg`, `CheckData`/`ReadData` the loop of the OUT data stage, and `Xfer...`
  the treatment of the first buffer of the queue.
* The thread is cooperative and holds the mutex of the UDC core, so that the
  stack (`StackAnswers`, `StackRefuses`, `StackNotes`) runs between its messages
  only.
* `Init` is a fresh device or an enumerated one.
* `gaps` names what irregular things have happened: the host gave up on a request
  (`abort`), reset the bus, suspended it; the stack refused a request (`stall`); a
  message was lost in a full queue (`lost`); the host sent data or polled before
  the thread had come to the request (`early`, `hurried`), got an empty packet
  that was nobody's answer (`null`), or lost its data to an older stage
  (`eaten`). Properties name the gaps the code gives no guarantee for. With five
  requests instead of three TLC shows why `DataIsOfRequest` and
  `SuspendIsReported` name `hurried` and `early`: a SETUP that comes while others
  are under way is submitted and answered several times, and a later request is
  closed by an older answer while its data is still on its way; an answer polled
  early stays on the queue and hides the status stage that would tell the stack of
  the suspend.

### SpiEm32, MCSpiEm32, SpiEm32_proofs, SpiTransfer_proofs

`SpiEm32` is the driver in interrupt mode on its context. A call is the sequence
`LockCheck` ... `Release` of `spi_em32_transceive_impl`; between any two of
these steps, and between two words of the thread's own fill loop (`StartFill`),
another thread or the interrupt handler may run. The handler is `IsrOverrun` or
`IsrRead`, then `IsrFill` word by word, then `IsrClear`. Both share `AfterRead`,
`MayFill` and `FillWord`, which are `spi_em32_async_xfer`, and `Complete`, which
is `spi_context_complete`. `Shift` is the controller exchanging one word.

* A configuration is a name; sets say which lock the bus, hold the chip select
  or are rejected. Every chip select is a GPIO. `Boot` is the configuration
  `spi_em32_init` leaves in the context, and stands for "nobody" elsewhere.
* `ctx->asynchronous` and the test in `spi_context_release` follow
  `CONFIG_SPI_ASYNC` (`SpiAsync`).
* `holds` and `due` are what clients know: the locked bus they have to release,
  the callback they wait for. Clients use their own configurations, keep to one
  while they hold the bus, wait for their callback before the next call, and
  release only what they hold. Other use is outside the API's contract.
* `failed` is history: a word was lost or a wait timed out. The code has no
  recovery from either (see below), so that some properties except it.
* `spi_context_buffers_setup`, the drain at the start and the test and writes of
  one word in the fill loop are one step each. The increments of `tx_count` in
  thread and handler are therefore not split further.

### ShaSession, MCShaSession, ShaSession_proofs, DataInduction

`ShaSession` is a hash session. A message is the sequence of its updates, and
the digest a function of the words and the padding the engine was given.
`UpdateSmall`, `UpdateAccum`, `UpdateNoMemory` and `UpdateChunk` are the branches
of `em32_sha256_handler`; `MoveToAccum` and `Grow` are the change from the small
buffer to the heap and the doubling. `FinishFeed` writes everything, and the wait
for the engine ends in `FinishDone` or `FinishTimeout`. `BeginCheck` and
`BeginClaim` are two steps because nothing locks the driver data, and a free is
four: `Free` (the test and the buffers), then `FreeActive`, `FreeOwner` and
`FreeState`, the three writes of lines 800-802 in their order.

* `gaps` is history: bytes collected before the switch to chunks (`dropped`), a
  total not announced in time (`unknown`) or not the message's (`wrong`), a chunk
  that ended within a word before the last (`odd`) or that failed (`failed`), an
  error that the last write of an earlier free took away (`revived`). `raced`: two
  contexts began at the same time. `robbed` are the contexts that began while a
  free had cleared `session_active` and not yet `ctx`, which it then cleared.
* A finish ignores data of its own, and leaves buffers and lengths as they are, so
  that it may be repeated; both are in the model.
* The interrupt build is left out: `SHA_CTR` is rewritten without the interrupt
  mask, so that its handler has nothing to report.

### Watchdog, Bbram, Board, MCBoard, Board_proofs

`Watchdog` takes each call as the script of its register writes (`Script`), one
step per write, between which the interrupt, or another thread, may come. The
lock register is `wdt.locked`: `PutLoad`, `PutControl` and `PutIntClr` ignore what
is written while it is set. The handler is one step, with the feed its callback
may do. `Count`, `FirstZero` and `Expiring` are the counter as
`em32f967_spec` describes it: it runs while INTEN is set, interrupts at its first
zero and resets the chip at the second.

`Bbram` takes the test of write access as two steps (`Probe`: the pattern is
written; `ProbeRestore`: it is read back and the old contents restored), each
byte of a write as two (`ReadByte`, `WriteByte`), and start-up as four. `guarded`
says whether the chip refuses writes without PWR_CR.DBP, which the driver finds
out by the test. `StatusWord` merges the flags with a magic number whose low bits
are those of all flags.

`Board` composes them: a thread steps while no interrupt is raised and the
application does not hang (`Hang`, anywhere); `Expire` and `PowerCycle` restart
both drivers and keep of the RAM what the battery keeps.

* `crossed` is history: calls of two threads overlapped in the watchdog;
  `fresh` and `fedInside` are what has happened since the call in progress began;
  `age` and `since` count time since the last feed. `broken`: two writes to the
  RAM overlapped, or a register that held the test pattern passed the test of
  write access although the chip refuses writes.

## 3. Runs

| Run | Question | Instance |
|---|---|---|
| `udc_out` | does every OUT packet reach the class, once, in order, in the end | 1 OUT pipe, 2 buffers, tailrooms 2 and 3 with 2-byte packets, 2 packets of any length, queue of 1 |
| `udc_remap` | are buffers conserved and waiting pipes notified while endpoint 1 is renamed to 3 and resets undo it at any step of an enqueue | 2 OUT pipes, 1 buffer, queue of 1, no disable (`Disables`: the other USB runs have it, and this one 6.7 million states without) |
| `udc_in` | do mask and waiting flag stay together, is the FIFO never overrun, is everything sent | 1 IN pipe, 2 buffers, transfers of 0 and 2 packets, queue of 2 |
| `udc_clear` | violation: clearing a halt does not prepare the next transfer | 1 OUT pipe, 1 buffer |
| `udc_ep0` | does the stack get the last SETUP packet, whole, and a regular host no answer of an older request; does the thread leave it its status stages; do enumeration and suspend agree on both sides; does every request end | 3 requests, a queue of 2 messages, data stages of 1 packet, one abort, reset, refusal or suspend, or one message of a data endpoint |
| `spi_sync` | do synchronous transfers exclude each other, keep locked buses, move every word under the chip select, and return | 2 threads, 3 configurations, FIFOs of 2 words, transfers of 1 to 3 chunks and one long enough to overrun |
| `spi_async` | does each asynchronous call get its callback, once | the same, chunks of equal length |
| `spi_stale` | violation: success without a transfer after an earlier timeout | as `spi_sync` |
| `spi_chunk` | violation: a word leaves after the chip select is off | a chunk of 2 words and one of 1 |
| `sha_session` | is the digest that of the message, however it was collected; does a session that nobody robbed keep its owner, and has the heap one buffer | 2 contexts, 2 sessions, 3 updates of 3, 56, 200, 2048 or 65536 bytes; the driver's sizes, except a largest heap buffer of 4152 bytes (the default is 524288) |
| `sha_drop` | violation: bytes collected before the switch to chunks are not hashed | as `sha_session` |
| `board` | do bytes survive restarts, do watchdog calls take effect although interrupted, is no reset early, and does a hung board restart | 1 thread using both drivers, timeouts of 2 and 6 counts on a counter of 5 values, 2 registers of 2 bytes, a write of 3 bytes with or without the test pattern |

The bounds are enough for what the runs ask. A queue of one entry reaches
"full" with the second message. Two buffers are needed for one to be completed
while the other waits, and two packets for them to be reordered. Packets of
every length up to the packet size and tailrooms on both sides of it reach the
completion test from both sides. Two SPI threads are the contention on the lock
that more threads only repeat; a third configuration lets one client return
with another than it locked. FIFOs of two words with a receive trigger of one
keep the ratio of the hardware's eight and four, and overrun with a buffer of
five words.

Three requests are one that is overtaken, one that overtakes it and one invented
by the driver; a queue of two is full with them and one message of a data
endpoint, and one packet of data is where a stage can be abandoned. The lengths of
the hash updates lie on both sides of each limit of the code: the small buffer,
the blocks and the chunk have the driver's sizes, and the largest heap buffer,
which an application configures between 4096 and 2097152 bytes, is one that three
updates can fill and pass. A watchdog timeout of six counts does not fit the
counter of five values and wraps like `32 * timeout_ms` does in 32 bits. A write
of three bytes has bytes in both registers, and ends in the one the test of write
access uses; the value 9 is the test pattern. One thread suffices for restarts and
the interrupt; the theorems are about any number.

`CHECK_DEADLOCK FALSE` appears in `udc_ep0` and the hash runs because the host
and the clients stop at their bounds, and in the SPI runs: the lock leaked by a rejected
configuration stops every client for good, and so does, for asynchronous
clients, a completion that never comes. `CallReturns` and `CallbackComes` except
just these states by name.

Transfers of `spi_sync` and `spi_async` do not go from a longer to a shorter
chunk. With such transfers the fill loop of the thread races with the handler,
which is what `spi_chunk` shows. `spi_async` has no overruns; after one, the
handler may complete the ended transfer again.

### Fairness

`UdcDataEp!Fairness`: an interrupt handler that has begun ends (weak); an
interrupt that is raised again and again is taken, and the driver thread and an
API call in progress get the processor and the mutex again and again (strong).
USB frames leave the processor free most of the time, `k_mutex` queues its
waiters, and the driver thread is a cooperative one. The host is assumed to poll
IN endpoints; it is not assumed to send, and classes are not assumed to call.

`SpiEm32!Fairness`: the controller shifts and the handler runs (weak); a thread
that can go on again and again does (strong: `k_sem` queues its waiters); a
client that locked the bus releases it in the end.

`UdcControl!Fairness` (weak): the driver thread and the stack run, and a host
that has a request open goes on with it: it sends the data, polls, and takes a
stall for an answer. It is not assumed to begin requests.

`Board!FairSpec` (weak): the counter counts and resets, from its own clock.
Nothing is assumed of the application, of the handler or of the power.

## 4. Findings

Shown by a run:

* `udc_clear`: clearing a halt sends no message for buffers queued meanwhile
  (`udc_elan_elandev.c:517`), although its comment says so.
* `spi_stale`: a transfer that outlives its timeout leaves the completion
  semaphore given (`spi_context.h:209`).
* `spi_chunk`: the thread's fill loop keeps a chunk length the handler has moved
  on from (`spi_em32.c:681`).
* `sha_drop`: a session that goes over to chunks leaves the bytes collected
  before out of its message (`crypto_em32_sha.c:480`), and returns 0.

In the models, where properties name the exception instead of a run refuting
them:

* A bus reset between lines 423 and 424 of `udc_elan_elandev.c` sends the buffer
  of a renamed endpoint to the queue of endpoint 0, where nobody serves it
  (`BufferConserved` names `cut`); one between 425 and 426 makes the message name
  endpoint 0, so that endpoint 3 waits with a buffer until something else is
  enqueued on it (`NoLostWakeup` names `missed`, which such a reset sets). Nothing
  locks interrupts over these lines.
* A full message queue is purged (`udc_elan_elandev.c:368`): the pipes it had
  messages for are not served until something else is enqueued on them.
* A host that polls before the driver thread has taken an invented status stage off
  the queue gets that stage for its answer, and the thread may then take the host's
  own (`early`; `udc_elan_elandev.c:1136`). A status buffer that the host has polled
  stays on the queue (1236): `XferWakeup` may take it for the stage of its
  SET_FEATURE, which is then left there until the next SETUP releases it. No status
  stage that a regular host waits for is lost by this (`NoStatusStolen`).
* EPnSTALL is shared by both directions of an endpoint number, the halted state
  is not (`udc_elan_elandev.c:478`): clearing one ends the stall of both.
* `spi_context_release` tests the configuration in the context, not the caller's
  (`spi_context.h:158`): the lock is lost when a configuration is rejected.
* The low bits of the magic number of the backup RAM are those of the flags
  (`bbram_em32.c:267`): after a restart every flag reads as set. Flags cleared
  after a write closed write access are not stored at all.
* The test of write access leaves its pattern in the last register if the chip
  restarts inside it (`bbram_em32.c:153`). `samples/elan_bbram` keeps its log index
  there.
* A free clears `session_active` before `ctx` and `ctx` before the state
  (`crypto_em32_sha.c:800`), without a lock. A begin between the first two has its
  `ctx` cleared: it gets -EINVAL for everything from then on and every other begin
  gets -EBUSY, for ever (`robbed` in `SessionKept`). A begin between the last two
  whose finish has timed out loses its error, and with it the -EIO (`revived` in
  `DigestOfMessage`).
* A message hashed in chunks without its length announced before the first of them
  has the wrong padding, and the digest is returned as a success
  (`crypto_em32_sha.c:517`; `unknown` in `DigestOfMessage`). The repository's
  `samples/elan_sha/src/main.c:79` does just that, with 400 KB in chunks of 64 KB;
  `main_large_data_ec_sim.c`, which its build takes, announces the length.
* A watchdog set up without a callback leaves INTEN clear
  (`wdt_em32.c:158`), which by `em32f967_spec` also stops the counter.
* A callback that feeds locks the registers: a `disable` it interrupts returns 0
  and the watchdog runs on (`wdt_em32.c:191`).
* The product `32 * timeout_ms` wraps from 2^27 ms on (`wdt_em32.c:126`).
* The handler's clear is ignored while the registers are locked
  (`wdt_em32.c:271`): from the first expiry to the reset it runs over and over.
  A thread that hangs between unlock and lock makes it effective, and then the
  reset never comes.

## 5. Proofs

Every invariant that the passing runs check, and the refinement, is also a
theorem, for every value of the constants that the assumptions allow, where it says
so under a hypothesis stated with the theorem. The invariants named below in
brackets or as `...Inv` are the inductive strengthenings.

### USB data endpoints (`UdcDataEp_proofs`, `UdcPipe_proofs`)

* `TypeCorrect`: `TypeOK` alone is not inductive: `Control` adds what the program
  counters imply (the handler that reads has a buffer, the message of a masked
  pipe is an IN pipe, the renamed endpoint exists).
* `NoWakeupIsLost` (`NoLostWakeup`): a pipe starts to wait only with an empty queue
  or before a notification that is still to come; a message leaves the queue only
  into the thread's hands or by a purge, which `missed` records. A moved buffer's
  pipe has its notification still to come from the put on (`Named`), unless a reset
  makes it name endpoint 0, which `missed` records too: the theorem is about
  everything else that could lose it.
* `PacketsAreNoticed` (`NoStrandedPacket`) follows a packet from the FIFO to the
  reader: its status flag, `data_size_out` or the handler between the two.
* `MasksAreReopened` (`MaskedMeansWaiting`): `MaskInv` follows each writer of the
  pair between its two writes. `FifosAreNotOverrun`: `FifoInv` ties the status flag
  and the position of the handler to what the FIFO holds.
* `PacketsHaveRoom`, `BuffersAreConserved`, `PacketsKeepOrder`: `DataSteps` reduces
  the next-state relation to the five effects a step can have on buffers and
  packets. Only the first buffer of a queue holds data (`Fresh`), and what was sent
  is what was got followed by what is inside the device (`Ordered`). Where buffers
  are is `Kept` for the data endpoints and `CutInv` for endpoint 0: none gets there
  unless a reset came between the test of `ep_out_num` and the next line.
* `DriverIsAPipe` (`ImplementsPipe`): the initial states are those of `PacketPipe`,
  and every step accepts the next packet, hands the oldest ones to the class, or
  leaves `PacketPipe` where it is (`Accepts`, `Delivers`, `Stays`).

### USB control endpoint (`UdcControl_proofs`)

* `TypeCorrect`: `Types` is `TypeOK` with what ties the references in the message
  queue, in the thread's hand and in the events to the requests that exist.
* `LastPacketWins` (`LastSetupWins`): `LastInv` says that the last packet's message is
  in the queue, or in the thread's hand, or that what the stack was given last is
  of that packet and whole.
* `EnumerationIsShared` (`EnumerationAgrees`): each state of the driver's view has its
  event on the way to the stack or is already the stack's (`AddressKnown`,
  `ConfigKnown`).
* `DataIsItsOwn` (`DataIsOfRequest`): the first half by the order of the references
  (`References`); the second, like `AnswersAreOwn` and `HostStatusIsKept`, by `RegInv`: a
  host that is never irregular has one request under way, and that request is in
  exactly one place, in the order message, copy, event, answer (`Order`, `Token`);
  what is in the FIFO is its own (`Data`); and status stages of invented
  requests are in front of the host's (`Enumerate`). `AnswersAreOwn` and
  `HostStatusIsKept` are about regular hosts: no abort, reset or stall, no poll or
  SETUP ahead of the driver thread (`early`, `hurried`). `early` is by definition a
  host that got an invented stage, so that `AnswersAreOwn` is about answers of older
  requests only. `HostStatusIsKept` says that the thread takes no stage of the
  host's for an address or a configuration, and for a suspend only one that has been
  polled.
* `SuspendIsTold` (`SuspendIsReported`): `SuspInv` names what is still to come when
  driver, bus and stack differ: the feature request, its event, or its status stage
  with nothing before it.

### SPI (`SpiEm32_proofs`, `SpiTransfer_proofs`)

* `TransfersExclude`, `LockOnIsKept`, `LockIsAccounted`, without `CONFIG_SPI_ASYNC`.
  `LockInv` says of each thread that inside the lock the owner is its configuration,
  that a bus it holds is locked in its name, and that from `spi_em32_configure` on
  the context has its configuration, unless it was rejected. That configurations
  belong to one thread each makes the owner name one thread (`OneHolder`). With
  `CONFIG_SPI_ASYNC` the handler gives the lock while the caller is still inside, and
  exclusion does not hold.
* `TypeCorrect`, with and without `CONFIG_SPI_ASYNC`. It rests on what `Sum` and
  `NonEmpty` compute, which are recursive functions (`SumDef`, `NonEmptyDef`).
* `ChipsTakeTurns` (`OneChipSelected`), without `CONFIG_SPI_ASYNC`: by `CsInv` a selected
  chip is that of the configuration in the context, and somebody selects or keeps
  it, so that nobody else gets to `spi_em32_configure`.
* `SuccessIsTrue` (`SuccessMeansMoved`), `ChipStaysSelected` (`CsCoversTransfer`),
  `FreeBusIsIdle` (`FreeMeansDone`), without `CONFIG_SPI_ASYNC` and for transfers with
  `ChunksNeverShrink`. `MoveInv` counts the words of a transfer: written, in the two
  FIFOs, received, left in the buffers. The hypothesis is needed: with a shorter
  chunk after a longer one run `spi_chunk` refutes `CsCoversTransfer`. It is met by
  every transfer of one buffer each way (`SingleBuffers`), of any length, and by
  those of `spi_sync`.
* `CallbacksComeOnce` (`CallbackOnce`), with `CONFIG_SPI_ASYNC` and clients that call
  `spi_transceive_async` only. `AsyncInv` replaces the lock by what is left of it: it
  is a thread's while it prepares its transfer (`Prepares`), while the transfer has
  words left (`Flying`), and with `SPI_LOCK_ON` until it is released; in between a
  call that has not returned yet claims nothing, and another may have begun.
  `spi_context_complete` therefore finds the callback and the configuration of the
  transfer it ends.

### SHA-256 (`ShaSession_proofs`, `DataInduction`)

* `PaddingIsStandard`: the padding words of the driver are those of FIPS 180-4 for
  every length, by taking the length apart into blocks, words and bytes.
* `BuffersAreBounded`: `TypeOK` is inductive, and the step that needs an argument is
  the growth of the buffer (`GrownCapFits`: the smallest of the doublings that fit is
  at most the maximum).
* `SessionIsKept` and `HeapIsAccounted`: `SessionInv` adds `OneInside`, that unless
  begins have overlapped one context at most is in a session, from its begin to the
  first write of its free, and `HeapInv`, that outside such a session there is no heap
  buffer, and that the buffer is empty exactly when it has no capacity. A context
  that was robbed of its session is excepted from having an owner, nothing else is.
* `DigestsAreRight` (`DigestOfMessage`), without hypotheses: while updates are
  collected the message is in the buffers and the engine is idle (`Gathered`,
  `EngineIdle`); in chunks it is with the engine, with what was announced for it
  (`Streamed`); the engine's idleness is not claimed after a `revived` error,
  which `DigestOfMessage` excepts. The digest is then that of the message because
  words and the bytes of the last word determine the length (`LengthsDiffer`) and
  words of whole chunks add up (`WordsAdd`).

### Watchdog and battery-backed RAM (`Board_proofs`)

* `TypeCorrect`, `BytesAreKept`, `CallsAreEffective`, for any number of threads, any
  timeouts, sizes of counter and memory, and writes. `BytesSurvive` alone does not say
  what a caller holds: `BbInv` adds where each caller can be (`Placed`), and, as long as
  writes do not overlap, that callers do not meet and that what each is about to put
  back is what is there, or what the test pattern replaced (`Relies`). `Move` reduces
  every step of one caller to its own part of this; it also keeps a write within its
  data. For the watchdog `Carried` says of a
  call past its check that the registers are still unlocked, or that a feed has
  interrupted it and has done what it has left to do; a setup is not interrupted
  once it has stopped the counter, because there is no interrupt then.
* `ResetsAreDue` (`NoEarlyReset`): `AgeInv` says how far the counter has come since the
  last feed: what is left of the turn and `since` make up the timeout. Its hypothesis
  `AgesSuffice` is about the history variable only: its bound `MaxAge` has to be at
  least two timeouts for the property to say anything.

### Assumptions, and what is left to TLC

`PipesAssumption`, `SizesAssumption`, `ControlAssumption`, `ClientAssumption`,
`HardwareAssumption`, `ShaAssumption`, `NoneIsNoContext`, `WdtAssumption`, `BbAssumption`,
`KernelAssumption`; TLC evaluates them in every run of their modules.

The induction theorems of the proof library take a predicate as their parameter,
which the provers cannot instantiate. Where a proof needs induction over data (the
length of a list of buffers, of a message), `DataInduction` has it as a fact about
sets of numbers: `LeastNat` is that a set of numbers has a least element, from the
well-foundedness of finite sets under inclusion; `SetInduction` and `StepFunction`,
which is what a recursive function over `0 .. n` computes, follow from it.

Model-checked only: the liveness properties `OutDelivered`, `InDelivered`,
`DataStageEnds`, `RequestEnds`, `CallReturns`, `CallbackComes` and
`HungBoardRestarts`, since the prover has no rule for fairness and `ENABLED`; and the
properties that the runs of section 4 refute.

## 6. Not modelled

Within the modelled drivers:

* USB: shutdown and re-initialisation; the starvation of data endpoints by a
  pending EP0 OUT flag, which nothing clears (`udc_elan_elandev.c:1597`; whether it
  starves them depends on the interrupt being a pulse or a level, which the
  sources do not say); the buffer pool and its failures, with the second release
  of the status buffer (1236) and of the failed data buffer (599), the
  NULL test of the wrong buffer (556), and the data pointer that does not advance
  in `feed_dout` (584). A control write of more than one packet therefore has its
  control modelled, not the place of its bytes. Coarser than the code: `XferAddress`,
  `XferConfigured` and `XferWakeup` look at the first buffer, take it, submit it and
  write the state (1132-1186) in one step, although a SETUP interrupt may release
  that buffer in between; `TellSuspended` sets the state and submits the event (1166,
  1167) in one, and the events of suspend and resume reach the stack at once; a host
  ends a control read without the OUT status packet, which would set the EP0 OUT
  flag.
* SPI: a receive timeout raised after the status was read, which the last write of
  the handler (738) clears as well: here the interrupt stays raised while words are
  in the RX FIFO, and with the runs' trigger of one word the timeout is not needed;
  slave mode, DMA mode and the polled build; calls that mix synchronous and
  asynchronous; transfers without any word.
* SHA: the interrupt build; the inner waits for READY, which have no timeout (343,
  650); the padding bytes an unaligned chunk inserts, which `gaps` excepts;
  the Kconfig options for chunk and preallocation size, which nothing uses.
* Watchdog: two overlapping calls of `install_timeout`, whose test and three writes
  (204-222) are one step.
* Battery-backed RAM: the sum of offset and size in the range check (407) wraps for
  offsets close to 2^32, and such a write passes; here it is a sum of naturals. Reads
  and the size, which change no state;
  `em32_bbram_check_invalid` never finds its flag clear.

Outside: what the table of section 1 calls straight-line or polled; samples,
boards and copied headers. The greatest part of the repository by lines is
vendor material under `em32f967_spec` (mbed TLS, test programs, tables), which
is not part of the drivers and is not modelled; measured against all lines of the
repository the share covered is therefore small, and cannot be otherwise.

## 7. Plan

1. `Flash`: read, write and erase under the semaphore, the range checks with their
   width, the key sequence and what a failed erase leaves armed.
2. GPIO and clock registers: read-modify-write from threads and callbacks.
3. `SpiEm32` with DMA; recovery from an overrun; an abstract bus-owner
   specification that the context's lock refines.
4. `UdcControl` composed with `UdcDataEp` over the message queue, with shutdown.
5. Proofs: the fields that `spi_context_complete` uses when synchronous and
   asynchronous calls meet on one context; what holds of `SpiEm32` with chunks that
   get shorter; the lemmas on sequences that `UdcPipe_proofs` and `UdcControl_proofs`
   each state for themselves, in a module of their own.
