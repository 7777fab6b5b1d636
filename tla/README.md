# Verification of the Linux port for the Dingoo A320

The repository ports Linux 2.6.24.3, U-Boot 1.1.6 and a few tools to the Dingoo
A320, a hand-held built on the Ingenic JZ4740 (MIPS, one processor). Nearly all
of it is the vendored kernel and boot loader. This project is about the code
that makes up the port: the drivers of the board, the boot chain and the tools.
The configuration is `arch/mips/configs/a320_defconfig`: no kernel preemption,
no SMP, no `CONFIG_PM`.

Paths below are relative to `linux-2.6.24.3/` unless they name another tree.

## 1. Inventory

| Component | Source | State it keeps | Operations | Hard behaviour | Module |
|---|---|---|---|---|---|
| Keyboard driver | `drivers/input/keyboard/jz_gpio_keys.c` | three button words, slider state and counter | `jz_kbd_poll` every 20 ms | each mode compares with the word of its own, possibly old, last poll; a counter compared for equality; SysRq work that pdflush may drop | `GpioKeys` |
| OSS audio, playback | `sound/oss/jz_i2s.c` | three buffer queues, DMA channel, fragment layout | open, write, ioctl, release, DMA interrupt | process and interrupt hand buffers over; `sleep_on`; drain with a timeout; queues freed and built again; data cache | `I2sReplay`, `AudioFifo` |
| OSS audio, recording | the same file | the three queues in the other direction | open, read, release, DMA interrupt | both sides restart the DMA, each relying on the other; overrun; stale cache lines | `I2sRecord`, `AudioFifo` |
| OSS audio, arithmetic | the same file, `arch/mips/jz4740/dma.c` | format, channels, filler, fragment size | ioctl, write, fillers | byte, sample and DMA unit counts that must agree | `I2sFill` |
| SD/MMC host | `drivers/mmc/host/jz_mmc.c` | request in progress, interrupt mask, DMA channels, slot flag | request, data interrupt, card detect interrupt | interrupts nest and send commands of their own; cards move in mid-transfer; retries | `JzMmc` |
| USB device controller, data endpoints | `drivers/usb/gadget/jz4740_udc.c` | endpoint queues, halt flags, two DMA channels | enable, disable, queue, dequeue, halt, interrupt | completion callbacks and `setup()` re-enter the driver; interrupt words read once; two endpoints share a channel | `Udc` |
| Interrupt dispatch | `arch/mips/jz4740/irq.c`, `kernel/irq/` | remembered lines, masks, descriptors | dispatch, ack, end, request, free, disable, enable | handlers nest; a remembered line whose source is gone; pins share a line | `IrqDispatch` |
| IPU memory manager | `arch/mips/jz4740/proc.c`, `/proc/jz/imem` | sorted list of ranges, last address | allocate, free, free all, read | `kmalloc` sleeps between search and insertion | `Imem` |
| mininit | `mininit/init.c` (own tree) | mounts, loop devices, parameters | mount with retries, loop setup, root switch, exec | late devices, one step of several failing, a buffer edited in place | `Mininit` |
| LZW decoder of the boot logo | `hwinit/lzw.c` (own tree) | code forest, bit position | `lzw_decode` | in-place reversal of a parent chain; growing code width | `Lzw`, `LzwReference` |
| USB control endpoint, DMA channel table, battery ADC, mixer, frame buffer, NAND, cpufreq, suspend, nandfix, hwinit, gp2xmb, U-Boot board files | see `PROJECT.json` | | | | not modelled, section 8 |

How they interact. The audio and MMC drivers own DMA channels and are called
back through the DMA interrupt. The keyboard driver calls into the input core,
SysRq and pdflush. The MMC driver is called by the MMC core, which it calls back
from its interrupt handlers. The USB driver is called by a gadget driver, which
it calls back from its interrupt handler and from its own entry points. All
handlers reach the drivers through `irq.c`; only the audio handlers ask for
`IRQF_DISABLED`, so only they do not nest.

What makes each component correct:

* Keyboard: the input core never disagrees with the driver about which keys are
  down; the machine is rebooted only by an uninterrupted hold, and then always;
  a button that is held asks for its SysRq request once.
* Playback and recording: no buffer is lost or shared, nothing is stranded,
  fragments pass once and in order, every call returns, the cache and the DMA see
  the same samples.
* Arithmetic: what is stored fits, what is sent is what was stored, what is
  offered is what can be written.
* MMC: the host structure, interrupt mask and channels belong to the request in
  progress; success means that data has moved; requests return.
* USB: every accepted request is given back exactly once, and given back in the
  end; nothing is written to a request that was given back as complete.
* Interrupts: handlers do not re-enter, no irq stays masked, every request is
  answered and the processor gets back to the program.
* Memory manager: ranges are disjoint, and what is announced can be had.
* mininit: init gets the root, the boot mount and the parameters that were asked
  for, from the first device of each list that was there in time.
* LZW: the output is what the codes mean.

`PROJECT.json` lists the hazards at their lines and the properties aimed at them.

## 2. Modules and their correspondence with the code

**`GpioKeys`** (`MCGpioKeys` for TLC, `GpioKeysProofs`). The variables are the
fields of `struct jz_kbd` (`normal_state`, `special_state`, `sysrq_state`,
`power_state`, `power_count`), the key bits of the input device (`key`), and
what SysRq drives, the pdflush threads (`worker`). What a thread does to the file
systems (`fs/super.c`) is not in the model. `Poll(s, p)` is one call of `jz_kbd_poll` with the
buttons `s` and the slider `p`; nothing restricts the samples. Its three
branches are `PollNormal`, `PollSysrq` and `PollSpecial`. A forced reboot sets
`machine` and does not return; `Restart` is the reset that follows. `alone` (polls
of slider and no button in a row) and `held` (buttons down in every poll since they
made their request) are history variables, `tick` makes every poll a visible step.

**`I2sReplay`** (`AudioFifo` is its abstract specification, `I2sReplayProofs`).
The three queues are sequences of buffer ids. The process is a program counter
that stops between any two queue operations, because the interrupt may come
there; each queue operation disables interrupts and is one step, and so is the
interrupt handler. `write` is `Write, Check, SleepOn, Get, Queue, WriteBack,
Kick, Pull, PutBusy, StartDma` in the order of the code, `drain_dac` is `Drain`
to `DrainDone`, `release` ends in `ReleaseDisable`, SETFRAGMENT is `SetFragment`
(the queues are freed), half a second, and `InitQueues` (which may fail, and the
result is ignored). The external `DmaEnd` ends a transfer. `cached` is the
fragment whose samples are still in the data cache; a transfer that was started
on it (`early`) may have sent the old samples of the buffer first (`torn`). The
contents in `Short` are fragments of a few bytes, the last ones of their writes:
only their transfers can be over before a running process gets to `sleep_on`. `pc = "oops"` stands for the
use of queues that do not exist; nothing is said of what follows. The constant
`EarlySetfrag` says whether programs set the layout before they write, as the
OSS interface demands.

**`I2sRecord`** (`I2sRecordProofs`) has the same shape for `jz_audio_read`, `drain_adc` and the
record interrupt, and the same abstract specification with the codec as the
writer and the program as the listener. The first `read` puts all buffers to work
and always sleeps (`Read`, `StartDma`, `Woken`). `lines` are the buffers with
lines in the data cache, which the copy loads and the interrupt invalidates.

**`I2sFill`** (proofs in `I2sReplayProofs`). Integers only: the bytes `write` takes per fragment, what the
fillers store and count, the units `set_dma_count` programs. Formats, channels
and fragment sizes are set in any order between two writes.

**`JzMmc`** (`MCJzMmc` for TLC, `JzMmcProofs`). `mrq`, `cmd`, `data` are the
fields of the host structure. The process goes through `Request`, `PollEnds`,
`Status`, `Setup`, `Return`; the data interrupt is `MscIrq`, and when it sends a
stop command it polls inside the handler (`PollEnds`, `StopStatus`). Card
detection is `DetectIrq` (the pin is read) and `DetectArm` (the edge is selected,
the flag cleared). `stack` holds the handlers that have been entered and not
left: the process runs when it is empty, a handler when it is the innermost.
`CardMoves` may happen at any time. `rx` and `tx` tell the channel of the current
request ("mine") from one left enabled by an earlier one ("old"); `moved` says
whether the data went through the request's own channel, through an old one
("astray"), or not at all. `failed` (did the last request of each direction fail or
go astray) and `steady` (no card has moved inside its own detect handler, and none
came while a command was sent) are history variables.

**`Udc`** (`MCUdc` for TLC, `UdcProofs`). Endpoints are indices into `dev->ep[]`; `queue`,
`stopped` and `desc` are their fields, `chan` the two DMA channels, `intr` the
interrupt words of the controller and `snap` the copy the handler works on. The
gadget driver is free to call every operation at any time from process context
and, inside the handler, from `setup()`; `QueueCheck` and `QueueLocked` are the
two halves of `jz4740_queue` before and after the lock. Completion callbacks may
queue again (`Retired`). The host resets, sends short and empty packets and sets or
clears halts. `Left` is what `read_fifo` leaves in the OUT FIFO: it acknowledges a
packet only if it found room for bytes of it, and computes the room from the
address register of channel 2, which may still be that of another request.

**`IrqDispatch`** (`Jz4740Proofs`). `req` are the requests of devices and the flags of pins,
`mask` the masked irqs and lines, `desc` the descriptors of the genirq layer,
`intc_ipr` the static word of `plat_irq_dispatch`, `stack` the nested handlers.
`Exception` reads the pending register and picks a line, `Dispatch` finds the irq
behind it (for a port without a flag, the last irq of the port below) and enters
`__do_IRQ`; `Body`, `HandleAgain` and `EndHandler` are the loop around
`handle_IRQ_event`. `owed` is a history variable: requests no handler run has
started after.

**`Imem`** (`Jz4740Proofs`). `list` is the list of ranges in pages, `choice` the range a program
has found and not entered yet because it sleeps in `kmalloc`. Gaps are unsigned
differences, which matters once ranges overlap.

**`Mininit`** (`MCMininit` for TLC, `MininitProofs`). A command line is a sequence of parameters
with tokens; the commas are part of the state, because `_multimount` overwrites
and restores them. `NewPass` is one of the retries. `Appear` is a device that the
kernel detects; every fatal step may fail.

**`Lzw`** (`LzwProofs`). The decoder step by step on its node table.
**`LzwReference`** extends it with a reference that knows no nodes: the bit
stream, its codes, the string of a code. It uses recursive operators and carries
no theorems; the run is one of this module.

## 3. What the runs check

The distinct states are those of one passing run each. The type invariant of a
module is a conjunct of one of its invariants (in `JzMmc`, of
`SilenceIsAnError`); all of them are proved for every instance.

| Run | Checks | States |
|---|---|---|
| `gpio_keys` | `KeyMirror`, `HeldAsksOnce`, `ForcedRebootOnlyHeld`, `HeldReboots` | 33856 |
| `i2s_replay` | `BuffersConserved`, `PlaybackDriven`, `DrainHearsAll`, `StaleOnlyInWindow`, `NoStrangeInterrupt`, `CallsReturn`, refinement of `AudioFifo` with its liveness (`FifoLive`) | 241927 |
| `i2s_record` | `BuffersConserved`, `PausesOnlyIfFull`, `FreshRead`, refinement of `AudioFifo` (`RecordFifo`), `ReadReturns` | 26651 |
| `i2s_fill` | `SpaceIsHonest`, `FitsUnlessMono8`, `FragmentsSentWhole` | 9733 |
| `mmc` | `NoWarning`, `DmaIsOwn`, `SuccessIsReal`, `SilenceIsAnError`, `SteadyRequestsReturn`, `SteadySlotFollowsCard` | 175014 |
| `udc` | `GivenBackOnce`, `CompletedIsStill`, `LostOnlyThus`, `GivenBackEventually` | 227138 |
| `irq` | `NoReentry`, `NotLeftMasked`, `Answered`, `ProcessResumes` | 97930 |
| `imem` | `AnnouncedIsFree`, `OverlapOnlyIfRaced` | 889809 |
| `lzw` | `DecodesReference`, `ChainsRestored` | 463000 |
| `mininit` | `HandOver`, `GivesUpOnlyIfNone`, `EarlierFirst` | 1205048 |

`gpio_keys`. The state words may be arbitrarily old when a mode is entered
again, yet no press or release is lost or reported twice. A running counter is
stopped by the user or ends in a restart. A button that is held makes its SysRq
request once (`HeldAsksOnce`), also when polls in other modes come in between, which
leave `sysrq_state` alone; the price is that a button released and pressed again
during such polls is not seen as pressed.

`i2s_replay`. The race between the writer that finds the DMA busy and the
interrupt that finds nothing to send strands no fragment (`PlaybackDriven`,
`FifoLive`). The wake-up between the check of the empty queue and `sleep_on` can
be lost, but with at least two fragments another interrupt follows: the fragment
that its handler started takes milliseconds and ends after the process is asleep.
With one fragment `CallsReturn` fails, which is what the lower clamp of SETFRAGMENT
is good for. A fragment of a few bytes, the end of an earlier write, can end in the
same window; the second wake-up is lost too and nothing is left to wake the writer.
TLC reaches this state, and `CallsReturn` names it as its one exception: a writer
asleep, the channel idle, and a short fragment the last one heard since the check.
The two reads of `drain_dac` at different times never
miss a fragment. A drain that has expired is made good by `disable_dma`. The DMA
can run on samples that are still in the cache, but only while the process is
between `put_buffer_id` and the end of the loop of `dma_cache_wback_inv`, and only if
nothing else was queued. The refinement accounts for it: fragments are heard once
and in order, but one that was started early may be torn (`MayTear` of `AudioFifo`,
which recording does without).

`i2s_record`. Reader and interrupt both restart the recording; it pauses only
when every buffer is full and goes on in order. The same lost wake-up as in
playback is harmless for the same reason.

`i2s_fill`. Except in 8-bit mono a fragment fits its buffer, and GETOSPACE is
exact. Only the end of a write can be cut to whole DMA units.

`mmc`. The process and two nested interrupt handlers share one host structure,
but no command overlaps another, and a request that reads has the receive channel
to itself. Nothing disables a channel when a request fails: `DmaIsOwn` says that a
channel is left enabled for a request that has returned only if that was the last
one of its direction and failed (or sent its data astray), and `SuccessIsReal` what
follows from it: a write that succeeds has sent its own buffer unless the write
before it failed. While the card is steady, requests return and `mmc_slot_enable`
follows the card.

`udc`. Every accepted request is given back exactly once, whatever the gadget
driver does, also when the interrupt that is served belongs to an earlier
transfer. An endpoint with requests stops being driven in four ways only
(`LostOnlyThus`): a halt is cleared or the endpoint enabled with requests on its
queue; the other IN endpoint takes channel 1; a first request is queued behind a
short packet whose interrupt is over; `read_fifo` completes the head and leaves the
packet, of length zero or without room, in front of the next request's data. Where
none of them happens and the host keeps up, every request is given back in the end.

`irq`. Nesting, misdirected dispatch and masked neighbours on a port neither
lose a request nor leave an irq masked. The edge that a handler drops when it
re-arms its pin is not counted as a request (`Answered`).

`imem`. The first-fit search, the sorted insertion and the announced order agree
with a definition by runs of free pages. The list is damaged only by an
allocation that slept while the list was changed.

`lzw`. For every source of up to five words the output is that of the reference,
and between two codes the dictionary spells the entries of the reference; the
loops over reversed chains end because the one goes strictly down and the other
strictly up.

`mininit`. For every command line of `MCMininit` and every time at which devices
appear, init finds what was asked for. The parameters it gets are those of the
table `_mkparam` builds, with every comma put back; what the table cannot hold is
part of its last parameter.

### Findings

Two runs end in a violation. Each states what a comment or message of the source
says, and shows that the code does otherwise.

| Run | Property | Where | What happens |
|---|---|---|---|
| `i2s_replay_setfrag` | `NoStrangeInterrupt` | `jz_i2s.c:2352` | SETFRAGMENT during playback frees the queues under the DMA |
| `mmc_insert` | `RequestsReturn` | `jz_mmc.c:454` | an unanswered data command counts as answered if the slot flag is set by then |

Seen while reading and modelling, without a run of its own:

* Keyboard: KEY_POWER is not in `keybit`, so the input core ignores the power key
  (`jz_gpio_keys.c:153`, against `README-A320:65`); a special key stays down when
  the slider is released before the button (143); sync and remount are only
  queued when the forced reboot resets the machine (157 to 159), and dropped without
  a word when no pdflush thread is idle (`mm/pdflush.c:209`).
* Playback: a fragment is queued before it is written back from the cache
  (`jz_i2s.c:2688`, against `Documentation/DMA-API.txt:248`; `StaleOnlyInWindow`
  bounds the effect); 8-bit mono expands to twice the fragment size (2665); a
  final fragment of fewer than 16 bytes programs a DMA count of zero (304,
  `dma.c:437`); the result of `Init_In_Out_queue` is ignored (2357, in the model
  as `pc = "oops"`); a write before format and channels were ever set calls a NULL
  filler (2686); two processes that share the file share `controller->tmp1` across
  a sleep (2667); a blocking write can hang for ever when two wake-ups come between
  the look at the empty queue and `sleep_on` (2676 to 2680), which takes a fragment of
  a few bytes (2683; the exception of `CallsReturn`).
* Recording: the first `read` sleeps even with `O_NONBLOCK` or a count of 0; the
  rest of a fragment the program has not asked for is dropped.
* MMC: a failed write leaves the transmit channel enabled (`jz_mmc.c:566` to 604),
  and the next write goes out with DMA on (451) before its own channel is set up
  (486): it may send the old buffer and succeed; a card-detect edge between reading the pin and arming is lost
  (`jz_mmc.c:689`); a wrong response CRC is reported for CID and CSD only (543);
  CMD6 may go out with the argument of the command before (433); a data phase has
  no software timeout (559); `dma_unmap_sg` is called with fields that are never
  set.
* USB: CLEAR_FEATURE uses the endpoint number as an index into a table that is not
  ordered by it, so the host cannot end a halt of ep1in (`jz4740_udc.c:1745`,
  against `include/linux/usb/gadget.h:314-316`; the model keeps the expression);
  both IN endpoints share channel 1 (538); requests queued while an endpoint is
  halted or disabled are not started later (1158); a short packet that came before
  its request is not announced again (925); `set_halt` selects the endpoint before
  it takes the lock (1247); a zero-length packet completes a request but is not
  acknowledged (671), and neither is a packet for which the address register of an
  earlier request leaves no room (660; in the model as `Left`).
* Interrupts: a pin armed before its irq is requested would be dispatched for ever
  if its port were shared (`jz_mmc.c:849`; `UsersAssumption` rules it out, as on
  the board); an edge while an irq is disabled is dropped
  (`kernel/irq/manage.c:181`).
* Memory manager: after the race of `OverlapOnlyIfRaced` two programs own the same
  pages (`proc.c:660`); a failed `kmalloc` is reported as success (661); the
  address is read by a second system call from a global (785); `imem_free_all`
  reads an entry after freeing it (732).
* mininit: the last parameter that fits the table swallows the rest of the line
  (`init.c:227`, in `HandOver`); the value of `init=` is copied without a bound
  other than that of the kernel's command line (399).
* LZW: nothing bounds the node table (`lzw.c:77`).
* Attach and error paths: `jz_mmc_probe` and the I2S attach function free DMA
  channels they do not own or keep those they do (`jz_mmc.c:897`,
  `jz_i2s.c:1278`); `get_dma_chan` accepts one channel too many (`dma.h:195`).
* Battery: two readers share one ready flag, and a timeout returns the data
  register as if it were valid (`jz_sadc.c:160`, 162).

## 4. Bounds

* `GpioKeys`: three of twelve buttons, chosen so that every kind of table entry
  is there (all three codes; no special code; a remount and a reboot request), 4
  instead of 250 polls to the reboot and 2 instead of 100 to the power key: the
  counter is only compared for equality with the two. Two pdflush threads, so that
  a sync and a remount can run at once and the case "none is idle" happens.
* `I2sReplay`: two or three fragments, writes of at most two, requests of 0 to 4
  (below, inside and above the clamps), two different contents. Three fragments
  put one in each queue; two contents, one of them short, show a change of order.
* `I2sRecord`: three fragments, reads of at most two, two contents.
* `I2sFill`: page size and fragment sizes are those of the source; the byte
  counts lie around the fragment boundaries of all formats (a fragment is 4096 to
  32768 bytes of the program), including odd ones and ones below a DMA unit.
* `JzMmc`: one request of each kind the driver tells apart, with 0 to 2 retries;
  cards move without a bound. Reads and writes come with and without stop.
* `Udc`: the three data endpoints with the requests of `MCUdc`; `MaxCalls` bounds
  the calls of `queue()` that are interrupted at once, `Halting` names the
  endpoints that are ever halted.
* `IrqDispatch`: one level device, one DMA channel and three pins on two ports
  (`Users`), of which two are requested and freed at run time (`Late`) and one
  arms itself again (`Rearming`); handlers nest two deep and devices raise three
  requests, enough for one to arrive in each phase of another's handler.
* `Imem`: two programs, four pages, lists of up to three entries before an
  allocation; four pages already give gaps that are no power of two.
* `Lzw`: two symbols, words of 4 bits and first codes of 2 bits, so that codes
  cross words, end at word boundaries and grow wider within the five words.
* `Mininit`: two devices and a loop device, three tries, a table for three
  parameters, so that a command line can overflow it.

## 5. Fairness

* `GpioKeys`: the work queue polls again and the watchdog expires. What is sampled
  is free, and no pdflush thread has to end what it does.
* `I2sReplay`, `I2sRecord`: a running process is scheduled, transfers end,
  interrupts are delivered. No call has to be made. Between the check of the queue
  and `sleep_on` the transfer of a whole fragment that was started in that window
  does not end: it plays for milliseconds and the process is not preempted. That of
  a short fragment may. Recorded fragments are always whole.
* `JzMmc`: interrupts that are pending and unmasked are taken, and the
  controller reports the end of every data phase, if only by its read timeout
  (the driver has no timer of its own, so it relies on that). The steps of the
  process and of the polling handler are strongly fair: interrupts preempt them
  again and again, but a card is moved by hand and does not keep the processor.
* `Udc`: interrupts that are pending are served to the end, and the host keeps up
  (`HostKeepsUp`): it sends the data that an armed OUT request waits for and collects
  that of an IN request. The driver has no timer, so with an idle host a request
  rightly waits for ever. Nothing is asked of the gadget driver.
* `IrqDispatch`: the processor goes on (`WF(Cpu)`); devices raise only
  `MaxRaises` requests, so that they are quiet in the end.

`I2sFill`, `Imem`, `Lzw` and `Mininit` are about safety only.

## 6. Proofs

All proofs are for every value of the constants that satisfies the named
assumptions (`TableAssumption`, `CountAssumption`, `FragAssumption`,
`RecordAssumption`, `FillAssumption`, `RequestAssumption`, `UdcAssumption`,
`NumbersAssumption`, `UsersAssumption`, `ImemAssumption`, `PowersAssumption`,
`MininitAssumption`, `LzwAssumption`), which TLC evaluates in the runs.
`PowersAssumption` asks nothing of the program: it states that 2^n is twice
2^(n-1), because the provers have no theory of powers. The last conjunct of
`LzwAssumption` bounds the source: what 32-bit pointers reach has too few codes to
outgrow a code of 32 bits.

| Module | Theorem | States |
|---|---|---|
| `GpioKeysProofs` | `Invariance` | `KeyMirror`, the types, `CountIsAlone` |
| | `RebootHeld`, `HeldOnce` | `ForcedRebootOnlyHeld`, `HeldAsksOnce` |
| `I2sReplayProofs` | `QueuesCorrect` | `BuffersConserved`, `PlaybackDriven`, `NoStrangeInterrupt`, `OopsOnlyIfAllocFailed` |
| | `CacheWindow`, `DrainComplete` | `StaleOnlyInWindow`, `DrainHearsAll` |
| | `ReplayImplementsFifo` | playback implements `AudioFifo` (safety) |
| | `SpaceHonest`, `FragmentsRight` (of `I2sFill`) | `SpaceIsHonest`, `FitsUnlessMono8`, `FragmentsSentWhole` |
| `I2sRecordProofs` | `RecordCorrect` | `BuffersConserved`, `PausesOnlyIfFull`, `FreshRead` |
| | `RecordImplementsFifo` | recording implements `AudioFifo` (`RecordFifo`) |
| `JzMmcProofs` | `HostOwnership`, `SilenceFails` | `NoWarning`, `DmaIsOwn`, `SuccessIsReal`, `SilenceIsAnError` |
| `UdcProofs` | `RequestsSafe`, `LostWays` | `GivenBackOnce`, `CompletedIsStill`, `LostOnlyThus` |
| `Jz4740Proofs` | `DispatchSound` (of `IrqDispatch`) | `NoReentry`, `NotLeftMasked` |
| | `AnnouncedRight`, `OverlapRaced` (of `Imem`) | `AnnouncedIsFree`, `OverlapOnlyIfRaced` |
| `MininitProofs` | `HandedOver` | `HandOver` |
| | `ListsTried`, `OrderKept` | `GivesUpOnlyIfNone`, `EarlierFirst` |
| `LzwProofs` | `LoopsSafe` | `ChainsRestored` |
| | `PointersTurnedBack` | between two codes every node has the parent it was given |

The arguments, and the invariants that had to be found:

* **`GpioKeysProofs`**. The conjunction of `Invariance` is inductive as it is: the
  bound on the counter in `TypeOK` needs `CountIsAlone`, and the power pulse needs
  that KEY_POWER is not in the table. The core is the lemma `Toggle`: the events
  of one poll over an injective column of codes turn the mirror of the old buttons
  into that of the new ones and leave the other column alone. `HeldOnce` needs
  `HeldKnown`: a button that is held since its request is in `sysrq_state`, which no
  poll of another mode touches.
* **`I2sReplayProofs`**, under `EarlySetfrag` (without it the queue theorem is
  false, which `i2s_replay_setfrag` shows). None of the properties is inductive
  alone. `Control` adds what the place of the process says: from `pull` to `start`
  the process is the one that drives playback, so queue and channel are idle; a
  closed device has an idle channel; before the first write nothing is queued,
  which is why SETFRAGMENT is harmless then; after a failed allocation nothing is
  ever queued. `Cached` (the cache holds samples only between copying and
  write-back) gives `CacheWindow`, and `Drained` (after the look at
  `out_full_queue` nothing is queued any more, and a drain that saw the last
  transfer end leaves at most its interrupt) gives `DrainComplete`.
* **The refinements**. The abstract queue is what the buffer of the running transfer
  and those of `out_full_queue` hold, in that order (for recording: the filled
  buffers and the one whose transfer has ended). Accepting a fragment is `put_buffer_id`, not the
  copy; hearing it is the end of the transfer; a close drops what is left. Every
  other step is a stutter, which needs the invariant of the queues: a buffer that
  is written to is in no queue, so no fragment changes after it was accepted, and with a buffer in the
  writer's hand there is room for one more fragment.
  Playback also needs `Filled`: what is queued came from the program.
* **`I2sRecordProofs`**. `Control` is the counterpart of the one for playback.
  `Paused` weakens `PausesOnlyIfFull` to the states in which the reader is about to
  restart the DMA; `Coherent` extends `FreshRead` to the buffer that is being
  filled.
* **`I2sFill`** in `I2sReplayProofs`, for every page size that is a multiple of 16 and all byte
  counts. `FillerFollows` relates the filler to format and channels whatever the
  order in which they were set, `Cutting` says that inside the loop of
  `jz_audio_write` a full fragment is what is copied.
* **`JzMmcProofs`**, for all requests and whatever the card does. The invariant
  tells apart a host at rest (`AtRest`) and the three phases of a request
  (`InProgress`): command polled by the process, data awaited with the interrupt
  unmasked, stop command polled by the handler. `Transfer` says where the data is,
  `Channels` how the state of a channel follows from how the last request of its
  direction ended.
  On the way: `InterruptHasData`, `CompletedIsForgotten`. `SilenceFails` adds
  `DetectInvariant`: while the card is steady the slot flag follows the pin outside
  the card detect handler, and between a poll nobody answered and the look at the
  flag the slot is empty.
* **`UdcProofs`**, for any requests. `Listed` (queues and status words agree),
  `Apart` (a request that `queue()` has checked is on no queue until the lock is
  taken), `OutChannel`, `InChannel` (what channel 1 announces is for an endpoint it
  names) make `RequestsSafe` inductive. `LostWays` needs a second invariant of what
  the interrupt words announce: `Unbound` (no endpoint is enabled without a
  driver), `Halted` (an endpoint that stalls is stopped), `Stalled` (a stall that
  was sent is announced by its endpoint's bit, so that acknowledging it from
  channel 1's interrupt leaves another to come) and `ShortAnnounced` (a short
  packet that `read_fifo` leaves in the FIFO because the DMA filled the head's
  buffer still has its own interrupt: this rests on the order in which the handler
  serves the bits; only when that interrupt itself is the one served can the packet
  be left unannounced, which is the fourth way).
* **`IrqDispatch`** in `Jz4740Proofs`, for every layout of lines, channels and ports. The two
  properties together are inductive. The lemmas are about the search of `Dispatch`
  for the irq behind a line and about the two levels of masks.
* **`Imem`** in `Jz4740Proofs`, for any memory and any number of programs. `Chosen`: as long as
  nobody has changed the list, what a program has found before it sleeps is free.
  The lemmas show that the first-fit search returns a free range or none exists,
  that sorted insertion keeps the list sorted and disjoint, and that the largest
  order announced is the largest that fits.
* **`MininitProofs`**, for every command line, devices and number of tries. `Types`
  bounds the tries and relates what was ready at the start of a pass to what is
  ready now (devices do not go away). `Parameters`: after every step the table is
  exactly the one `mkparam` built, so `_multimount` has put back every comma it
  overwrote, whichever way it left the list, and init gets the parameters as they were cut. `Passing`: inside
  `_multimount` the list is the first of its kind, and what was passed over could
  not be mounted when the pass began. `Mounted` and `Executed` say what is mounted
  and run at each place of `main`. `mkparam` is a recursive function over the
  tokens; that it exists is proved by the least number at which it would not.
* **`LzwProofs`**, for any alphabet and widths. The decoder turns the pointers of a
  chain around to read it from its head and turns them back while it prints it. A
  property of the parents alone is not inductive in between, so the invariant
  (`Chain`) says that there is a tree of parents `f` and a set `R` of reversed
  nodes, each of which points to its child in the chain; outside `R` the pointers are
  those of `f`. The second loop ends with `R` empty, because the least node of `R`
  would have a parent in `R`. `Spent` counts the bits that were read against the
  nodes that were added, which bounds the width of a code by that of a word; that
  powers of two are positive and grow comes from the cardinality of power sets. For
  `PointersTurnedBack` a history variable (`tree`) records the parent each node was
  given, and the same invariant holds with it as `f`.

Where a proof argues by induction over numbers (`IrqDispatch`, `Imem`, `Mininit`, `Lzw`), it takes
the least counterexample, which exists because the order of the naturals is well
founded.

Only model-checked:

* liveness (`HeldReboots`, `CallsReturn`, `FifoLive` beyond its safety part,
  `ReadReturns`, `SteadyRequestsReturn`, `SteadySlotFollowsCard`,
  `GivenBackEventually`, `Answered`, `ProcessResumes`): the prover does not reason
  about fairness;
* `DecodesReference` of `LzwReference`: what a recursive definition computes for
  every input needs induction over data, and the bits of a code are quotients and
  remainders by powers of two, for which the provers have no theory.

## 7. Plan

Done: all modules of section 2, and the proofs above, which cover every safety
property of the runs but `DecodesReference`. Next: a second process that shares the
open file in `I2sReplay`, where both use `controller->tmp1` across a sleep.

## 8. Not modelled

* The control endpoint of the USB controller: `jz4740_handle_ep0` reacts to bits
  whose order the controller decides (SETUPEND against OUTPKTRDY, what a new SETUP
  does to a packet in the FIFO) and the source does not show; a model would be one
  of the controller. What a control transfer does to the data endpoints is in
  `Udc`.
* The DMA channel table: searched and cleared in one step each; the drivers
  request their channels once, at boot, one after the other.
* The battery ADC: one poll of a ready flag.
* The mixer and codec callbacks: they write volume and power registers and keep no
  protocol state.
* Frame buffer, NAND and cpufreq drivers, hwinit and the U-Boot board files:
  they program registers in a straight line and have no protocol between actors
  that the source would let one state. The ECC and page ordering of NAND lives in
  the vendored MTD layer.
* Suspend, watchdog, I2C and touch panel: not configured for the A320.
* nandfix and gp2xmb: a sequential file tool and an SDL menu from elsewhere.
* The vendored kernel and boot loader, except where a driver's step goes through
  them: the input core, SysRq, pdflush, `sleep_on`, `mmc_request_done`,
  `mmc_wait_for_req`, `__do_IRQ` and the irq management functions.
* In the modelled drivers: log messages, delays, autorepeat, codec registers,
  `set_ios`, `probe` and `remove`, the PIO variants of the MMC and USB drivers,
  and a sound device open for both directions at once.
