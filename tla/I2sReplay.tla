------------------------------ MODULE I2sReplay ------------------------------
(***************************************************************************)
(* Playback in the OSS driver of the JZ4740 audio controller               *)
(* (sound/oss/jz_i2s.c, built with CONFIG_SOC_JZ4740 and CONFIG_I2S_ICODEC *)
(* on a uniprocessor without kernel preemption).                           *)
(*                                                                         *)
(* Every DMA buffer has an id, and the ids travel through three queues:    *)
(* out_empty_queue -> the writer fills it -> out_full_queue ->             *)
(* out_busy_queue, whose head the DMA controller is sending to the codec   *)
(* -> out_empty_queue.  The queues are shared by the process in            *)
(* jz_audio_write, jz_audio_ioctl or jz_audio_release and by the DMA       *)
(* interrupt, which may come between any two queue operations of the       *)
(* process; each queue operation is atomic (spin_lock_irqsave), and so is  *)
(* the interrupt handler (IRQF_DISABLED).                                  *)
(*                                                                         *)
(* A fragment's samples are one member of Data: what the fillers compute   *)
(* does not change the control flow.  The last fragment of a write() holds *)
(* what is left and may be shorter than the others: that changes how long  *)
(* its transfer takes.                                                     *)
(***************************************************************************)
EXTENDS Integers, Sequences, Functions

CONSTANTS
    Data,           \* what a program may write into one fragment
    Short,          \* those of them that fill only a part of it
    MaxFrags,       \* most fragments SNDCTL_DSP_SETFRAGMENT grants (source: 32)
    DefaultFrags,   \* JZCODEC_RW_BUFFER_TOTAL (source: 4)
    MaxWrite,       \* bound: most fragments one write() fills
    MaxRequest,     \* bound: largest fragment count a program asks for
    EarlySetfrag    \* TRUE: programs set the fragment layout before they write

NoData == "silence"
None == -1          \* what get_buffer_id returns for an empty queue

ASSUME FragAssumption ==
    /\ MaxFrags \in Nat /\ DefaultFrags \in 2..MaxFrags
    /\ MaxWrite \in Nat /\ MaxRequest \in Nat
    /\ EarlySetfrag \in BOOLEAN
    /\ Short \subseteq Data /\ NoData \notin Data

VARIABLES
    empty, full, busy,  \* out_empty_queue, out_full_queue, out_busy_queue
    content,            \* the samples in each DMA buffer
    memory,             \* the queue arrays and buffers: ok, freed, or not there
                        \* since an allocation failed
    fragstotal,         \* jz_audio_fragstotal
    opened,             \* controller->opened1
    nonblock,           \* O_NONBLOCK in file->f_flags
    cached,             \* the buffer whose samples are still in the data cache
    pc, left, id, want, \* the process: where it is, and its local variables
    drain,              \* which call drains, and did the drain time out?
    wrote,              \* the program has written since it opened the device
    dma,                \* the buffer the enabled DMA channel sends, or None
    te,                 \* transmit end: the transfer is over, interrupt pending
    recent,             \* the transfer started after the last check of empty
    early,              \* the transfer was started before the write-back
    heard,              \* the last fragment sent to the codec
    torn,               \* its first samples were the old ones of the buffer
    strange             \* a "Strange DMA finish interrupt" has been seen

queueVars == <<empty, full, busy>>
procVars  == <<cached, left, id, want, drain, wrote>>
fileVars  == <<memory, fragstotal, opened, nonblock>>
dmaVars   == <<dma, te, recent, early, heard, torn>>
vars == <<queueVars, content, fileVars, pc, procVars, dmaVars, strange>>

Ids == 0 .. MaxFrags - 1
PC == {"idle", "check", "sleep_on", "asleep", "get", "queue", "wback", "kick", "pull",
       "busy", "start", "drain", "residue", "drained", "disable", "mdelay", "oops"}

\* Ids 0 .. n-1 in order: what Init_In_Out_queue and jz_audio_open store.
AllIds(n) == [i \in 1..n |-> i - 1]

Init ==
    /\ empty = AllIds(DefaultFrags) /\ full = <<>> /\ busy = <<>>
    /\ content = [i \in Ids |-> NoData]
    /\ memory = "ok" /\ fragstotal = DefaultFrags
    /\ opened = FALSE /\ nonblock = FALSE
    /\ pc = "idle" /\ cached = None /\ left = 0 /\ id = None /\ want = DefaultFrags
    /\ drain = [call |-> "sync", expired |-> FALSE]
    /\ wrote = FALSE
    /\ dma = None /\ te = FALSE /\ recent = FALSE /\ early = FALSE
    /\ heard = NoData /\ torn = FALSE
    /\ strange = FALSE

-----------------------------------------------------------------------------
(* Opening the device and the calls that only set a flag.                  *)

\* jz_audio_open for writing.
Open ==
    /\ pc = "idle" /\ ~opened
    /\ opened' = TRUE
    /\ nonblock' \in BOOLEAN
    /\ wrote' = FALSE
    /\ empty' = AllIds(fragstotal) /\ full' = <<>> /\ busy' = <<>>
    /\ pc' = IF memory = "ok" THEN "idle" ELSE "oops"
    /\ UNCHANGED <<content, memory, fragstotal, cached, left, id, want, drain, dmaVars, strange>>

\* Another program opens the device and gets EBUSY, even while the first one
\* sleeps in write().
OpenBusy ==
    /\ opened /\ pc \in {"idle", "asleep"}
    /\ UNCHANGED vars

\* ioctl SNDCTL_DSP_NONBLOCK.
SetNonblock ==
    /\ pc = "idle" /\ opened
    /\ nonblock' = TRUE
    /\ UNCHANGED <<queueVars, content, memory, fragstotal, opened, pc, procVars,
                   dmaVars, strange>>

-----------------------------------------------------------------------------
(* jz_audio_write.                                                         *)

Write(n) ==
    /\ pc = "idle" /\ opened
    /\ left' = n
    /\ wrote' = TRUE
    /\ pc' = "check"
    /\ UNCHANGED <<queueVars, content, fileVars, cached, id, want, drain, dmaVars, strange>>

\* elements_in_queue(&out_empty_queue) == 0: give up or go to sleep.
Check ==
    /\ pc = "check"
    /\ pc' = IF empty # <<>> THEN "get" ELSE IF nonblock THEN "idle" ELSE "sleep_on"
    /\ recent' = FALSE
    /\ UNCHANGED <<queueVars, content, fileVars, procVars, dma, te, early, heard, torn,
                   strange>>

\* sleep_on: the process is on the wait queue from here on.
SleepOn ==
    /\ pc = "sleep_on"
    /\ pc' = "asleep"
    /\ UNCHANGED <<queueVars, content, fileVars, procVars, dmaVars, strange>>

\* get_buffer_id(&out_empty_queue) and replay_filler; back to the check if
\* the queue is empty after all.  Only the last fragment may be a short one.
Get ==
    /\ pc = "get"
    /\ IF empty = <<>> \/ Head(empty) = None
         THEN /\ pc' = "check" /\ UNCHANGED <<id, cached, content>>
         ELSE /\ pc' = IF memory = "ok" THEN "queue" ELSE "oops"
              /\ id' = Head(empty) /\ cached' = Head(empty)
              /\ \E d \in Data : /\ d \in Short => left = 1
                               /\ content' = [content EXCEPT ![Head(empty)] = d]
    /\ empty' = IF empty = <<>> THEN <<>> ELSE Tail(empty)
    /\ UNCHANGED <<full, busy, fileVars, left, want, drain, wrote, dmaVars, strange>>

\* Where the loop of jz_audio_write goes after the fragment it has queued.
Again(n) == IF n > 0 THEN "check" ELSE "idle"

\* MUTANT: only a write that fills the last buffer starts the DMA.
QueueKicksLast ==
    /\ pc = "queue"
    /\ full' = Append(full, id)
    /\ left' = left - 1
    /\ pc' = IF empty = <<>> THEN "wback" ELSE Again(left - 1)
    /\ UNCHANGED <<empty, busy, content, fileVars, cached, id, want, drain, wrote,
                   dmaVars, strange>>

\* put_buffer_id(&out_full_queue, id).
Queue ==
    /\ pc = "queue"
    /\ full' = Append(full, id)
    /\ left' = left - 1
    /\ pc' = "wback"
    /\ UNCHANGED <<empty, busy, content, fileVars, cached, id, want, drain, wrote,
                   dmaVars, strange>>

\* MUTANT: a fragment is written back only if it is the last of the call.
WriteBackLast ==
    /\ pc = "wback"
    /\ cached' = IF left = 0 THEN None ELSE cached
    /\ pc' = "kick"
    /\ UNCHANGED <<queueVars, content, fileVars, left, id, want, drain, wrote, dmaVars, strange>>

\* dma_cache_wback_inv: the samples reach the memory that the DMA reads.
WriteBack ==
    /\ pc = "wback"
    /\ cached' = None
    /\ pc' = "kick"
    /\ UNCHANGED <<queueVars, content, fileVars, left, id, want, drain, wrote, dmaVars, strange>>

\* elements_in_queue(&out_busy_queue) == 0: nobody else will start the DMA.
Kick ==
    /\ pc = "kick"
    /\ pc' = IF busy = <<>> THEN "pull" ELSE Again(left)
    /\ UNCHANGED <<queueVars, content, fileVars, procVars, dmaVars, strange>>

\* get_buffer_id(&out_full_queue).
Pull ==
    /\ pc = "pull"
    /\ IF full = <<>>
         THEN /\ pc' = Again(left) /\ UNCHANGED <<full, id>>
         ELSE /\ pc' = "busy" /\ id' = Head(full) /\ full' = Tail(full)
    /\ UNCHANGED <<empty, busy, content, fileVars, cached, left, want, drain, wrote,
                   dmaVars, strange>>

\* put_buffer_id(&out_busy_queue, id).
PutBusy ==
    /\ pc = "busy"
    /\ busy' = Append(busy, id)
    /\ pc' = "start"
    /\ UNCHANGED <<empty, full, content, fileVars, procVars, dmaVars, strange>>

\* audio_start_dma: with interrupts off, so one step.
StartDma ==
    /\ pc = "start"
    /\ dma' = id /\ te' = FALSE /\ recent' = FALSE
    /\ early' = (id = cached)
    /\ pc' = Again(left)
    /\ UNCHANGED <<queueVars, content, fileVars, procVars, heard, torn, strange>>

-----------------------------------------------------------------------------
(* The DMA channel and its interrupt.                                      *)

\* The transfer ends: the residue is 0 and the interrupt is raised.  A full
\* fragment that the interrupt started after the check of out_empty_queue does
\* not end before sleep_on: it takes milliseconds, the window is a few
\* instructions, and the process cannot be preempted.  A short one may.  What
\* is heard are the samples of the writer, all of them if they had been written
\* back when the transfer started; else its first bursts may be old ones.
DmaEnd ==
    /\ dma # None /\ ~te /\ pc # "oops"
    /\ ~(pc = "sleep_on" /\ recent /\ content[dma] \notin Short)
    /\ te' = TRUE
    /\ heard' = content[dma]
    /\ torn' \in {FALSE, early}
    /\ early' = FALSE
    /\ UNCHANGED <<queueVars, content, fileVars, pc, procVars, dma, recent, strange>>

\* MUTANT: the finished buffer is given back only if another one is sent.
ReplayIrqLeaks ==
    /\ te /\ pc # "oops"
    /\ te' = FALSE
    /\ strange' = (strange \/ busy = <<>>)
    /\ IF full # <<>>
         THEN /\ empty' = Append(empty, IF busy = <<>> THEN None ELSE Head(busy))
              /\ busy' = Append(IF busy = <<>> THEN <<>> ELSE Tail(busy), Head(full))
              /\ full' = Tail(full)
              /\ dma' = Head(full)
         ELSE /\ busy' = <<>>
              /\ dma' = None
              /\ UNCHANGED <<empty, full>>
    /\ recent' = TRUE
    /\ early' = (full # <<>> /\ Head(full) = cached)
    /\ pc' = IF memory # "ok" THEN "oops" ELSE IF pc = "asleep" THEN "get" ELSE pc
    /\ UNCHANGED <<content, fileVars, procVars, heard, torn>>

\* jz_i2s_replay_dma_irq.
ReplayIrq ==
    /\ te /\ pc # "oops"
    /\ te' = FALSE
    /\ strange' = (strange \/ busy = <<>>)
    /\ empty' = Append(empty, IF busy = <<>> THEN None ELSE Head(busy))
    /\ IF full # <<>>
         THEN /\ busy' = Append(IF busy = <<>> THEN <<>> ELSE Tail(busy), Head(full))
              /\ full' = Tail(full)
              /\ dma' = Head(full)
         ELSE /\ busy' = <<>>
              /\ dma' = None
              /\ UNCHANGED full
    /\ recent' = TRUE
    /\ early' = (full # <<>> /\ Head(full) = cached)
    /\ pc' = IF memory # "ok" THEN "oops"
             ELSE IF pc = "asleep" THEN "get" ELSE pc   \* wake_up(&tx_wait_queue)
    /\ UNCHANGED <<content, fileVars, procVars, heard, torn>>

-----------------------------------------------------------------------------
(* drain_dac, for SNDCTL_DSP_SYNC and for the release of the device.       *)

Drain(call) ==
    /\ pc = "idle" /\ opened
    /\ drain' = [call |-> call, expired |-> FALSE]
    /\ pc' = "drain"
    /\ UNCHANGED <<queueVars, content, fileVars, cached, left, id, want, wrote, dmaVars, strange>>

\* Only a blocking drain counts to MAXDELAY and gives up.
DrainExpires ==
    /\ pc = "drain" /\ ~nonblock
    /\ drain' = [drain EXCEPT !.expired = TRUE]
    /\ pc' = "drained"
    /\ UNCHANGED <<queueVars, content, fileVars, cached, left, id, want, wrote, dmaVars, strange>>

DrainCheck ==
    /\ pc = "drain"
    /\ pc' = IF full = <<>> THEN "residue" ELSE "drain"
    /\ UNCHANGED <<queueVars, content, fileVars, procVars, dmaVars, strange>>

\* MUTANT: an empty out_full_queue is enough.
DrainNoResidue ==
    /\ pc = "residue"
    /\ pc' = "drained"
    /\ UNCHANGED <<queueVars, content, fileVars, procVars, dmaVars, strange>>

\* get_dma_residue(ctrl->dma1).
DrainResidue ==
    /\ pc = "residue"
    /\ pc' = IF dma = None \/ te THEN "drained" ELSE "drain"
    /\ UNCHANGED <<queueVars, content, fileVars, procVars, dmaVars, strange>>

\* The transmit FIFO runs empty; SYNC returns, release goes on.
DrainDone ==
    /\ pc = "drained"
    /\ pc' = IF drain.call = "release" THEN "disable" ELSE "idle"
    /\ UNCHANGED <<queueVars, content, fileVars, procVars, dmaVars, strange>>

\* MUTANT: release trusts drain_dac and leaves the channel on.
ReleaseKeepsDma ==
    /\ pc = "disable"
    /\ opened' = FALSE
    /\ pc' = "idle"
    /\ UNCHANGED <<queueVars, content, memory, fragstotal, nonblock, procVars, dmaVars, strange>>

\* jz_audio_release: disable_dma returns once the transfer has ended or its
\* poll has expired; nothing can interrupt what follows.
ReleaseDisable ==
    /\ pc = "disable"
    /\ dma' = None /\ te' = FALSE /\ early' = FALSE
    /\ opened' = FALSE
    /\ pc' = "idle"
    /\ UNCHANGED <<queueVars, content, memory, fragstotal, nonblock, procVars,
                   recent, heard, torn, strange>>

-----------------------------------------------------------------------------
(* ioctl SNDCTL_DSP_SETFRAGMENT.                                           *)

\* MUTANT: one fragment is enough.
ClampOne(t) == IF t < 1 THEN 1 ELSE IF t > MaxFrags THEN MaxFrags ELSE t

Clamp(t) == IF t < 2 THEN 2 ELSE IF t > MaxFrags THEN MaxFrags ELSE t

\* Free_In_Out_queue: the arrays go, the count of out_empty_queue stays.  A
\* layout equal to the present one is a stutter; the fragment size may differ
\* even if the count does not.
SetFragment(t) ==
    /\ pc = "idle" /\ opened
    /\ EarlySetfrag => ~wrote
    /\ want' = Clamp(t)
    /\ memory' = "freed"
    /\ empty' = AllIds(fragstotal) /\ full' = <<>> /\ busy' = <<>>
    /\ pc' = "mdelay"
    /\ UNCHANGED <<content, fragstotal, opened, nonblock, cached, left, id, drain, wrote,
                   dmaVars, strange>>

\* Init_In_Out_queue after the half second of mdelay.  Its result is ignored:
\* the call returns 0 even if an allocation failed.
InitQueues ==
    /\ pc = "mdelay"
    /\ fragstotal' = want
    /\ memory' \in {"ok", "failed"}
    /\ empty' = AllIds(want) /\ full' = <<>> /\ busy' = <<>>
    /\ pc' = "idle"
    /\ UNCHANGED <<content, opened, nonblock, procVars, dmaVars, strange>>

-----------------------------------------------------------------------------
Process ==
    \/ Check \/ SleepOn \/ Get \/ Queue \/ WriteBack \/ Kick \/ Pull \/ PutBusy \/ StartDma
    \/ DrainExpires \/ DrainCheck \/ DrainResidue \/ DrainDone \/ ReleaseDisable
    \/ InitQueues

Call ==
    \/ Open \/ OpenBusy \/ SetNonblock
    \/ \E n \in 1..MaxWrite : Write(n)
    \/ \E call \in {"sync", "release"} : Drain(call)
    \/ \E t \in 0..MaxRequest : SetFragment(t)

\* The kernel has used a queue that does not exist; nothing is said of the rest.
Oops == pc = "oops" /\ UNCHANGED vars

Next == Call \/ Process \/ DmaEnd \/ ReplayIrq \/ Oops

Spec == Init /\ [][Next]_vars

\* A running process is scheduled, transfers end and interrupts are delivered.
LiveSpec ==
    /\ Spec
    /\ WF_vars(Process)
    /\ WF_vars(DmaEnd)
    /\ WF_vars(ReplayIrq)

-----------------------------------------------------------------------------
(* Properties.                                                             *)

\* The buffer that the process holds between two queue operations.
InHand == IF pc \in {"queue", "busy"} THEN {id} ELSE {}

\* Queues, flags and program counters are well formed; in particular the fragment
\* count of jz_audio_ioctl stays between 2 and MaxFrags.
TypeOK ==
    /\ empty \in Seq(Ids \cup {None}) /\ full \in Seq(Ids) /\ busy \in Seq(Ids)
    /\ content \in [Ids -> Data \cup {NoData}]
    /\ memory \in {"ok", "freed", "failed"}
    /\ fragstotal \in 2..MaxFrags /\ want \in 2..MaxFrags
    /\ opened \in BOOLEAN /\ nonblock \in BOOLEAN
    /\ pc \in PC /\ left \in 0..MaxWrite /\ id \in Ids \cup {None}
    /\ cached \in Ids \cup {None}
    /\ drain \in [call : {"sync", "release"}, expired : BOOLEAN]
    /\ wrote \in BOOLEAN
    /\ dma \in Ids \cup {None} /\ te \in BOOLEAN /\ recent \in BOOLEAN
    /\ early \in BOOLEAN /\ heard \in Data \cup {NoData} /\ torn \in BOOLEAN
    /\ strange \in BOOLEAN

\* The three queues and the process share the buffers out among them: no
\* buffer is in two places (the writer would overwrite what the DMA sends), and
\* none is lost (playback would run out of buffers).
BuffersConserved ==
    pc # "oops" =>
        /\ Range(empty) \cup Range(full) \cup Range(busy) \cup InHand = 0 .. fragstotal - 1
        /\ IsInjective(empty) /\ IsInjective(full) /\ IsInjective(busy)
        /\ Range(empty) \cap (Range(full) \cup Range(busy)) = {}
        /\ Range(full) \cap Range(busy) = {}
        /\ InHand \cap (Range(empty) \cup Range(full) \cup Range(busy)) = {}

\* The DMA sends the one buffer of out_busy_queue, and while the device is open
\* somebody drives playback: a busy buffer is being sent or is about to be, and
\* a full one waits for the interrupt of a busy one or for the process that has
\* just queued it.  No fragment is stranded by the race between the process
\* that finds the DMA busy and the interrupt that finds nothing to send.
PlaybackDriven ==
    /\ dma # None => busy = <<dma>>
    /\ opened => /\ busy # <<>> => dma # None \/ pc = "start"
                 /\ full # <<>> => busy # <<>> \/ pc \in {"wback", "kick", "pull", "busy"}

\* The buffers accepted and not sent to the codec, oldest first, and their samples.
Pending ==
    (IF pc = "busy" THEN <<id>> ELSE <<>>) \o (IF te THEN <<>> ELSE busy) \o full

Unheard == IF opened THEN [i \in DOMAIN Pending |-> content[Pending[i]]] ELSE <<>>

\* A drain that did not time out has left nothing unheard, although it looks at
\* out_full_queue and at the DMA residue at two different times.
DrainHearsAll ==
    pc \in {"drained", "disable"} /\ ~drain.expired => Unheard = <<>>

\* jz_audio_write puts a fragment into out_full_queue before it writes it back
\* from the data cache, so the DMA interrupt may start on it too early and send
\* old samples.  This happens at most from the put_buffer_id to the end of the
\* dma_cache_wback_inv behind it, and only to a fragment that nothing else was
\* queued before: anywhere else in the write loop, and whoever starts the
\* transfer, the samples of the running transfer are in memory.
StaleOnlyInWindow == dma # None /\ dma = cached => pc = "wback" /\ full = <<>>

\* Every DMA interrupt finds the buffer it is about in out_busy_queue.
NoStrangeInterrupt == ~strange

\* Only after a failed allocation are the queues used while they do not exist:
\* no interrupt comes while SNDCTL_DSP_SETFRAGMENT has them freed.
OopsOnlyIfAllocFailed == pc = "oops" => memory = "failed"

\* The driver implements the fragment queue of AudioFifo: fragments are heard
\* once each and in order, if not always whole (StaleOnlyInWindow).
Fifo == INSTANCE AudioFifo WITH
            pending <- Unheard, Capacity <- MaxFrags, Silence <- NoData, MayTear <- TRUE

FifoSafety == Fifo!Safety

\* What was accepted goes on being heard until the device is closed.
FifoLive == Fifo!Spec

\* write(), the SYNC ioctl and the release of the device return.  The one call
\* that may not is a write() whose last wake-ups came between its check of
\* out_empty_queue and sleep_on, the very last one from a short fragment that
\* was started and had ended in between.
CallsReturn ==
    pc # "idle" ~> \/ pc \in {"idle", "oops"}
                   \/ pc = "asleep" /\ dma = None /\ recent /\ heard \in Short
=============================================================================
