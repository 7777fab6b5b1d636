------------------------------ MODULE I2sRecord ------------------------------
(***************************************************************************)
(* The recording half of the OSS driver (sound/oss/jz_i2s.c), with the     *)
(* device open for reading: jz_audio_read, the record DMA interrupt, and   *)
(* the release of the device, which share the three in_*_queues.           *)
(*                                                                         *)
(* The queue operations run with interrupts off and are one step each; the *)
(* DMA channel and its interrupt come between any two of them.  The kernel *)
(* is uniprocessor and not preemptible.  The fragment layout is fixed: the *)
(* ioctl that changes it is part of I2sReplay.                             *)
(***************************************************************************)
EXTENDS Integers, Sequences, FiniteSets, Functions

CONSTANTS
    Data,       \* what the codec may deliver in one fragment
    Frags,      \* jz_audio_fragstotal
    MaxRead     \* bound: most fragments one read() asks for

NoData == "silence"
None == -1          \* what get_buffer_id returns for an empty queue

\* SNDCTL_DSP_SETFRAGMENT grants no fewer than two fragments.
ASSUME RecordAssumption ==
    /\ Frags \in Nat /\ Frags >= 2 /\ MaxRead \in Nat
    /\ NoData \notin Data

VARIABLES
    empty, full, busy,  \* in_empty_queue, in_full_queue, in_busy_queue
    content,            \* the samples in each DMA buffer
    lines,              \* the buffers that the data cache holds lines of
    opened,             \* controller->opened2
    nonblock,           \* O_NONBLOCK in file->f_flags
    first,              \* first_record_call
    pc, left, id,       \* the process: where it is, and its local variables
    initial,            \* it is in the part of read() for the first call
    dma,                \* the buffer the enabled DMA channel fills, or None
    te,                 \* transmit end: the transfer is over, interrupt pending
    recent,             \* the transfer started after the last check of full
    taken               \* the last fragment that read() took

queueVars == <<empty, full, busy>>
fileVars  == <<opened, nonblock, first>>
procVars  == <<left, id, initial>>
vars == <<queueVars, content, lines, fileVars, pc, procVars, dma, te, recent, taken>>

Ids == 0 .. Frags - 1
PC == {"idle", "check", "sleep_on", "asleep", "woken", "get", "put", "kick", "pull", "busy",
       "start", "copy", "drain", "disable"}

\* Ids 0 .. n-1 in order: what Init_In_Out_queue and jz_audio_open store.
AllIds == [i \in 1..Frags |-> i - 1]

Init ==
    /\ empty = AllIds /\ full = <<>> /\ busy = <<>>
    /\ content = [i \in Ids |-> NoData] /\ lines = {}
    /\ opened = FALSE /\ nonblock = FALSE /\ first = FALSE
    /\ pc = "idle" /\ left = 0 /\ id = None /\ initial = FALSE
    /\ dma = None /\ te = FALSE /\ recent = FALSE /\ taken = NoData

-----------------------------------------------------------------------------
(* jz_audio_open.                                                          *)

\* MUTANT: what an earlier program left unread stays in the queues.
OpenKeepsQueues ==
    /\ pc = "idle" /\ ~opened
    /\ opened' = TRUE /\ nonblock' \in BOOLEAN /\ first' = TRUE
    /\ UNCHANGED <<queueVars, content, lines, pc, procVars, dma, te, recent, taken>>

\* jz_audio_open for reading.
Open ==
    /\ pc = "idle" /\ ~opened
    /\ opened' = TRUE /\ nonblock' \in BOOLEAN /\ first' = TRUE
    /\ empty' = AllIds /\ full' = <<>> /\ busy' = <<>>
    /\ UNCHANGED <<content, lines, pc, procVars, dma, te, recent, taken>>

\* Another program opens the device and gets EBUSY, even while the first one
\* sleeps in read().
OpenBusy ==
    /\ opened /\ pc \in {"idle", "asleep"}
    /\ UNCHANGED vars

-----------------------------------------------------------------------------
(* jz_audio_read.                                                          *)

\* The test of the loop: fragments the caller still wants.
Again(n) == IF n > 0 THEN "check" ELSE "idle"

\* The first read() since the device was opened starts the recording, even if
\* it asks for nothing.
Read(n) ==
    /\ pc = "idle" /\ opened
    /\ left' = n
    /\ first' = FALSE /\ initial' = first
    /\ pc' = IF first THEN "pull" ELSE Again(n)
    /\ UNCHANGED <<queueVars, content, lines, opened, nonblock, id, dma, te, recent, taken>>

\* elements_in_queue(&in_full_queue) <= 0: give up or go to sleep.
Check ==
    /\ pc = "check"
    /\ pc' = IF full # <<>> THEN "get" ELSE IF nonblock THEN "idle" ELSE "sleep_on"
    /\ recent' = FALSE
    /\ UNCHANGED <<queueVars, content, lines, fileVars, procVars, dma, te, taken>>

\* sleep_on: the process is on rx_wait_queue from here on.
SleepOn ==
    /\ pc = "sleep_on"
    /\ pc' = "asleep"
    /\ UNCHANGED <<queueVars, content, lines, fileVars, procVars, dma, te, recent, taken>>

\* The first call goes on to its loop, the loop to get_buffer_id.
Woken ==
    /\ pc = "woken"
    /\ pc' = IF initial THEN Again(left) ELSE "get"
    /\ initial' = FALSE
    /\ UNCHANGED <<queueVars, content, lines, fileVars, left, id, dma, te, recent, taken>>

\* get_buffer_id(&in_full_queue) and record_filler, which reads the buffer
\* through the cache; back to the check if the queue is empty after all.
Get ==
    /\ pc = "get"
    /\ IF full = <<>>
         THEN pc' = "check" /\ UNCHANGED <<full, id, lines, taken>>
         ELSE /\ id' = Head(full) /\ full' = Tail(full)
              /\ lines' = lines \cup {Head(full)}
              /\ taken' = content[Head(full)]
              /\ pc' = "put"
    /\ UNCHANGED <<empty, busy, content, fileVars, left, initial, dma, te, recent>>

\* MUTANT: a buffer is given back only while the recording is running.
PutIfBusy ==
    /\ pc = "put"
    /\ empty' = IF busy = <<>> THEN empty ELSE Append(empty, id)
    /\ pc' = "kick"
    /\ UNCHANGED <<full, busy, content, lines, fileVars, procVars, dma, te, recent, taken>>

\* put_buffer_id(&in_empty_queue, id).
Put ==
    /\ pc = "put"
    /\ empty' = Append(empty, id)
    /\ pc' = "kick"
    /\ UNCHANGED <<full, busy, content, lines, fileVars, procVars, dma, te, recent, taken>>

\* MUTANT: only a reader that has read everything starts the recording again.
KickIfNone ==
    /\ pc = "kick"
    /\ pc' = IF busy = <<>> /\ full = <<>> THEN "pull" ELSE "copy"
    /\ UNCHANGED <<queueVars, content, lines, fileVars, procVars, dma, te, recent, taken>>

\* MUTANT: the interrupt alone is left to go on with the recording.
KickNever ==
    /\ pc = "kick"
    /\ pc' = "copy"
    /\ UNCHANGED <<queueVars, content, lines, fileVars, procVars, dma, te, recent, taken>>

\* elements_in_queue(&in_busy_queue) == 0: the recording has stopped.
Kick ==
    /\ pc = "kick"
    /\ pc' = IF busy = <<>> THEN "pull" ELSE "copy"
    /\ UNCHANGED <<queueVars, content, lines, fileVars, procVars, dma, te, recent, taken>>

\* get_buffer_id(&in_empty_queue).  The first call tries until it gets one.
Pull ==
    /\ pc = "pull"
    /\ IF empty = <<>>
         THEN pc' = (IF initial THEN "pull" ELSE "copy") /\ UNCHANGED <<empty, id>>
         ELSE id' = Head(empty) /\ empty' = Tail(empty) /\ pc' = "busy"
    /\ UNCHANGED <<full, busy, content, lines, fileVars, left, initial, dma, te, recent, taken>>

\* put_buffer_id(&in_busy_queue, id).
PutBusy ==
    /\ pc = "busy"
    /\ busy' = Append(busy, id)
    /\ pc' = "start"
    /\ UNCHANGED <<empty, full, content, lines, fileVars, procVars, dma, te, recent, taken>>

\* dma_cache_wback_inv and audio_start_dma.  The first call goes to sleep
\* without looking at in_full_queue or at O_NONBLOCK.
StartDma ==
    /\ pc = "start"
    /\ lines' = lines \ {id}
    /\ dma' = id /\ te' = FALSE /\ recent' = TRUE
    /\ pc' = IF initial THEN "sleep_on" ELSE "copy"
    /\ UNCHANGED <<queueVars, content, fileVars, procVars, taken>>

\* copy_to_user, which may fail and end the call.
Copy ==
    /\ pc = "copy"
    /\ left' = left - 1
    /\ pc' \in {Again(left - 1), "idle"}
    /\ UNCHANGED <<queueVars, content, lines, fileVars, id, initial, dma, te, recent, taken>>

-----------------------------------------------------------------------------
(* The DMA channel and its interrupt.                                      *)

\* The buffer is filled and the interrupt is raised.  A transfer that started
\* after the check of in_full_queue does not end before sleep_on: it takes
\* milliseconds, the window is a few instructions, and the process cannot be
\* preempted.
DmaEnd ==
    /\ dma # None /\ ~te
    /\ ~(pc = "sleep_on" /\ recent)
    /\ te' = TRUE
    /\ \E d \in Data : content' = [content EXCEPT ![dma] = d]
    /\ UNCHANGED <<queueVars, lines, fileVars, pc, procVars, dma, recent, taken>>

\* MUTANT: the cache is left as the last read() made it.
InvalidatedNot(b) == lines

\* dma_cache_wback_inv on the buffer that is sent next.
Invalidated(b) == lines \ {b}

\* jz_i2s_record_dma_irq.
RecordIrq ==
    /\ te
    /\ te' = FALSE
    /\ full' = Append(full, IF busy = <<>> THEN None ELSE Head(busy))
    /\ pc' = IF pc = "asleep" THEN "woken" ELSE pc          \* wake_up(&rx_wait_queue)
    /\ IF empty # <<>>
         THEN /\ busy' = Append(IF busy = <<>> THEN <<>> ELSE Tail(busy), Head(empty))
              /\ empty' = Tail(empty)
              /\ lines' = Invalidated(Head(empty))
              /\ dma' = Head(empty) /\ recent' = TRUE
         ELSE /\ busy' = <<>>
              /\ dma' = None
              /\ UNCHANGED <<empty, lines, recent>>
    /\ UNCHANGED <<content, fileVars, procVars, taken>>

-----------------------------------------------------------------------------
(* jz_audio_release, with drain_adc.                                       *)

Release ==
    /\ pc = "idle" /\ opened
    /\ opened' = FALSE /\ first' = TRUE
    /\ pc' = "drain"
    /\ UNCHANGED <<queueVars, content, lines, nonblock, procVars, dma, te, recent, taken>>

\* drain_adc ends after one look at the residue (O_NONBLOCK), when it is 0, or
\* after MAXDELAY looks: at any time, as far as the DMA channel can tell.
Drain ==
    /\ pc = "drain"
    /\ pc' = "disable"
    /\ UNCHANGED <<queueVars, content, lines, fileVars, procVars, dma, te, recent, taken>>

\* disable_dma returns once the transfer has ended or its poll has expired;
\* nothing can interrupt what follows.
ReleaseDisable ==
    /\ pc = "disable"
    /\ dma' = None /\ te' = FALSE
    /\ pc' = "idle"
    /\ UNCHANGED <<queueVars, content, lines, fileVars, procVars, recent, taken>>

-----------------------------------------------------------------------------
Process ==
    \/ Check \/ SleepOn \/ Woken \/ Get \/ Put \/ Kick \/ Pull \/ PutBusy \/ StartDma \/ Copy
    \/ Drain \/ ReleaseDisable

Call == Open \/ OpenBusy \/ Release \/ \E n \in 0..MaxRead : Read(n)

Next == Call \/ Process \/ DmaEnd \/ RecordIrq

Spec == Init /\ [][Next]_vars

\* A running process is scheduled, transfers end and interrupts are delivered;
\* nothing is asked of the program.
LiveSpec ==
    /\ Spec
    /\ WF_vars(Process)
    /\ WF_vars(DmaEnd)
    /\ WF_vars(RecordIrq)

-----------------------------------------------------------------------------
(* Properties.                                                             *)

\* The queues, the cache and the DMA channel name buffers that exist, also when
\* an interrupt arrives late.
TypeOK ==
    /\ empty \in Seq(Ids) /\ full \in Seq(Ids) /\ busy \in Seq(Ids)
    /\ content \in [Ids -> Data \cup {NoData}] /\ lines \subseteq Ids
    /\ opened \in BOOLEAN /\ nonblock \in BOOLEAN /\ first \in BOOLEAN
    /\ pc \in PC /\ left \in 0..MaxRead /\ id \in Ids \cup {None} /\ initial \in BOOLEAN
    /\ dma \in Ids \cup {None} /\ te \in BOOLEAN /\ recent \in BOOLEAN
    /\ taken \in Data \cup {NoData}

\* The buffer that the process has taken from one queue and not put into another.
InHand == IF pc \in {"put", "busy"} THEN {id} ELSE {}

\* The queues name buffers that exist, and while the device is open every buffer
\* is in exactly one place, so the DMA never fills a buffer that read() is
\* copying or that is yet to be read.
BuffersConserved ==
    /\ TypeOK
    /\ \A q \in {empty, full, busy} : IsInjective(q)
    /\ opened => Range(empty) \cup Range(full) \cup Range(busy) \cup InHand = Ids
    /\ Range(empty) \cap (Range(full) \cup Range(busy)) = {}
    /\ Range(full) \cap Range(busy) = {}
    /\ InHand \cap (Range(empty) \cup Range(full) \cup Range(busy)) = {}

\* Once it was started, recording pauses only when every buffer holds sound that
\* was not read, and it goes on as soon as the reader has given one of them back
\* (jz_audio_read and jz_i2s_record_dma_irq each restart it, and each relies on
\* the other to do it).
PausesOnlyIfFull ==
    opened /\ ~first /\ dma = None =>
        \/ Len(full) + Cardinality(InHand) = Frags
        \/ pc \in {"kick", "pull", "busy", "start"}

\* What read() is about to take is what the DMA stored: no line of the buffer has
\* been in the data cache since the DMA was started on it.
FreshRead == Range(full) \cap lines = {}

\* The fragments recorded and not taken by read(), oldest first.
Unread ==
    IF opened THEN LET q == full \o (IF te THEN <<dma>> ELSE <<>>)
                   IN  [i \in DOMAIN q |-> content[q[i]]]
              ELSE <<>>

Fifo == INSTANCE AudioFifo WITH
            pending <- Unread, heard <- taken, Capacity <- Frags, Silence <- NoData,
            MayTear <- FALSE, torn <- FALSE

\* The driver implements the fragment queue of AudioFifo: read() takes what was
\* recorded since the device was opened, each fragment once and in order.
RecordFifo == Fifo!Safety

\* read() and the release of the device return, although the wake-up between the
\* look at in_full_queue and sleep_on is lost.
ReadReturns == pc # "idle" ~> pc = "idle"
=============================================================================
