-------------------------------- MODULE JzMmc --------------------------------
(***************************************************************************)
(* The SD/MMC host driver, drivers/mmc/host/jz_mmc.c, in the a320 build    *)
(* (USE_DMA, CONFIG_JZ_MMC_BUS_1).  One process at a time has claimed the  *)
(* host; it starts a request, polls for the response of the command and    *)
(* waits for the completion.  The controller's interrupt ends the data     *)
(* phase and may itself send the stop command; the card detect interrupt   *)
(* keeps mmc_slot_enable.  Interrupt handlers run with interrupts enabled, *)
(* so they nest.  Payloads, clocks and bus width bits are left out.        *)
(***************************************************************************)
EXTENDS Naturals, Sequences

CONSTANTS
    Requests,       \* requests of the MMC core: [op, data, stop, retries]
    NoReq           \* a NULL mmc_request

Ops == {"plain", "r3", "cid", "sdio", "width", "switch", "read", "write"}

\* Only mmc_wait_for_cmd sets retries, and its requests have no data; the core
\* sends data with CMD24/25, CMD17/18 and the data form of CMD6.
ASSUME RequestAssumption ==
    /\ Requests \subseteq [op : Ops, data : {"none", "read", "write"},
                           stop : BOOLEAN, retries : Nat]
    /\ NoReq \notin Requests
    /\ \A r \in Requests :
        /\ r.data = "none" => ~r.stop
        /\ r.data # "none" => r.retries = 0
        /\ r.data = "write" <=> r.op = "write"
        /\ r.data = "read" <=> r.op \in {"read", "switch"}

VARIABLES
    mrq, cmd, data,     \* host->mrq; host->cmd: "none", "main" or "stop"; host->data # NULL
    retries, cerr, derr,\* mrq->cmd->retries, mrq->cmd->error, mrq->data->error
    unmasked,           \* IMASK lets DATA_TRAN_DONE interrupt
    completed,          \* the completion mmc_wait_for_req waits for
    opcode,             \* opcode of the process's command (its argument cmd)
    proc, msc,          \* where the process and the controller's interrupt are
    stack,              \* the interrupt handlers entered and not left, innermost last
    answer,             \* how the last command sent ended
    hw,                 \* data phase: "idle", "data", and its end: "ok", "timeout", "crc"
    rx, tx,             \* DMA channels: "off", armed for "mine", or still for an "old" request
    moved,              \* data of the current request: moved from and to its "own" buffer,
                        \* some of it "astray" through an old channel, or "no"
    failed,             \* history: how the last read and write before this request ended
    warned,             \* WARN_ON(host->cmd != NULL) has fired
    card, edge, flag,   \* the card detect pin, the edge that interrupts, the pending flag
    level, slot,        \* the pin as read by the handler; mmc_slot_enable
    steady              \* history: no card moved inside its handler or came during a command

host == <<mrq, cmd, data, retries, cerr, derr, completed, warned>>
hardware == <<unmasked, answer, hw, rx, tx, moved, failed>>
detect == <<card, edge, flag, level, slot, steady>>
vars == <<host, opcode, hardware, detect, proc, msc, stack>>

Ended == {"ok", "timeout", "crc"}

\* The DMA channel that a command with opcode op uses.
Dir(op) == IF op = "write" THEN "write" ELSE IF op \in {"read", "switch"} THEN "read" ELSE "none"

\* The last request that used channel d and has returned failed, or its data
\* went astray.
LastFailed(d) ==
    IF completed /\ Dir(opcode) = d
      THEN ~(cerr = "ok" /\ derr = "ok" /\ moved = "own")
      ELSE failed[d]

\* After jz_mmc_probe.
Init ==
    /\ mrq = NoReq /\ cmd = "none" /\ data = FALSE /\ retries = 0
    /\ cerr = "ok" /\ derr = "ok" /\ completed = TRUE /\ warned = FALSE
    /\ unmasked = FALSE /\ answer = "ok" /\ hw = "idle"
    /\ rx = "off" /\ tx = "off" /\ moved = "no"
    /\ failed = [d \in {"read", "write"} |-> FALSE]
    /\ proc = "idle" /\ msc = "off" /\ stack = <<>> /\ opcode = "plain"
    /\ card \in BOOLEAN /\ slot = card /\ level = card /\ flag = FALSE /\ steady = TRUE
    /\ edge = IF card THEN "removal" ELSE "insertion"

\* The process runs when no handler does, a handler when it is the innermost.
Running(c) == IF c = "proc" THEN stack = <<>>
              ELSE stack # <<>> /\ stack[Len(stack)] = c
Leave == stack' = SubSeq(stack, 1, Len(stack) - 1)
Handling(h) == \E i \in DOMAIN stack : stack[i] = h

-----------------------------------------------------------------------------
(* jz_mmc_start_cmd up to the poll, jz_mmc_request, jz_mmc_finish_request. *)

\* Stop the clock, mask, clear status, send.  c is the caller, x the command,
\* pending the value of host->cmd on entry.
start_cmd(c, x, pending) ==
    /\ cmd' = x
    /\ warned' = (warned \/ pending # "none")
    /\ unmasked' = FALSE /\ hw' = "idle"
    /\ IF c = "proc" THEN proc' = "poll" /\ UNCHANGED msc
                     ELSE msc' = "poll" /\ UNCHANGED proc

\* jz_mmc_rx_setup_data: jz_mmc_start_dma disables the channel before it arms it.
RxSetup(r) == IF r.data = "read" THEN "mine" ELSE rx

\* mmc_start_request and jz_mmc_request.
Request(r) ==
    /\ proc = "idle" /\ Running("proc")
    /\ mrq' = r /\ opcode' = r.op /\ data' = (r.data # "none") /\ retries' = r.retries
    /\ cerr' = "ok" /\ derr' = "ok" /\ completed' = FALSE
    /\ rx' = RxSetup(r) /\ moved' = "no"
    /\ failed' = [d \in {"read", "write"} |-> LastFailed(d)]
    /\ start_cmd("proc", "main", cmd)
    /\ UNCHANGED <<answer, tx, detect, stack>>

\* host->data after jz_mmc_finish_request.
FinishedData == FALSE

Old(d) == IF d = "mine" THEN "old" ELSE d

\* mmc_request_done: if (err && cmd->retries)
MayRetry(e) == e # "ok" /\ retries > 0

\* jz_mmc_finish_request and mmc_request_done, called by c with the command's
\* error e: retry, or complete.  The process then runs the rest of
\* jz_mmc_start_cmd; the interrupt handler returns.
finish_request(c, e) ==
    IF MayRetry(e)
      THEN /\ retries' = retries - 1 /\ cerr' = "ok"
           /\ data' = (mrq.data # "none")
           /\ start_cmd(c, "main", "none")
           /\ UNCHANGED <<mrq, completed, rx, tx, stack>>
      ELSE /\ mrq' = NoReq /\ cmd' = "none" /\ data' = FinishedData
           /\ cerr' = e /\ completed' = TRUE
           /\ hw' = "idle" /\ rx' = Old(rx) /\ tx' = Old(tx)
           /\ IF c = "proc" THEN proc' = "tail" /\ UNCHANGED <<msc, stack>>
                            ELSE msc' = "off" /\ Leave /\ UNCHANGED proc
           /\ UNCHANGED <<retries, warned, unmasked>>

-----------------------------------------------------------------------------
(* jz_mmc_start_cmd after the poll, jz_mmc_cmd_done.                       *)

Pc(c) == IF c = "proc" THEN proc ELSE msc

\* The poll ends: with the card's response, a response timeout, or, for want
\* of a card, with its own counter ("MSC can't report the
\* MSC_STAT_TIME_OUT_RES when card was removed").  Its 0x3fffff turns are far
\* longer than it takes to enter a pending interrupt.
PollEnds(c) ==
    /\ Pc(c) = "poll" /\ Running(c)
    /\ answer' \in IF card THEN {"ok", "timeout", "crc"} ELSE {"silent", "timeout"}
    /\ answer' = "silent" => ~flag
    /\ hw' = IF c = "proc" /\ data /\ answer' \in {"ok", "crc"} THEN "data" ELSE "idle"
    /\ IF c = "proc" THEN proc' = "status" /\ UNCHANGED msc
                     ELSE msc' = "status" /\ UNCHANGED proc
    /\ UNCHANGED <<host, opcode, unmasked, rx, tx, moved, failed, detect, stack>>

\* Errors jz_mmc_cmd_done may give a command.  For a CID or CSD the decision
\* is taken by the top bit of the response.
CmdErrors(op) ==
    IF answer = "timeout" THEN {"timeout"}
    ELSE IF answer = "crc" /\ op = "cid" THEN {"ok", "crc"}
    ELSE {"ok"}

\* MUTANT: host->cmd is only cleared by jz_mmc_finish_request.
CmdDoneKept == cmd

\* host->cmd after jz_mmc_cmd_done.
CmdDone == "none"

\* MUTANT: any command that went well waits for data.
AwaitsDataAlways(e) == e = "ok"

\* if (host->data && cmd->error == 0)
AwaitsData(e) == data /\ e = "ok"

\* MUTANT: the slot is not looked at after the poll.
SlotGoneIgnored == FALSE

\* "We force to return here."
SlotGone == ~slot

\* The process sees the main command's result.
Status ==
    /\ proc = "status" /\ Running("proc")
    /\ \E e \in IF SlotGone \/ mrq.op = "sdio" THEN {"timeout"} ELSE CmdErrors(mrq.op) :
        IF AwaitsData(e)
          THEN /\ cmd' = CmdDone
               /\ cerr' = e
               /\ unmasked' = TRUE                  \* jz_mmc_enable_irq
               /\ proc' = "tail"
               /\ UNCHANGED <<mrq, data, retries, completed, warned, hw, rx, tx,
                              msc, stack>>
          ELSE finish_request("proc", e)
    /\ UNCHANGED <<derr, opcode, answer, moved, failed, detect>>

\* The interrupt handler sees the stop command's result; its error stays in
\* mrq->stop, and mmc_request_done looks at mrq->cmd.
StopStatus ==
    /\ msc = "status" /\ Running("msc")
    /\ finish_request("msc", cerr)
    /\ UNCHANGED <<derr, opcode, answer, moved, failed, detect>>

\* MUTANT: the write is set up whether or not the command still has data.
SetsUpTxAlways == TRUE

\* if (host->data), after jz_mmc_cmd_done.
SetsUpTx == data

\* The last lines of jz_mmc_start_cmd.  The data phase has been running since
\* the command was answered: a channel still enabled for an earlier write may
\* have fed it before it is armed again.
Setup ==
    /\ proc = "tail" /\ Running("proc")
    /\ IF SetsUpTx /\ opcode = "write"
         THEN /\ tx' = "mine"
              /\ moved' \in IF tx = "old" /\ hw # "idle" THEN {moved, "astray"} ELSE {moved}
         ELSE UNCHANGED <<tx, moved>>
    /\ proc' = "wait"
    /\ UNCHANGED <<host, opcode, unmasked, answer, hw, rx, failed, detect, msc, stack>>

\* wait_for_completion returns; the mmc_request on the caller's stack is gone.
Return ==
    /\ proc = "wait" /\ Running("proc") /\ completed
    /\ proc' = "idle"
    /\ UNCHANGED <<host, opcode, hardware, detect, msc, stack>>

-----------------------------------------------------------------------------
(* jz_mmc_irq and jz_mmc_data_done.                                        *)

\* MUTANT: the status of the data phase is not read.
DataErrorIgnored == "ok"

DataError == hw

\* Taken with DATA_TRAN_DONE set and unmasked.  With no host->data the handler
\* would return without clearing it, and be entered again at once.
MscIrq ==
    /\ unmasked /\ hw \in Ended /\ ~Handling("msc") /\ data
    /\ derr' = DataError
    /\ IF mrq.stop
         THEN /\ data' = FALSE
              /\ start_cmd("msc", "stop", cmd)
              /\ stack' = Append(stack, "msc")
              /\ UNCHANGED <<mrq, retries, cerr, completed, rx, tx>>
         ELSE /\ unmasked' = FALSE
              /\ mrq' = NoReq /\ cmd' = "none" /\ data' = FinishedData /\ completed' = TRUE
              /\ hw' = "idle" /\ rx' = Old(rx) /\ tx' = Old(tx)
              /\ UNCHANGED <<retries, cerr, warned, proc, msc, stack>>
    /\ UNCHANGED <<opcode, answer, moved, failed, detect>>

\* The controller ends a data phase, with data moved through whatever channel
\* is enabled in its direction, or by an error; without a channel a write waits.
\* A channel that is through is disabled by its callback; the data phase that
\* ends early leaves it enabled, for jz_mmc_data_done does not touch it.
DataEnds ==
    /\ hw = "data" /\ mrq # NoReq
    /\ hw' \in IF card THEN Ended ELSE {"timeout"}
    /\ IF mrq.data = "write"
         THEN /\ tx # "off"
              /\ moved' = IF hw' # "ok" THEN moved
                          ELSE IF tx = "old" THEN "astray"
                          ELSE IF moved = "astray" THEN "astray" ELSE "own"
              /\ tx' \in IF hw' = "ok" THEN {"off"} ELSE {tx, "off"}
              /\ UNCHANGED rx
         ELSE /\ hw' = "ok" => rx = "mine"
              /\ moved' = IF hw' = "ok" THEN "own" ELSE moved
              /\ rx' \in IF hw' = "ok" THEN {"off"} ELSE {rx, "off"}
              /\ UNCHANGED tx
    /\ UNCHANGED <<host, opcode, unmasked, answer, failed, detect, proc, msc, stack>>

-----------------------------------------------------------------------------
(* jz_mmc_slot_is_empty and jz_mmc_detect_irq.                             *)

CardMoves ==
    /\ card' = ~card
    /\ steady' = (steady /\ ~Handling("detect") /\ (card' => cmd = "none"))
    /\ flag' = (flag \/ edge = IF card THEN "removal" ELSE "insertion")
    /\ UNCHANGED <<host, opcode, hardware, edge, level, slot, proc, msc, stack>>

\* The interrupt is acknowledged and the handler reads the pin.
DetectIrq ==
    /\ flag /\ ~Handling("detect")
    /\ flag' = FALSE /\ level' = card
    /\ stack' = Append(stack, "detect")
    /\ UNCHANGED <<host, opcode, hardware, card, edge, slot, steady, proc, msc>>

\* MUTANT: the pin always waits for a removal.
NextEdgeRemoval == "removal"

NextEdge == IF level THEN "removal" ELSE "insertion"

\* __gpio_as_irq_..._edge selects the edge and clears the flag.
DetectArm ==
    /\ Running("detect")
    /\ edge' = NextEdge /\ flag' = FALSE
    /\ slot' = level
    /\ Leave
    /\ UNCHANGED <<host, opcode, hardware, card, level, steady, proc, msc>>

-----------------------------------------------------------------------------
PollEnd == PollEnds("proc") \/ PollEnds("msc")

Next ==
    \/ \E r \in Requests : Request(r)
    \/ PollEnd \/ Status \/ StopStatus \/ Setup \/ Return
    \/ MscIrq \/ DataEnds
    \/ CardMoves \/ DetectIrq \/ DetectArm

Spec == Init /\ [][Next]_vars

\* Processes and handlers run, the poll is bounded, and the controller reports
\* the end of every data phase, if only by its read timeout: the driver has no
\* timer of its own.  What an interrupt can preempt is strongly fair: a card is
\* moved by hand, and the processor is not kept in the handler by that.
Fairness ==
    /\ SF_vars(PollEnd) /\ SF_vars(Status) /\ SF_vars(StopStatus)
    /\ SF_vars(Setup) /\ SF_vars(Return)
    /\ WF_vars(MscIrq) /\ WF_vars(DataEnds)
    /\ WF_vars(DetectIrq) /\ WF_vars(DetectArm)

FairSpec == Spec /\ Fairness

-----------------------------------------------------------------------------
(* Properties.                                                             *)

\* The host structure, the registers and the interrupt stack are well formed; in
\* particular mmc_request_done never takes the retries below zero.
TypeOK ==
    /\ mrq \in Requests \cup {NoReq} /\ cmd \in {"none", "main", "stop"}
    /\ data \in BOOLEAN /\ completed \in BOOLEAN /\ warned \in BOOLEAN
    /\ retries \in Nat /\ cerr \in Ended /\ derr \in Ended
    /\ unmasked \in BOOLEAN
    /\ answer \in Ended \cup {"silent"} /\ hw \in Ended \cup {"idle", "data"}
    /\ rx \in {"off", "mine", "old"} /\ tx \in {"off", "mine", "old"}
    /\ moved \in {"no", "own", "astray"} /\ failed \in [{"read", "write"} -> BOOLEAN]
    /\ opcode \in Ops
    /\ proc \in {"idle", "poll", "status", "tail", "wait"} /\ msc \in {"off", "poll", "status"}
    /\ stack \in {<<>>, <<"msc">>, <<"detect">>, <<"msc", "detect">>, <<"detect", "msc">>}
    /\ card \in BOOLEAN /\ flag \in BOOLEAN /\ level \in BOOLEAN /\ slot \in BOOLEAN
    /\ steady \in BOOLEAN
    /\ edge \in {"removal", "insertion"}

\* WARN_ON(host->cmd != NULL) never fires: no command is sent before the one
\* before it is done, though both the process and the interrupt send them.
NoWarning == ~warned

\* When the data interrupt is unmasked there is data to end: jz_mmc_data_done
\* would otherwise leave the interrupt pending and be entered for ever.
InterruptHasData == unmasked => data /\ mrq # NoReq /\ cmd = "none"

\* A request that is complete is forgotten: the mmc_request and its data are on
\* the stack of a caller that may have returned.
CompletedIsForgotten ==
    completed => mrq = NoReq /\ cmd = "none" /\ ~data /\ ~unmasked /\ hw = "idle"

\* While a request that reads is in its data phase the receive channel is its own,
\* and no step arms the transmit channel for a request that is complete.  A
\* channel stays enabled for a request that has returned, which nothing in
\* jz_mmc_data_done or jz_mmc_finish_request prevents, only if that was the last
\* one of its direction and it failed, or its data went astray.
DmaIsOwn ==
    /\ tx = "mine" => ~completed
    /\ hw = "data" /\ mrq.data = "read" => rx = "mine"
    /\ rx = "old" => LastFailed("read")
    /\ tx = "old" => LastFailed("write")

\* A data request that completes without an error has had its data moved, and
\* from and to its own buffer, except that a write right after a failed write may
\* have sent what the channel left enabled by that one found in the old buffer.
SuccessIsReal ==
    completed /\ cerr = "ok" /\ derr = "ok" /\ Dir(opcode) # "none" =>
        \/ moved = "own"
        \/ moved = "astray" /\ opcode = "write" /\ failed["write"]

\* A command without data that no card has answered fails, unless the card came
\* or bounced while the driver was not looking; whatever happens, the host
\* structure and the count of retries stay well formed.
SilenceIsAnError ==
    /\ TypeOK
    /\ steady /\ completed /\ answer = "silent" /\ Dir(opcode) = "none" => cerr # "ok"

\* Every request is completed and its caller returns.
RequestsReturn == proc # "idle" ~> proc = "idle"

\* So they do as long as the card is steady.
SteadyRequestsReturn == proc # "idle" ~> proc = "idle" \/ ~steady

\* mmc_slot_enable comes to agree with a card that is left alone, as long as the
\* card does not move between the two halves of its own handler.
SteadySlotFollowsCard ==
    []steady => /\ <>[]card => <>[]slot
                /\ <>[]~card => <>[]~slot

=============================================================================
