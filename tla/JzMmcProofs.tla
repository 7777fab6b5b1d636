----------------------------- MODULE JzMmcProofs -----------------------------
(***************************************************************************)
(* Proofs about JzMmc, for every set of requests the core may make and     *)
(* whatever the card does.                                                 *)
(***************************************************************************)
EXTENDS JzMmc, SequenceTheorems, TLAPS

Types ==
    /\ data \in BOOLEAN /\ completed \in BOOLEAN /\ warned \in BOOLEAN
    /\ unmasked \in BOOLEAN /\ moved \in {"no", "own", "astray"}
    /\ failed \in [{"read", "write"} -> BOOLEAN]
    /\ cmd \in {"none", "main", "stop"}
    /\ proc \in {"idle", "poll", "status", "tail", "wait"}
    /\ msc \in {"off", "poll", "status"}
    /\ mrq \in Requests \cup {NoReq}
    /\ retries \in Nat /\ cerr \in Ended /\ derr \in Ended
    /\ hw \in Ended \cup {"idle", "data"}
    /\ rx \in {"off", "mine", "old"} /\ tx \in {"off", "mine", "old"}

\* A request is complete: nothing of it is left.
AtRest ==
    completed =>
        /\ mrq = NoReq /\ cmd = "none" /\ ~data /\ ~unmasked /\ hw = "idle"
        /\ msc = "off" /\ proc \in {"idle", "tail", "wait"}
        /\ tx # "mine"

\* A request is in progress: its command is polled by the process, its data
\* awaited, or its stop command polled by the interrupt handler.
InProgress ==
    ~completed =>
        /\ mrq \in Requests /\ opcode = mrq.op /\ proc # "idle"
        /\ mrq.data # "none" => retries = 0
        /\ \/ /\ proc \in {"poll", "status"} /\ cmd = "main" /\ msc = "off"
              /\ ~unmasked /\ data = (mrq.data # "none") /\ (proc = "poll" => hw = "idle")
           \/ /\ proc \in {"tail", "wait"} /\ cmd = "none" /\ msc = "off"
              /\ unmasked /\ data /\ mrq.data # "none" /\ cerr = "ok"
           \/ /\ proc \in {"tail", "wait"} /\ cmd = "stop" /\ msc # "off"
              /\ ~unmasked /\ ~data /\ mrq.data # "none" /\ cerr = "ok" /\ hw = "idle"

\* Where the data of the request in progress is.
Transfer ==
    /\ ~completed /\ mrq.data = "read" /\ hw \notin Ended /\ msc = "off" => rx = "mine"
    /\ hw = "ok" => moved # "no"
    /\ hw # "idle" => data
    /\ msc # "off" /\ derr = "ok" => moved # "no"
    /\ completed /\ cerr = "ok" /\ derr = "ok" /\ Dir(opcode) # "none" => moved # "no"

\* Whose buffers the DMA channels are at.  A request whose data has moved from and
\* to its own buffer has left its channel disabled; data goes astray only in a
\* write that has found the transmit channel of a failed one enabled.
Channels ==
    /\ rx = "mine" => ~completed /\ mrq.data = "read"
    /\ tx = "mine" => ~completed /\ mrq.data = "write" /\ proc = "wait"
    /\ ~completed /\ mrq.data = "none" => moved = "no"
    /\ ~completed /\ mrq.data = "read" => rx # "old" /\ (moved = "own" => rx = "off")
    /\ ~completed /\ mrq.data = "write" /\ moved = "own" => tx = "off" /\ proc = "wait"
    /\ ~completed /\ proc = "poll" => moved = "no"
    /\ hw = "data" => moved # "own"
    /\ moved = "astray" => opcode = "write" /\ failed["write"]
    /\ rx = "old" => LastFailed("read")
    /\ tx = "old" => LastFailed("write")

Inv == Types /\ AtRest /\ InProgress /\ Transfer /\ Channels /\ ~warned

\* The invariant holds when jz_mmc_probe is done.
LEMMA InitInv == Init => Inv
<1> SUFFICES ASSUME Init PROVE Inv
  OBVIOUS
<1>1. Types
  BY DEF Init, Types, Ended
<1>2. AtRest /\ InProgress /\ Transfer /\ Channels /\ ~warned
  BY DEF Init, AtRest, InProgress, Transfer, Channels, Dir
<1> QED
  BY <1>1, <1>2 DEF Inv

\* The invariant does not depend on the card detect interrupt.
LEMMA DetectInv ==
    ASSUME Inv, UNCHANGED <<host, opcode, hardware, proc, msc>>
    PROVE  Inv'
  BY DEF Inv, Types, AtRest, InProgress, Transfer, Channels, LastFailed, host, hardware

\* jz_mmc_request.
LEMMA RequestInv ==
    ASSUME Inv, NEW r \in Requests, Request(r)
    PROVE  Inv'
<1>1. Types'
  <2>1. LastFailed("read") \in BOOLEAN /\ LastFailed("write") \in BOOLEAN
    BY Zenon DEF LastFailed, Inv, Types
  <2>2. failed' \in [{"read", "write"} -> BOOLEAN]
    BY <2>1, Zenon DEF Request
  <2>3. data' \in BOOLEAN /\ warned' \in BOOLEAN
    BY Zenon DEF Request, start_cmd
  <2>4. /\ mrq' = r /\ retries' \in Nat /\ cerr' = "ok" /\ derr' = "ok"
        /\ completed' = FALSE /\ moved' = "no" /\ cmd' = "main" /\ unmasked' = FALSE
        /\ hw' = "idle" /\ proc' = "poll" /\ msc' = msc /\ tx' = tx
        /\ rx' \in {"mine", rx}
    BY RequestAssumption DEF Request, start_cmd, RxSetup
  <2> QED
    BY <2>2, <2>3, <2>4 DEF Inv, Types, Ended
<1>2. AtRest'
  BY RequestAssumption DEF Inv, Types, AtRest, InProgress, Transfer, Dir, Ended,
     Request, start_cmd, RxSetup, Ops, detect
<1>3. InProgress'
  BY RequestAssumption DEF Inv, Types, AtRest, InProgress, Transfer, Dir, Ended,
     Request, start_cmd, RxSetup, Ops, detect
<1>4. Transfer'
  BY RequestAssumption DEF Inv, Types, AtRest, InProgress, Transfer, Dir, Ended,
     Request, start_cmd, RxSetup, Ops, detect
<1>5. ~warned'
  BY RequestAssumption DEF Inv, Types, AtRest, InProgress, Transfer, Dir, Ended,
     Request, start_cmd, RxSetup, Ops, detect
<1>6. Channels'
  BY RequestAssumption DEF Inv, Types, AtRest, InProgress, Transfer, Channels, LastFailed, Dir, Ended,
     Request, start_cmd, RxSetup, Ops, detect
<1> QED
  BY <1>1, <1>2, <1>3, <1>4, <1>5, <1>6 DEF Inv

\* The end of a poll.
LEMMA PollInv ==
    ASSUME Inv, PollEnd
    PROVE  Inv'
<1>1. Types'
  BY RequestAssumption DEF Inv, Types, AtRest, InProgress, Transfer, Dir, Ended,
     PollEnd, PollEnds, Pc, host, detect
<1>2. AtRest'
  BY RequestAssumption DEF Inv, Types, AtRest, InProgress, Transfer, Dir, Ended,
     PollEnd, PollEnds, Pc, host, detect
<1>3. InProgress'
  BY RequestAssumption DEF Inv, Types, AtRest, InProgress, Transfer, Dir, Ended,
     PollEnd, PollEnds, Pc, host, detect
<1>4. Transfer'
  <2>1. CASE PollEnds("proc")
    BY <2>1 DEF Inv, Types, AtRest, InProgress, Transfer, Dir, Ended, PollEnds, Pc, host
  <2>2. CASE PollEnds("msc")
    BY <2>2 DEF Inv, Types, AtRest, InProgress, Transfer, Dir, Ended, PollEnds, Pc, host
  <2> QED
    BY <2>1, <2>2 DEF PollEnd
<1>5. ~warned'
  BY RequestAssumption DEF Inv, Types, AtRest, InProgress, Transfer, Dir, Ended,
     PollEnd, PollEnds, Pc, host, detect
<1>6. Channels'
  BY RequestAssumption DEF Inv, Types, AtRest, InProgress, Transfer, Channels, LastFailed, Dir, Ended,
     PollEnd, PollEnds, Pc, host, detect
<1> QED
  BY <1>1, <1>2, <1>3, <1>4, <1>5, <1>6 DEF Inv

\* The result of the command.
LEMMA StatusInv ==
    ASSUME Inv, Status
    PROVE  Inv'
<1>1. Types'
  <2>1. PICK e \in Ended :
            IF AwaitsData(e)
              THEN /\ cmd' = CmdDone /\ cerr' = e /\ unmasked' = TRUE /\ proc' = "tail"
                   /\ UNCHANGED <<mrq, data, retries, completed, warned, hw, rx, tx, msc>>
              ELSE finish_request("proc", e)
    BY DEF Status, CmdErrors, Ended
  <2>2. UNCHANGED <<derr, moved, failed>>
    BY DEF Status
  <2>3. CASE AwaitsData(e)
    BY <2>1, <2>2, <2>3 DEF Inv, Types, CmdDone, Ended
  <2>4. CASE ~AwaitsData(e) /\ MayRetry(e)
    <3>1. finish_request("proc", e)
      BY <2>1, <2>4
    <3>2. retries' \in Nat
      BY <2>4, <3>1 DEF Inv, Types, finish_request, MayRetry
    <3>3. data' \in BOOLEAN /\ warned' \in BOOLEAN
      BY <2>4, <3>1, Zenon DEF Inv, Types, finish_request, start_cmd
    <3>4. /\ completed' \in BOOLEAN /\ unmasked' \in BOOLEAN
          /\ UNCHANGED <<mrq, completed, rx, tx, msc>>
          /\ cmd' = "main" /\ proc' = "poll" /\ hw' = "idle" /\ cerr' = "ok"
      BY <2>4, <3>1 DEF Inv, Types, finish_request, start_cmd
    <3> QED
      BY <2>2, <3>2, <3>3, <3>4 DEF Inv, Types, Ended
  <2>5. CASE ~AwaitsData(e) /\ ~MayRetry(e)
    BY <2>1, <2>2, <2>5 DEF Inv, Types, finish_request, FinishedData, Old, Ended
  <2> QED
    BY <2>3, <2>4, <2>5
<1>2. AtRest'
  BY RequestAssumption DEF Inv, Types, AtRest, InProgress, Transfer, Dir, Ended,
     Status, start_cmd, finish_request, FinishedData, MayRetry, CmdDone, AwaitsData,
     SlotGone, CmdErrors, Old, detect
<1>3. InProgress'
  BY RequestAssumption DEF Inv, Types, AtRest, InProgress, Transfer, Dir, Ended,
     Status, start_cmd, finish_request, FinishedData, MayRetry, CmdDone, AwaitsData,
     SlotGone, CmdErrors, Old, detect
<1>4. Transfer'
  BY RequestAssumption DEF Inv, Types, AtRest, InProgress, Transfer, Dir, Ended,
     Status, start_cmd, finish_request, FinishedData, MayRetry, CmdDone, AwaitsData,
     SlotGone, CmdErrors, Old, detect
<1>5. ~warned'
  BY RequestAssumption DEF Inv, Types, AtRest, InProgress, Transfer, Dir, Ended,
     Status, start_cmd, finish_request, FinishedData, MayRetry, CmdDone, AwaitsData,
     SlotGone, CmdErrors, Old, detect
<1>6. Channels'
  BY RequestAssumption DEF Inv, Types, AtRest, InProgress, Transfer, Channels, LastFailed, Dir, Ended,
     Status, start_cmd, finish_request, FinishedData, MayRetry, CmdDone, AwaitsData,
     SlotGone, CmdErrors, Old, detect
<1> QED
  BY <1>1, <1>2, <1>3, <1>4, <1>5, <1>6 DEF Inv

\* The result of the stop command.
LEMMA StopStatusInv ==
    ASSUME Inv, StopStatus
    PROVE  Inv'
<1>1. Types'
  BY RequestAssumption DEF Inv, Types, AtRest, InProgress, Transfer, Dir, Ended,
     StopStatus, start_cmd, finish_request, FinishedData, MayRetry, Old, detect
<1>2. AtRest'
  BY RequestAssumption DEF Inv, Types, AtRest, InProgress, Transfer, Dir, Ended,
     StopStatus, start_cmd, finish_request, FinishedData, MayRetry, Old, detect
<1>3. InProgress'
  BY RequestAssumption DEF Inv, Types, AtRest, InProgress, Transfer, Dir, Ended,
     StopStatus, start_cmd, finish_request, FinishedData, MayRetry, Old, detect
<1>4. Transfer'
  BY RequestAssumption DEF Inv, Types, AtRest, InProgress, Transfer, Dir, Ended,
     StopStatus, start_cmd, finish_request, FinishedData, MayRetry, Old, detect
<1>5. ~warned'
  BY RequestAssumption DEF Inv, Types, AtRest, InProgress, Transfer, Dir, Ended,
     StopStatus, start_cmd, finish_request, FinishedData, MayRetry, Old, detect
<1>6. Channels'
  BY RequestAssumption DEF Inv, Types, AtRest, InProgress, Transfer, Channels, LastFailed, Dir, Ended,
     StopStatus, start_cmd, finish_request, FinishedData, MayRetry, Old, detect
<1> QED
  BY <1>1, <1>2, <1>3, <1>4, <1>5, <1>6 DEF Inv

\* The last lines of jz_mmc_start_cmd.
LEMMA SetupInv ==
    ASSUME Inv, Setup
    PROVE  Inv'
<1>1. Types'
  BY RequestAssumption DEF Inv, Types, AtRest, InProgress, Transfer, Dir, Ended,
     Setup, SetsUpTx, host, detect
<1>2. AtRest'
  BY RequestAssumption DEF Inv, Types, AtRest, InProgress, Transfer, Dir, Ended,
     Setup, SetsUpTx, host, detect
<1>3. InProgress'
  BY RequestAssumption DEF Inv, Types, AtRest, InProgress, Transfer, Dir, Ended,
     Setup, SetsUpTx, host, detect
<1>4. Transfer'
  BY RequestAssumption DEF Inv, Types, AtRest, InProgress, Transfer, Dir, Ended,
     Setup, SetsUpTx, host, detect
<1>5. ~warned'
  BY RequestAssumption DEF Inv, Types, AtRest, InProgress, Transfer, Dir, Ended,
     Setup, SetsUpTx, host, detect
<1>6. Channels'
  BY RequestAssumption DEF Inv, Types, AtRest, InProgress, Transfer, Channels, LastFailed, Dir, Ended,
     Setup, SetsUpTx, host, detect
<1> QED
  BY <1>1, <1>2, <1>3, <1>4, <1>5, <1>6 DEF Inv

\* The caller returns.
LEMMA ReturnInv ==
    ASSUME Inv, Return
    PROVE  Inv'
<1>1. Types'
  BY RequestAssumption DEF Inv, Types, AtRest, InProgress, Transfer, Dir, Ended,
     Return, host, hardware, detect
<1>2. AtRest'
  BY RequestAssumption DEF Inv, Types, AtRest, InProgress, Transfer, Dir, Ended,
     Return, host, hardware, detect
<1>3. InProgress'
  BY RequestAssumption DEF Inv, Types, AtRest, InProgress, Transfer, Dir, Ended,
     Return, host, hardware, detect
<1>4. Transfer'
  BY RequestAssumption DEF Inv, Types, AtRest, InProgress, Transfer, Dir, Ended,
     Return, host, hardware, detect
<1>5. ~warned'
  BY RequestAssumption DEF Inv, Types, AtRest, InProgress, Transfer, Dir, Ended,
     Return, host, hardware, detect
<1>6. Channels'
  BY RequestAssumption DEF Inv, Types, AtRest, InProgress, Transfer, Channels, LastFailed, Dir, Ended,
     Return, host, hardware, detect
<1> QED
  BY <1>1, <1>2, <1>3, <1>4, <1>5, <1>6 DEF Inv

\* The data interrupt.
LEMMA MscIrqInv ==
    ASSUME Inv, MscIrq
    PROVE  Inv'
<1>1. Types'
  BY RequestAssumption DEF Inv, Types, AtRest, InProgress, Transfer, Dir, Ended,
     MscIrq, start_cmd, FinishedData, DataError, Old, detect
<1>2. AtRest'
  BY RequestAssumption DEF Inv, Types, AtRest, InProgress, Transfer, Dir, Ended,
     MscIrq, start_cmd, FinishedData, DataError, Old, detect
<1>3. InProgress'
  BY RequestAssumption DEF Inv, Types, AtRest, InProgress, Transfer, Dir, Ended,
     MscIrq, start_cmd, FinishedData, DataError, Old, detect
<1>4. Transfer'
  BY RequestAssumption DEF Inv, Types, AtRest, InProgress, Transfer, Dir, Ended,
     MscIrq, start_cmd, FinishedData, DataError, Old, detect
<1>5. ~warned'
  BY RequestAssumption DEF Inv, Types, AtRest, InProgress, Transfer, Dir, Ended,
     MscIrq, start_cmd, FinishedData, DataError, Old, detect
<1>6. Channels'
  BY RequestAssumption DEF Inv, Types, AtRest, InProgress, Transfer, Channels, LastFailed, Dir, Ended,
     MscIrq, start_cmd, FinishedData, DataError, Old, detect
<1> QED
  BY <1>1, <1>2, <1>3, <1>4, <1>5, <1>6 DEF Inv

\* The end of a data phase.
LEMMA DataEndsInv ==
    ASSUME Inv, DataEnds
    PROVE  Inv'
<1>1. Types'
  BY RequestAssumption DEF Inv, Types, AtRest, InProgress, Transfer, Dir, Ended,
     DataEnds, host, detect
<1>2. AtRest'
  BY RequestAssumption DEF Inv, Types, AtRest, InProgress, Transfer, Dir, Ended,
     DataEnds, host, detect
<1>3. InProgress'
  BY RequestAssumption DEF Inv, Types, AtRest, InProgress, Transfer, Dir, Ended,
     DataEnds, host, detect
<1>4. Transfer'
  BY RequestAssumption DEF Inv, Types, AtRest, InProgress, Transfer, Dir, Ended,
     DataEnds, host, detect
<1>5. ~warned'
  BY RequestAssumption DEF Inv, Types, AtRest, InProgress, Transfer, Dir, Ended,
     DataEnds, host, detect
<1>6. Channels'
  BY RequestAssumption DEF Inv, Types, AtRest, InProgress, Transfer, Channels, LastFailed, Dir, Ended,
     DataEnds, host, detect
<1> QED
  BY <1>1, <1>2, <1>3, <1>4, <1>5, <1>6 DEF Inv

LEMMA InvNext == ASSUME Inv, [Next]_vars PROVE Inv'
<1>1. CASE \E r \in Requests : Request(r)
  BY <1>1, RequestInv
<1>2. CASE CardMoves \/ DetectIrq \/ DetectArm
  BY <1>2, DetectInv DEF CardMoves, DetectIrq, DetectArm
<1>3. CASE UNCHANGED vars
  BY <1>3, DetectInv DEF vars
<1> QED
  BY <1>1, <1>2, <1>3, PollInv, StatusInv, StopStatusInv, SetupInv, ReturnInv, MscIrqInv,
     DataEndsInv DEF Next

\* The host structure and the interrupt mask belong to the request in progress and
\* to no other; a DMA channel that is enabled for a request that has returned is
\* the leftover of a failed one; and a data request only succeeds when its data has
\* moved, from and to its own buffer unless it is a write after a failed write.
THEOREM HostOwnership ==
    Spec => [](NoWarning /\ InterruptHasData /\ CompletedIsForgotten /\ DmaIsOwn /\ SuccessIsReal)
<1>1. Init => Inv
  BY InitInv
<1>2. Inv /\ [Next]_vars => Inv'
  BY InvNext
<1>3. Inv => NoWarning /\ InterruptHasData /\ CompletedIsForgotten /\ DmaIsOwn /\ SuccessIsReal
  BY RequestAssumption
  DEF Inv, Types, AtRest, InProgress, Transfer, Channels, Dir, Ended, NoWarning, InterruptHasData,
      CompletedIsForgotten, DmaIsOwn, SuccessIsReal
<1> QED
  BY <1>1, <1>2, <1>3, PTL DEF Spec

-----------------------------------------------------------------------------
(* The card detect interrupt and the commands that no card answers.        *)

Stacks == {<<>>, <<"msc">>, <<"detect">>, <<"msc", "detect">>, <<"detect", "msc">>}

\* The part of TypeOK that Types leaves out.
DetectTypes ==
    /\ answer \in Ended \cup {"silent"} /\ opcode \in Ops /\ stack \in Stacks
    /\ card \in BOOLEAN /\ flag \in BOOLEAN /\ level \in BOOLEAN /\ slot \in BOOLEAN
    /\ steady \in BOOLEAN /\ edge \in {"removal", "insertion"}

\* mmc_slot_enable lags behind a steady card only while its interrupt is pending
\* or handled.
SlotFollows ==
    /\ steady /\ Handling("detect") => level = card
    /\ steady /\ ~Handling("detect") /\ ~flag =>
         slot = card /\ edge = IF card THEN "removal" ELSE "insertion"

\* Between the poll that nobody answered and the look at mmc_slot_enable the slot
\* is empty, and a request of which the poll was silent ends with an error.
Silence ==
    /\ steady /\ proc = "status" /\ answer = "silent" =>
         ~card /\ ~slot /\ ~flag /\ ~Handling("detect")
    /\ steady /\ completed /\ answer = "silent" /\ Dir(opcode) = "none" => cerr # "ok"

DetectInvariant == DetectTypes /\ SlotFollows /\ Silence

\* Which handlers are entered, for each stack.
StackShape ==
    /\ stack = <<>> => ~Handling("msc") /\ ~Handling("detect")
    /\ stack = <<"msc">> => Handling("msc") /\ ~Handling("detect")
    /\ stack = <<"detect">> => ~Handling("msc") /\ Handling("detect")
    /\ stack = <<"msc", "detect">> => Handling("msc") /\ Handling("detect")
    /\ stack = <<"detect", "msc">> => Handling("msc") /\ Handling("detect")

LEMMA StackIs == StackShape
<1>1. /\ stack = <<>> => ~Handling("msc") /\ ~Handling("detect")
      /\ stack = <<"msc">> => Handling("msc") /\ ~Handling("detect")
      /\ stack = <<"detect">> => ~Handling("msc") /\ Handling("detect")
  BY DEF Handling
<1>2. ASSUME stack = <<"msc", "detect">> PROVE Handling("msc") /\ Handling("detect")
  <2>1. 1 \in DOMAIN stack /\ 2 \in DOMAIN stack /\ stack[1] = "msc" /\ stack[2] = "detect"
    BY <1>2
  <2> QED BY <2>1 DEF Handling
<1>3. ASSUME stack = <<"detect", "msc">> PROVE Handling("msc") /\ Handling("detect")
  <2>1. 1 \in DOMAIN stack /\ 2 \in DOMAIN stack /\ stack[1] = "detect" /\ stack[2] = "msc"
    BY <1>3
  <2> QED BY <2>1 DEF Handling
<1> QED BY <1>1, <1>2, <1>3 DEF StackShape

LEMMA StackIsNext == StackShape'
BY StackIs, PTL

\* Stacks of one and of two handlers.
LEMMA ShortStacks ==
    ASSUME NEW x, NEW y
    PROVE  /\ Append(<<>>, x) = <<x>> /\ Append(<<x>>, y) = <<x, y>>
           /\ Len(<<x>>) = 1 /\ SubSeq(<<x>>, 1, 0) = <<>>
           /\ Len(<<x, y>>) = 2 /\ SubSeq(<<x, y>>, 1, 1) = <<x>>
<1>1. Append(<<>>, x) = <<x>> /\ Len(<<x>>) = 1 /\ Len(<<x, y>>) = 2
  OBVIOUS
<1>2. SubSeq(<<x>>, 1, 0) = <<>>
  BY SubSeqEmpty
<1> DEFINE S == {x, y}
<1>3. <<x>> \in Seq(S) /\ <<x>>[1] = x
  OBVIOUS
<1>4. <<x, y>> \in Seq(S) /\ <<x, y>>[1] = x /\ <<x, y>>[2] = y
  OBVIOUS
<1>5. Append(<<x>>, y) = <<x, y>>
  <2>1. /\ Append(<<x>>, y) \in Seq(S) /\ Len(Append(<<x>>, y)) = 2
        /\ Append(<<x>>, y)[1] = x /\ Append(<<x>>, y)[2] = y
    BY <1>1, <1>3
  <2>2. \A i \in 1..2 : Append(<<x>>, y)[i] = <<x, y>>[i]
    <3>1. \A i \in 1..2 : i = 1 \/ i = 2
      OBVIOUS
    <3> QED BY <1>4, <2>1, <3>1, Zenon
  <2> DEFINE a == Append(<<x>>, y)
             b == <<x, y>>
  <2>3. a \in Seq(S) /\ b \in Seq(S) /\ Len(a) = 2 /\ Len(b) = 2 /\ \A i \in 1..2 : a[i] = b[i]
    BY <1>1, <1>4, <2>1, <2>2
  <2> HIDE DEF a, b, S
  <2>4. a = b
    BY <2>3, SeqEqual
  <2> QED BY <2>4 DEF a, b
<1>6. SubSeq(<<x, y>>, 1, 1) = <<x>>
  <2> DEFINE a == SubSeq(<<x, y>>, 1, 1)
             b == <<x>>
  <2>1. a \in Seq(S) /\ Len(a) = 1 /\ a[1] = x
    BY <1>1, <1>4
  <2>2. b \in Seq(S) /\ Len(b) = 1 /\ b[1] = x
    BY <1>1, <1>3
  <2> HIDE DEF a, b, S
  <2>3. \A i \in 1..1 : a[i] = b[i]
    BY <2>1, <2>2
  <2>4. a = b
    BY <2>1, <2>2, <2>3, SeqEqual
  <2> QED BY <2>4 DEF a, b
<1> QED BY <1>1, <1>2, <1>5, <1>6

\* Entering a handler.
LEMMA Push ==
    ASSUME stack \in Stacks, NEW h \in {"msc", "detect"}, ~Handling(h),
           stack' = Append(stack, h)
    PROVE  /\ stack' \in Stacks /\ Handling(h)'
           /\ h = "msc" => (Handling("detect")' <=> Handling("detect"))
<1>1. stack = <<>> \/ (h = "detect" /\ stack = <<"msc">>) \/ (h = "msc" /\ stack = <<"detect">>)
  BY StackIs DEF Stacks, StackShape
<1>2. /\ stack = <<>> => stack' = <<h>>
      /\ stack = <<"msc">> /\ h = "detect" => stack' = <<"msc", "detect">>
      /\ stack = <<"detect">> /\ h = "msc" => stack' = <<"detect", "msc">>
  BY ShortStacks
<1>3. stack' \in Stacks
  BY <1>1, <1>2 DEF Stacks
<1> QED BY <1>1, <1>2, <1>3, StackIs, StackIsNext DEF StackShape

\* Leaving a handler.
LEMMA Pop ==
    ASSUME stack \in Stacks, NEW h \in {"msc", "detect"}, Running(h), Leave
    PROVE  /\ stack' \in Stacks /\ ~Handling(h)' /\ Handling(h)
           /\ h = "msc" => (Handling("detect")' <=> Handling("detect"))
<1>1. /\ h = "msc" => stack \in {<<"msc">>, <<"detect", "msc">>}
      /\ h = "detect" => stack \in {<<"detect">>, <<"msc", "detect">>}
  BY DEF Running, Stacks
<1>2. /\ stack = <<"msc">> => stack' = <<>>
      /\ stack = <<"detect">> => stack' = <<>>
      /\ stack = <<"detect", "msc">> => stack' = <<"detect">>
      /\ stack = <<"msc", "detect">> => stack' = <<"msc">>
  <2>1. /\ Len(<<"msc">>) - 1 = 0 /\ Len(<<"detect">>) - 1 = 0
        /\ Len(<<"detect", "msc">>) - 1 = 1 /\ Len(<<"msc", "detect">>) - 1 = 1
    OBVIOUS
  <2>2. /\ SubSeq(<<"msc">>, 1, 0) = <<>> /\ SubSeq(<<"detect">>, 1, 0) = <<>>
        /\ SubSeq(<<"detect", "msc">>, 1, 1) = <<"detect">>
        /\ SubSeq(<<"msc", "detect">>, 1, 1) = <<"msc">>
    BY ShortStacks
  <2> QED BY <2>1, <2>2, Zenon DEF Leave
<1>3. stack' \in Stacks
  BY <1>1, <1>2 DEF Stacks
<1> QED BY <1>1, <1>2, <1>3, StackIs, StackIsNext DEF StackShape

LEMMA DetectInvInit == Init => DetectInvariant
<1> SUFFICES ASSUME Init PROVE DetectInvariant
  OBVIOUS
<1>1. DetectTypes
  BY DEF Init, DetectTypes, Ended, Ops, Stacks
<1>2. SlotFollows /\ Silence
  BY StackIs DEF Init, SlotFollows, Silence, StackShape
<1> QED BY <1>1, <1>2 DEF DetectInvariant

\* A step that leaves the card, its interrupt and the commands alone.
LEMMA DetectUnchanged ==
    ASSUME DetectInvariant, UNCHANGED <<detect, stack, answer, opcode>>,
           proc' = "status" => proc = "status",
           completed' => completed /\ cerr' = cerr
    PROVE  DetectInvariant'
<1>1. Handling("detect")' <=> Handling("detect")
  BY DEF Handling
<1> QED BY <1>1 DEF DetectInvariant, DetectTypes, SlotFollows, Silence, detect

LEMMA DetectInvNext == ASSUME Inv, DetectInvariant, [Next]_vars PROVE DetectInvariant'
<1> USE DEF DetectInvariant
<1>1. CASE \E r \in Requests : Request(r)
  <2>1. PICK r \in Requests : Request(r)
    BY <1>1
  <2>2. opcode' = r.op /\ r.op \in Ops
    BY <2>1, RequestAssumption DEF Request
  <2>3. /\ completed' = FALSE /\ proc' = "poll"
        /\ UNCHANGED <<answer, card, edge, flag, level, slot, steady, stack>>
    BY <2>1 DEF Request, start_cmd, detect
  <2>4. Handling("detect")' <=> Handling("detect")
    BY <2>3 DEF Handling
  <2> QED BY <2>2, <2>3, <2>4 DEF DetectTypes, SlotFollows, Silence
<1>2. CASE PollEnds("proc")
  <2>1. /\ proc = "poll" /\ stack = <<>> /\ proc' = "status"
        /\ answer' \in Ended \cup {"silent"}
        /\ answer' = "silent" => ~card /\ ~flag
        /\ UNCHANGED <<completed, opcode, card, edge, flag, level, slot, steady, stack>>
    BY <1>2 DEF PollEnds, Pc, Running, host, detect, Ended
  <2>2. ~completed /\ ~Handling("detect") /\ ~Handling("detect")'
    BY <2>1, StackIs, StackIsNext DEF Inv, AtRest, StackShape
  <2> QED BY <2>1, <2>2 DEF DetectTypes, SlotFollows, Silence
<1>3. CASE PollEnds("msc")
  <2>1. /\ msc = "poll" /\ answer' \in Ended \cup {"silent"}
        /\ UNCHANGED <<completed, opcode, card, edge, flag, level, slot, steady, stack, proc>>
    BY <1>3 DEF PollEnds, Pc, host, detect, Ended
  <2>2. ~completed /\ proc # "status" /\ (Handling("detect")' <=> Handling("detect"))
    BY <2>1 DEF Inv, AtRest, InProgress, Types, Handling
  <2> QED BY <2>1, <2>2 DEF DetectTypes, SlotFollows, Silence
<1>4. CASE Status
  <2>1. /\ UNCHANGED <<opcode, answer, card, edge, flag, level, slot, steady>>
        /\ stack' = stack /\ proc' # "status"
    BY <1>4 DEF Status, finish_request, start_cmd, detect
  <2>2. completed' /\ steady /\ answer = "silent" => cerr' # "ok"
    <3> SUFFICES ASSUME completed', steady, answer = "silent" PROVE cerr' # "ok"
      OBVIOUS
    <3>1. SlotGone /\ ~completed
      BY <1>4 DEF Status, Silence, SlotGone, Inv, AtRest
    <3>2. IF AwaitsData("timeout") THEN completed' = completed ELSE finish_request("proc", "timeout")
      BY <1>4, <3>1 DEF Status
    <3> QED BY <3>1, <3>2 DEF AwaitsData, finish_request
  <2>3. Handling("detect")' <=> Handling("detect")
    BY <2>1 DEF Handling
  <2> QED BY <2>1, <2>2, <2>3 DEF DetectTypes, SlotFollows, Silence
<1>5. CASE StopStatus
  <2>1. /\ msc = "status" /\ Running("msc") /\ finish_request("msc", cerr)
        /\ UNCHANGED <<opcode, answer, card, edge, flag, level, slot, steady>>
    BY <1>5 DEF StopStatus, detect
  <2>2. cerr = "ok" /\ Dir(opcode) # "none" /\ proc # "status"
    BY <2>1, RequestAssumption DEF Inv, AtRest, InProgress, Types, Dir
  <2>3. Leave /\ proc' = proc
    BY <2>1, <2>2 DEF finish_request, MayRetry
  <2>4. stack' \in Stacks /\ (Handling("detect")' <=> Handling("detect"))
    BY <2>1, <2>3, Pop DEF DetectTypes
  <2> QED BY <2>1, <2>2, <2>3, <2>4 DEF DetectTypes, SlotFollows, Silence
<1>6. CASE Setup \/ Return \/ DataEnds
  BY <1>6, DetectUnchanged DEF Setup, Return, DataEnds, host, hardware
<1>7. CASE MscIrq
  <2>1. UNCHANGED <<opcode, answer, card, edge, flag, level, slot, steady, proc>>
    BY <1>7 DEF MscIrq, start_cmd, detect
  <2>2. Dir(opcode) # "none" /\ proc # "status"
    BY <1>7, RequestAssumption DEF MscIrq, Inv, AtRest, InProgress, Types, Dir
  <2>3. stack' \in Stacks /\ (Handling("detect")' <=> Handling("detect"))
    <3>1. CASE stack' = stack
      BY <3>1 DEF DetectTypes, Handling
    <3>2. CASE stack' = Append(stack, "msc") /\ ~Handling("msc")
      BY <3>2, Push DEF DetectTypes
    <3> QED BY <1>7, <3>1, <3>2 DEF MscIrq
  <2> QED BY <2>1, <2>2, <2>3 DEF DetectTypes, SlotFollows, Silence
<1>8. CASE CardMoves
  <2>1. /\ card' = ~card /\ steady' = (steady /\ ~Handling("detect") /\ (card' => cmd = "none"))
        /\ flag' = (flag \/ edge = IF card THEN "removal" ELSE "insertion")
        /\ UNCHANGED <<opcode, answer, edge, level, slot, proc, completed, cerr, stack>>
    BY <1>8 DEF CardMoves, host, hardware
  <2>2. Handling("detect")' <=> Handling("detect")
    BY <2>1 DEF Handling
  <2>3. DetectTypes'
    BY <2>1 DEF DetectTypes
  <2>4. SlotFollows'
    BY <2>1, <2>2 DEF DetectTypes, SlotFollows
  <2>5. proc = "status" => cmd # "none"
    BY DEF Inv, Types, AtRest, InProgress
  <2>6. Silence'
    BY <2>1, <2>2, <2>5 DEF DetectTypes, Silence
  <2> QED BY <2>3, <2>4, <2>6
<1>9. CASE DetectIrq
  <2>1. /\ flag /\ ~Handling("detect") /\ flag' = FALSE /\ level' = card
        /\ stack' = Append(stack, "detect")
        /\ UNCHANGED <<opcode, answer, card, edge, slot, steady, proc, completed, cerr>>
    BY <1>9 DEF DetectIrq, host, hardware
  <2>2. stack' \in Stacks /\ Handling("detect")'
    BY <2>1, Push DEF DetectTypes
  <2> QED BY <2>1, <2>2 DEF DetectTypes, SlotFollows, Silence
<1>10. CASE DetectArm
  <2>1. /\ Running("detect") /\ Leave /\ edge' = NextEdge /\ flag' = FALSE /\ slot' = level
        /\ UNCHANGED <<opcode, answer, card, level, steady, proc, completed, cerr>>
    BY <1>10 DEF DetectArm, host, hardware
  <2>2. stack' \in Stacks /\ ~Handling("detect")' /\ Handling("detect")
    BY <2>1, Pop DEF DetectTypes
  <2> QED BY <2>1, <2>2 DEF DetectTypes, SlotFollows, Silence, NextEdge
<1>11. CASE UNCHANGED vars
  BY <1>11, DetectUnchanged DEF vars, host, hardware
<1> QED BY <1>1, <1>2, <1>3, <1>4, <1>5, <1>6, <1>7, <1>8, <1>9, <1>10, <1>11 DEF Next, PollEnd

\* For every set of requests and every number of retries: a command that no card
\* has answered ends with an error, because the card detect interrupt has cleared
\* mmc_slot_enable before the poll of jz_mmc_start_cmd gives up; only a card that
\* moves inside its handler, or comes during a command, escapes it.  The host
\* structure, the retries and the nesting of the handlers stay well formed.
THEOREM SilenceFails == Spec => []SilenceIsAnError
<1>1. Inv /\ [Next]_vars => Inv'
  BY InvNext
<1>2. Inv /\ DetectInvariant /\ [Next]_vars => DetectInvariant'
  BY DetectInvNext
<1>3. Inv /\ DetectInvariant => SilenceIsAnError
  BY DEF Inv, Types, DetectInvariant, DetectTypes, Silence, SilenceIsAnError, TypeOK, Stacks
<1> QED BY InitInv, DetectInvInit, <1>1, <1>2, <1>3, PTL DEF Spec
=============================================================================
