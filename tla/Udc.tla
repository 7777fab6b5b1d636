-------------------------------- MODULE Udc --------------------------------
(***************************************************************************)
(* The data endpoints of the JZ4740 USB device controller driver           *)
(* (drivers/usb/gadget/jz4740_udc.c) in DMA mode, as it is loaded          *)
(* (use_dma = 1): the request queues that a gadget driver fills and the    *)
(* interrupt handler empties, the two DMA channels, halting, enabling and  *)
(* disabling, and the registration of the gadget driver.                   *)
(*                                                                         *)
(* The kernel is uniprocessor and not preemptible, so a section under the  *)
(* spinlock is one step; the callbacks into the gadget driver run in it    *)
(* with interrupts off.  The interrupt handler takes one step per bit of   *)
(* the status words it read when it was entered: hardware goes on setting  *)
(* bits meanwhile.  While endpoint 0 is served the gadget driver's setup()  *)
(* may run, and it may call every operation of the driver.                 *)
(***************************************************************************)
EXTENDS Naturals, FiniteSets, SequencesExt

CONSTANTS Reqs,      \* the requests of the gadget driver
          EpOf,      \* the endpoint each request is allocated for
          Gadgets,   \* the sets of endpoints a gadget driver may claim
          Halting,   \* bound: the endpoints that are ever asked to halt
          MaxCalls   \* bound: calls of queue() interrupted at once

\* Indices into dev->ep[]: ep1out-bulk, ep1in-bulk, ep2in-int.
Eps == 1..3

ASSUME UdcAssumption == /\ EpOf \in [Reqs -> Eps]
                        /\ Gadgets \subseteq SUBSET Eps
                        /\ Halting \subseteq Eps
                        /\ MaxCalls \in Nat

VARIABLES
  driver,    \* dev->driver: "none", "bound", "leaving" (until udc_disable)
  claimed,   \* the endpoints the gadget driver takes when it is bound
  speed,     \* dev->gadget.speed # USB_SPEED_UNKNOWN
  desc,      \* ep->desc # 0: the endpoint is enabled
  stopped,   \* ep->stopped
  queue,     \* ep->queue
  status,    \* req->req.status: -EINPROGRESS, 0, or "error" (also at first)
  checked,   \* requests whose queue() call passed its checks, lock not taken
  irqe,      \* endpoints enabled in INTRINE and INTROUTE
  sendstall, \* endpoints whose CSR has SENDSTALL
  sentstall, \* IN endpoints whose CSR has SENTSTALL
  fifo,      \* the packet shorter than MAXP that waits in the OUT FIFO: "none",
             \* "short" (of some bytes), "zero" (of length zero)
  chan,      \* the DMA channels: CNTL.EP, the buffer, whether it still moves
  intr,      \* INTRUSB, INTRIN, INTROUT and INTR: bits set, not yet read
  snap       \* the bits the running interrupt handler has still to serve

gadget == <<driver, claimed, speed, checked>>
soft == <<desc, stopped, queue, status>>
hard == <<irqe, sendstall, sentstall, fifo, chan>>
vars == <<gadget, soft, hard, intr, snap>>

ep_is_in(e) == e # 1
ep_index(e) == IF e = 1 THEN 1 ELSE e - 1
Dir(e) == IF ep_is_in(e) THEN "in" ELSE "out"

\* The bits in the order in which the handler serves them; "setup" stands for
\* the call of setup() that the service of endpoint 0 can make.
Bits == <<"reset", "ep0", "setup", "dma_in", "dma_out", "inep1", "inep2", "outep1">>
EpBit(e) == CASE e = 1 -> "outep1" [] e = 2 -> "inep1" [] e = 3 -> "inep2"
Idle == [ep |-> 0, req |-> "none", run |-> FALSE]

Members(q) == {q[i] : i \in DOMAIN q}
Queued(r) == r \in Members(queue[EpOf[r]])

Init ==
  /\ driver = "none" /\ claimed \in Gadgets /\ speed = FALSE /\ checked = {}
  /\ desc = [e \in Eps |-> FALSE]
  /\ stopped = [e \in Eps |-> FALSE]
  /\ queue = [e \in Eps |-> << >>]
  /\ status = [r \in Reqs |-> "error"]
  /\ irqe = {} /\ sendstall = {} /\ sentstall = {} /\ fifo = "none"
  /\ chan = [d \in {"in", "out"} |-> Idle]
  /\ intr = {} /\ snap = {}

-----------------------------------------------------------------------------
(* Who runs *)

First(b) == /\ b \in snap
            /\ \E i \in DOMAIN Bits :
                 Bits[i] = b /\ \A j \in 1..(i - 1) : Bits[j] \notin snap
Process == snap = {}
InSetup == First("setup")
GadgetRuns == Process \/ InSetup
Served(b) == First(b) /\ snap' = snap \ {b}

(* Helpers of the driver *)

\* kick_dma: both IN endpoints use channel 1, the OUT endpoint channel 2.
kick_dma(c, e, r) ==
  [c EXCEPT ![Dir(e)] = [ep |-> ep_index(e), req |-> r, run |-> TRUE]]

\* flush: what the OUT FIFO holds is thrown away.
Flushed(e) == IF e = 1 THEN "none" ELSE fifo

\* MUTANT: the next request is left to the next call of queue().
Advance_none(c, e, q) == c
\* write_fifo and read_fifo start the request they find at the head next.
Advance(c, e, q) == IF q = << >> THEN c ELSE kick_dma(c, e, Head(q))

\* MUTANT: the channel is left enabled.
DmaOff_none(c) == c
\* read_fifo writes 0 to CNTL2.
DmaOff(c) == [c EXCEPT !["out"] = Idle]

\* MUTANT: a request that is queued again goes to the front.
Retired_front(q, again) == IF again THEN q ELSE Tail(q)
\* done on the head: the callback may queue the request again; the endpoint
\* is marked stopped meanwhile, so it is only appended.
Retired(q, again) == IF again THEN Append(Tail(q), Head(q)) ELSE Tail(q)

\* The locked part of queue().
Submit(r) ==
  LET e == EpOf[r] IN
  /\ status' = [status EXCEPT ![r] = "progress"]
  /\ queue' = [queue EXCEPT ![e] = Append(@, r)]
  /\ IF queue[e] = << >> /\ ~stopped[e]
       THEN chan' = kick_dma(chan, e, r) /\ irqe' = irqe \cup {e}
       ELSE UNCHANGED <<chan, irqe>>
  /\ UNCHANGED <<desc, stopped, sendstall, sentstall, fifo>>

\* MUTANT: queue() does not look whether the request is queued already.
Accepts_busy(r) == /\ r \notin checked
                   /\ desc[EpOf[r]] /\ driver = "bound" /\ speed
\* The checks that queue() makes before it takes the lock.
Accepts(r) == /\ r \notin checked /\ ~Queued(r)
              /\ desc[EpOf[r]] /\ driver = "bound" /\ speed

-----------------------------------------------------------------------------
(* Operations of the gadget driver *)

\* queue(): the request and the endpoint are checked before the lock is taken.
QueueCheck(r) ==
  /\ Process /\ Accepts(r) /\ Cardinality(checked) < MaxCalls
  /\ checked' = checked \cup {r}
  /\ UNCHANGED <<driver, claimed, speed, soft, hard, intr, snap>>

QueueLocked(r) ==
  /\ Process /\ r \in checked
  /\ checked' = checked \ {r}
  /\ Submit(r)
  /\ UNCHANGED <<driver, claimed, speed, intr, snap>>

\* The same call made by setup(), where nothing comes in between.
QueueInSetup(r) ==
  /\ InSetup /\ Accepts(r)
  /\ Submit(r)
  /\ UNCHANGED <<gadget, intr, snap>>

\* dequeue(): the channel is left as it is.
Dequeue(r) ==
  /\ GadgetRuns
  /\ \E i \in DOMAIN queue[EpOf[r]] :
       /\ queue[EpOf[r]][i] = r
       /\ queue' = [queue EXCEPT ![EpOf[r]] = RemoveAt(@, i)]
  /\ status' = [status EXCEPT ![r] = "error"]
  /\ UNCHANGED <<gadget, desc, stopped, hard, intr, snap>>

\* set_halt() once it has an enabled endpoint.  An IN endpoint with requests
\* is not halted (-EAGAIN).
Halt(e, value) ==
  /\ IF value /\ ep_is_in(e) /\ queue[e] # << >>
       THEN UNCHANGED <<stopped, sendstall, fifo>>
       ELSE /\ stopped' = [stopped EXCEPT ![e] = value]
            /\ sendstall' = IF value THEN sendstall \cup {e} ELSE sendstall \ {e}
            /\ fifo' = Flushed(e)

SetHalt(e, value) ==
  /\ GadgetRuns /\ e \in Halting /\ desc[e]
  /\ Halt(e, value)
  /\ UNCHANGED <<gadget, desc, queue, status, irqe, sentstall, chan, intr, snap>>

EpEnable(e) ==
  /\ GadgetRuns /\ e \in claimed /\ ~desc[e] /\ driver = "bound" /\ speed
  /\ desc' = [desc EXCEPT ![e] = TRUE]
  /\ Halt(e, FALSE)
  /\ UNCHANGED <<gadget, queue, status, irqe, sentstall, chan, intr, snap>>

\* nuke: every request of the endpoints es is given back with -ESHUTDOWN.
Nuke(es) ==
  /\ queue' = [e \in Eps |-> IF e \in es THEN << >> ELSE queue[e]]
  /\ status' = [r \in Reqs |-> IF EpOf[r] \in es /\ Queued(r)
                                 THEN "error" ELSE status[r]]
  /\ fifo' = IF 1 \in es THEN "none" ELSE fifo
  /\ irqe' = irqe \ {e \in es : desc[e]}

EpDisable(e) ==
  /\ GadgetRuns /\ desc[e]
  /\ Nuke({e})
  /\ desc' = [desc EXCEPT ![e] = FALSE]
  /\ stopped' = [stopped EXCEPT ![e] = TRUE]
  /\ UNCHANGED <<gadget, sendstall, sentstall, chan, intr, snap>>

\* usb_gadget_register_driver: bind() claims endpoints; udc_enable
Register ==
  /\ Process /\ driver = "none"
  /\ driver' = "bound" /\ speed' = FALSE
  /\ irqe' = {} /\ fifo' = "none"
  /\ UNCHANGED <<claimed, checked, soft, sendstall, sentstall, chan, intr, snap>>

\* usb_gadget_unregister_driver: stop_activity (with udc_reinit) under the
\* lock.  The gadget driver has no call of its own in progress.
StopActivity ==
  /\ Process /\ driver = "bound" /\ checked = {}
  /\ driver' = "leaving" /\ speed' = FALSE
  /\ Nuke(Eps)
  /\ desc' = [e \in Eps |-> FALSE]
  /\ stopped' = [e \in Eps |-> FALSE]
  /\ UNCHANGED <<claimed, checked, sendstall, sentstall, chan, intr, snap>>

\* Then udc_disable.  The bits of the endpoints stay set behind their masks;
\* any other is served with every endpoint disabled and does nothing.
UdcDisable ==
  /\ Process /\ driver = "leaving"
  /\ driver' = "none" /\ speed' = FALSE
  /\ irqe' = {} /\ chan' = [d \in {"in", "out"} |-> Idle]
  /\ intr' = intr \cap {EpBit(e) : e \in Eps}
  /\ UNCHANGED <<claimed, checked, soft, sendstall, sentstall, fifo, snap>>

-----------------------------------------------------------------------------
(* The interrupt handler *)

Enabled == {"reset", "ep0", "dma_in", "dma_out"} \cup {EpBit(e) : e \in irqe}

IrqEnter ==
  /\ Process /\ driver # "none" /\ intr \cap Enabled # {}
  /\ snap' = intr /\ intr' = {}
  /\ UNCHANGED <<gadget, soft, hard>>

IrqReset ==
  /\ Served("reset")
  /\ speed' = TRUE
  /\ UNCHANGED <<driver, claimed, checked, soft, hard, intr>>

\* SET_FEATURE and CLEAR_FEATURE are served by the driver itself: the host
\* names the address of endpoint a, the driver takes dev->ep[number of a].
HostFeature(a, value) ==
  LET e == ep_index(a) IN
  /\ e \in Halting
  /\ Served("ep0")
  /\ IF desc[e] THEN Halt(e, value) ELSE UNCHANGED <<stopped, sendstall, fifo>>
  /\ UNCHANGED <<gadget, desc, queue, status, irqe, sentstall, chan, intr>>

\* Every other control transfer goes to the gadget driver's setup().
SetupCalls ==
  /\ First("ep0")
  /\ snap' = IF driver = "bound" THEN (snap \ {"ep0"}) \cup {"setup"}
                                  ELSE snap \ {"ep0"}
  /\ UNCHANGED <<gadget, soft, hard, intr>>

SetupReturns ==
  /\ Served("setup")
  /\ UNCHANGED <<gadget, soft, hard, intr>>

\* write_fifo: the head is complete.
write_fifo(e) ==
  \E again \in BOOLEAN :
    LET r == Head(queue[e])
        q == Retired(queue[e], again)
    IN /\ queue' = [queue EXCEPT ![e] = q]
       /\ status' = [status EXCEPT ![r] = IF again THEN "progress" ELSE "ok"]
       /\ irqe' = IF q = << >> THEN irqe \ {e} ELSE irqe \cup {e}
       /\ chan' = Advance(chan, e, q)
       /\ UNCHANGED <<desc, stopped, sendstall, sentstall, fifo>>

in_epn(e) ==
  \/ /\ e \in sentstall
     /\ sentstall' = sentstall \ {e}
     /\ UNCHANGED <<soft, irqe, sendstall, fifo, chan>>
  \/ /\ e \notin sentstall /\ (~desc[e] \/ queue[e] = << >>)
     /\ UNCHANGED <<soft, hard>>
  \/ /\ e \notin sentstall /\ desc[e] /\ queue[e] # << >>
     /\ write_fifo(e)

\* read_fifo, on what is left in the FIFO once the packet was read for the
\* head r.  The room left for it is computed from the address register of
\* channel 2: none when the DMA has filled the buffer, arbitrary when it is
\* the address of another request.  Only a packet of which bytes were read is
\* acknowledged, so one of length zero never is.
Left(r) ==
  CASE fifo = "zero" \/ (chan["out"].req = r /\ ~chan["out"].run) -> {fifo}
    [] fifo # "zero" /\ chan["out"].req = r /\ chan["out"].run -> {"none"}
    [] fifo # "zero" /\ chan["out"].req # r -> {fifo, "none"}

\* read_fifo: the head is complete.
read_fifo ==
  \E again \in BOOLEAN :
    LET r == Head(queue[1])
        q == Retired(queue[1], again)
    IN /\ queue' = [queue EXCEPT ![1] = q]
       /\ status' = [status EXCEPT ![r] = IF again THEN "progress" ELSE "ok"]
       /\ fifo' \in Left(r)
       /\ irqe' = IF q = << >> THEN irqe \ {1} ELSE irqe \cup {1}
       /\ chan' = Advance(DmaOff(chan), 1, q)
       /\ UNCHANGED <<desc, stopped, sendstall, sentstall>>

\* Endpoint 0 is what CNTL2 names after read_fifo has cleared it.
out_epn(e) ==
  \/ /\ e = 1 /\ ~desc[1]
     /\ fifo' = "none"
     /\ UNCHANGED <<soft, irqe, sendstall, sentstall, chan>>
  \/ /\ e = 1 => desc[1] /\ queue[1] = << >>
     /\ UNCHANGED <<soft, hard>>
  \/ /\ e = 1 /\ desc[1] /\ queue[1] # << >>
     /\ read_fifo

IrqDmaIn ==
  /\ Served("dma_in")
  /\ in_epn(chan["in"].ep + 1)
  /\ UNCHANGED <<gadget, intr>>

IrqDmaOut ==
  /\ Served("dma_out")
  /\ out_epn(chan["out"].ep)
  /\ UNCHANGED <<gadget, intr>>

IrqInEp(e) ==
  /\ Served(EpBit(e))
  /\ in_epn(e)
  /\ UNCHANGED <<gadget, intr>>

IrqOutEp ==
  /\ Served("outep1")
  /\ out_epn(1)
  /\ UNCHANGED <<gadget, intr>>

-----------------------------------------------------------------------------
(* The controller and the host: external *)

\* The channel has moved its buffer.  A short packet at the head of the OUT
\* FIFO is not for the DMA and holds it up.
DmaDone(d) ==
  /\ chan[d].run /\ (d = "out" => fifo = "none")
  /\ chan' = [chan EXCEPT ![d].run = FALSE]
  /\ intr' = intr \cup {IF d = "in" THEN "dma_in" ELSE "dma_out"}
  /\ UNCHANGED <<gadget, soft, irqe, sendstall, sentstall, fifo, snap>>

ShortPacket ==
  /\ desc[1] /\ 1 \notin sendstall /\ fifo = "none"
  /\ fifo' \in {"short", "zero"}
  /\ intr' = intr \cup {"outep1"}
  /\ UNCHANGED <<gadget, soft, irqe, sendstall, sentstall, chan, snap>>

\* The host talks to a halted endpoint and is answered with a stall.
HostStalled(e) ==
  /\ e \in sendstall /\ desc[e]
  /\ sentstall' = IF ep_is_in(e) THEN sentstall \cup {e} ELSE sentstall
  /\ intr' = intr \cup {EpBit(e)}
  /\ UNCHANGED <<gadget, soft, irqe, sendstall, fifo, chan, snap>>

\* A reset of a bus whose speed is known changes nothing (jz4740_reset_irq).
HostReset ==
  /\ driver # "none" /\ ~speed
  /\ intr' = intr \cup {"reset"}
  /\ UNCHANGED <<gadget, soft, hard, snap>>

HostSetup ==
  /\ driver # "none" /\ speed
  /\ intr' = intr \cup {"ep0"}
  /\ UNCHANGED <<gadget, soft, hard, snap>>

-----------------------------------------------------------------------------
Irq == \/ IrqReset \/ SetupCalls \/ SetupReturns
       \/ IrqDmaIn \/ IrqDmaOut \/ IrqOutEp
       \/ \E e \in {2, 3} : IrqInEp(e)
       \/ \E a \in Eps, value \in BOOLEAN : HostFeature(a, value)

Next ==
  \/ \E r \in Reqs : \/ QueueCheck(r) \/ QueueLocked(r) \/ QueueInSetup(r)
                     \/ Dequeue(r)
  \/ \E e \in Eps : \/ EpEnable(e) \/ EpDisable(e) \/ HostStalled(e)
                    \/ \E value \in BOOLEAN : SetHalt(e, value)
  \/ Register \/ StopActivity \/ UdcDisable
  \/ IrqEnter \/ Irq
  \/ \E d \in {"in", "out"} : DmaDone(d)
  \/ ShortPacket \/ HostReset \/ HostSetup

Spec == Init /\ [][Next]_vars

\* The host sends the data that an armed OUT request waits for and collects
\* the data of an IN request, so that a running channel ends.
HostKeepsUp == \A d \in {"in", "out"} : WF_vars(DmaDone(d))

\* The interrupt is taken, the handler is left once it was entered, and the
\* host keeps up.  Nothing is asked of the gadget driver.
FairSpec == Spec /\ WF_vars(IrqEnter) /\ WF_vars(Irq) /\ HostKeepsUp

-----------------------------------------------------------------------------
\* Every variable has its type.
TypeOK ==
  /\ driver \in {"none", "bound", "leaving"} /\ speed \in BOOLEAN
  /\ checked \subseteq Reqs /\ claimed \subseteq Eps
  /\ desc \in [Eps -> BOOLEAN] /\ stopped \in [Eps -> BOOLEAN]
  /\ queue \in [Eps -> Seq(Reqs)]
  /\ status \in [Reqs -> {"progress", "ok", "error"}]
  /\ irqe \subseteq Eps /\ sendstall \subseteq Eps /\ sentstall \subseteq {2, 3}
  /\ fifo \in {"none", "short", "zero"}
  /\ chan \in [{"in", "out"} ->
                 [ep : 0..2, req : Reqs \cup {"none"}, run : BOOLEAN]]
  /\ intr \subseteq Members(Bits) /\ snap \subseteq Members(Bits)

\* Between being accepted and being given back a request is on the queue of
\* its endpoint, once, and never outside that time, whatever is queued,
\* dequeued, resubmitted by a callback, halted or shut down (queue, done,
\* nuke): each request is given back exactly once per submission, and the
\* queues and channels name requests and endpoints that exist.
GivenBackOnce ==
  /\ TypeOK
  /\ \A e \in Eps : \A i, j \in DOMAIN queue[e] :
        queue[e][i] = queue[e][j] => i = j
  /\ \A e \in Eps : \A r \in Members(queue[e]) : EpOf[r] = e
  /\ \A r \in Reqs : status[r] = "progress" <=> Queued(r)

\* A request of the OUT endpoint that was given back as completed is not
\* being written to any more: read_fifo stops channel 2 before done(), also
\* when the interrupt it serves was meant for another request.
CompletedIsStill ==
  chan["out"].run => status[chan["out"].req] # "ok"

Pending(b) == b \in snap \/ b \in intr \cap Enabled

\* Something will make the handler look at the head of the queue.
Driven(e) ==
  desc[e] /\ ~stopped[e] /\ queue[e] # << >> =>
    \/ Pending(EpBit(e)) /\ e \notin sentstall
    \/ /\ chan[Dir(e)].ep = ep_index(e)
       /\ e \in irqe
       /\ \/ Pending(IF ep_is_in(e) THEN "dma_in" ELSE "dma_out")
          \/ chan[Dir(e)].run /\ (e = 1 => fifo = "none")

Restarted(e) == ~(desc[e] /\ ~stopped[e]) /\ desc'[e] /\ ~stopped'[e]
Stolen(e) == ep_is_in(e) /\ ep_index(e) \in {chan["in"].ep} \ {chan'["in"].ep}
Deaf(e) == e = 1 /\ fifo # "none" /\ queue[e] = << >>

\* The handler looks at the head of the queue of e, and it is r.
Retires(r) ==
  LET e == EpOf[r] IN
  /\ desc[e] /\ queue[e] # << >> /\ Head(queue[e]) = r /\ e \notin sentstall
  /\ \/ First(EpBit(e)) /\ EpBit(e) \notin snap'
     \/ /\ chan[Dir(e)].ep = ep_index(e)
        /\ LET b == IF ep_is_in(e) THEN "dma_in" ELSE "dma_out"
           IN First(b) /\ b \notin snap'

Unread(e) ==
  /\ e = 1 /\ queue[e] # << >> /\ Retires(Head(queue[e])) /\ First("outep1")
  /\ \/ fifo = "zero"
     \/ fifo = "short" /\ ~(chan["out"].run /\ chan["out"].req = Head(queue[e]))

\* An endpoint with requests is left with nothing to drive it in four ways
\* only: set_halt(0) and ep_enable do not start the requests they find
\* queued; the other IN endpoint takes channel 1 over; a first request is
\* queued while a short packet, whose interrupt found the queue empty,
\* waits in the OUT FIFO; the interrupt of a short packet completes the head
\* but the packet stays in front of the next request's data, because it has
\* length zero or because channel 2 is not running on the head (it was
\* dequeued before it, or never started).  Completing any other request,
\* dequeueing, halting, shutting down and resubmitting never do (write_fifo,
\* read_fifo, nuke).
LostOnlyThus ==
  [][\A e \in Eps :
       Driven(e) => \/ Driven(e)'
                    \/ Restarted(e) \/ Stolen(e) \/ Deaf(e) \/ Unread(e)]_vars

\* As long as no endpoint is lost, no request waits for ever on an endpoint
\* that is enabled and not halted: it is given back, and if its callback
\* queues it again, given back again, however many requests are before it
\* and whatever the gadget driver does meanwhile.  The host is to keep up: it
\* sends what an OUT request asks for and collects what an IN request has
\* (HostKeepsUp); it may halt and reset and send short packets besides.
GivenBackEventually ==
  [](\A e \in Eps : Driven(e)) =>
    \A r \in Reqs :
      \/ []<>(~Queued(r) \/ stopped[EpOf[r]] \/ ~desc[EpOf[r]])
      \/ []<><<Retires(r)>>_vars
=============================================================================
