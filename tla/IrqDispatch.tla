---------------------------- MODULE IrqDispatch ----------------------------
(***************************************************************************)
(* Interrupt dispatch of the JZ4740: plat_irq_dispatch and the three irq   *)
(* chips of arch/mips/jz4740/irq.c, with __do_IRQ of kernel/irq/handle.c   *)
(* and the driver's calls of kernel/irq/manage.c.  One processor; handlers *)
(* without IRQF_DISABLED may be interrupted themselves.                    *)
(*                                                                         *)
(* An irq number stands for a request of its own: a line of the interrupt  *)
(* controller, a DMA channel or a GPIO pin.  The channels share one line,  *)
(* the pins of a port share one line.                                      *)
(***************************************************************************)
EXTENDS Integers, Sequences, FiniteSetsExt

CONSTANTS
    Lines,       \* lines of the interrupt controller
    IRQ_DMAC,    \* the line of the DMA channels
    IRQ_GPIO0,   \* the line of port 0; port g has IRQ_GPIO0 - g
    IRQ_DMA_0,   \* irq number of DMA channel 0
    Channels,    \* number of DMA channels
    IRQ_GPIO_0,  \* irq number of pin 0
    Ports,       \* number of GPIO ports
    Width,       \* pins of a port
    Users,       \* irq numbers some driver requests
    Late,        \* those requested, freed and disabled while the system runs;
                 \* the others are requested before the first device is live
    Atomic,      \* those requested with IRQF_DISABLED
    Rearming,    \* pins whose driver calls __gpio_as_irq_*_edge, before
                 \* request_irq and in the handler
    MaxDepth,    \* bound: nested disable_irq calls
    MaxRaises    \* bound: requests the devices raise

NR_IRQS == IRQ_GPIO_0 + Ports * Width
Irqs == 0 .. NR_IRQS - 1
Chan == IRQ_DMA_0 .. IRQ_DMA_0 + Channels - 1
Pins(g) == IRQ_GPIO_0 + g * Width .. IRQ_GPIO_0 + (g + 1) * Width - 1
AllPins == IRQ_GPIO_0 .. NR_IRQS - 1
Port(p) == (p - IRQ_GPIO_0) \div Width

ASSUME NumbersAssumption ==
    /\ Lines \in Nat /\ Channels \in Nat /\ Ports \in Nat \ {0} /\ Width \in Nat \ {0}
    /\ IRQ_DMAC \in 0 .. Lines - 1 /\ IRQ_GPIO0 \in 0 .. Lines - 1
    /\ IRQ_GPIO0 - (Ports - 1) \in 0 .. Lines - 1
    /\ IRQ_DMAC \notin IRQ_GPIO0 - (Ports - 1) .. IRQ_GPIO0
    /\ IRQ_DMA_0 \in Nat /\ IRQ_DMA_0 >= Lines
    /\ IRQ_GPIO_0 \in Nat /\ IRQ_GPIO_0 >= IRQ_DMA_0 + Channels
    /\ MaxDepth \in Nat \ {0} /\ MaxRaises \in Nat

Shared == {IRQ_DMAC} \cup (IRQ_GPIO0 - (Ports - 1) .. IRQ_GPIO0)
Direct == (0 .. Lines - 1) \ Shared

(***************************************************************************)
(* A pin that is armed before it is requested has its port to itself, as   *)
(* the card detect pin of the A320 does: its flag could not be cleared     *)
(* while handle_bad_irq is the pin's handler.                              *)
(***************************************************************************)
ASSUME UsersAssumption ==
    /\ Users \subseteq Direct \cup Chan \cup AllPins
    /\ Atomic \subseteq Users /\ Late \subseteq Users
    /\ Rearming \subseteq Late \cap AllPins
    /\ \A p \in Rearming : Users \cap Pins(Port(p)) = {p}

VARIABLES
    req,       \* requests: a pin's flag (PXFLG), a channel's or a device's request
    mask,      \* masked irqs: IMR, PXIM, a channel without TIE
    desc,      \* irq_desc of the irqs in use; all others have handle_bad_irq
    intc_ipr,  \* the static variable of plat_irq_dispatch
    serving,   \* the line plat_irq_dispatch has picked, -1 if it does not run
    stack,     \* handlers that run, the innermost last
    owed,      \* requests raised for which no handler has run since
    raises

vars == <<req, mask, desc, intc_ipr, serving, stack, owed, raises>>

Desc == [bad: BOOLEAN, action: BOOLEAN, disabled: BOOLEAN,
         inprogress: BOOLEAN, pending: BOOLEAN, depth: 0 .. MaxDepth]
Frame == [irq: Users, done: BOOLEAN]

(***************************************************************************)
(* The chips.  A line requests when it is open and something behind it     *)
(* does; enabling an irq also opens the line it shares.                    *)
(***************************************************************************)
LineOf(i) == IF i \in AllPins THEN IRQ_GPIO0 - Port(i)
             ELSE IF i \in Chan THEN IRQ_DMAC ELSE i
Behind(l) == {i \in Irqs : i \notin Shared /\ LineOf(i) = l}
REG_INTC_IPR == {l \in (0 .. Lines - 1) \ mask : (Behind(l) \cap req) \ mask # {}}

Init ==
    /\ req = {} /\ intc_ipr = {} /\ serving = -1
    /\ mask = Irqs \ UNION {{i, LineOf(i)} : i \in Users \ Late}
    /\ desc = [i \in Users |-> [bad |-> i \in Late, action |-> i \notin Late,
                                disabled |-> i \in Late, inprogress |-> FALSE,
                                pending |-> FALSE, depth |-> IF i \in Late THEN 1 ELSE 0]]
    /\ stack = <<>> /\ owed = {} /\ raises = 0

enable(i, m) == m \ {i, LineOf(i)}
end(d, i, m) == IF d.disabled \/ d.inprogress THEN m ELSE enable(i, m)

(***************************************************************************)
(* Which irq a line stands for.  The macros look at the flags, masked or   *)
(* not, and answer -1 if none is set.                                      *)
(***************************************************************************)
gpio_group_irq(g) == LET F == req \cap Pins(g)
                     IN  IF F = {} THEN -1 ELSE Max(F) - Min(Pins(g))
dmac_get_irq == LET F == (req \cap Chan) \ mask
                IN  IF F = {} THEN -1 ELSE Min(F) - IRQ_DMA_0
plat_real_irq(l) ==
    IF l = IRQ_DMAC THEN dmac_get_irq + IRQ_DMA_0
    ELSE IF l \in Shared
    THEN gpio_group_irq(IRQ_GPIO0 - l) + IRQ_GPIO_0 + (IRQ_GPIO0 - l) * Width
    ELSE l

Top == stack[Len(stack)]
IrqsOn == serving = -1 /\ (stack # <<>> => Top.irq \notin Atomic)
InProcess == serving = -1 /\ stack = <<>>

-----------------------------------------------------------------------------
(* plat_irq_dispatch up to the choice of a line: the lowest one that        *)
(* requests now or was seen to request before.                              *)
Exception ==
    /\ IrqsOn /\ REG_INTC_IPR # {}
    /\ LET seen == intc_ipr \cup REG_INTC_IPR
       IN  serving' = Min(seen) /\ intc_ipr' = seen \ {Min(seen)}
    /\ UNCHANGED <<req, mask, desc, stack, owed, raises>>

\* MUTANT: the pin is masked but its flag is not cleared.
acked_none(i) == req
(* ack of the three chips: a pin's flag is cleared, a device's request is not *)
acked(i) == req \ ({i} \cap AllPins)

(* handle_bad_irq: an irq nobody has requested yet is only reported *)
BadIrq(i) == (i \in Users => desc[i].bad) /\ UNCHANGED <<req, mask, desc, stack, owed>>

\* MUTANT: IRQ_INPROGRESS is not looked at.
StartHandler_reenter(i) ==
    /\ i \in Users /\ ~desc[i].bad /\ ~desc[i].disabled
    /\ req' = acked(i) /\ mask' = mask \cup {i}
    /\ desc' = [desc EXCEPT ![i].inprogress = TRUE, ![i].pending = FALSE]
    /\ stack' = Append(stack, [irq |-> i, done |-> FALSE])
    /\ owed' = owed \ ({i} \cap AllPins)
(* __do_IRQ that may run the handler *)
StartHandler(i) ==
    /\ i \in Users /\ ~desc[i].bad /\ ~desc[i].disabled /\ ~desc[i].inprogress
    /\ req' = acked(i) /\ mask' = mask \cup {i}
    /\ desc' = [desc EXCEPT ![i].inprogress = TRUE, ![i].pending = FALSE]
    /\ stack' = Append(stack, [irq |-> i, done |-> FALSE])
    /\ owed' = owed \ ({i} \cap AllPins)

(* __do_IRQ for a disabled irq, or for one whose handler already runs *)
MarkPending(i) ==
    /\ i \in Users /\ ~desc[i].bad /\ (desc[i].disabled \/ desc[i].inprogress)
    /\ req' = acked(i) /\ mask' = mask \cup {i}
    /\ desc' = [desc EXCEPT ![i].pending = TRUE]
    /\ owed' = IF desc[i].disabled THEN owed \ ({i} \cap AllPins) ELSE owed
    /\ UNCHANGED stack

Dispatch ==
    /\ serving # -1
    /\ LET i == plat_real_irq(serving) IN BadIrq(i) \/ StartHandler(i) \/ MarkPending(i)
    /\ serving' = -1
    /\ UNCHANGED <<intc_ipr, raises>>

(***************************************************************************)
(* The handler's body.  It clears the request of a level device; it may    *)
(* stop another channel and clear its request, as the MMC and audio        *)
(* drivers do; the card detect handler configures its pin again.           *)
(***************************************************************************)
Body ==
    /\ serving = -1 /\ stack # <<>> /\ ~Top.done
    /\ stack' = [stack EXCEPT ![Len(stack)].done = TRUE]
    /\ LET i == Top.irq IN
         \E stopped \in SUBSET (Chan \cap Users) :
            LET gone == (({i} \ AllPins) \cup stopped \cup ({i} \cap Rearming))
            IN  /\ req' = req \ gone
                /\ owed' = owed \ gone
                /\ mask' = mask \ ({i} \cap Rearming)
    /\ UNCHANGED <<desc, intc_ipr, serving, raises>>

(* __do_IRQ after the handler: once more if the irq came again meanwhile *)
HandleAgain ==
    /\ serving = -1 /\ stack # <<>> /\ Top.done /\ desc[Top.irq].pending
    /\ desc' = [desc EXCEPT ![Top.irq].pending = FALSE]
    /\ stack' = [stack EXCEPT ![Len(stack)].done = FALSE]
    /\ owed' = owed \ ({Top.irq} \cap AllPins)
    /\ UNCHANGED <<req, mask, intc_ipr, serving, raises>>

\* MUTANT: end is called before IRQ_INPROGRESS is cleared.
EndHandler_early ==
    /\ serving = -1 /\ stack # <<>> /\ Top.done /\ ~desc[Top.irq].pending
    /\ desc' = [desc EXCEPT ![Top.irq].inprogress = FALSE]
    /\ mask' = end(desc[Top.irq], Top.irq, mask)
    /\ stack' = SubSeq(stack, 1, Len(stack) - 1)
    /\ UNCHANGED <<req, intc_ipr, serving, owed, raises>>
\* MUTANT: the flag is cleared once more when the handler is done.
EndHandler_ack ==
    /\ serving = -1 /\ stack # <<>> /\ Top.done /\ ~desc[Top.irq].pending
    /\ LET i == Top.irq
           d == [desc[i] EXCEPT !.inprogress = FALSE]
       IN  desc' = [desc EXCEPT ![i] = d] /\ mask' = end(d, i, mask)
    /\ req' = acked(Top.irq)
    /\ stack' = SubSeq(stack, 1, Len(stack) - 1)
    /\ UNCHANGED <<intc_ipr, serving, owed, raises>>
(* __do_IRQ when the handler has dealt with all that came in *)
EndHandler ==
    /\ serving = -1 /\ stack # <<>> /\ Top.done /\ ~desc[Top.irq].pending
    /\ LET i == Top.irq
           d == [desc[i] EXCEPT !.inprogress = FALSE]
       IN  desc' = [desc EXCEPT ![i] = d] /\ mask' = end(d, i, mask)
    /\ stack' = SubSeq(stack, 1, Len(stack) - 1)
    /\ UNCHANGED <<req, intc_ipr, serving, owed, raises>>

-----------------------------------------------------------------------------
(* setup_irq *)
Request(i) ==
    /\ InProcess /\ ~desc[i].action
    /\ desc' = [desc EXCEPT ![i] = [@ EXCEPT !.bad = FALSE, !.action = TRUE, !.disabled = FALSE,
                                            !.inprogress = FALSE, !.depth = 0]]
    /\ mask' = enable(i, mask)
    /\ UNCHANGED <<req, intc_ipr, serving, stack, owed, raises>>

(* free_irq of the only handler *)
Free(i) ==
    /\ InProcess /\ desc[i].action
    /\ desc' = [desc EXCEPT ![i].action = FALSE, ![i].disabled = TRUE]
    /\ mask' = mask \cup {i}
    /\ UNCHANGED <<req, intc_ipr, serving, stack, owed, raises>>

(* disable_irq *)
Disable(i) ==
    /\ InProcess /\ desc[i].action /\ desc[i].depth < MaxDepth
    /\ desc' = [desc EXCEPT ![i].depth = @ + 1, ![i].disabled = TRUE]
    /\ mask' = IF desc[i].depth = 0 THEN mask \cup {i} ELSE mask
    /\ UNCHANGED <<req, intc_ipr, serving, stack, owed, raises>>

(* enable_irq with check_irq_resend: there is no way to send an irq again *)
Enable(i) ==
    /\ InProcess /\ desc[i].action /\ desc[i].depth > 0
    /\ IF desc[i].depth = 1
       THEN /\ desc' = [desc EXCEPT ![i].depth = 0, ![i].disabled = FALSE, ![i].pending = FALSE]
            /\ mask' = enable(i, mask)
       ELSE /\ desc' = [desc EXCEPT ![i].depth = @ - 1]
            /\ UNCHANGED mask
    /\ UNCHANGED <<req, intc_ipr, serving, stack, owed, raises>>

(* __gpio_as_irq_rise_edge and _fall_edge, called by the driver's probe and resume *)
Arm(p) ==
    /\ InProcess
    /\ req' = req \ {p} /\ owed' = owed \ {p} /\ mask' = mask \ {p}
    /\ UNCHANGED <<desc, intc_ipr, serving, stack, raises>>

(***************************************************************************)
(* The devices.  A pin nobody has configured as an interrupt sets no flag; *)
(* whether an edge on a masked pin sets it is the hardware's choice.       *)
(***************************************************************************)
Raise(i) ==
    /\ i \in AllPins \ Rearming => ~desc[i].bad
    /\ raises < MaxRaises /\ raises' = raises + 1
    /\ IF i \in AllPins /\ i \in mask
       THEN \/ UNCHANGED <<req, owed>>
            \/ req' = req \cup {i} /\ owed' = owed \cup {i}
       ELSE req' = req \cup {i} /\ owed' = owed \cup {i}
    /\ UNCHANGED <<mask, desc, intc_ipr, serving, stack>>

(* A device withdraws a request before the handler has seen it. *)
Withdraw(i) ==
    /\ i \in req /\ i \in Direct
    /\ req' = req \ {i} /\ owed' = owed \ {i}
    /\ UNCHANGED <<mask, desc, intc_ipr, serving, stack, raises>>

Cpu == Exception \/ Dispatch \/ Body \/ HandleAgain \/ EndHandler
Driver == \E i \in Late : Request(i) \/ Free(i) \/ Disable(i) \/ Enable(i)
Arming == \E p \in Rearming : Arm(p)
Device == \E i \in Users : Raise(i) \/ Withdraw(i)
Next == Cpu \/ Driver \/ Arming \/ Device

(***************************************************************************)
(* The processor goes on as long as it has something to do.                *)
(***************************************************************************)
FairSpec == Init /\ [][Next]_vars /\ WF_vars(Cpu)
-----------------------------------------------------------------------------
(* Properties *)

(* The descriptors, the masks and the stack of handlers keep their types. *)
TypeOK ==
    /\ req \subseteq Users /\ owed \subseteq Users /\ mask \subseteq Irqs
    /\ desc \in [Users -> Desc]
    /\ intc_ipr \subseteq 0 .. Lines - 1 /\ serving \in -1 .. Lines - 1
    /\ stack \in Seq(Frame) /\ raises \in 0 .. MaxRaises

(* No handler is entered a second time while it runs, whatever comes in    *)
(* while its irq is unmasked again (__do_IRQ, IRQ_INPROGRESS); and an irq  *)
(* is marked as in progress exactly while its handler is on the stack,     *)
(* whose frames, like the descriptors and masks, keep their types.         *)
NoReentry ==
    /\ TypeOK
    /\ \A j, k \in 1 .. Len(stack) : stack[j].irq = stack[k].irq => j = k
    /\ {i \in Users : desc[i].inprogress} = {stack[k].irq : k \in 1 .. Len(stack)}

(* When its handler does not run, a requested irq that is not disabled is  *)
(* open in its chip and on the line it shares: no order of ack, nested     *)
(* dispatch, misdirected dispatch, disable_irq and end leaves it masked.   *)
NotLeftMasked ==
    \A i \in Users : desc[i].action /\ ~desc[i].disabled /\ ~desc[i].inprogress
                        => {i, LineOf(i)} \cap mask = {}

(* Once the devices are quiet every request is answered by a run of its    *)
(* handler that starts after it, unless the irq is disabled meanwhile: the *)
(* flag is cleared before the handler, a second edge is kept in            *)
(* IRQ_PENDING and a masked neighbour on the same port does not hide one.  *)
(* Not owed is the edge of a pin whose handler selects the edge anew and   *)
(* clears the flag: it is dropped there (see SteadySlotFollowsCard).       *)
Answered == \A i \in Users : i \in owed ~> (i \notin owed \/ desc[i].disabled)

(* The processor always returns to the interrupted program with no request *)
(* outstanding: no dispatch repeats for ever.                              *)
ProcessResumes == []<>(InProcess /\ REG_INTC_IPR = {})
=============================================================================
