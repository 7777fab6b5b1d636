---------------------------- MODULE Jz4740Proofs ----------------------------
(***************************************************************************)
(* The architecture code of the JZ4740 (arch/mips/jz4740).                 *)
(*                                                                         *)
(* Interrupt dispatch, proved for every layout of lines, channels and      *)
(* ports and for every set of drivers: no handler is entered while it      *)
(* runs, and no order of dispatch, end, disable_irq, enable_irq,           *)
(* request_irq and free_irq leaves an enabled interrupt masked.            *)
(*                                                                         *)
(* The IPU memory manager, proved for any number of programs, any size of  *)
(* the memory and any list: the ranges stay apart but for the race of two  *)
(* allocations, and the file announces what an allocation will grant.      *)
(***************************************************************************)
EXTENDS IrqDispatch, Imem, FiniteSetTheorems, SequenceTheorems, WellFoundedInduction, TLAPS


-----------------------------------------------------------------------------
(* The numbers of the irqs.                                                *)

\* A set of naturals that is not empty has a least member.
LEMMA MinOfNaturals ==
    ASSUME NEW T \in SUBSET Nat, T # {}
    PROVE  Min(T) \in T
<1>1. PICK x \in T : \A y \in T : ~(<<y, x>> \in OpToRel(<, Nat))
  BY NatLessThanWellFounded, WFMin
<1>2. \A y \in T : x =< y
  <2> SUFFICES ASSUME NEW y \in T, y < x PROVE FALSE
    OBVIOUS
  <2>1. <<y, x>> \in Nat \X Nat /\ <<y, x>>[1] < <<y, x>>[2]
    OBVIOUS
  <2>2. <<y, x>> \in OpToRel(<, Nat)
    BY <2>1, Zenon DEF OpToRel
  <2> QED BY <1>1, <2>2
<1> QED BY <1>2 DEF Min

\* What is below P rows of W pins is in one of the P rows.
LEMMA RowOf ==
    ASSUME NEW P \in Nat \ {0}, NEW W \in Nat \ {0}, NEW n \in 0 .. P * W - 1
    PROVE  n \div W \in 0 .. P - 1
<1> DEFINE q == n \div W
<1>0. P * W \in Nat /\ n \in Nat
  OBVIOUS
<1>1. q \in Nat /\ q * W =< n
  BY <1>0, SMTT(20)
<1> HIDE DEF q
<1>2. q < P
  <2> SUFFICES ASSUME q >= P PROVE FALSE
    BY <1>1
  <2>1. PICK e \in Nat : q = P + e
    BY <1>1
  <2>2. q * W = P * W + e * W /\ e * W \in Nat
    BY <2>1, SMTT(20)
  <2> QED BY <1>0, <1>1, <2>2
<1> QED BY <1>1, <1>2 DEF q

\* An irq that a driver uses is a number below NR_IRQS, and so is its line; the
\* line is not an irq that another driver uses.
LEMMA Numbers ==
    /\ Irqs \subseteq Nat /\ 0 .. Lines - 1 \subseteq Irqs
    /\ \A i \in Users : i \in Irqs /\ LineOf(i) \in 0 .. Lines - 1
    /\ \A i, j \in Users : i # j => i # LineOf(j)
<1> DEFINE Size == Ports * Width
<1>1. /\ Lines \in Nat /\ Channels \in Nat /\ Ports \in Nat \ {0} /\ Width \in Nat \ {0}
      /\ IRQ_DMAC \in 0 .. Lines - 1 /\ IRQ_GPIO0 \in 0 .. Lines - 1
      /\ IRQ_GPIO0 - (Ports - 1) \in 0 .. Lines - 1
      /\ IRQ_DMA_0 \in Nat /\ IRQ_DMA_0 >= Lines
      /\ IRQ_GPIO_0 \in Nat /\ IRQ_GPIO_0 >= IRQ_DMA_0 + Channels
  BY NumbersAssumption
<1>2. Size \in Nat
  BY <1>1
<1>3. ASSUME NEW p \in AllPins PROVE Port(p) \in 0 .. Ports - 1
  <2>1. p - IRQ_GPIO_0 \in 0 .. Ports * Width - 1
    BY <1>1, <1>2, <1>3 DEF AllPins, NR_IRQS
  <2> QED BY <1>1, <2>1, RowOf DEF Port
<1>4. NR_IRQS = IRQ_GPIO_0 + Size
  BY DEF NR_IRQS
<1> HIDE DEF Size
<1>5. Irqs \subseteq Nat /\ 0 .. Lines - 1 \subseteq Irqs
  BY <1>1, <1>2, <1>4 DEF Irqs
<1>6. /\ \A i \in AllPins : LineOf(i) \in Shared /\ i >= Lines /\ i \in Irqs
      /\ \A i \in Chan \ AllPins : LineOf(i) \in Shared /\ i >= Lines /\ i \in Irqs
      /\ \A i \in Direct : LineOf(i) = i /\ i \in Irqs /\ i \in 0 .. Lines - 1
      /\ Shared \subseteq 0 .. Lines - 1 /\ Direct \cap Shared = {}
  <2>1. Shared \subseteq 0 .. Lines - 1 /\ Direct \cap Shared = {}
    BY <1>1 DEF Shared, Direct
  <2>2. ASSUME NEW i \in AllPins PROVE LineOf(i) \in Shared /\ i >= Lines /\ i \in Irqs
    <3>1. Port(i) \in 0 .. Ports - 1
      BY <1>3
    <3>2. i >= Lines /\ i \in Irqs
      BY <1>1, <1>2, <1>4 DEF AllPins, Irqs
    <3> QED BY <1>1, <3>1, <3>2 DEF LineOf, Shared
  <2>3. ASSUME NEW i \in Chan, i \notin AllPins
        PROVE  LineOf(i) \in Shared /\ i >= Lines /\ i \in Irqs
    BY <1>1, <1>2, <1>4, <2>3 DEF LineOf, Shared, Chan, Irqs
  <2>4. ASSUME NEW i \in Direct
        PROVE  LineOf(i) = i /\ i \in Irqs /\ i \in 0 .. Lines - 1
    BY <1>1, <1>2, <1>4, <1>5 DEF Direct, LineOf, AllPins, Chan, Irqs
  <2> QED BY <2>1, <2>2, <2>3, <2>4
<1>7. \A i \in Users : i \in Direct \/ i \in AllPins \/ i \in Chan \ AllPins
  BY UsersAssumption
<1>8. \A i \in Users : i \in Irqs /\ LineOf(i) \in 0 .. Lines - 1
  BY <1>6, <1>7
<1>9. ASSUME NEW i \in Users, NEW j \in Users, i # j PROVE i # LineOf(j)
  <2>1. LineOf(j) \in Shared \/ LineOf(j) = j
    BY <1>6, <1>7
  <2>2. i \notin Shared
    <3>1. CASE i \in Direct
      BY <1>6, <3>1
    <3>2. CASE i \in AllPins \/ i \in Chan \ AllPins
      <4>1. i >= Lines /\ i \in Nat
        BY <1>5, <1>6, <3>2
      <4>2. i \notin 0 .. Lines - 1
        BY <1>1, <4>1
      <4> QED BY <1>6, <4>2
    <3> QED BY <1>7, <3>1, <3>2
  <2> QED BY <1>9, <2>1, <2>2
<1> QED BY <1>5, <1>8, <1>9
-----------------------------------------------------------------------------
(* The stack of handlers.                                                  *)

Served(s) == {s[k].irq : k \in 1 .. Len(s)}
Distinct(s) == \A j, k \in 1 .. Len(s) : s[j].irq = s[k].irq => j = k

LEMMA PushFrame ==
    ASSUME NEW s \in Seq(Frame), NEW f \in Frame, Distinct(s), f.irq \notin Served(s)
    PROVE  /\ Append(s, f) \in Seq(Frame) /\ Distinct(Append(s, f))
           /\ Served(Append(s, f)) = Served(s) \cup {f.irq}
<1>1. /\ Append(s, f) \in Seq(Frame) /\ Len(Append(s, f)) = Len(s) + 1 /\ Len(s) \in Nat
      /\ \A k \in 1 .. Len(s) : Append(s, f)[k] = s[k]
      /\ Append(s, f)[Len(s) + 1] = f
  OBVIOUS
<1> DEFINE t == Append(s, f)
<1> HIDE DEF t
<1>2. /\ Len(t) = Len(s) + 1 /\ \A k \in 1 .. Len(s) : t[k] = s[k]
      /\ t[Len(s) + 1] = f /\ \A k \in 1 .. Len(t) : k \in 1 .. Len(s) \/ k = Len(s) + 1
  BY <1>1 DEF t
<1>3. Served(t) = Served(s) \cup {f.irq}
  BY <1>1, <1>2 DEF Served
<1>4. Distinct(t)
  <2> SUFFICES ASSUME NEW j \in 1 .. Len(t), NEW k \in 1 .. Len(t), t[j].irq = t[k].irq
               PROVE  j = k
    BY DEF Distinct
  <2>1. \A m \in 1 .. Len(s) : s[m].irq # f.irq
    BY DEF Served
  <2> QED BY <1>2, <2>1 DEF Distinct
<1> QED BY <1>1, <1>3, <1>4 DEF t

LEMMA PopFrame ==
    ASSUME NEW s \in Seq(Frame), s # <<>>, Distinct(s)
    PROVE  LET t == SubSeq(s, 1, Len(s) - 1)
           IN  /\ t \in Seq(Frame) /\ Distinct(t)
               /\ Served(t) = Served(s) \ {s[Len(s)].irq}
<1> DEFINE t == SubSeq(s, 1, Len(s) - 1)
<1>1. Len(s) \in Nat \ {0} /\ \A k \in 1 .. Len(s) : s[k] \in Frame
  OBVIOUS
<1>2. /\ t \in Seq(Frame) /\ Len(t) = Len(s) - 1
      /\ \A k \in 1 .. Len(s) - 1 : t[k] = s[k]
  <2> DEFINE n == Len(s) - 1
  <2>1. n \in Nat /\ n \in Int /\ 1 \in Int /\ \A k \in 1 .. n : s[k] \in Frame
    BY <1>1
  <2> HIDE DEF n
  <2>2. /\ SubSeq(s, 1, n) \in Seq(Frame)
        /\ Len(SubSeq(s, 1, n)) = IF 1 <= n THEN n - 1 + 1 ELSE 0
        /\ \A k \in 1 .. n - 1 + 1 : SubSeq(s, 1, n)[k] = s[1 + k - 1]
    BY <2>1, SubSeqProperties
  <2>3. n - 1 + 1 = n /\ \A k \in 1 .. n : 1 + k - 1 = k
    BY <2>1
  <2>4. Len(SubSeq(s, 1, n)) = n /\ \A k \in 1 .. n : SubSeq(s, 1, n)[k] = s[k]
    BY <2>1, <2>2, <2>3
  <2> QED BY <2>2, <2>4 DEF n
<1> HIDE DEF t
<1>3. Distinct(t)
  BY <1>1, <1>2 DEF Distinct
<1>4. Served(t) = Served(s) \ {s[Len(s)].irq}
  <2>1. \A k \in 1 .. Len(s) : k \in 1 .. Len(s) - 1 \/ k = Len(s)
    BY <1>1
  <2>2. \A k \in 1 .. Len(s) - 1 : k \in 1 .. Len(s) /\ s[k].irq # s[Len(s)].irq
    BY <1>1 DEF Distinct
  <2>3. Served(t) = {s[k].irq : k \in 1 .. Len(s) - 1}
    BY <1>1, <1>2 DEF Served
  <2> QED BY <2>1, <2>2, <2>3 DEF Served
<1> QED BY <1>2, <1>3, <1>4 DEF t

\* The innermost handler, and the flag that its body has run.
LEMMA TopFrame ==
    ASSUME NEW s \in Seq(Frame), s # <<>>, Distinct(s), NEW b \in BOOLEAN
    PROVE  LET t == [s EXCEPT ![Len(s)].done = b]
           IN  /\ t \in Seq(Frame) /\ Distinct(t) /\ Served(t) = Served(s)
               /\ s[Len(s)] \in Frame /\ s[Len(s)].irq \in Users /\ s[Len(s)].irq \in Served(s)
<1> DEFINE t == [s EXCEPT ![Len(s)].done = b]
<1>1. Len(s) \in Nat \ {0} /\ Len(s) \in 1 .. Len(s) /\ \A k \in 1 .. Len(s) : s[k] \in Frame
  OBVIOUS
<1>2. [s[Len(s)] EXCEPT !.done = b] \in Frame
      /\ [s[Len(s)] EXCEPT !.done = b].irq = s[Len(s)].irq
  BY <1>1 DEF Frame
<1>3. t = [s EXCEPT ![Len(s)] = [s[Len(s)] EXCEPT !.done = b]]
  BY <1>1
<1>4. t \in Seq(Frame) /\ Len(t) = Len(s) /\ \A k \in 1 .. Len(s) : t[k].irq = s[k].irq
  <2>1. /\ t \in Seq(Frame) /\ Len(t) = Len(s)
        /\ \A k \in 1 .. Len(s) : t[k] = IF k = Len(s) THEN [s[Len(s)] EXCEPT !.done = b] ELSE s[k]
    BY <1>1, <1>2, <1>3, ExceptSeq
  <2> QED BY <1>2, <2>1
<1> HIDE DEF t
<1>5. Distinct(t) /\ Served(t) = Served(s)
  BY <1>4 DEF Distinct, Served
<1>6. s[Len(s)] \in Frame /\ s[Len(s)].irq \in Users /\ s[Len(s)].irq \in Served(s)
  BY <1>1 DEF Frame, Served
<1> QED BY <1>4, <1>5, <1>6 DEF t
-----------------------------------------------------------------------------
(* Every step keeps the invariant.                                         *)

Inv == NoReentry /\ NotLeftMasked

InProgress == {i \in Users : desc[i].inprogress}

\* NoReentry in the terms of the lemmas above.
Frames == Distinct(stack) /\ InProgress = Served(stack)

LEMMA NoReentryIs == NoReentry <=> TypeOK /\ Frames
BY DEF NoReentry, Frames, Distinct, Served, InProgress

LEMMA NoReentryIsNext == NoReentry' <=> TypeOK' /\ Frames'
BY DEF NoReentry, Frames, Distinct, Served, InProgress

\* May be served: requested, enabled and not being served.
Open(d) == d.action /\ ~d.disabled /\ ~d.inprogress

\* A step that masks at most irq i, which is then not to be served, and that opens
\* no other irq.
LEMMA MaskOne ==
    ASSUME NotLeftMasked, NEW i \in Users, mask' \subseteq mask \cup {i},
           ~Open(desc'[i]) \/ {i, LineOf(i)} \cap mask' = {},
           \A j \in Users : j # i => desc'[j] = desc[j]
    PROVE  NotLeftMasked'
<1> SUFFICES ASSUME NEW j \in Users, Open(desc'[j]) PROVE {j, LineOf(j)} \cap mask' = {}
  BY DEF NotLeftMasked, Open
<1>1. CASE j = i
  BY <1>1
<1>2. CASE j # i
  <2>1. {j, LineOf(j)} \cap mask = {}
    BY <1>2 DEF NotLeftMasked, Open
  <2>2. i # j /\ i # LineOf(j)
    BY <1>2, Numbers
  <2> QED BY <2>1, <2>2
<1> QED BY <1>1, <1>2

\* A step that masks nothing and leaves the descriptors alone.
LEMMA MaskNone ==
    ASSUME NotLeftMasked, mask' \subseteq mask, UNCHANGED desc
    PROVE  NotLeftMasked'
BY DEF NotLeftMasked

\* A descriptor is replaced by another one.
LEMMA DescUpdate ==
    ASSUME desc \in [Users -> Desc], NEW i \in Users, NEW r \in Desc,
           desc' = [desc EXCEPT ![i] = r]
    PROVE  /\ desc' \in [Users -> Desc] /\ desc'[i] = r
           /\ \A j \in Users : j # i => desc'[j] = desc[j]
           /\ r.inprogress => InProgress' = InProgress \cup {i}
           /\ ~r.inprogress => InProgress' = InProgress \ {i}
           /\ r.inprogress = desc[i].inprogress => InProgress' = InProgress
<1>1. /\ desc' \in [Users -> Desc] /\ desc'[i] = r
      /\ \A j \in Users : j # i => desc'[j] = desc[j]
  OBVIOUS
<1> QED BY <1>1 DEF InProgress

\* What request_irq, disable_irq and enable_irq write to a descriptor.
LEMMA DescWrites ==
    ASSUME NEW d \in Desc, NEW n \in 0 .. MaxDepth
    PROVE  /\ [d EXCEPT !.bad = FALSE, !.action = TRUE, !.disabled = FALSE,
                        !.inprogress = FALSE, !.depth = n] \in Desc
           /\ [d EXCEPT !.depth = n, !.disabled = TRUE] \in Desc
           /\ [d EXCEPT !.depth = n, !.disabled = FALSE, !.pending = FALSE] \in Desc
           /\ [d EXCEPT !.depth = n] \in Desc
<1> DEFINE D == 0 .. MaxDepth
<1>1. n \in D /\ Desc = [bad: BOOLEAN, action: BOOLEAN, disabled: BOOLEAN,
                         inprogress: BOOLEAN, pending: BOOLEAN, depth: D]
  BY DEF Desc
<1> HIDE DEF D
<1>3. [d EXCEPT !.bad = FALSE, !.action = TRUE, !.disabled = FALSE,
                !.inprogress = FALSE, !.depth = n] \in Desc
  BY <1>1
<1>4. [d EXCEPT !.depth = n, !.disabled = TRUE] \in Desc
  BY <1>1
<1>5. [d EXCEPT !.depth = n, !.disabled = FALSE, !.pending = FALSE] \in Desc
  BY <1>1
<1>6. [d EXCEPT !.depth = n] \in Desc
  BY <1>1
<1> QED BY <1>3, <1>4, <1>5, <1>6

LEMMA InvInit == Init => Inv
<1> SUFFICES ASSUME Init PROVE Inv
  OBVIOUS
<1>1. desc \in [Users -> Desc]
  <2>1. MaxDepth \in Nat \ {0}
    BY NumbersAssumption
  <2> SUFFICES ASSUME NEW i \in Users
               PROVE  [bad |-> i \in Late, action |-> i \notin Late, disabled |-> i \in Late,
                       inprogress |-> FALSE, pending |-> FALSE,
                       depth |-> IF i \in Late THEN 1 ELSE 0] \in Desc
    BY DEF Init
  <2>2. (i \in Late) \in BOOLEAN /\ (i \notin Late) \in BOOLEAN
    OBVIOUS
  <2>3. (IF i \in Late THEN 1 ELSE 0) \in 0 .. MaxDepth
    BY <2>1
  <2> QED BY <2>2, <2>3, Zenon DEF Desc
<1>2. TypeOK
  <2>1. /\ mask \subseteq Irqs /\ raises \in 0 .. MaxRaises /\ serving \in -1 .. Lines - 1
        /\ stack \in Seq(Frame)
    BY NumbersAssumption DEF Init
  <2> QED BY <1>1, <2>1 DEF Init, TypeOK
<1>3. Frames
  BY DEF Init, Frames, Distinct, Served, InProgress
<1>4. NotLeftMasked
  <2> SUFFICES ASSUME NEW i \in Users, ~desc[i].disabled
               PROVE  {i, LineOf(i)} \cap mask = {}
    BY DEF NotLeftMasked
  <2>1. i \in Users \ Late
    BY DEF Init
  <2> QED BY <2>1 DEF Init
<1> QED BY <1>2, <1>3, <1>4, NoReentryIs DEF Inv
LEMMA ExceptionInv == ASSUME Inv, Exception PROVE Inv'
<1> USE DEF Exception, Inv
<1>1. TypeOK /\ Frames
  BY NoReentryIs
<1> DEFINE seen == intc_ipr \cup REG_INTC_IPR
<1>2. seen \subseteq 0 .. Lines - 1 /\ seen # {} /\ seen \subseteq Nat
  <2>1. seen \subseteq 0 .. Lines - 1 /\ seen # {}
    BY <1>1, Zenon DEF TypeOK, REG_INTC_IPR
  <2>2. 0 .. Lines - 1 \subseteq Nat
    BY NumbersAssumption
  <2> QED BY <2>1, <2>2
<1>3. Min(seen) \in seen
  BY <1>2, MinOfNaturals
<1>4. serving' = Min(seen) /\ intc_ipr' = seen \ {Min(seen)}
  OBVIOUS
<1> HIDE DEF seen, Exception, Inv
<1>5. serving' \in -1 .. Lines - 1 /\ intc_ipr' \subseteq 0 .. Lines - 1
  <2>1. serving' \in 0 .. Lines - 1 /\ intc_ipr' \subseteq 0 .. Lines - 1
    BY <1>2, <1>3, <1>4
  <2>2. 0 .. Lines - 1 \subseteq -1 .. Lines - 1
    BY NumbersAssumption
  <2> QED BY <2>1, <2>2
<1> USE DEF Exception, Inv
<1>6. TypeOK'
  BY <1>1, <1>5 DEF TypeOK
<1>7. Frames'
  BY <1>1 DEF Frames, InProgress, Distinct, Served
<1>8. NotLeftMasked'
  BY MaskNone
<1> QED BY <1>6, <1>7, <1>8, NoReentryIsNext

\* __do_IRQ: the handler is not on the stack, or it is left to finish.
LEMMA DispatchInv == ASSUME Inv, Dispatch PROVE Inv'
<1> DEFINE i == plat_real_irq(serving)
<1>1. TypeOK /\ Frames /\ NotLeftMasked
  BY NoReentryIs DEF Inv
<1>2. /\ BadIrq(i) \/ StartHandler(i) \/ MarkPending(i)
      /\ serving' = -1 /\ UNCHANGED <<intc_ipr, raises>>
  BY DEF Dispatch
<1>3. serving' \in -1 .. Lines - 1
  BY <1>2, NumbersAssumption
<1> HIDE DEF i
<1>4. CASE BadIrq(i)
  <2>1. UNCHANGED <<req, mask, desc, stack, owed>>
    BY <1>4 DEF BadIrq
  <2>2. TypeOK'
    BY <1>1, <1>2, <1>3, <2>1 DEF TypeOK
  <2>3. Frames'
    BY <1>1, <2>1 DEF Frames, InProgress, Distinct, Served
  <2>4. NotLeftMasked'
    BY <1>1, <2>1, MaskNone
  <2> QED BY <2>2, <2>3, <2>4, NoReentryIsNext DEF Inv
<1>5. CASE StartHandler(i)
  <2>1. /\ i \in Users /\ ~desc[i].inprogress /\ i \in Irqs
        /\ req' \subseteq req /\ owed' \subseteq owed /\ mask' = mask \cup {i}
    BY <1>5, Numbers DEF StartHandler, acked
  <2> DEFINE r == [desc[i] EXCEPT !.inprogress = TRUE, !.pending = FALSE]
             f == [irq |-> i, done |-> FALSE]
  <2>2. r \in Desc /\ r.inprogress
    BY <1>1, <2>1 DEF TypeOK, Desc
  <2>3. desc' = [desc EXCEPT ![i] = r]
    BY <1>1, <1>5 DEF TypeOK, StartHandler
  <2>4. f \in Frame /\ f.irq = i /\ stack' = Append(stack, f)
    BY <1>5, <2>1 DEF Frame, StartHandler
  <2>5. stack \in Seq(Frame) /\ Distinct(stack) /\ i \notin Served(stack)
    BY <1>1, <2>1 DEF TypeOK, Frames, InProgress
  <2> HIDE DEF r, f
  <2>6. /\ desc' \in [Users -> Desc] /\ desc'[i] = r /\ InProgress' = InProgress \cup {i}
        /\ \A j \in Users : j # i => desc'[j] = desc[j]
    BY <1>1, <2>1, <2>2, <2>3, DescUpdate DEF TypeOK
  <2>7. stack' \in Seq(Frame) /\ Distinct(stack') /\ Served(stack') = Served(stack) \cup {i}
    BY <2>4, <2>5, PushFrame
  <2>8. TypeOK'
    BY <1>1, <1>2, <1>3, <2>1, <2>6, <2>7 DEF TypeOK
  <2>9. Frames'
    <3>1. InProgress' = Served(stack')
      BY <1>1, <2>6, <2>7 DEF Frames
    <3> QED BY <2>7, <3>1 DEF Frames, Distinct, Served
  <2>10. NotLeftMasked'
    BY <1>1, <2>1, <2>2, <2>6, MaskOne DEF Open
  <2> QED BY <2>8, <2>9, <2>10, NoReentryIsNext DEF Inv
<1>6. CASE MarkPending(i)
  <2>1. /\ i \in Users /\ (desc[i].disabled \/ desc[i].inprogress) /\ i \in Irqs
        /\ req' \subseteq req /\ owed' \subseteq owed /\ mask' = mask \cup {i} /\ stack' = stack
    BY <1>6, Numbers DEF MarkPending, acked
  <2> DEFINE r == [desc[i] EXCEPT !.pending = TRUE]
  <2>2. r \in Desc /\ r.inprogress = desc[i].inprogress /\ r.disabled = desc[i].disabled
    BY <1>1, <2>1 DEF TypeOK, Desc
  <2>3. desc' = [desc EXCEPT ![i] = r]
    BY <1>1, <1>6 DEF TypeOK, MarkPending
  <2> HIDE DEF r
  <2>4. /\ desc' \in [Users -> Desc] /\ desc'[i] = r /\ InProgress' = InProgress
        /\ \A j \in Users : j # i => desc'[j] = desc[j]
    BY <1>1, <2>1, <2>2, <2>3, DescUpdate DEF TypeOK
  <2>5. TypeOK'
    BY <1>1, <1>2, <1>3, <2>1, <2>4 DEF TypeOK
  <2>6. Frames'
    BY <1>1, <2>1, <2>4 DEF Frames, Distinct, Served
  <2>7. NotLeftMasked'
    BY <1>1, <2>1, <2>2, <2>4, MaskOne DEF Open
  <2> QED BY <2>5, <2>6, <2>7, NoReentryIsNext DEF Inv
<1> QED BY <1>2, <1>4, <1>5, <1>6

LEMMA BodyInv == ASSUME Inv, Body PROVE Inv'
<1>1. TypeOK /\ Frames /\ NotLeftMasked
  BY NoReentryIs DEF Inv
<1>2. /\ stack # <<>> /\ stack' = [stack EXCEPT ![Len(stack)].done = TRUE]
      /\ req' \subseteq req /\ owed' \subseteq owed /\ mask' \subseteq mask
      /\ UNCHANGED <<desc, intc_ipr, serving, raises>>
  BY DEF Body
<1>3. stack' \in Seq(Frame) /\ Distinct(stack') /\ Served(stack') = Served(stack)
  BY <1>1, <1>2, TopFrame DEF TypeOK, Frames
<1>4. TypeOK'
  BY <1>1, <1>2, <1>3 DEF TypeOK
<1>5. Frames'
  BY <1>1, <1>2, <1>3 DEF Frames, InProgress, Distinct, Served
<1>6. NotLeftMasked'
  BY <1>1, <1>2, MaskNone
<1> QED BY <1>4, <1>5, <1>6, NoReentryIsNext DEF Inv

LEMMA HandleAgainInv == ASSUME Inv, HandleAgain PROVE Inv'
<1>1. TypeOK /\ Frames /\ NotLeftMasked
  BY NoReentryIs DEF Inv
<1> DEFINE i == Top.irq
           r == [desc[i] EXCEPT !.pending = FALSE]
<1>2. /\ stack # <<>> /\ stack' = [stack EXCEPT ![Len(stack)].done = FALSE]
      /\ owed' \subseteq owed /\ UNCHANGED <<req, mask, intc_ipr, serving, raises>>
  BY DEF HandleAgain
<1>3. /\ stack' \in Seq(Frame) /\ Distinct(stack') /\ Served(stack') = Served(stack)
      /\ i \in Users /\ i \in Served(stack)
  BY <1>1, <1>2, TopFrame DEF TypeOK, Frames, Top
<1>4. r \in Desc /\ r.inprogress = desc[i].inprogress /\ desc[i].inprogress
  BY <1>1, <1>3 DEF TypeOK, Desc, Frames, InProgress
<1>5. desc' = [desc EXCEPT ![i] = r]
  BY <1>1 DEF TypeOK, HandleAgain
<1> HIDE DEF i, r
<1>6. /\ desc' \in [Users -> Desc] /\ desc'[i] = r /\ InProgress' = InProgress
      /\ \A j \in Users : j # i => desc'[j] = desc[j]
  BY <1>1, <1>3, <1>4, <1>5, DescUpdate DEF TypeOK
<1>7. TypeOK'
  BY <1>1, <1>2, <1>3, <1>6 DEF TypeOK
<1>8. Frames'
  BY <1>1, <1>3, <1>6 DEF Frames, Distinct, Served
<1>9. NotLeftMasked'
  BY <1>1, <1>2, <1>3, <1>4, <1>6, MaskOne DEF Open
<1> QED BY <1>7, <1>8, <1>9, NoReentryIsNext DEF Inv

\* end unmasks the irq and the line it shares, unless the irq was disabled.
LEMMA EndHandlerInv == ASSUME Inv, EndHandler PROVE Inv'
<1>1. TypeOK /\ Frames /\ NotLeftMasked
  BY NoReentryIs DEF Inv
<1> DEFINE i == Top.irq
           r == [desc[i] EXCEPT !.inprogress = FALSE]
<1>2. /\ stack # <<>> /\ stack' = SubSeq(stack, 1, Len(stack) - 1)
      /\ desc' = [desc EXCEPT ![i] = r] /\ mask' = end(r, i, mask)
      /\ UNCHANGED <<req, owed, intc_ipr, serving, raises>>
  BY DEF EndHandler
<1>3. /\ stack' \in Seq(Frame) /\ Distinct(stack') /\ Served(stack') = Served(stack) \ {i}
  BY <1>1, <1>2, PopFrame DEF TypeOK, Frames, Top
<1>4. i \in Users
  BY <1>1, <1>2, TopFrame DEF TypeOK, Frames, Top
<1>5. r \in Desc /\ ~r.inprogress
  BY <1>1, <1>4 DEF TypeOK, Desc
<1> HIDE DEF i, r
<1>6. /\ desc' \in [Users -> Desc] /\ desc'[i] = r /\ InProgress' = InProgress \ {i}
      /\ \A j \in Users : j # i => desc'[j] = desc[j]
  BY <1>1, <1>2, <1>4, <1>5, DescUpdate DEF TypeOK
<1>7. mask' \subseteq mask /\ (Open(r) => {i, LineOf(i)} \cap mask' = {})
  BY <1>2, <1>5 DEF end, enable, Open
<1>8. TypeOK'
  BY <1>1, <1>2, <1>3, <1>6, <1>7 DEF TypeOK
<1>9. Frames'
  <2>1. InProgress' = Served(stack')
    BY <1>1, <1>3, <1>6 DEF Frames
  <2> QED BY <1>3, <2>1 DEF Frames, Distinct, Served
<1>10. NotLeftMasked'
  BY <1>1, <1>4, <1>6, <1>7, MaskOne
<1> QED BY <1>8, <1>9, <1>10, NoReentryIsNext DEF Inv

\* What a driver does from process context, when no handler is on the stack.
LEMMA DriverStep ==
    ASSUME Inv, stack = <<>>, NEW i \in Users, NEW r \in Desc, desc' = [desc EXCEPT ![i] = r],
           ~r.inprogress, mask' \subseteq mask \cup {i},
           ~Open(r) \/ {i, LineOf(i)} \cap mask' = {},
           UNCHANGED <<req, intc_ipr, serving, stack, owed, raises>>
    PROVE  Inv'
<1>1. TypeOK /\ Frames /\ NotLeftMasked
  BY NoReentryIs DEF Inv
<1>2. /\ desc' \in [Users -> Desc] /\ desc'[i] = r /\ InProgress' = InProgress \ {i}
      /\ \A j \in Users : j # i => desc'[j] = desc[j]
  BY <1>1, DescUpdate DEF TypeOK
<1>3. mask' \subseteq Irqs
  BY <1>1, Numbers DEF TypeOK
<1>4. TypeOK'
  BY <1>1, <1>2, <1>3 DEF TypeOK
<1>5. Frames'
  <2>1. Served(stack) = {}
    BY DEF Served
  <2>2. InProgress' = {}
    BY <1>1, <1>2, <2>1 DEF Frames
  <2> QED BY <1>1, <2>1, <2>2 DEF Frames, Distinct, Served
<1>6. NotLeftMasked'
  BY <1>1, <1>2, MaskOne
<1> QED BY <1>4, <1>5, <1>6, NoReentryIsNext DEF Inv

LEMMA DriverInv ==
    ASSUME Inv, NEW i \in Late, Request(i) \/ Free(i) \/ Disable(i) \/ Enable(i)
    PROVE  Inv'
<1>1. TypeOK /\ Frames /\ MaxDepth \in Nat
  BY NoReentryIs, NumbersAssumption DEF Inv
<1>2. i \in Users /\ stack = <<>> /\ UNCHANGED <<req, intc_ipr, serving, stack, owed, raises>>
  BY UsersAssumption DEF Request, Free, Disable, Enable, InProcess
<1>3. desc[i] \in Desc /\ ~desc[i].inprogress /\ desc \in [Users -> Desc]
  BY <1>1, <1>2 DEF TypeOK, Frames, InProgress, Served
<1>0. desc[i].depth \in 0 .. MaxDepth
  BY <1>3 DEF Desc
<1>4. CASE Request(i)
  <2> DEFINE r == [desc[i] EXCEPT !.bad = FALSE, !.action = TRUE, !.disabled = FALSE,
                                  !.inprogress = FALSE, !.depth = 0]
  <2>1. r \in Desc /\ ~r.inprogress
    <3>1. 0 \in 0 .. MaxDepth
      BY <1>1
    <3>2. r \in Desc
      BY <1>3, <3>1, DescWrites
    <3> QED BY <1>3, <3>2 DEF Desc
  <2>2. desc' = [desc EXCEPT ![i] = r] /\ mask' = mask \ {i, LineOf(i)}
    BY <1>4 DEF Request, enable
  <2> HIDE DEF r
  <2> QED BY <1>2, <2>1, <2>2, DriverStep
<1>5. CASE Free(i)
  <2> DEFINE r == [desc[i] EXCEPT !.action = FALSE, !.disabled = TRUE]
  <2>1. r \in Desc /\ ~r.inprogress /\ ~Open(r)
    BY <1>1, <1>3 DEF Desc, Open
  <2>2. desc' = [desc EXCEPT ![i] = r] /\ mask' = mask \cup {i}
    BY <1>3, <1>5 DEF Free
  <2> HIDE DEF r
  <2> QED BY <1>2, <2>1, <2>2, DriverStep
<1>6. CASE Disable(i)
  <2> DEFINE r == [desc[i] EXCEPT !.depth = @ + 1, !.disabled = TRUE]
  <2>1. r \in Desc /\ ~r.inprogress /\ ~Open(r)
    <3>1. desc[i].depth + 1 \in 0 .. MaxDepth
      BY <1>0, <1>1, <1>6 DEF Disable
    <3>2. r \in Desc
      BY <1>3, <3>1, DescWrites
    <3> QED BY <1>3, <3>2 DEF Desc, Open
  <2>2. desc' = [desc EXCEPT ![i] = r] /\ mask' \subseteq mask \cup {i}
    BY <1>3, <1>6 DEF Disable
  <2> HIDE DEF r
  <2> QED BY <1>2, <2>1, <2>2, DriverStep
<1>7. CASE Enable(i) /\ desc[i].depth = 1
  <2> DEFINE r == [desc[i] EXCEPT !.depth = 0, !.disabled = FALSE, !.pending = FALSE]
  <2>1. r \in Desc /\ ~r.inprogress
    <3>1. 0 \in 0 .. MaxDepth
      BY <1>1
    <3>2. r \in Desc
      BY <1>3, <3>1, DescWrites
    <3> QED BY <1>3, <3>2 DEF Desc
  <2>2. desc' = [desc EXCEPT ![i] = r] /\ mask' = mask \ {i, LineOf(i)}
    BY <1>3, <1>7 DEF Enable, enable
  <2> HIDE DEF r
  <2> QED BY <1>2, <2>1, <2>2, DriverStep
<1>8. CASE Enable(i) /\ desc[i].depth # 1
  <2> DEFINE r == [desc[i] EXCEPT !.depth = @ - 1]
  <2>1. /\ r \in Desc /\ ~r.inprogress
        /\ r.action = desc[i].action /\ r.disabled = desc[i].disabled
    <3>1. desc[i].depth - 1 \in 0 .. MaxDepth
      BY <1>0, <1>1, <1>8 DEF Enable
    <3>2. r \in Desc
      BY <1>3, <3>1, DescWrites
    <3> QED BY <1>3, <3>2 DEF Desc
  <2>2. desc' = [desc EXCEPT ![i] = r] /\ mask' = mask
    BY <1>3, <1>8 DEF Enable
  <2>3. ~Open(r) \/ {i, LineOf(i)} \cap mask = {}
    BY <1>2, <1>3, <2>1 DEF Inv, NotLeftMasked, Open
  <2> HIDE DEF r
  <2> QED BY <1>2, <2>1, <2>2, <2>3, DriverStep
<1> QED BY <1>4, <1>5, <1>6, <1>7, <1>8

\* The devices and __gpio_as_irq_* touch requests and open pins.
LEMMA DeviceInv == ASSUME Inv, Arming \/ Device \/ UNCHANGED vars PROVE Inv'
<1>1. TypeOK /\ Frames /\ NotLeftMasked
  BY NoReentryIs DEF Inv
<1>2. /\ UNCHANGED <<desc, intc_ipr, serving, stack>> /\ mask' \subseteq mask
      /\ req' \subseteq Users /\ owed' \subseteq Users
  BY <1>1 DEF Arming, Device, Arm, Raise, Withdraw, vars, TypeOK
<1>3. raises' \in 0 .. MaxRaises
  BY <1>1, NumbersAssumption DEF Arming, Device, Arm, Raise, Withdraw, vars, TypeOK
<1>4. TypeOK'
  BY <1>1, <1>2, <1>3 DEF TypeOK
<1>5. Frames'
  BY <1>1, <1>2 DEF Frames, InProgress, Distinct, Served
<1>6. NotLeftMasked'
  BY <1>1, <1>2, MaskNone
<1> QED BY <1>4, <1>5, <1>6, NoReentryIsNext DEF Inv

LEMMA InvNext == ASSUME Inv, [Next]_vars PROVE Inv'
BY ExceptionInv, DispatchInv, BodyInv, HandleAgainInv, EndHandlerInv, DriverInv, DeviceInv
   DEF Next, Cpu, Driver

-----------------------------------------------------------------------------
\* For every layout of lines, channels and pins and every set of drivers, __do_IRQ
\* never enters a handler that runs, however interrupts nest and whichever irq the
\* flags of a port make it take; and a requested irq that is neither disabled nor
\* being served is unmasked in its chip and on the line it shares.
THEOREM DispatchSound == FairSpec => [](NoReentry /\ NotLeftMasked)
<1>1. Inv /\ [Next]_vars => Inv'
  BY InvNext
<1>2. Inv => NoReentry /\ NotLeftMasked
  BY DEF Inv
<1> QED BY InvInit, <1>1, <1>2, PTL DEF FairSpec

-----------------------------------------------------------------------------
(* The IPU memory manager: the inductive invariant.                        *)

\* The pages from s to e lie inside the memory and in no range of l.
Vacant(l, s, e) ==
  /\ Base <= s /\ s <= e /\ e < End
  /\ \A i \in DOMAIN l : l[i].end < s \/ e < l[i].start

\* As long as nobody has changed the list, what a client has chosen is free.
Chosen ==
  \A c \in Clients :
    call[c] = "kmalloc" /\ ~choice[c].stale /\ WellFormed(list) =>
      Vacant(list, choice[c].start, choice[c].end)

ImemInv == ImemTypeOK /\ Chosen

-----------------------------------------------------------------------------
(* Numbers.                                                                *)

LEMMA Bounds ==
  /\ Base \in Nat \ {0} /\ End \in Nat /\ End = Base + 2^MaxOrder /\ Base < End
  /\ Word \in Nat /\ Word > End /\ MaxOrder \in Nat /\ MaxOrder \in Orders
<1>1. MaxOrder \in Orders
  BY ImemAssumption DEF Orders
<1>2. 2^MaxOrder \in Nat /\ 2^MaxOrder > 0
  BY <1>1, PowersAssumption, ImemAssumption
<1> QED BY <1>1, <1>2, ImemAssumption DEF End

LEMMA Least ==
  ASSUME NEW T \in SUBSET Nat, T # {}
  PROVE  \E x \in T : \A y \in T : x <= y
<1>1. PICK x \in T : \A y \in T : ~(<<y, x>> \in OpToRel(<, Nat))
  BY NatLessThanWellFounded, WFMin
<1>2. \A y \in T : x <= y
  <2> SUFFICES ASSUME NEW y \in T, y < x PROVE FALSE
    OBVIOUS
  <2>1. <<y, x>> \in Nat \X Nat /\ <<y, x>>[1] < <<y, x>>[2]
    OBVIOUS
  <2>2. <<y, x>> \in OpToRel(<, Nat)
    BY <2>1, Zenon DEF OpToRel
  <2> QED BY <1>1, <2>2
<1> QED BY <1>2

LEMMA Greatest ==
  ASSUME NEW N \in Nat, NEW T \in SUBSET (0..N), T # {}
  PROVE  \E x \in T : \A y \in T : y <= x
<1> DEFINE U == {n \in 0..N : N - n \in T}
<1>1. U \in SUBSET Nat /\ U # {}
  <2>1. PICK y \in T : TRUE
    OBVIOUS
  <2>2. N - y \in 0..N /\ N - (N - y) = y
    BY <2>1
  <2>3. N - y \in U
    BY <2>1, <2>2
  <2>4. \A n \in 0..N : n \in Nat
    OBVIOUS
  <2> QED BY <2>3, <2>4
<1>2. PICK u \in U : \A v \in U : u <= v
  BY <1>1, Least
<1>3. N - u \in T /\ u \in 0..N
  BY <1>2
<1>4. ASSUME NEW y \in T PROVE y <= N - u
  <2>1. y \in 0..N /\ N - y \in 0..N /\ N - (N - y) = y
    OBVIOUS
  <2>2. N - y \in U
    BY <2>1
  <2>3. u <= N - y
    BY <1>2, <2>2
  <2> QED BY <1>3, <2>1, <2>3
<1> QED BY <1>3, <1>4

\* Larger orders are larger sizes.
LEMMA PowersGrow == \A m, n \in Orders : m < n => 2^m < 2^n
<1>1. \A n \in Orders : n \in Nat /\ 2^n \in Nat /\ 2^n > 0
  BY PowersAssumption, ImemAssumption DEF Orders
<1> SUFFICES ASSUME NEW m \in Orders, NEW b \in Orders, m < b, ~(2^m < 2^b) PROVE FALSE
  OBVIOUS
<1> DEFINE T == {n \in Orders : m < n /\ ~(2^m < 2^n)}
<1>2. T \in SUBSET Nat /\ T # {}
  BY <1>1
<1>3. PICK x \in T : \A y \in T : x <= y
  BY <1>2, Least
<1>4. x \in Orders \ {0} /\ x - 1 \in Orders /\ 2^x = 2 * 2^(x - 1) /\ m < x /\ ~(2^m < 2^x)
  BY <1>1, <1>3, PowersAssumption, ImemAssumption DEF Orders
<1>5. 2^(x - 1) < 2^x
  BY <1>1, <1>4
<1>6. CASE m = x - 1
  BY <1>4, <1>5, <1>6
<1>7. CASE m # x - 1
  <2>1. m < x - 1 /\ x - 1 < x
    BY <1>1, <1>4, <1>7
  <2>2. 2^m < 2^(x - 1)
    BY <1>1, <1>3, <1>4, <2>1
  <2> QED BY <1>1, <1>4, <1>5, <2>2
<1> QED BY <1>6, <1>7

-----------------------------------------------------------------------------
(* The gaps of a list.                                                     *)

LEMMA Entries ==
  ASSUME NEW l \in Seq(Ranges)
  PROVE  /\ Len(l) \in Nat /\ DOMAIN l = 1..Len(l)
         /\ \A i \in 1..Len(l) : l[i] \in Ranges /\ l[i].start \in Nat /\ l[i].end \in Nat
<1>1. Len(l) \in Nat /\ DOMAIN l = 1..Len(l) /\ \A i \in 1..Len(l) : l[i] \in Ranges
  OBVIOUS
<1>2. \A r \in Ranges : r.start \in Nat /\ r.end \in Nat
  BY DEF Ranges, Pages
<1> QED BY <1>1, <1>2

LEMMA GapTypes ==
  ASSUME NEW l \in Seq(Ranges), NEW i \in 1..(Len(l) + 1)
  PROVE  GapStart(l, i) \in Nat /\ GapEnd(l, i) \in Nat
<1>1. Len(l) \in Nat /\ \A k \in 1..Len(l) : l[k].start \in Nat /\ l[k].end \in Nat
  BY Entries
<1>4. GapStart(l, i) \in Nat
  <2>1. CASE i = 1
    BY <2>1, Bounds DEF GapStart
  <2>2. CASE i # 1
    <3>1. i - 1 \in 1..Len(l)
      BY <1>1, <2>2
    <3>2. l[i - 1].end + 1 \in Nat
      BY <1>1, <3>1
    <3> QED BY <2>2, <3>2 DEF GapStart
  <2> QED BY <2>1, <2>2
<1>5. CASE i > Len(l)
  BY <1>4, <1>5, Bounds DEF GapEnd
<1>6. CASE ~(i > Len(l))
  <2>1. i \in 1..Len(l)
    BY <1>1, <1>6
  <2> QED BY <1>1, <1>4, <1>6, <2>1 DEF GapEnd
<1> QED BY <1>5, <1>6

\* A gap of a list in order: no entry reaches into it, and its size is the
\* difference of its ends.
LEMMA Gap ==
  ASSUME NEW l \in Seq(Ranges), WellFormed(l), NEW i \in 1..(Len(l) + 1)
  PROVE  /\ GapStart(l, i) \in Nat /\ GapEnd(l, i) \in Nat
         /\ Base <= GapStart(l, i) /\ GapStart(l, i) <= GapEnd(l, i) /\ GapEnd(l, i) <= End
         /\ Minus(GapEnd(l, i), GapStart(l, i)) = GapEnd(l, i) - GapStart(l, i)
         /\ \A k \in DOMAIN l : l[k].end < GapStart(l, i) \/ GapEnd(l, i) <= l[k].start
<1> DEFINE n == Len(l)
           a == GapStart(l, i)
           z == GapEnd(l, i)
<1>1. /\ n \in Nat /\ DOMAIN l = 1..n
      /\ \A k \in 1..n : l[k].start \in Nat /\ l[k].end \in Nat
  BY Entries
<1>2. /\ \A k \in 1..n : Base <= l[k].start /\ l[k].start <= l[k].end /\ l[k].end < End
      /\ \A j, k \in 1..n : j < k => l[j].end < l[k].start
  BY <1>1 DEF WellFormed
<1>3. /\ Base \in Nat /\ End \in Nat /\ Base < End /\ Word \in Nat /\ End < Word
  BY Bounds
<1>4. /\ i = 1 => a = Base
      /\ i # 1 => i - 1 \in 1..n /\ a = l[i - 1].end + 1
  BY <1>1 DEF GapStart
<1>5. /\ i = n + 1 => z = End
      /\ i # n + 1 => i \in 1..n /\ z = l[i].start
  BY <1>1 DEF GapEnd
<1>0. a \in Nat /\ z \in Nat
  BY GapTypes
<1> HIDE DEF n, a, z
<1>6. Base <= a /\ z <= End
  <2>1. \A k \in 1..n : Base <= l[k].end + 1 /\ l[k].start <= End
    BY <1>1, <1>2, <1>3
  <2> QED BY <1>3, <1>4, <1>5, <2>1
<1>7. a <= z
  <2>1. CASE i = 1
    BY <1>1, <1>2, <1>3, <1>4, <1>5, <2>1
  <2>2. CASE i # 1 /\ i = n + 1
    <3>1. l[i - 1].end < End /\ l[i - 1].end \in Nat
      BY <1>1, <1>2, <1>4, <2>2
    <3> QED BY <1>3, <1>4, <1>5, <2>2, <3>1
  <2>3. CASE i # 1 /\ i # n + 1
    <3>1. i - 1 \in 1..n /\ i \in 1..n /\ i - 1 < i
      BY <1>1, <1>4, <1>5, <2>3
    <3>2. l[i - 1].end < l[i].start /\ l[i - 1].end \in Nat /\ l[i].start \in Nat
      BY <1>1, <1>2, <3>1
    <3> QED BY <1>4, <1>5, <2>3, <3>2
  <2> QED BY <2>1, <2>2, <2>3
<1>8. Minus(z, a) = z - a
  <2>1. z - a \in Nat /\ z - a < Word
    BY <1>0, <1>3, <1>6, <1>7
  <2>2. (z - a) % Word = z - a
    BY <1>3, <2>1
  <2> QED BY <2>2 DEF Minus
<1>9. ASSUME NEW k \in 1..n PROVE l[k].end < a \/ z <= l[k].start
  <2>1. CASE k < i
    <3>1. i # 1 /\ i - 1 \in 1..n /\ a = l[i - 1].end + 1
      BY <1>1, <1>4, <2>1
    <3>2. k = i - 1 \/ l[k].end < l[i - 1].start
      BY <1>1, <1>2, <2>1, <3>1
    <3>3. l[k].end <= l[i - 1].end
      BY <1>1, <1>2, <3>1, <3>2
    <3> QED BY <1>1, <3>1, <3>3
  <2>2. CASE ~(k < i)
    <3>1. i \in 1..n /\ z = l[i].start
      BY <1>1, <1>5, <2>2
    <3>2. k = i \/ l[i].end < l[k].start
      BY <1>1, <1>2, <2>2, <3>1
    <3> QED BY <1>1, <1>2, <3>1, <3>2
  <2> QED BY <2>1, <2>2
<1> QED BY <1>0, <1>1, <1>6, <1>7, <1>8, <1>9 DEF a, z

\* What fits into a gap is free at its start.
LEMMA GapIsVacant ==
  ASSUME NEW l \in Seq(Ranges), WellFormed(l), NEW i \in 1..(Len(l) + 1),
         NEW size \in Nat \ {0}, Fits(l, i, size)
  PROVE  /\ Vacant(l, GapStart(l, i), GapStart(l, i) + size - 1)
         /\ GapStart(l, i) \in Base..(End - size)
<1> DEFINE a == GapStart(l, i)
           z == GapEnd(l, i)
<1>1. /\ a \in Nat /\ z \in Nat /\ Base <= a /\ z <= End /\ Minus(z, a) = z - a
      /\ \A k \in DOMAIN l : l[k].end < a \/ z <= l[k].start
  BY Gap
<1>2. Minus(z, a) >= size
  BY DEF Fits
<1> HIDE DEF a, z
<1>3. a + size <= z
  BY <1>1, <1>2
<1>4. Len(l) \in Nat /\ DOMAIN l = 1..Len(l) /\ \A k \in 1..Len(l) : l[k].start \in Nat /\ l[k].end \in Nat
  BY Entries
<1>5. a <= a + size - 1 /\ a + size - 1 < End /\ a \in Base..(End - size)
  BY <1>1, <1>3, Bounds
<1>6. ASSUME NEW k \in DOMAIN l PROVE l[k].end < a \/ a + size - 1 < l[k].start
  BY <1>1, <1>3, <1>4
<1> QED BY <1>1, <1>5, <1>6 DEF Vacant, a

\* Free pages lie in one gap: the one before the first entry behind them.
LEMMA VacantIsGap ==
  ASSUME NEW l \in Seq(Ranges), WellFormed(l), NEW size \in Nat \ {0},
         NEW s \in Nat, Vacant(l, s, s + size - 1)
  PROVE  \E i \in 1..(Len(l) + 1) : Fits(l, i, size)
<1> DEFINE n == Len(l)
           T == {k \in 1..(n + 1) : k = n + 1 \/ s < l[k].start}
<1>1. /\ n \in Nat /\ DOMAIN l = 1..n
      /\ \A k \in 1..n : l[k].start \in Nat /\ l[k].end \in Nat
  BY Entries
<1>2. T \in SUBSET Nat /\ n + 1 \in T
  BY <1>1
<1>3. PICK i \in T : \A k \in T : i <= k
  BY <1>2, Least
<1>4. i \in 1..(n + 1) /\ (i = n + 1 \/ s < l[i].start)
  BY <1>3
<1>5. i # 1 => i - 1 \in 1..n /\ l[i - 1].start <= s
  <2> SUFFICES ASSUME i # 1 PROVE i - 1 \in 1..n /\ l[i - 1].start <= s
    OBVIOUS
  <2>1. i - 1 \in 1..n /\ i - 1 \in 1..(n + 1) /\ i - 1 < i /\ i - 1 # n + 1
    BY <1>1, <1>4
  <2>2. i - 1 \notin T
    BY <1>3, <1>4, <2>1
  <2> QED BY <1>1, <2>1, <2>2
<1> DEFINE a == GapStart(l, i)
           z == GapEnd(l, i)
<1>6. a \in Nat /\ z \in Nat /\ Minus(z, a) = z - a
  BY <1>4, Gap
<1>7. /\ i = 1 => a = Base
      /\ i # 1 => a = l[i - 1].end + 1
      /\ i = n + 1 => z = End
      /\ i # n + 1 => i \in 1..n /\ z = l[i].start
  BY <1>1, <1>4 DEF GapStart, GapEnd
<1>8. /\ Base <= s /\ s + size - 1 < End
      /\ \A k \in 1..n : l[k].end < s \/ s + size - 1 < l[k].start
  BY <1>1 DEF Vacant
<1> HIDE DEF n, T, a, z
<1>9. a <= s
  <2>1. CASE i # 1
    <3>1. l[i - 1].end < s \/ s + size - 1 < l[i - 1].start
      BY <1>5, <1>8, <2>1
    <3>2. l[i - 1].end < s /\ l[i - 1].end \in Nat
      BY <1>1, <1>5, <2>1, <3>1
    <3> QED BY <1>7, <2>1, <3>2
  <2> QED BY <1>7, <1>8, <2>1
<1>10. s + size <= z
  <2>1. CASE i # n + 1
    <3>1. i \in 1..n /\ z = l[i].start /\ s < z
      BY <1>4, <1>7, <2>1
    <3>2. l[i].end < s \/ s + size - 1 < l[i].start
      BY <1>8, <3>1
    <3>3. l[i].start <= l[i].end /\ l[i].start \in Nat /\ l[i].end \in Nat
      BY <1>1, <3>1 DEF WellFormed
    <3> QED BY <3>1, <3>2, <3>3
  <2> QED BY <1>7, <1>8, <2>1, Bounds
<1>11. Minus(z, a) >= size
  BY <1>6, <1>9, <1>10
<1> QED BY <1>4, <1>11 DEF Fits, a, z, n

\* imem_alloc takes the start of a gap that is large enough, or 0.
LEMMA FirstFitIs ==
  ASSUME NEW l \in Seq(Ranges), NEW size \in Nat
  PROVE  \/ /\ FirstFit(l, size) = 0
            /\ \A i \in 1..(Len(l) + 1) : ~Fits(l, i, size)
         \/ \E i \in 1..(Len(l) + 1) : Fits(l, i, size) /\ FirstFit(l, size) = GapStart(l, i)
<1> DEFINE F == {i \in 1..(Len(l) + 1) : Fits(l, i, size)}
           m == CHOOSE i \in F : \A j \in F : i <= j
<1>1. FirstFit(l, size) = IF F = {} THEN 0 ELSE GapStart(l, m)
  BY DEF FirstFit
<1>2. CASE F = {}
  BY <1>1, <1>2
<1>3. CASE F # {}
  <2>1. F \in SUBSET Nat
    OBVIOUS
  <2>2. \E i \in F : \A j \in F : i <= j
    BY <1>3, <2>1, Least
  <2>3. m \in F
    BY <2>2
  <2> HIDE DEF m
  <2> QED BY <1>1, <1>3, <2>3
<1> QED BY <1>2, <1>3

\* An allocation is granted exactly if there are free pages for it.
LEMMA Granted ==
  ASSUME NEW l \in Seq(Ranges), WellFormed(l), NEW size \in Nat \ {0}
  PROVE  /\ FirstFit(l, size) # 0 <=> \E s \in Base..(End - size) : Vacant(l, s, s + size - 1)
         /\ (\E i \in 1..(Len(l) + 1) : Fits(l, i, size))
              <=> \E s \in Base..(End - size) : Vacant(l, s, s + size - 1)
         /\ FirstFit(l, size) # 0 => Vacant(l, FirstFit(l, size), FirstFit(l, size) + size - 1)
<1>1. ASSUME NEW i \in 1..(Len(l) + 1), Fits(l, i, size)
      PROVE  /\ \E s \in Base..(End - size) : Vacant(l, s, s + size - 1)
             /\ Vacant(l, GapStart(l, i), GapStart(l, i) + size - 1)
             /\ GapStart(l, i) # 0
  <2>1. /\ Vacant(l, GapStart(l, i), GapStart(l, i) + size - 1)
        /\ GapStart(l, i) \in Base..(End - size)
    BY <1>1, GapIsVacant
  <2>2. GapStart(l, i) # 0
    BY <2>1, Bounds
  <2> QED BY <2>1, <2>2
<1>2. ASSUME NEW s \in Base..(End - size), Vacant(l, s, s + size - 1)
      PROVE  \E i \in 1..(Len(l) + 1) : Fits(l, i, size)
  <2>1. s \in Nat
    BY Bounds
  <2> QED BY <1>2, <2>1, VacantIsGap
<1>3. size \in Nat
  OBVIOUS
<1>4. \/ /\ FirstFit(l, size) = 0
         /\ \A i \in 1..(Len(l) + 1) : ~Fits(l, i, size)
      \/ \E i \in 1..(Len(l) + 1) : Fits(l, i, size) /\ FirstFit(l, size) = GapStart(l, i)
  BY <1>3, FirstFitIs
<1> QED BY <1>1, <1>2, <1>4

\* imem_read_proc finds the largest gap.
LEMMA MaxSizeIs ==
  ASSUME NEW l \in Seq(Ranges), WellFormed(l)
  PROVE  /\ MaxSize(l) \in 0..2^MaxOrder
         /\ \A size \in Nat : size <= MaxSize(l) <=> \E i \in 1..(Len(l) + 1) : Fits(l, i, size)
<1> DEFINE D == 1..(Len(l) + 1)
           g(i) == Minus(GapEnd(l, i), GapStart(l, i))
           G == {g(i) : i \in D}
           N == 2^MaxOrder
<1>1. N \in Nat /\ End = Base + N /\ Base \in Nat /\ 1 \in D
  <2>1. Len(l) \in Nat
    BY Entries
  <2> QED BY <2>1, Bounds, PowersAssumption
<1>2. ASSUME NEW i \in D PROVE g(i) \in 0..N
  <2> DEFINE a == GapStart(l, i)
             z == GapEnd(l, i)
  <2>1. a \in Nat /\ z \in Nat /\ Base <= a /\ a <= z /\ z <= End /\ g(i) = z - a
    BY Gap
  <2> HIDE DEF a, z, g, N
  <2> QED BY <1>1, <2>1
<1>3. G \in SUBSET (0..N) /\ G # {}
  BY <1>1, <1>2
<1>4. MaxSize(l) = CHOOSE m \in G : \A h \in G : h <= m
  BY DEF MaxSize
<1> HIDE DEF N
<1>5. \E m \in G : \A h \in G : h <= m
  <2> HIDE DEF G
  <2> QED BY <1>1, <1>3, Greatest
<1>6. MaxSize(l) \in G /\ \A h \in G : h <= MaxSize(l)
  BY <1>4, <1>5
<1>7. MaxSize(l) \in 0..N
  BY <1>3, <1>6
<1>8. ASSUME NEW size \in Nat
      PROVE  size <= MaxSize(l) <=> \E i \in D : Fits(l, i, size)
  <2>1. \A i \in D : Fits(l, i, size) <=> g(i) >= size
    BY DEF Fits
  <2>2. PICK m \in D : MaxSize(l) = g(m)
    BY <1>6
  <2>3. \A i \in D : g(i) <= MaxSize(l)
    BY <1>6
  <2>4. \A i \in D : g(i) \in 0..N
    BY <1>2
  <2> HIDE DEF D, g, G
  <2>5. \A i \in D : g(i) \in Int
    BY <1>1, <2>4
  <2> QED BY <1>7, <2>1, <2>2, <2>3, <2>5
<1> QED BY <1>7, <1>8 DEF N

\* get_order of a size up to the whole memory.
LEMMA OrderIs ==
  ASSUME NEW size \in 1..2^MaxOrder
  PROVE  /\ get_order(size) \in Orders /\ 2^get_order(size) >= size
         /\ \A j \in 0..(get_order(size) - 1) : 2^j < size
<1> DEFINE T == {k \in Orders : 2^k >= size}
<1>1. /\ \A n \in Orders : n \in Nat /\ 2^n \in Nat /\ 2^n > n
      /\ MaxOrder \in Orders /\ size \in Nat \ {0}
      /\ \A n \in Orders : n - 1 \in Orders \/ n = 0
  BY PowersAssumption, ImemAssumption DEF Orders
<1>2. T \in SUBSET Nat /\ MaxOrder \in T
  BY <1>1
<1>3. PICK k \in T : \A j \in T : k <= j
  BY <1>2, Least
<1>4. k \in Orders /\ 2^k >= size
  BY <1>3
<1>5. ASSUME NEW j \in 0..(k - 1) PROVE 2^j < size
  <2>1. j \in Orders /\ j < k
    BY <1>1, <1>4 DEF Orders
  <2>2. j \notin T
    BY <1>1, <1>3, <1>4, <2>1
  <2>3. 2^j \in Nat /\ ~(2^j >= size)
    BY <1>1, <2>1, <2>2
  <2> QED BY <1>1, <2>3
<1>6. k \in 0..size
  <2>1. CASE k = 0
    BY <1>1, <2>1
  <2>2. CASE k # 0
    <3>1. k - 1 \in Orders /\ k - 1 \in 0..(k - 1)
      BY <1>1, <1>4, <2>2
    <3>2. 2^(k - 1) < size /\ 2^(k - 1) > k - 1 /\ 2^(k - 1) \in Nat
      BY <1>1, <1>5, <3>1
    <3> QED BY <1>1, <1>4, <3>2
  <2> QED BY <2>1, <2>2
<1> DEFINE Good(m) == 2^m >= size /\ \A j \in 0..(m - 1) : 2^j < size
           c == CHOOSE m \in 0..size : Good(m)
<1>7. get_order(size) = c
  BY DEF get_order
<1>8. Good(k)
  BY <1>4, <1>5
<1>9. c \in 0..size /\ Good(c)
  BY <1>6, <1>8
<1>10. c \in Orders
  <2>1. ~(k < c)
    <3> SUFFICES ASSUME k < c PROVE FALSE
      OBVIOUS
    <3>1. k \in 0..(c - 1)
      BY <1>1, <1>4, <1>9
    <3>2. 2^k < size
      BY <1>9, <3>1
    <3> QED BY <1>1, <1>4, <3>2
  <2>2. c \in Nat /\ c <= k
    BY <1>1, <1>4, <1>9, <2>1
  <2> HIDE DEF c
  <2> QED BY <1>4, <2>2, ImemAssumption DEF Orders
<1> HIDE DEF c
<1> QED BY <1>7, <1>9, <1>10

\* The announced order is the largest whose size fits the largest gap.
LEMMA MaxFreeIs ==
  ASSUME NEW l \in Seq(Ranges), WellFormed(l), NEW order \in Orders
  PROVE  order <= MaxFree(l) <=> 2^order <= MaxSize(l)
<1> DEFINE M == MaxSize(l)
           k == get_order(M)
<1>1. M \in 0..2^MaxOrder
  BY MaxSizeIs
<1>2. /\ \A n \in Orders : n \in Nat /\ 2^n \in Nat /\ 2^n > 0
      /\ MaxOrder \in Orders
      /\ \A m, n \in Orders : m < n => 2^m < 2^n
  BY PowersAssumption, PowersGrow, ImemAssumption DEF Orders
<1>3. MaxFree(l) = IF M = 0 THEN -1 ELSE IF 2^k > M THEN k - 1 ELSE k
  BY DEF MaxFree
<1>4. CASE M = 0
  <2>1. order \in Nat /\ 2^order \in Nat /\ 2^order > 0
    BY <1>2
  <2> QED BY <1>3, <1>4, <2>1
<1>5. CASE M # 0
  <2> HIDE DEF M
  <2>1. M \in 1..2^MaxOrder
    BY <1>1, <1>2, <1>5
  <2>2. k \in Orders /\ 2^k >= M /\ \A j \in 0..(k - 1) : 2^j < M
    BY <2>1, OrderIs
  <2> HIDE DEF k
  <2>3. /\ k \in Nat /\ 2^k \in Nat /\ M \in Nat /\ order \in Nat /\ 2^order \in Nat
    BY <1>2, <2>1, <2>2
  <2>4. order < k => 2^order < M
    BY <2>2, <2>3
  <2>5. order > k => 2^order > 2^k
    BY <1>2, <2>2, <2>3
  <2>6. CASE 2^k > M
    <3>1. MaxFree(l) = k - 1
      BY <1>3, <1>5, <2>6
    <3>2. order = k => 2^order > M
      BY <2>6
    <3> QED BY <2>3, <2>4, <2>5, <2>6, <3>1, <3>2 DEF M
  <2>7. CASE ~(2^k > M)
    <3>1. MaxFree(l) = k /\ 2^k = M
      BY <1>3, <1>5, <2>2, <2>3, <2>7
    <3>2. order = k => 2^order = M
      BY <3>1
    <3> QED BY <2>3, <2>4, <2>5, <3>1, <3>2 DEF M
  <2> QED BY <2>6, <2>7
<1> QED BY <1>4, <1>5

LEMMA Announced == ASSUME ImemTypeOK PROVE AnnouncedIsFree
<1> SUFFICES ASSUME WellFormed(list), NEW order \in Orders
             PROVE  /\ FirstFit(list, 2^order) # 0 <=> HasRoom(order)
                    /\ order <= MaxFree(list) <=> HasRoom(order)
  BY DEF AnnouncedIsFree
<1>1. list \in Seq(Ranges)
  BY DEF ImemTypeOK
<1> DEFINE size == 2^order
<1>2. size \in Nat \ {0} /\ order \in Nat
  BY PowersAssumption, ImemAssumption DEF Orders
<1>3. order <= MaxFree(list) <=> size <= MaxSize(list)
  BY <1>1, MaxFreeIs
<1>4. HasRoom(order) <=> \E s \in Base..(End - size) : Vacant(list, s, s + size - 1)
  <2>1. HasRoom(order) <=>
          \E s \in Base..(End - size) :
            \A i \in DOMAIN list : list[i].end < s \/ s + size - 1 < list[i].start
    BY DEF HasRoom
  <2> HIDE DEF size
  <2>2. \A s \in Base..(End - size) : Base <= s /\ s <= s + size - 1 /\ s + size - 1 < End
    BY <1>2, Bounds
  <2> QED BY <2>1, <2>2 DEF Vacant
<1> HIDE DEF size
<1>5. size <= MaxSize(list) <=> \E i \in 1..(Len(list) + 1) : Fits(list, i, size)
  BY <1>1, <1>2, MaxSizeIs
<1>6. /\ FirstFit(list, size) # 0 <=> \E s \in Base..(End - size) : Vacant(list, s, s + size - 1)
      /\ (\E i \in 1..(Len(list) + 1) : Fits(list, i, size))
            <=> \E s \in Base..(End - size) : Vacant(list, s, s + size - 1)
  BY <1>1, <1>2, Granted
<1> QED BY <1>3, <1>4, <1>5, <1>6 DEF size

-----------------------------------------------------------------------------
(* The list.                                                               *)

\* The walk of imem_alloc stops in front of the first larger start.
LEMMA PositionIs ==
  ASSUME NEW l \in Seq(Ranges), NEW start \in Nat
  PROVE  /\ Position(l, start) \in 0..Len(l)
         /\ \A k \in 1..Position(l, start) : l[k].start <= start
         /\ Position(l, start) < Len(l) => ~(l[Position(l, start) + 1].start <= start)
<1> DEFINE n == Len(l)
           S == {i \in DOMAIN l : \A j \in 1..i : l[j].start <= start}
           T == {i \in 1..(n + 1) : i \notin S}
<1>1. n \in Nat /\ DOMAIN l = 1..n
  BY Entries
<1>2. T \in SUBSET Nat /\ n + 1 \in T
  BY <1>1
<1>3. PICK m \in T : \A k \in T : m <= k
  <2> HIDE DEF T
  <2> QED BY <1>2, Least
<1>4. m \in 1..(n + 1) /\ m \notin S
  BY <1>3
<1>5. ASSUME NEW i \in 1..(m - 1) PROVE i \in S
  <2>1. i \in 1..(n + 1) /\ i < m
    BY <1>1, <1>4
  <2> HIDE DEF S
  <2> QED BY <1>3, <2>1
<1>6. ASSUME NEW i \in S PROVE i \in 1..(m - 1)
  <2>1. i \in 1..n /\ \A j \in 1..i : l[j].start <= start
    BY <1>1
  <2>2. ~(m <= i)
    <3> SUFFICES ASSUME m <= i PROVE FALSE
      OBVIOUS
    <3>1. m \in 1..n /\ \A j \in 1..m : j \in 1..i
      BY <1>1, <1>4, <2>1
    <3>2. m \in S
      BY <1>1, <2>1, <3>1
    <3> QED BY <1>4, <3>2
  <2> QED BY <1>1, <1>4, <2>1, <2>2
<1>7. S = 1..(m - 1)
  BY <1>5, <1>6
<1> DEFINE p == m - 1
<1>8. p \in 0..n /\ 1 \in Int /\ p \in Int
  BY <1>1, <1>4
<1>9. Cardinality(1..p) = p
  <2> HIDE DEF p
  <2>1. Cardinality(1..p) = IF 1 > p THEN 0 ELSE p - 1 + 1
    BY <1>8, FS_Interval
  <2> QED BY <1>8, <2>1
<1>10. Position(l, start) = p
  BY <1>7, <1>9 DEF Position
<1>11. \A k \in 1..p : l[k].start <= start
  <2>1. ASSUME NEW k \in 1..p PROVE l[k].start <= start
    <3>1. k \in S /\ k \in 1..k
      BY <1>5
    <3> QED BY <3>1
  <2> QED BY <2>1
<1>12. p < n => ~(l[p + 1].start <= start)
  <2> SUFFICES ASSUME p < n, l[m].start <= start PROVE FALSE
    BY <1>4
  <2>1. m \in 1..n /\ \A j \in 1..m : j \in 1..p \/ j = m
    BY <1>1, <1>4
  <2>2. m \in S
    BY <1>1, <1>11, <2>1
  <2> QED BY <1>4, <2>2
<1> HIDE DEF p, n
<1> QED BY <1>8, <1>10, <1>11, <1>12 DEF n

\* A list with an entry put in behind the first n.
LEMMA Inserted ==
  ASSUME NEW l \in Seq(Ranges), NEW n \in 0..Len(l), NEW x \in Ranges
  PROVE  LET u == SubSeq(l, 1, n) \o <<x>> \o SubSeq(l, n + 1, Len(l))
         IN  /\ u \in Seq(Ranges) /\ DOMAIN u = 1..(Len(l) + 1)
             /\ \A k \in 1..n : u[k] = l[k]
             /\ u[n + 1] = x
             /\ \A k \in (n + 2)..(Len(l) + 1) : u[k] = l[k - 1]
<1> DEFINE N == Len(l)
           b == n + 1
           s == SubSeq(l, 1, n)
           t == SubSeq(l, b, N)
           o == <<x>>
           v == s \o o
           u == v \o t
<1>1. /\ N \in Nat /\ n \in 0..N /\ 1 \in Int /\ n \in Int /\ b \in Int /\ N \in Int /\ b = n + 1
      /\ (\A k \in 1..N : l[k] \in Ranges) /\ n \in Nat
  BY Entries
<1>2. (\A k \in 1..n : l[k] \in Ranges) /\ (\A k \in b..N : l[k] \in Ranges)
  BY <1>1
<1>3. o \in Seq(Ranges) /\ Len(o) = 1 /\ o[1] = x
  OBVIOUS
<1> HIDE DEF N, b, o
<1>4. /\ s \in Seq(Ranges) /\ Len(s) = (IF 1 <= n THEN n - 1 + 1 ELSE 0)
      /\ \A k \in 1..n - 1 + 1 : s[k] = l[1 + k - 1]
  BY <1>1, <1>2, SubSeqProperties
<1>5. /\ t \in Seq(Ranges) /\ Len(t) = (IF b <= N THEN N - b + 1 ELSE 0)
      /\ \A k \in 1..N - b + 1 : t[k] = l[b + k - 1]
  BY <1>1, <1>2, SubSeqProperties
<1> HIDE DEF s, t
<1>6. Len(s) = n /\ \A k \in 1..n : s[k] = l[k]
  <2>1. \A k \in 1..n : k \in 1..n - 1 + 1 /\ 1 + k - 1 = k
    BY <1>1
  <2> QED BY <1>1, <1>4, <2>1
<1>7. Len(t) = N - n
  BY <1>1, <1>5
<1>8. /\ v \in Seq(Ranges) /\ Len(v) = Len(s) + Len(o)
      /\ \A k \in 1..Len(s) + Len(o) : v[k] = IF k <= Len(s) THEN s[k] ELSE o[k - Len(s)]
  BY <1>3, <1>4, ConcatProperties
<1>9. /\ Len(v) = n + 1 /\ v[n + 1] = x /\ \A k \in 1..n : v[k] = l[k]
  <2>1. \A k \in 1..n + 1 : v[k] = IF k <= n THEN s[k] ELSE o[k - n]
    BY <1>3, <1>6, <1>8
  <2>2. n + 1 \in 1..n + 1 /\ ~(n + 1 <= n) /\ n + 1 - n = 1 /\ \A k \in 1..n : k \in 1..n + 1 /\ k <= n
    BY <1>1
  <2> QED BY <1>3, <1>6, <1>8, <2>1, <2>2
<1>0. u = v \o t
  OBVIOUS
<1> HIDE DEF u, v
<1>10. /\ u \in Seq(Ranges) /\ Len(u) = Len(v) + Len(t)
       /\ \A k \in 1..Len(v) + Len(t) : u[k] = IF k <= Len(v) THEN v[k] ELSE t[k - Len(v)]
  BY <1>0, <1>5, <1>8, ConcatProperties
<1>11. /\ DOMAIN u = 1..(N + 1) /\ u[n + 1] = x /\ \A k \in 1..n : u[k] = l[k]
  <2>1. Len(v) + Len(t) = N + 1
    BY <1>1, <1>7, <1>9
  <2>2. DOMAIN u = 1..(N + 1)
    BY <1>10, <2>1
  <2>3. \A k \in 1..(n + 1) : k \in 1..Len(v) + Len(t) /\ k <= Len(v)
    BY <1>1, <1>9, <2>1
  <2>4. \A k \in 1..(n + 1) : u[k] = v[k]
    BY <1>10, <2>3
  <2>5. n + 1 \in 1..(n + 1) /\ \A k \in 1..n : k \in 1..(n + 1)
    BY <1>1
  <2> QED BY <1>9, <2>2, <2>4, <2>5
<1>12. ASSUME NEW k \in (n + 2)..(N + 1) PROVE u[k] = l[k - 1]
  <2> DEFINE j == k - (n + 1)
  <2>1. k \in 1..Len(v) + Len(t) /\ ~(k <= Len(v)) /\ k - Len(v) = j
    BY <1>1, <1>7, <1>9
  <2>2. j \in 1..N - b + 1 /\ b + j - 1 = k - 1
    BY <1>1
  <2>3. u[k] = t[j]
    BY <1>10, <2>1
  <2> HIDE DEF j
  <2> QED BY <1>5, <2>2, <2>3
<1>13. u = SubSeq(l, 1, n) \o <<x>> \o SubSeq(l, n + 1, Len(l))
  BY DEF u, v, s, o, t, b, N
<1> QED BY <1>10, <1>11, <1>12, <1>13 DEF N

\* A range that was free is entered in its place.
LEMMA EnterIs ==
  ASSUME NEW l \in Seq(Ranges), NEW start \in Nat, NEW last \in Nat
  PROVE  /\ Enter(l, start, last) \in Seq(Ranges)
         /\ WellFormed(l) /\ Vacant(l, start, last) => WellFormed(Enter(l, start, last))
<1> DEFINE n == Position(l, start)
           x == [start |-> start, end |-> last]
           u == SubSeq(l, 1, n) \o <<x>> \o SubSeq(l, n + 1, Len(l))
           N == Len(l)
<1>1. x \in Ranges /\ x.start = start /\ x.end = last
  BY DEF Ranges, Pages
<1>2. /\ n \in 0..N /\ \A k \in 1..n : l[k].start <= start
      /\ n < N => ~(l[n + 1].start <= start)
  BY PositionIs
<1>3. N \in Nat /\ DOMAIN l = 1..N /\ \A k \in 1..N : l[k].start \in Nat /\ l[k].end \in Nat
  BY Entries
<1>4. Enter(l, start, last) = u
  BY DEF Enter
<1> HIDE DEF n, x
<1>5. /\ u \in Seq(Ranges) /\ DOMAIN u = 1..(N + 1)
      /\ \A k \in 1..n : u[k] = l[k]
      /\ u[n + 1] = x
      /\ \A k \in (n + 2)..(N + 1) : u[k] = l[k - 1]
  BY <1>1, <1>2, Inserted
<1> HIDE DEF u, N
<1>6. ASSUME WellFormed(l), Vacant(l, start, last) PROVE WellFormed(u)
  <2>1. /\ \A k \in 1..N : Base <= l[k].start /\ l[k].start <= l[k].end /\ l[k].end < End
        /\ \A j, k \in 1..N : j < k => l[j].end < l[k].start
    BY <1>3, <1>6 DEF WellFormed
  <2>2. /\ Base <= start /\ start <= last /\ last < End
        /\ \A k \in 1..N : l[k].end < start \/ last < l[k].start
    BY <1>3, <1>6 DEF Vacant
  <2>3. \A k \in 1..n : k \in 1..N /\ l[k].end < start
    <3> SUFFICES ASSUME NEW k \in 1..n PROVE k \in 1..N /\ l[k].end < start
      OBVIOUS
    <3>1. k \in 1..N /\ l[k].start <= start
      BY <1>2, <1>3
    <3> QED BY <1>3, <2>2, <3>1
  <2>4. \A k \in (n + 1)..N : k \in 1..N /\ last < l[k].start
    <3> SUFFICES ASSUME NEW k \in (n + 1)..N PROVE k \in 1..N /\ last < l[k].start
      OBVIOUS
    <3>1. k \in 1..N /\ n + 1 \in 1..N /\ n < N
      BY <1>2, <1>3
    <3>2. start < l[n + 1].start
      BY <1>2, <1>3, <3>1
    <3>3. k = n + 1 \/ l[n + 1].end < l[k].start
      BY <2>1, <3>1
    <3>4. start < l[k].start
      BY <1>3, <2>1, <3>1, <3>2, <3>3
    <3>5. l[k].end < start \/ last < l[k].start
      BY <2>2, <3>1
    <3> QED BY <1>3, <2>1, <3>1, <3>4, <3>5
  <2>5. \A k \in 1..(N + 1) : \/ k \in 1..n /\ k \in 1..N /\ u[k] = l[k]
                              \/ k = n + 1 /\ u[k] = x
                              \/ k \in (n + 2)..(N + 1) /\ k - 1 \in (n + 1)..N /\ u[k] = l[k - 1]
    BY <1>2, <1>3, <1>5
  <2>6. ASSUME NEW k \in 1..(N + 1)
        PROVE  Base <= u[k].start /\ u[k].start <= u[k].end /\ u[k].end < End
    BY <1>1, <2>1, <2>2, <2>4, <2>5
  <2>7. ASSUME NEW j \in 1..(N + 1), NEW k \in 1..(N + 1), j < k
        PROVE  u[j].end < u[k].start
    <3>1. CASE k \in 1..n
      <4>1. j \in 1..n /\ j \in 1..N /\ k \in 1..N
        BY <1>2, <1>3, <2>7, <3>1
      <4> QED BY <1>5, <2>1, <2>7, <3>1, <4>1
    <3>2. CASE k = n + 1
      <4>1. j \in 1..n
        BY <1>2, <2>7, <3>2
      <4> QED BY <1>1, <1>5, <2>3, <3>2, <4>1
    <3>3. CASE k \in (n + 2)..(N + 1)
      <4>1. k - 1 \in (n + 1)..N /\ k - 1 \in 1..N /\ u[k] = l[k - 1] /\ last < l[k - 1].start
        <5>1. k - 1 \in (n + 1)..N
          BY <1>2, <1>3, <3>3
        <5> QED BY <1>5, <2>4, <3>3, <5>1
      <4>2. CASE j \in 1..n
        <5>1. j \in 1..N /\ j < k - 1 /\ u[j] = l[j]
          BY <1>2, <1>3, <1>5, <3>3, <4>2
        <5> QED BY <2>1, <4>1, <5>1
      <4>3. CASE j = n + 1
        BY <1>1, <1>5, <4>1, <4>3
      <4>4. CASE j \in (n + 2)..(N + 1)
        <5>1. j - 1 \in 1..N /\ j - 1 < k - 1 /\ u[j] = l[j - 1]
          BY <1>2, <1>3, <1>5, <2>7, <4>4
        <5> QED BY <2>1, <4>1, <5>1
      <4> QED BY <2>5, <4>2, <4>3, <4>4
    <3> QED BY <2>5, <3>1, <3>2, <3>3
  <2> QED BY <1>5, <2>6, <2>7 DEF WellFormed
<1> QED BY <1>4, <1>5, <1>6

\* A list without the entry at i.
LEMMA Removed ==
  ASSUME NEW l \in Seq(Ranges), NEW i \in 1..Len(l)
  PROVE  LET u == SubSeq(l, 1, i - 1) \o SubSeq(l, i + 1, Len(l))
         IN  /\ u \in Seq(Ranges) /\ DOMAIN u = 1..(Len(l) - 1)
             /\ \A k \in 1..(i - 1) : u[k] = l[k]
             /\ \A k \in i..(Len(l) - 1) : u[k] = l[k + 1]
<1> DEFINE N == Len(l)
           a == i - 1
           b == i + 1
           s == SubSeq(l, 1, a)
           t == SubSeq(l, b, N)
           u == s \o t
<1>1. /\ N \in Nat /\ i \in 1..N /\ 1 \in Int /\ a \in Int /\ b \in Int /\ N \in Int
      /\ a = i - 1 /\ b = i + 1 /\ \A k \in 1..N : l[k] \in Ranges
  BY Entries
<1>2. (\A k \in 1..a : l[k] \in Ranges) /\ (\A k \in b..N : l[k] \in Ranges)
  BY <1>1
<1> HIDE DEF N, a, b
<1>3. /\ s \in Seq(Ranges) /\ Len(s) = (IF 1 <= a THEN a - 1 + 1 ELSE 0)
      /\ \A k \in 1..a - 1 + 1 : s[k] = l[1 + k - 1]
  BY <1>1, <1>2, SubSeqProperties
<1>4. /\ t \in Seq(Ranges) /\ Len(t) = (IF b <= N THEN N - b + 1 ELSE 0)
      /\ \A k \in 1..N - b + 1 : t[k] = l[b + k - 1]
  BY <1>1, <1>2, SubSeqProperties
<1>0. u = s \o t
  OBVIOUS
<1> HIDE DEF s, t, u
<1>5. Len(s) = i - 1 /\ Len(t) = N - i
  BY <1>1, <1>3, <1>4
<1>6. /\ u \in Seq(Ranges) /\ Len(u) = Len(s) + Len(t)
      /\ \A k \in 1..Len(s) + Len(t) : u[k] = IF k <= Len(s) THEN s[k] ELSE t[k - Len(s)]
  BY <1>0, <1>3, <1>4, ConcatProperties
<1>7. DOMAIN u = 1..(N - 1)
  <2>1. Len(s) + Len(t) = N - 1
    BY <1>1, <1>5
  <2> QED BY <1>6, <2>1
<1>8. ASSUME NEW k \in 1..(i - 1) PROVE u[k] = l[k]
  <2>1. k \in 1..Len(s) + Len(t) /\ k <= Len(s) /\ k \in 1..a - 1 + 1 /\ 1 + k - 1 = k
    BY <1>1, <1>5
  <2> QED BY <1>3, <1>6, <2>1
<1>9. ASSUME NEW k \in i..(N - 1) PROVE u[k] = l[k + 1]
  <2> DEFINE j == k - (i - 1)
  <2>1. k \in 1..Len(s) + Len(t) /\ ~(k <= Len(s)) /\ k - Len(s) = j
    BY <1>1, <1>5
  <2>2. j \in 1..N - b + 1 /\ b + j - 1 = k + 1
    BY <1>1
  <2>3. u[k] = t[j]
    BY <1>6, <2>1
  <2> HIDE DEF j
  <2> QED BY <1>4, <2>2, <2>3
<1>10. u = SubSeq(l, 1, i - 1) \o SubSeq(l, i + 1, Len(l))
  BY <1>0 DEF s, t, a, b, N
<1> QED BY <1>6, <1>7, <1>8, <1>9, <1>10 DEF N

LEMMA RemovedWellFormed ==
  ASSUME NEW l \in Seq(Ranges), WellFormed(l), NEW i \in 1..Len(l)
  PROVE  WellFormed(SubSeq(l, 1, i - 1) \o SubSeq(l, i + 1, Len(l)))
<1> DEFINE u == SubSeq(l, 1, i - 1) \o SubSeq(l, i + 1, Len(l))
           N == Len(l)
           f(k) == IF k < i THEN k ELSE k + 1
<1>1. /\ DOMAIN u = 1..(N - 1)
      /\ \A k \in 1..(i - 1) : u[k] = l[k]
      /\ \A k \in i..(N - 1) : u[k] = l[k + 1]
  BY Removed
<1>2. N \in Nat /\ DOMAIN l = 1..N
  BY Entries
<1> HIDE DEF u, N
<1>3. \A k \in 1..(N - 1) : f(k) \in 1..N /\ u[k] = l[f(k)]
  <2> SUFFICES ASSUME NEW k \in 1..(N - 1) PROVE f(k) \in 1..N /\ u[k] = l[f(k)]
    OBVIOUS
  <2>1. CASE k < i
    <3>1. k \in 1..(i - 1) /\ k \in 1..N
      BY <1>2, <2>1 DEF N
    <3> QED BY <1>1, <2>1, <3>1
  <2>2. CASE ~(k < i)
    <3>1. k \in i..(N - 1) /\ k + 1 \in 1..N
      BY <1>2, <2>2 DEF N
    <3> QED BY <1>1, <2>2, <3>1
  <2> QED BY <2>1, <2>2
<1>4. \A j, k \in 1..(N - 1) : j < k => f(j) < f(k)
  BY <1>2
<1>5. /\ \A k \in 1..N : Base <= l[k].start /\ l[k].start <= l[k].end /\ l[k].end < End
      /\ \A j, k \in 1..N : j < k => l[j].end < l[k].start
  BY <1>2 DEF WellFormed
<1> HIDE DEF f
<1>6. ASSUME NEW k \in 1..(N - 1)
      PROVE  Base <= u[k].start /\ u[k].start <= u[k].end /\ u[k].end < End
  BY <1>3, <1>5
<1>7. ASSUME NEW j \in 1..(N - 1), NEW k \in 1..(N - 1), j < k PROVE u[j].end < u[k].start
  BY <1>3, <1>4, <1>5, <1>7
<1>8. WellFormed(u)
  BY <1>1, <1>6, <1>7 DEF WellFormed
<1> QED BY <1>8 DEF u

\* imem_free takes the first entry with the address out.
LEMMA WithoutIs ==
  ASSUME NEW l \in Seq(Ranges), NEW addr \in Nat
  PROVE  /\ Without(l, addr) \in Seq(Ranges)
         /\ WellFormed(l) => WellFormed(Without(l, addr))
<1>1. CASE ~\E i \in DOMAIN l : l[i].start = addr
  BY <1>1 DEF Without
<1>2. CASE \E i \in DOMAIN l : l[i].start = addr
  <2> DEFINE P(k) == l[k].start = addr /\ \A j \in 1..(k - 1) : l[j].start # addr
             m == CHOOSE k \in DOMAIN l : P(k)
             T == {k \in DOMAIN l : l[k].start = addr}
  <2>1. Len(l) \in Nat /\ DOMAIN l = 1..Len(l)
    BY Entries
  <2>2. T \in SUBSET Nat /\ T # {}
    BY <1>2, <2>1
  <2>3. PICK k \in T : \A j \in T : k <= j
    <3> HIDE DEF T
    <3> QED BY <2>2, Least
  <2>4. k \in DOMAIN l /\ P(k)
    <3>1. k \in 1..Len(l) /\ l[k].start = addr
      BY <2>1, <2>3
    <3>2. ASSUME NEW j \in 1..(k - 1) PROVE l[j].start # addr
      <4>1. j \in 1..Len(l) /\ ~(k <= j)
        BY <2>1, <3>1
      <4> QED BY <2>1, <2>3, <4>1
    <3> QED BY <2>1, <3>1, <3>2
  <2>5. m \in DOMAIN l
    BY <2>4
  <2>6. Without(l, addr) = SubSeq(l, 1, m - 1) \o SubSeq(l, m + 1, Len(l))
    BY <1>2 DEF Without
  <2> HIDE DEF m
  <2>7. m \in 1..Len(l)
    BY <2>1, <2>5
  <2> QED BY <2>6, <2>7, Removed, RemovedWellFormed
<1> QED BY <1>1, <1>2

-----------------------------------------------------------------------------
(* The steps.                                                              *)

Selections == [start : Pages, end : Pages, stale : BOOLEAN]

\* Whoever changes the list makes the choices of all others stale.
LEMMA OutdatedIs ==
  ASSUME ImemTypeOK, NEW c \in Clients
  PROVE  /\ Outdated(c) \in [Clients -> Selections]
         /\ \A d \in Clients : d # c /\ call[d] = "kmalloc" => Outdated(c)[d].stale
<1>1. choice \in [Clients -> Selections]
  BY DEF ImemTypeOK, Selections
<1>2. \A x \in Selections : [x EXCEPT !.stale = TRUE] \in Selections /\ [x EXCEPT !.stale = TRUE].stale
  BY DEF Selections
<1>3. ASSUME NEW d \in Clients
      PROVE  /\ Outdated(c)[d] = IF d # c /\ call[d] = "kmalloc"
                                   THEN [choice[d] EXCEPT !.stale = TRUE] ELSE choice[d]
             /\ Outdated(c)[d] \in Selections
  BY <1>1, <1>2 DEF Outdated
<1>4. Outdated(c) \in [Clients -> Selections]
  BY <1>1, <1>2 DEF Outdated
<1> QED BY <1>1, <1>2, <1>3, <1>4

LEMMA AllocInv ==
  ASSUME ImemInv, NEW c \in Clients, NEW order \in Orders, Alloc(c, order)
  PROVE  ImemInv'
<1> DEFINE size == 2^order
           start == FirstFit(list, size)
           x == [start |-> start, end |-> start + size - 1, stale |-> FALSE]
<1>1. /\ list \in Seq(Ranges) /\ reported \in Pages
      /\ call \in [Clients -> {"none", "kmalloc", "wrote"}]
      /\ choice \in [Clients -> Selections]
  BY DEF ImemInv, ImemTypeOK, Selections
<1>2. size \in Nat \ {0} /\ size \in Nat
  BY PowersAssumption, ImemAssumption DEF Orders
<1>3. /\ reported' = start /\ list' = list
      /\ IF start = 0
           THEN call' = [call EXCEPT ![c] = "wrote"] /\ choice' = choice
           ELSE call' = [call EXCEPT ![c] = "kmalloc"] /\ choice' = [choice EXCEPT ![c] = x]
  BY DEF Alloc
<1> HIDE DEF size
<1>4. start \in Nat
  <2>1. start = 0 \/ \E i \in 1..(Len(list) + 1) : start = GapStart(list, i)
    BY <1>1, <1>2, FirstFitIs
  <2> QED BY <1>1, <2>1, GapTypes
<1>5. WellFormed(list) /\ start # 0 => Vacant(list, start, start + size - 1)
  BY <1>1, <1>2, Granted
<1> HIDE DEF start
<1>6. start + size - 1 \in Nat
  BY <1>2, <1>4
<1>7. x \in Selections /\ x.start = start /\ x.end = start + size - 1
  BY <1>4, <1>6 DEF Selections, Pages
<1> HIDE DEF x
<1>8. ImemTypeOK'
  <2>1. call' \in [Clients -> {"none", "kmalloc", "wrote"}] /\ choice' \in [Clients -> Selections]
    BY <1>1, <1>3, <1>7
  <2> QED BY <1>1, <1>3, <1>4, <2>1 DEF ImemTypeOK, Selections, Pages
<1>9. Chosen'
  <2> SUFFICES ASSUME NEW d \in Clients, call'[d] = "kmalloc", ~choice'[d].stale, WellFormed(list')
               PROVE  Vacant(list', choice'[d].start, choice'[d].end)
    BY DEF Chosen, WellFormed, Vacant, End
  <2>1. WellFormed(list)
    BY <1>3
  <2>2. CASE d = c
    <3>1. start # 0
      BY <1>1, <1>3, <2>2
    <3>2. choice'[d] = x
      BY <1>1, <1>3, <2>2, <3>1
    <3> QED BY <1>3, <1>5, <1>7, <2>1, <3>1, <3>2
  <2>3. CASE d # c
    <3>1. call'[d] = call[d] /\ choice'[d] = choice[d]
      BY <1>1, <1>3, <2>3
    <3> QED BY <1>3, <2>1, <3>1 DEF ImemInv, Chosen
  <2> QED BY <2>2, <2>3
<1> QED BY <1>8, <1>9 DEF ImemInv

\* The list changes: by the end of an allocation, or by imem_free.
LEMMA ChangeInv ==
  ASSUME ImemInv, NEW c \in Clients, list' \in Seq(Ranges), reported' \in Pages,
         call' \in [Clients -> {"none", "kmalloc", "wrote"}], call'[c] # "kmalloc",
         \A d \in Clients : d # c => call'[d] = call[d] /\ choice'[d] = Outdated(c)[d],
         choice' \in [Clients -> Selections]
  PROVE  ImemInv'
<1>1. ImemTypeOK'
  BY DEF ImemTypeOK, Selections
<1>2. \A d \in Clients : d # c /\ call[d] = "kmalloc" => Outdated(c)[d].stale
  BY OutdatedIs DEF ImemInv
<1>3. Chosen'
  <2> SUFFICES ASSUME NEW d \in Clients, call'[d] = "kmalloc", ~choice'[d].stale PROVE FALSE
    BY DEF Chosen
  <2> QED BY <1>2
<1> QED BY <1>1, <1>3 DEF ImemInv

LEMMA LinkInv == ASSUME ImemInv, NEW c \in Clients, Link(c) PROVE ImemInv'
<1>1. /\ list \in Seq(Ranges) /\ reported \in Pages
      /\ call \in [Clients -> {"none", "kmalloc", "wrote"}]
      /\ choice[c].start \in Nat /\ choice[c].end \in Nat
  BY DEF ImemInv, ImemTypeOK, Pages
<1>2. /\ list' = Enter(list, choice[c].start, choice[c].end) /\ reported' = reported
      /\ call' = [call EXCEPT ![c] = "wrote"] /\ choice' = [Outdated(c) EXCEPT ![c] = NoChoice]
  BY DEF Link
<1>3. Outdated(c) \in [Clients -> Selections]
  BY OutdatedIs DEF ImemInv
<1>4. NoChoice \in Selections
  BY DEF NoChoice, Selections, Pages
<1>5. list' \in Seq(Ranges)
  BY <1>1, <1>2, EnterIs
<1>6. /\ call' \in [Clients -> {"none", "kmalloc", "wrote"}] /\ call'[c] # "kmalloc"
      /\ choice' \in [Clients -> Selections]
      /\ \A d \in Clients : d # c => call'[d] = call[d] /\ choice'[d] = Outdated(c)[d]
  BY <1>1, <1>2, <1>3, <1>4
<1> QED BY <1>1, <1>2, <1>5, <1>6, ChangeInv

LEMMA FreeInv == ASSUME ImemInv, NEW c \in Clients, FreeRange(c) \/ FreeAll(c) PROVE ImemInv'
<1>1. /\ list \in Seq(Ranges) /\ reported \in Pages
      /\ call \in [Clients -> {"none", "kmalloc", "wrote"}]
  BY DEF ImemInv, ImemTypeOK
<1>2. call[c] = "none" /\ choice' = Outdated(c) /\ call' = call
  BY DEF FreeRange, FreeAll
<1>3. reported' \in Pages
  BY <1>1 DEF FreeRange, FreeAll, Pages
<1>4. list' \in Seq(Ranges)
  <2>1. CASE FreeRange(c)
    <3>1. PICK i \in DOMAIN list : list' = Without(list, list[i].start)
      BY <2>1 DEF FreeRange
    <3>2. list[i].start \in Nat
      BY <1>1, Entries
    <3> QED BY <1>1, <3>1, <3>2, WithoutIs
  <2>2. CASE FreeAll(c)
    BY <2>2 DEF FreeAll
  <2> QED BY <2>1, <2>2
<1>5. choice' \in [Clients -> Selections]
  BY <1>2, OutdatedIs DEF ImemInv
<1> QED BY <1>1, <1>2, <1>3, <1>4, <1>5, ChangeInv

LEMMA IdleInv ==
  ASSUME ImemInv, \/ \E c \in Clients : KmallocFails(c) \/ Read(c)
              \/ UNCHANGED imemVars
  PROVE  ImemInv'
<1>1. CASE UNCHANGED imemVars
  BY <1>1 DEF imemVars, ImemInv, ImemTypeOK, Chosen, WellFormed, Vacant
<1>2. ASSUME NEW c \in Clients, KmallocFails(c) \/ Read(c) PROVE ImemInv'
  <2>1. /\ list' = list /\ reported' = reported
        /\ call' = [call EXCEPT ![c] = "wrote"] \/ call' = [call EXCEPT ![c] = "none"]
        /\ choice' = choice \/ choice' = [choice EXCEPT ![c] = NoChoice]
    BY <1>2 DEF KmallocFails, Read
  <2>2. NoChoice \in Selections
    BY DEF NoChoice, Selections, Pages
  <2>3. call \in [Clients -> {"none", "kmalloc", "wrote"}] /\ choice \in [Clients -> Selections]
    BY DEF ImemInv, ImemTypeOK, Selections
  <2>4. /\ call' \in [Clients -> {"none", "kmalloc", "wrote"}] /\ choice' \in [Clients -> Selections]
        /\ call'[c] # "kmalloc"
        /\ \A d \in Clients : d # c => call'[d] = call[d] /\ choice'[d] = choice[d]
    BY <2>1, <2>2, <2>3
  <2>5. ImemTypeOK'
    BY <2>1, <2>4 DEF ImemInv, ImemTypeOK, Selections
  <2>6. Chosen'
    <3> SUFFICES ASSUME NEW d \in Clients, call'[d] = "kmalloc", ~choice'[d].stale, WellFormed(list')
                 PROVE  Vacant(list', choice'[d].start, choice'[d].end)
      BY DEF Chosen, WellFormed, Vacant, End
    <3>1. d # c /\ call[d] = "kmalloc" /\ choice'[d] = choice[d] /\ WellFormed(list)
      BY <2>1, <2>4
    <3> QED BY <2>1, <3>1 DEF ImemInv, Chosen
  <2> QED BY <2>5, <2>6 DEF ImemInv
<1> QED BY <1>1, <1>2

LEMMA ImemInvInit == ImemInit => ImemInv
<1> SUFFICES ASSUME ImemInit PROVE ImemInv
  OBVIOUS
<1>1. ImemTypeOK
  BY DEF ImemInit, ImemTypeOK, NoChoice, Pages
<1>2. Chosen
  BY DEF ImemInit, Chosen
<1> QED BY <1>1, <1>2 DEF ImemInv

LEMMA ImemInvNext == ASSUME ImemInv, [ImemNext]_imemVars PROVE ImemInv'
BY AllocInv, LinkInv, FreeInv, IdleInv DEF ImemNext

-----------------------------------------------------------------------------
\* For any number of programs and any size of the memory: imem_alloc grants an
\* order exactly if there are free pages for it, and imem_read_proc announces
\* exactly the orders that would be granted.
THEOREM AnnouncedRight == ImemSpec => []AnnouncedIsFree
<1>1. ImemInv => AnnouncedIsFree
  BY Announced DEF ImemInv
<1>2. ImemInv /\ [ImemNext]_imemVars => ImemInv'
  BY ImemInvNext
<1> QED BY ImemInvInit, <1>1, <1>2, PTL DEF ImemSpec

\* For any number of programs: the list of ranges stays in order, apart and inside
\* the memory in every step of imem_alloc, imem_free and imem_free_all, except
\* when an allocation enters a range it chose before the list was changed.
THEOREM OverlapRaced == ImemSpec => OverlapOnlyIfRaced
<1>1. ASSUME ImemInv, [ImemNext]_imemVars, WellFormed(list)
      PROVE  WellFormed(list') \/ \E c \in Clients : Link(c) /\ choice[c].stale
  <2>1. list \in Seq(Ranges)
    BY <1>1 DEF ImemInv, ImemTypeOK
  <2>2. CASE list' = list
    BY <1>1, <2>2
  <2>3. ASSUME NEW c \in Clients, Link(c), ~choice[c].stale PROVE WellFormed(list')
    <3>1. call[c] = "kmalloc" /\ list' = Enter(list, choice[c].start, choice[c].end)
      BY <2>3 DEF Link
    <3>2. Vacant(list, choice[c].start, choice[c].end)
      BY <1>1, <2>3, <3>1 DEF ImemInv, Chosen
    <3>3. choice[c].start \in Nat /\ choice[c].end \in Nat
      BY <1>1 DEF ImemInv, ImemTypeOK, Pages
    <3> QED BY <1>1, <2>1, <3>1, <3>2, <3>3, EnterIs
  <2>4. ASSUME NEW c \in Clients, FreeRange(c) PROVE WellFormed(list')
    <3>1. PICK i \in DOMAIN list : list' = Without(list, list[i].start)
      BY <2>4 DEF FreeRange
    <3>2. list[i].start \in Nat
      BY <2>1, Entries
    <3> QED BY <1>1, <2>1, <3>1, <3>2, WithoutIs
  <2>5. ASSUME NEW c \in Clients, FreeAll(c) PROVE WellFormed(list')
    BY <2>5 DEF FreeAll, WellFormed
  <2>6. CASE UNCHANGED imemVars \/ \E c \in Clients : KmallocFails(c) \/ Read(c) \/ \E order \in Orders : Alloc(c, order)
    <3>1. list' = list
      BY <2>6 DEF imemVars, KmallocFails, Read, Alloc
    <3> QED BY <2>2, <3>1
  <2> QED BY <1>1, <2>3, <2>4, <2>5, <2>6 DEF ImemNext
<1>2. ImemInv /\ [ImemNext]_imemVars =>
        [WellFormed(list) =>
           \/ WellFormed(list')
           \/ \E c \in Clients : Link(c) /\ choice[c].stale]_imemVars
  BY <1>1
<1>3. ImemInv /\ [ImemNext]_imemVars => ImemInv'
  BY ImemInvNext
<1> QED BY ImemInvInit, <1>2, <1>3, PTL DEF ImemSpec, OverlapOnlyIfRaced
=============================================================================
