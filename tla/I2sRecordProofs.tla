--------------------------- MODULE I2sRecordProofs ---------------------------
(***************************************************************************)
(* The recording half of the OSS driver, proved for any number of          *)
(* fragments and any samples: buffers are conserved, recording pauses only *)
(* when there is no buffer to fill, read() never takes stale cache lines,  *)
(* and the driver implements the fragment queue of AudioFifo.              *)
(***************************************************************************)
EXTENDS I2sRecord, FiniteSetTheorems, SequenceTheorems, TLAPS

-----------------------------------------------------------------------------
(* The inductive invariant.                                                *)

\* The part of jz_audio_read that takes a buffer to start the DMA on it.
Starting == {"kick", "pull", "busy", "start"}

\* The places of jz_audio_read in which the caller still wants a fragment.
Looping == {"check", "get", "put", "kick", "copy"}

\* The places that the first call also passes through.
FirstCall == {"pull", "busy", "start", "sleep_on", "asleep", "woken"}

\* What the place of the process says about the queues and the DMA channel.
Control ==
    /\ te => dma # None
    /\ dma # None => busy = <<dma>>
    /\ opened /\ busy # <<>> => dma # None \/ pc = "start"
    /\ pc \in {"pull", "busy"} => busy = <<>> /\ dma = None
    /\ pc = "start" => busy = <<id>> /\ dma = None
    /\ ~opened => pc \in {"idle", "drain", "disable"}
    /\ pc \in {"drain", "disable"} => ~opened
    /\ ~opened /\ pc = "idle" => dma = None
    /\ opened /\ first => pc = "idle" /\ full = <<>> /\ busy = <<>> /\ dma = None
    /\ initial => pc \in FirstCall
    /\ pc \in Looping => left > 0
    /\ pc \in FirstCall /\ ~initial => left > 0

\* While the recording is stopped there is no buffer to fill, or the process is
\* on its way to start it.
Paused ==
    opened /\ ~first /\ dma = None => (empty = <<>> /\ busy = <<>>) \/ pc \in Starting

\* No line of a buffer that the DMA fills, or has filled, is in the cache.
Coherent == FreshRead /\ (dma # None => dma \notin lines)

Inv == BuffersConserved /\ Control /\ Paused /\ Coherent

-----------------------------------------------------------------------------
(* Lemmas about sequences without repetition and their ranges.             *)

\* An element at the end joins the range, and a new one repeats nothing.
LEMMA AppendRange ==
    ASSUME NEW S, NEW s \in Seq(S), NEW e \in S
    PROVE  /\ Append(s, e) \in Seq(S)
           /\ Append(s, e) # <<>>
           /\ Range(Append(s, e)) = Range(s) \cup {e}
           /\ IsInjective(s) /\ e \notin Range(s) => IsInjective(Append(s, e))
<1>1. /\ Append(s, e) \in Seq(S) /\ Append(s, e) # <<>>
      /\ Len(Append(s, e)) = Len(s) + 1 /\ Len(s) \in Nat
      /\ DOMAIN s = 1..Len(s) /\ DOMAIN Append(s, e) = 1..(Len(s) + 1)
      /\ \A i \in 1..Len(s) : Append(s, e)[i] = s[i]
      /\ Append(s, e)[Len(s) + 1] = e
  OBVIOUS
<1>2. Range(Append(s, e)) = Range(s) \cup {e}
  BY <1>1, SMT DEF Range
<1>3. IsInjective(s) /\ e \notin Range(s) => IsInjective(Append(s, e))
  BY <1>1, SMT DEF Range, IsInjective
<1> QED BY <1>1, <1>2, <1>3

\* Removing the head of a sequence without repetition removes it from the range.
LEMMA TailRange ==
    ASSUME NEW S, NEW s \in Seq(S), s # <<>>
    PROVE  /\ Tail(s) \in Seq(S)
           /\ Head(s) \in S
           /\ Head(s) \in Range(s)
           /\ IsInjective(s) => /\ Range(Tail(s)) = Range(s) \ {Head(s)}
                                /\ IsInjective(Tail(s))
<1>1. /\ Tail(s) \in Seq(S) /\ Len(s) \in Nat \ {0} /\ Head(s) = s[1] /\ Head(s) \in S
      /\ DOMAIN s = 1..Len(s) /\ DOMAIN Tail(s) = 1..(Len(s) - 1)
      /\ \A i \in 1..(Len(s) - 1) : Tail(s)[i] = s[i + 1]
  OBVIOUS
<1>2. Head(s) \in Range(s)
  BY <1>1, SMT DEF Range
<1>3. ASSUME IsInjective(s)
      PROVE  /\ Range(Tail(s)) = Range(s) \ {Head(s)}
             /\ IsInjective(Tail(s))
  <2>1. \A i \in 2..Len(s) : s[i] = Tail(s)[i - 1] /\ i - 1 \in 1..(Len(s) - 1)
    BY <1>1, SMT
  <2>2. Range(Tail(s)) \subseteq Range(s) \ {Head(s)}
    BY <1>1, <1>3, SMT DEF Range, IsInjective
  <2>3. Range(s) \ {Head(s)} \subseteq Range(Tail(s))
    <3> SUFFICES ASSUME NEW x \in Range(s), x # Head(s)
                 PROVE  x \in Range(Tail(s))
      OBVIOUS
    <3>1. PICK i \in 1..Len(s) : x = s[i]
      BY <1>1 DEF Range
    <3>2. i \in 2..Len(s)
      BY <1>1, <3>1
    <3>3. x = Tail(s)[i - 1] /\ i - 1 \in DOMAIN Tail(s)
      BY <1>1, <2>1, <3>1, <3>2
    <3> QED BY <3>3 DEF Range
  <2>4. IsInjective(Tail(s))
    BY <1>1, <1>3, SMT DEF IsInjective
  <2> QED BY <2>2, <2>3, <2>4
<1> QED BY <1>1, <1>2, <1>3

\* The empty sequence.
LEMMA EmptyRange == Range(<<>>) = {} /\ IsInjective(<<>>)
BY DEF Range, IsInjective

\* One element.
LEMMA SingleRange ==
    ASSUME NEW e
    PROVE  /\ Range(<<e>>) = {e} /\ IsInjective(<<e>>) /\ <<e>> # <<>>
           /\ Head(<<e>>) = e /\ Tail(<<e>>) = <<>> /\ Append(<<>>, e) = <<e>>
BY DEF Range, IsInjective

\* A sequence without repetition is as long as its range is large.
LEMMA LenIsCardinality ==
    ASSUME NEW S, NEW s \in Seq(S), IsInjective(s)
    PROVE  IsFiniteSet(Range(s)) /\ Cardinality(Range(s)) = Len(s) /\ Len(s) \in Nat
<1>1. Len(s) \in Nat /\ DOMAIN s = 1..Len(s) /\ s \in [1..Len(s) -> Range(s)]
  BY DEF Range
<1>2. s \in Bijection(1..Len(s), Range(s))
  BY <1>1 DEF IsInjective, Range, Bijection, Injection, Surjection
<1>3. ExistsBijection(1..Len(s), Range(s))
  BY <1>2 DEF ExistsBijection
<1>4. IsFiniteSet(1..Len(s)) /\ Cardinality(1..Len(s)) = Len(s)
  BY <1>1, FS_Interval
<1> QED BY <1>1, <1>3, <1>4, FS_Bijection

\* The ids that open stores.
LEMMA AllIdsRange ==
    AllIds \in Seq(Ids) /\ AllIds # <<>> /\ Range(AllIds) = Ids /\ IsInjective(AllIds)
<1>1. Frags \in Nat /\ Frags >= 2
  BY RecordAssumption
<1>2. DOMAIN AllIds = 1..Frags /\ \A i \in 1..Frags : AllIds[i] = i - 1 /\ AllIds[i] \in Ids
  BY <1>1 DEF AllIds, Ids
<1>3. AllIds \in [1..Frags -> Ids]
  BY <1>2 DEF AllIds
<1>4. AllIds \in Seq(Ids) /\ Len(AllIds) = Frags
  BY <1>1, <1>3
<1>5. Range(AllIds) = Ids
  <2>1. \A j \in Ids : j + 1 \in 1..Frags /\ AllIds[j + 1] = j
    BY <1>1, <1>2 DEF Ids
  <2>2. Range(AllIds) \subseteq Ids
    BY <1>2 DEF Range
  <2>3. ASSUME NEW j \in Ids PROVE j \in Range(AllIds)
    BY <1>2, <2>1 DEF Range
  <2> QED BY <2>2, <2>3
<1>6. IsInjective(AllIds)
  BY <1>1, <1>2 DEF IsInjective
<1> QED BY <1>1, <1>4, <1>5, <1>6

-----------------------------------------------------------------------------
(* Every step keeps the invariant.                                         *)

\* Where the buffers are: BuffersConserved without the types.
Placed ==
    /\ IsInjective(empty) /\ IsInjective(full) /\ IsInjective(busy)
    /\ opened => Range(empty) \cup Range(full) \cup Range(busy) \cup InHand = Ids
    /\ Range(empty) \cap (Range(full) \cup Range(busy)) = {}
    /\ Range(full) \cap Range(busy) = {}
    /\ InHand \cap (Range(empty) \cup Range(full) \cup Range(busy)) = {}

LEMMA PlacedIs == BuffersConserved <=> TypeOK /\ Placed
BY DEF BuffersConserved, Placed

LEMMA PlacedIsNext == BuffersConserved' <=> TypeOK' /\ Placed'
BY DEF BuffersConserved, Placed

\* A step that leaves the queues and the buffer in hand alone conserves buffers.
LEMMA PlacedUnchanged ==
    ASSUME Placed, UNCHANGED queueVars, InHand' = InHand, opened' => opened
    PROVE  Placed'
BY DEF Placed, queueVars

LEMMA InvInit == Init => Inv
<1> SUFFICES ASSUME Init PROVE Inv
  OBVIOUS
<1>1. TypeOK
  <2>1. empty \in Seq(Ids) /\ full \in Seq(Ids) /\ busy \in Seq(Ids)
    BY AllIdsRange DEF Init
  <2>2. content \in [Ids -> Data \cup {NoData}] /\ left \in 0..MaxRead
    BY RecordAssumption DEF Init
  <2> QED BY <2>1, <2>2 DEF Init, TypeOK, PC
<1>2. Placed
  BY AllIdsRange, EmptyRange DEF Init, Placed, InHand
<1>3. Control /\ Paused /\ Coherent
  BY EmptyRange DEF Init, Control, Paused, Coherent, FreshRead, Looping, FirstCall
<1> QED BY <1>1, <1>2, <1>3, PlacedIs DEF Inv

LEMMA OpenBusyInv == ASSUME Inv, OpenBusy PROVE Inv'
<1> USE DEF OpenBusy, vars, Inv, queueVars, fileVars, procVars
<1>1. TypeOK /\ Placed
  BY PlacedIs
<1>2. TypeOK'
  BY <1>1, RecordAssumption DEF TypeOK, PC, Control, Looping, FirstCall
<1>3. Placed'
  BY <1>1, PlacedUnchanged DEF InHand
<1>4. Control'
  BY <1>1, SingleRange DEF Control, Looping, FirstCall, TypeOK
<1>5. Paused'
  BY <1>1 DEF Paused, Control, Starting, FirstCall
<1>6. Coherent'
  BY <1>1 DEF Coherent, FreshRead, Control
<1> QED BY <1>2, <1>3, <1>4, <1>5, <1>6, PlacedIsNext

LEMMA CheckInv == ASSUME Inv, Check PROVE Inv'
<1> USE DEF Check, Inv, queueVars, fileVars, procVars
<1>1. TypeOK /\ Placed
  BY PlacedIs
<1>2. TypeOK'
  BY <1>1, RecordAssumption DEF TypeOK, PC, Control, Looping, FirstCall
<1>3. Placed'
  BY <1>1, PlacedUnchanged DEF InHand
<1>4. Control'
  BY <1>1, SingleRange DEF Control, Looping, FirstCall, TypeOK
<1>5. Paused'
  BY <1>1 DEF Paused, Control, Starting, FirstCall
<1>6. Coherent'
  BY <1>1 DEF Coherent, FreshRead, Control
<1> QED BY <1>2, <1>3, <1>4, <1>5, <1>6, PlacedIsNext

LEMMA SleepOnInv == ASSUME Inv, SleepOn PROVE Inv'
<1> USE DEF SleepOn, Inv, queueVars, fileVars, procVars
<1>1. TypeOK /\ Placed
  BY PlacedIs
<1>2. TypeOK'
  BY <1>1, RecordAssumption DEF TypeOK, PC, Control, Looping, FirstCall
<1>3. Placed'
  BY <1>1, PlacedUnchanged DEF InHand
<1>4. Control'
  BY <1>1, SingleRange DEF Control, Looping, FirstCall, TypeOK
<1>5. Paused'
  BY <1>1 DEF Paused, Control, Starting, FirstCall
<1>6. Coherent'
  BY <1>1 DEF Coherent, FreshRead, Control
<1> QED BY <1>2, <1>3, <1>4, <1>5, <1>6, PlacedIsNext

LEMMA WokenInv == ASSUME Inv, Woken PROVE Inv'
<1> USE DEF Woken, Again, Inv, queueVars, fileVars, procVars
<1>1. TypeOK /\ Placed
  BY PlacedIs
<1>2. TypeOK'
  BY <1>1, RecordAssumption DEF TypeOK, PC, Control, Looping, FirstCall
<1>3. Placed'
  BY <1>1, PlacedUnchanged DEF InHand
<1>4. Control'
  BY <1>1, SingleRange DEF Control, Looping, FirstCall, TypeOK
<1>5. Paused'
  BY <1>1 DEF Paused, Control, Starting, FirstCall
<1>6. Coherent'
  BY <1>1 DEF Coherent, FreshRead, Control
<1> QED BY <1>2, <1>3, <1>4, <1>5, <1>6, PlacedIsNext

LEMMA KickInv == ASSUME Inv, Kick PROVE Inv'
<1> USE DEF Kick, Inv, queueVars, fileVars, procVars
<1>1. TypeOK /\ Placed
  BY PlacedIs
<1>2. TypeOK'
  BY <1>1, RecordAssumption DEF TypeOK, PC, Control, Looping, FirstCall
<1>3. Placed'
  BY <1>1, PlacedUnchanged DEF InHand
<1>4. Control'
  BY <1>1, SingleRange DEF Control, Looping, FirstCall, TypeOK
<1>5. Paused'
  BY <1>1 DEF Paused, Control, Starting, FirstCall
<1>6. Coherent'
  BY <1>1 DEF Coherent, FreshRead, Control
<1> QED BY <1>2, <1>3, <1>4, <1>5, <1>6, PlacedIsNext

LEMMA StartDmaInv == ASSUME Inv, StartDma PROVE Inv'
<1> USE DEF StartDma, Inv, queueVars, fileVars, procVars
<1>1. TypeOK /\ Placed
  BY PlacedIs
<1>a. id # None
  <2>1. busy = <<id>> /\ busy \in Seq(Ids) /\ busy # <<>> /\ Head(busy) = id
    BY <1>1, SingleRange DEF Control, TypeOK
  <2>2. id \in Ids
    BY <2>1, TailRange
  <2> QED BY <2>2, RecordAssumption DEF Ids, None
<1>2. TypeOK'
  BY <1>1, RecordAssumption DEF TypeOK, PC, Control, Looping, FirstCall
<1>3. Placed'
  BY <1>1, PlacedUnchanged DEF InHand
<1>4. Control'
  BY <1>1, <1>a DEF Control, Looping, FirstCall, TypeOK
<1>5. Paused'
  BY <1>1, <1>a DEF Paused, Control, Starting, FirstCall
<1>6. Coherent'
  BY <1>1 DEF Coherent, FreshRead, Control
<1> QED BY <1>2, <1>3, <1>4, <1>5, <1>6, PlacedIsNext

LEMMA CopyInv == ASSUME Inv, Copy PROVE Inv'
<1> USE DEF Copy, Again, Inv, queueVars, fileVars, procVars
<1>1. TypeOK /\ Placed
  BY PlacedIs
<1>2. TypeOK'
  BY <1>1, RecordAssumption DEF TypeOK, PC, Control, Looping, FirstCall
<1>3. Placed'
  BY <1>1, PlacedUnchanged DEF InHand
<1>4. Control'
  BY <1>1, SingleRange DEF Control, Looping, FirstCall, TypeOK
<1>5. Paused'
  BY <1>1 DEF Paused, Control, Starting, FirstCall
<1>6. Coherent'
  BY <1>1 DEF Coherent, FreshRead, Control
<1> QED BY <1>2, <1>3, <1>4, <1>5, <1>6, PlacedIsNext

LEMMA ReleaseInv == ASSUME Inv, Release PROVE Inv'
<1> USE DEF Release, Inv, queueVars, fileVars, procVars
<1>1. TypeOK /\ Placed
  BY PlacedIs
<1>2. TypeOK'
  BY <1>1, RecordAssumption DEF TypeOK, PC, Control, Looping, FirstCall
<1>3. Placed'
  BY <1>1, PlacedUnchanged DEF InHand
<1>4. Control'
  BY <1>1, SingleRange DEF Control, Looping, FirstCall, TypeOK
<1>5. Paused'
  BY <1>1 DEF Paused, Control, Starting, FirstCall
<1>6. Coherent'
  BY <1>1 DEF Coherent, FreshRead, Control
<1> QED BY <1>2, <1>3, <1>4, <1>5, <1>6, PlacedIsNext

LEMMA DrainInv == ASSUME Inv, Drain PROVE Inv'
<1> USE DEF Drain, Inv, queueVars, fileVars, procVars
<1>1. TypeOK /\ Placed
  BY PlacedIs
<1>2. TypeOK'
  BY <1>1, RecordAssumption DEF TypeOK, PC, Control, Looping, FirstCall
<1>3. Placed'
  BY <1>1, PlacedUnchanged DEF InHand
<1>4. Control'
  BY <1>1, SingleRange DEF Control, Looping, FirstCall, TypeOK
<1>5. Paused'
  BY <1>1 DEF Paused, Control, Starting, FirstCall
<1>6. Coherent'
  BY <1>1 DEF Coherent, FreshRead, Control
<1> QED BY <1>2, <1>3, <1>4, <1>5, <1>6, PlacedIsNext

LEMMA ReleaseDisableInv == ASSUME Inv, ReleaseDisable PROVE Inv'
<1> USE DEF ReleaseDisable, Inv, queueVars, fileVars, procVars
<1>1. TypeOK /\ Placed
  BY PlacedIs
<1>2. TypeOK'
  BY <1>1, RecordAssumption DEF TypeOK, PC, Control, Looping, FirstCall
<1>3. Placed'
  BY <1>1, PlacedUnchanged DEF InHand
<1>4. Control'
  BY <1>1, SingleRange DEF Control, Looping, FirstCall, TypeOK
<1>5. Paused'
  BY <1>1 DEF Paused, Control, Starting, FirstCall
<1>6. Coherent'
  BY <1>1 DEF Coherent, FreshRead, Control
<1> QED BY <1>2, <1>3, <1>4, <1>5, <1>6, PlacedIsNext

LEMMA ReadInv == ASSUME NEW n \in 0..MaxRead, Inv, Read(n) PROVE Inv'
<1> USE DEF Read, Again, Inv, queueVars, fileVars, procVars
<1>1. TypeOK /\ Placed
  BY PlacedIs
<1>2. TypeOK'
  BY <1>1, RecordAssumption DEF TypeOK, PC, Control, Looping, FirstCall
<1>3. Placed'
  BY <1>1, PlacedUnchanged DEF InHand
<1>4. Control'
  BY <1>1, SingleRange DEF Control, Looping, FirstCall, TypeOK
<1>5. Paused'
  BY <1>1 DEF Paused, Control, Starting, FirstCall
<1>6. Coherent'
  BY <1>1 DEF Coherent, FreshRead, Control
<1> QED BY <1>2, <1>3, <1>4, <1>5, <1>6, PlacedIsNext

LEMMA DmaEndInv == ASSUME Inv, DmaEnd PROVE Inv'
<1> USE DEF DmaEnd, Inv, queueVars, fileVars, procVars
<1>1. TypeOK /\ Placed
  BY PlacedIs
<1>2. TypeOK'
  BY <1>1, RecordAssumption DEF TypeOK, PC, Control, Looping, FirstCall
<1>3. Placed'
  BY <1>1, PlacedUnchanged DEF InHand
<1>4. Control'
  BY <1>1, SingleRange DEF Control, Looping, FirstCall, TypeOK
<1>5. Paused'
  BY <1>1 DEF Paused, Control, Starting, FirstCall
<1>6. Coherent'
  BY <1>1 DEF Coherent, FreshRead, Control
<1> QED BY <1>2, <1>3, <1>4, <1>5, <1>6, PlacedIsNext
LEMMA OpenInv == ASSUME Inv, Open PROVE Inv'
<1> USE DEF Open, Inv, procVars
<1>1. TypeOK /\ Placed
  BY PlacedIs
<1>2. /\ empty' \in Seq(Ids) /\ Range(empty') = Ids /\ IsInjective(empty')
      /\ full' = <<>> /\ busy' = <<>> /\ full' \in Seq(Ids) /\ busy' \in Seq(Ids)
  BY AllIdsRange
<1>3. TypeOK'
  BY <1>1, <1>2 DEF TypeOK, PC
<1>4. Placed'
  BY <1>2, EmptyRange DEF Placed, InHand
<1>5. Control' /\ Paused' /\ Coherent'
  BY <1>2, EmptyRange DEF Control, Paused, Coherent, FreshRead, Looping, FirstCall
<1> QED BY <1>3, <1>4, <1>5, PlacedIsNext

LEMMA GetInv == ASSUME Inv, Get PROVE Inv'
<1> USE DEF Get, Inv, fileVars
<1>1. TypeOK /\ Placed
  BY PlacedIs
<1>2. CASE full = <<>>
  <2>1. pc' = "check" /\ UNCHANGED <<empty, full, busy, id, lines, taken, opened>>
    BY <1>2
  <2>2. TypeOK'
    BY <1>1, <2>1 DEF TypeOK, PC
  <2>3. Placed'
    BY <1>1, <2>1, PlacedUnchanged DEF InHand, queueVars
  <2>4. Control' /\ Paused' /\ Coherent'
    BY <2>1 DEF Control, Paused, Coherent, FreshRead, Looping, FirstCall, Starting
  <2> QED BY <2>2, <2>3, <2>4, PlacedIsNext
<1>3. CASE full # <<>>
  <2>1. /\ full' \in Seq(Ids) /\ Range(full') = Range(full) \ {Head(full)}
        /\ IsInjective(full') /\ id' = Head(full) /\ id' \in Ids /\ id' \in Range(full)
    <3>1. full' = Tail(full) /\ id' = Head(full)
      BY <1>3
    <3>2. full \in Seq(Ids) /\ IsInjective(full)
      BY <1>1 DEF TypeOK, Placed
    <3> QED BY <1>3, <3>1, <3>2, TailRange, Zenon
  <2>2. /\ pc = "get" /\ pc' = "put" /\ lines' = lines \cup {id'} /\ taken' = content[id']
        /\ UNCHANGED <<empty, busy, content, opened, nonblock, first, left, initial, dma, te,
                       recent>>
    BY <1>3, <2>1
  <2>3. TypeOK'
    BY <1>1, <2>1, <2>2 DEF TypeOK, PC
  <2>4. InHand = {} /\ InHand' = {id'}
    BY <2>2 DEF InHand
  <2>5. Placed'
    <3>1. empty' = empty /\ busy' = busy /\ opened' = opened
      BY <2>2
    <3> HIDE DEF Get, Inv
    <3> QED BY <1>1, <2>1, <2>4, <3>1, Zenon DEF Placed
  <2>6. Control' /\ Paused'
    BY <2>2 DEF Control, Paused, Looping, FirstCall, Starting
  <2>7. Coherent'
    <3>1. dma # None => Range(busy) = {dma}
      BY SingleRange DEF Control
    <3>2. dma # None => dma # id'
      BY <1>1, <2>1, <3>1, Zenon DEF Placed
    <3> QED BY <2>1, <2>2, <3>2 DEF Coherent, FreshRead
  <2> QED BY <2>3, <2>5, <2>6, <2>7, PlacedIsNext
<1> QED BY <1>2, <1>3

LEMMA PutInv == ASSUME Inv, Put PROVE Inv'
<1> USE DEF Put, Inv, fileVars, procVars
<1>1. TypeOK /\ Placed
  BY PlacedIs
<1>2. InHand = {id} /\ InHand' = {} /\ opened
  BY DEF InHand, Control
<1>3. id \in Ids /\ id \notin Range(empty) /\ empty \in Seq(Ids) /\ IsInjective(empty)
  BY <1>1, <1>2 DEF Placed, TypeOK
<1>4. /\ empty' \in Seq(Ids) /\ Range(empty') = Range(empty) \cup {id} /\ IsInjective(empty')
  BY <1>3, AppendRange
<1>5. TypeOK'
  BY <1>1, <1>4 DEF TypeOK, PC
<1>6. Placed'
  BY <1>1, <1>2, <1>4, Zenon DEF Placed
<1>7. Control' /\ Paused' /\ Coherent'
  BY DEF Control, Paused, Coherent, FreshRead, Looping, FirstCall, Starting
<1> QED BY <1>5, <1>6, <1>7, PlacedIsNext

LEMMA PullInv == ASSUME Inv, Pull PROVE Inv'
<1> USE DEF Pull, Inv, fileVars
<1>1. TypeOK /\ Placed
  BY PlacedIs
<1>2. CASE empty = <<>>
  <2>1. pc' = (IF initial THEN "pull" ELSE "copy") /\ UNCHANGED <<empty, id>>
    BY <1>2
  <2>2. TypeOK'
    BY <1>1, <2>1 DEF TypeOK, PC
  <2>3. Placed'
    BY <1>1, <2>1, PlacedUnchanged DEF InHand, queueVars
  <2>4. Control' /\ Paused' /\ Coherent'
    BY <1>2, <2>1 DEF Control, Paused, Coherent, FreshRead, Looping, FirstCall, Starting
  <2> QED BY <2>2, <2>3, <2>4, PlacedIsNext
<1>3. CASE empty # <<>>
  <2>1. /\ empty' \in Seq(Ids) /\ Range(empty') = Range(empty) \ {Head(empty)}
        /\ IsInjective(empty') /\ id' = Head(empty) /\ id' \in Ids /\ id' \in Range(empty)
    <3>1. empty' = Tail(empty) /\ id' = Head(empty)
      BY <1>3
    <3>2. empty \in Seq(Ids) /\ IsInjective(empty)
      BY <1>1 DEF TypeOK, Placed
    <3> QED BY <1>3, <3>1, <3>2, TailRange, Zenon
  <2>2. pc = "pull" /\ pc' = "busy"
    BY <1>3
  <2>3. TypeOK'
    BY <1>1, <2>1, <2>2 DEF TypeOK, PC
  <2>4. InHand = {} /\ InHand' = {id'}
    BY <2>2 DEF InHand
  <2>5. Placed'
    BY <1>1, <2>1, <2>4, Zenon DEF Placed
  <2>6. Control' /\ Paused' /\ Coherent'
    BY <2>2 DEF Control, Paused, Coherent, FreshRead, Looping, FirstCall, Starting
  <2> QED BY <2>3, <2>5, <2>6, PlacedIsNext
<1> QED BY <1>2, <1>3

LEMMA PutBusyInv == ASSUME Inv, PutBusy PROVE Inv'
<1> USE DEF PutBusy, Inv, fileVars, procVars
<1>1. TypeOK /\ Placed
  BY PlacedIs
<1>2. /\ busy = <<>> /\ busy' = <<id>> /\ busy' # <<>> /\ Range(busy') = {id}
      /\ IsInjective(busy') /\ Range(busy) = {}
  BY SingleRange, EmptyRange DEF Control
<1>3. InHand = {id} /\ InHand' = {} /\ opened
  BY DEF InHand, Control
<1>4. id \in Ids
  BY <1>1, <1>3 DEF Placed
<1>5. TypeOK'
  BY <1>1, <1>2, <1>4 DEF TypeOK, PC
<1>6. Placed'
  BY <1>1, <1>2, <1>3, Zenon DEF Placed
<1>7. Control' /\ Paused' /\ Coherent'
  BY <1>2 DEF Control, Paused, Coherent, FreshRead, Looping, FirstCall, Starting
<1> QED BY <1>5, <1>6, <1>7, PlacedIsNext

\* The interrupt finds the buffer it is about, passes it on and fills the next.
LEMMA RecordIrqInv == ASSUME Inv, RecordIrq PROVE Inv'
<1> USE DEF RecordIrq, Inv, fileVars, procVars
<1>1. TypeOK /\ Placed
  BY PlacedIs
<1>2. /\ dma # None /\ busy = <<dma>> /\ busy # <<>> /\ Range(busy) = {dma}
      /\ Head(busy) = dma /\ Tail(busy) = <<>>
  BY SingleRange DEF Control
<1>3. pc \notin {"pull", "busy", "start"} /\ (opened => ~first)
  BY <1>2 DEF Control
<1>4. /\ dma \in Ids /\ dma \notin Range(empty) /\ dma \notin Range(full)
      /\ empty \in Seq(Ids) /\ full \in Seq(Ids) /\ IsInjective(empty) /\ IsInjective(full)
  BY <1>1, <1>2 DEF Placed, TypeOK
<1>5. /\ full' = Append(full, dma) /\ te' = FALSE
      /\ pc' = IF pc = "asleep" THEN "woken" ELSE pc
  BY <1>2
<1>6. full' \in Seq(Ids) /\ Range(full') = Range(full) \cup {dma} /\ IsInjective(full')
  BY <1>4, <1>5, AppendRange
<1>7. InHand' = InHand /\ pc' \in PC
  BY <1>1, <1>5 DEF InHand, TypeOK, PC
<1>8. CASE empty = <<>>
  <2>1. /\ busy' = <<>> /\ dma' = None /\ UNCHANGED <<empty, lines, recent, content>>
        /\ Range(busy') = {} /\ IsInjective(busy')
    BY <1>8, EmptyRange
  <2>2. TypeOK'
    <3>1. busy' \in Seq(Ids) /\ dma' \in Ids \cup {None}
      BY <2>1
    <3> QED BY <1>1, <1>5, <1>6, <1>7, <2>1, <3>1 DEF TypeOK
  <2>3. Placed'
    BY <1>1, <1>2, <1>6, <1>7, <2>1, Zenon DEF Placed
  <2>4. Control' /\ Paused'
    BY <1>3, <1>5, <1>8, <2>1 DEF Control, Paused, Looping, FirstCall, Starting
  <2>5. Coherent'
    BY <1>2, <1>6, <2>1 DEF Coherent, FreshRead
  <2> QED BY <2>2, <2>3, <2>4, <2>5, PlacedIsNext
<1>9. CASE empty # <<>>
  <2>1. /\ Tail(empty) \in Seq(Ids) /\ Head(empty) \in Ids /\ Head(empty) \in Range(empty)
        /\ Range(Tail(empty)) = Range(empty) \ {Head(empty)} /\ IsInjective(Tail(empty))
    BY <1>4, <1>9, TailRange
  <2>2. /\ empty' = Tail(empty) /\ dma' = Head(empty) /\ busy' = Append(<<>>, Head(empty))
        /\ lines' = lines \ {Head(empty)} /\ recent' = TRUE
    BY <1>2, <1>9 DEF Invalidated
  <2>3. busy' = <<dma'>> /\ Range(busy') = {Head(empty)} /\ IsInjective(busy') /\ busy' # <<>>
    BY <2>2, SingleRange
  <2>4. dma' # None
    BY <2>1, <2>2, RecordAssumption DEF Ids, None
  <2>5. TypeOK'
    <3>1. busy' \in Seq(Ids) /\ empty' \in Seq(Ids) /\ dma' \in Ids \cup {None}
      BY <2>1, <2>2, <2>3
    <3> QED BY <1>1, <1>5, <1>6, <1>7, <2>2, <3>1 DEF TypeOK
  <2>6. Placed'
    <3>1. Range(empty') = Range(empty) \ {Head(empty)} /\ IsInjective(empty')
      BY <2>1, <2>2
    <3> DEFINE E == Range(empty)
               F == Range(full)
               h == Head(empty)
    <3>2. /\ h \in E /\ (opened => E \cup F \cup {dma} \cup InHand = Ids)
          /\ E \cap (F \cup {dma}) = {} /\ F \cap {dma} = {}
          /\ InHand \cap (E \cup F \cup {dma}) = {}
      BY <1>1, <1>2, <2>1, Zenon DEF Placed
    <3>3. /\ Range(empty') = E \ {h} /\ Range(full') = F \cup {dma} /\ Range(busy') = {h}
          /\ opened' = opened
      BY <1>6, <2>3, <3>1
    <3> HIDE DEF E, F, h, RecordIrq, Inv
    <3>4. /\ opened' => Range(empty') \cup Range(full') \cup Range(busy') \cup InHand' = Ids
          /\ Range(empty') \cap (Range(full') \cup Range(busy')) = {}
          /\ Range(full') \cap Range(busy') = {}
          /\ InHand' \cap (Range(empty') \cup Range(full') \cup Range(busy')) = {}
      BY <1>7, <3>2, <3>3, SMT
    <3> QED BY <1>6, <2>3, <3>1, <3>4 DEF Placed
  <2>7. Control' /\ Paused'
    BY <1>3, <1>5, <2>2, <2>3, <2>4 DEF Control, Paused, Looping, FirstCall, Starting
  <2>8. Coherent'
    BY <1>2, <1>6, <2>2 DEF Coherent, FreshRead
  <2> QED BY <2>5, <2>6, <2>7, <2>8, PlacedIsNext
<1> QED BY <1>8, <1>9

LEMMA InvNext == ASSUME Inv, [Next]_vars PROVE Inv'
<1>1. CASE Call
  BY <1>1, OpenInv, OpenBusyInv, ReleaseInv, ReadInv DEF Call
<1>2. CASE Process
  BY <1>2, CheckInv, SleepOnInv, WokenInv, GetInv, PutInv, KickInv, PullInv, PutBusyInv,
     StartDmaInv, CopyInv, DrainInv, ReleaseDisableInv DEF Process
<1>3. CASE UNCHANGED vars
  <2>1. TypeOK /\ Placed
    BY PlacedIs DEF Inv
  <2>2. TypeOK' /\ Placed'
    BY <1>3, <2>1, PlacedUnchanged DEF vars, queueVars, fileVars, procVars, TypeOK, InHand
  <2> QED BY <1>3, <2>2, PlacedIsNext DEF Inv, Control, Paused, Coherent, FreshRead,
             vars, queueVars, fileVars, procVars
<1> QED BY <1>1, <1>2, <1>3, DmaEndInv, RecordIrqInv DEF Next

-----------------------------------------------------------------------------
(* The theorems about the queues.                                          *)

\* With nothing in the empty and the busy queue all buffers are full or in hand.
LEMMA PausedFull == Inv => PausesOnlyIfFull
<1> SUFFICES ASSUME Inv, opened, ~first, dma = None, empty = <<>>, busy = <<>>
             PROVE  Len(full) + Cardinality(InHand) = Frags
  BY DEF Inv, Paused, PausesOnlyIfFull, Starting
<1>1. TypeOK /\ Placed
  BY PlacedIs DEF Inv
<1>2. full \in Seq(Ids) /\ IsInjective(full)
  BY <1>1 DEF TypeOK, Placed
<1>3. Range(full) \cup InHand = Ids /\ Range(full) \cap InHand = {}
  BY <1>1, EmptyRange, Zenon DEF Placed
<1>4. IsFiniteSet(Range(full)) /\ Cardinality(Range(full)) = Len(full) /\ Len(full) \in Nat
  BY <1>2, LenIsCardinality
<1>5. IsFiniteSet(InHand) /\ Cardinality(InHand) \in Nat
  BY FS_EmptySet, FS_Singleton, FS_CardinalityType DEF InHand
<1>6. Cardinality(Ids) = Frags
  BY FS_Interval, RecordAssumption DEF Ids
<1>7. Cardinality(Range(full) \cup InHand) = Len(full) + Cardinality(InHand) - Cardinality({})
  BY <1>3, <1>4, <1>5, FS_Union
<1>8. Cardinality({}) = 0
  BY FS_EmptySet
<1>9. Cardinality(Range(full) \cup InHand) = Cardinality(Ids)
  BY <1>3, Zenon
<1> QED BY <1>4, <1>5, <1>6, <1>7, <1>8, <1>9, RecordAssumption

\* For any number of fragments and any samples, jz_audio_read, the record DMA
\* interrupt and the release of the device never lose or share a buffer, the
\* recording pauses only while every buffer is full, and read() never takes a
\* buffer of which the data cache holds older lines.
THEOREM RecordCorrect == Spec => [](BuffersConserved /\ PausesOnlyIfFull /\ FreshRead)
<1>1. Inv /\ [Next]_vars => Inv'
  BY InvNext
<1>2. Inv => BuffersConserved /\ PausesOnlyIfFull /\ FreshRead
  BY PausedFull DEF Inv, Coherent
<1> QED BY InvInit, <1>1, <1>2, PTL DEF Spec

-----------------------------------------------------------------------------
(* The driver implements AudioFifo.                                        *)

Samples == Data \cup {NoData}

\* The samples in the buffers of a queue.
Contents(q, c) == [i \in DOMAIN q |-> c[q[i]]]

\* The buffers with sound that was not read: the one of a pending interrupt last.
Recorded == IF te THEN Append(full, dma) ELSE full

LEMMA ContentsType ==
    ASSUME NEW q \in Seq(Ids), NEW c \in [Ids -> Samples]
    PROVE  /\ Contents(q, c) \in Seq(Samples) /\ Len(Contents(q, c)) = Len(q) /\ Len(q) \in Nat
           /\ \A i \in 1..Len(q) : Contents(q, c)[i] = c[q[i]]
<1>1. Len(q) \in Nat /\ DOMAIN q = 1..Len(q) /\ \A i \in 1..Len(q) : q[i] \in Ids
  OBVIOUS
<1>2. Contents(q, c) \in [1..Len(q) -> Samples]
  BY <1>1 DEF Contents
<1> QED BY <1>1, <1>2 DEF Contents

LEMMA ContentsAppend ==
    ASSUME NEW q \in Seq(Ids), NEW e \in Ids, NEW c \in [Ids -> Samples]
    PROVE  Contents(Append(q, e), c) = Append(Contents(q, c), c[e])
<1>1. /\ Append(q, e) \in Seq(Ids) /\ Len(Append(q, e)) = Len(q) + 1 /\ Len(q) \in Nat
      /\ \A i \in 1..Len(q) : Append(q, e)[i] = q[i]
      /\ Append(q, e)[Len(q) + 1] = e /\ c[e] \in Samples
  OBVIOUS
<1>2. /\ Contents(Append(q, e), c) \in Seq(Samples) /\ Len(Contents(Append(q, e), c)) = Len(q) + 1
      /\ \A i \in 1..(Len(q) + 1) : Contents(Append(q, e), c)[i] = c[Append(q, e)[i]]
  BY <1>1, ContentsType
<1>3. /\ Contents(q, c) \in Seq(Samples) /\ Len(Contents(q, c)) = Len(q)
      /\ \A i \in 1..Len(q) : Contents(q, c)[i] = c[q[i]]
  BY ContentsType
<1>4. /\ Append(Contents(q, c), c[e]) \in Seq(Samples)
      /\ Len(Append(Contents(q, c), c[e])) = Len(q) + 1
      /\ \A i \in 1..Len(q) : Append(Contents(q, c), c[e])[i] = c[q[i]]
      /\ Append(Contents(q, c), c[e])[Len(q) + 1] = c[e]
  BY <1>1, <1>3
<1>5. \A i \in 1..(Len(q) + 1) : Contents(Append(q, e), c)[i] = Append(Contents(q, c), c[e])[i]
  <2> SUFFICES ASSUME NEW i \in 1..(Len(q) + 1)
               PROVE  c[Append(q, e)[i]] = Append(Contents(q, c), c[e])[i]
    BY <1>2
  <2>1. i \in 1..Len(q) \/ i = Len(q) + 1
    BY <1>1
  <2> QED BY <1>1, <1>4, <2>1
<1> QED BY <1>2, <1>4, <1>5, SeqEqual

LEMMA ContentsTail ==
    ASSUME NEW q \in Seq(Ids), NEW c \in [Ids -> Samples], q # <<>>
    PROVE  /\ Contents(q, c) # <<>>
           /\ Head(Contents(q, c)) = c[Head(q)]
           /\ Contents(Tail(q), c) = Tail(Contents(q, c))
<1>1. /\ Tail(q) \in Seq(Ids) /\ Len(Tail(q)) = Len(q) - 1 /\ Len(q) \in Nat \ {0}
      /\ Head(q) = q[1] /\ \A i \in 1..(Len(q) - 1) : Tail(q)[i] = q[i + 1]
  OBVIOUS
<1>2. /\ Contents(q, c) \in Seq(Samples) /\ Len(Contents(q, c)) = Len(q)
      /\ \A i \in 1..Len(q) : Contents(q, c)[i] = c[q[i]]
  BY ContentsType
<1>3. /\ Contents(Tail(q), c) \in Seq(Samples) /\ Len(Contents(Tail(q), c)) = Len(q) - 1
      /\ \A i \in 1..(Len(q) - 1) : Contents(Tail(q), c)[i] = c[q[i + 1]]
  <2>1. /\ Contents(Tail(q), c) \in Seq(Samples) /\ Len(Contents(Tail(q), c)) = Len(Tail(q))
        /\ \A i \in 1..Len(Tail(q)) : Contents(Tail(q), c)[i] = c[Tail(q)[i]]
    BY <1>1, ContentsType
  <2>2. \A i \in 1..(Len(q) - 1) : Contents(Tail(q), c)[i] = c[Tail(q)[i]]
    BY <1>1, <2>1
  <2> QED BY <1>1, <2>1, <2>2
<1>4. Contents(q, c) # <<>> /\ Head(Contents(q, c)) = c[Head(q)]
  BY <1>1, <1>2
<1>5. /\ Tail(Contents(q, c)) \in Seq(Samples) /\ Len(Tail(Contents(q, c))) = Len(q) - 1
      /\ \A i \in 1..(Len(q) - 1) : Tail(Contents(q, c))[i] = Contents(q, c)[i + 1]
  BY <1>1, <1>2, <1>4
<1>6. \A i \in 1..(Len(q) - 1) : Tail(Contents(q, c))[i] = c[q[i + 1]]
  BY <1>1, <1>2, <1>5
<1>7. Contents(Tail(q), c) = Tail(Contents(q, c))
  BY <1>3, <1>5, <1>6, SeqEqual
<1> QED BY <1>4, <1>7

\* What is stored elsewhere does not change the samples of a queue.
LEMMA ContentsElsewhere ==
    ASSUME NEW q \in Seq(Ids), NEW c \in [Ids -> Samples], NEW b \in Ids, NEW d \in Samples,
           b \notin Range(q)
    PROVE  Contents(q, [c EXCEPT ![b] = d]) = Contents(q, c)
<1>1. DOMAIN q = 1..Len(q) /\ \A i \in 1..Len(q) : q[i] \in Ids /\ q[i] # b
  BY DEF Range
<1>2. \A i \in DOMAIN q : [c EXCEPT ![b] = d][q[i]] = c[q[i]]
  BY <1>1
<1> QED BY <1>2 DEF Contents

LEMMA UnreadIs ==
    ASSUME TypeOK, te => dma # None
    PROVE  Unread = IF opened THEN Contents(Recorded, content) ELSE <<>>
<1>1. CASE te
  <2>1. full \o <<dma>> = Append(full, dma)
    BY <1>1, AppendIsConcat DEF TypeOK
  <2> QED BY <1>1, <2>1 DEF Unread, Recorded, Contents
<1>2. CASE ~te
  <2>1. full \o <<>> = full
    BY ConcatEmptySeq DEF TypeOK
  <2> QED BY <1>2, <2>1 DEF Unread, Recorded, Contents
<1> QED BY <1>1, <1>2 DEF TypeOK

LEMMA UnreadIsNext ==
    ASSUME TypeOK', te' => dma' # None
    PROVE  Unread' = IF opened' THEN Contents(Recorded', content') ELSE <<>>
<1>1. CASE te'
  <2>1. full' \o <<dma'>> = Append(full', dma')
    BY <1>1, AppendIsConcat DEF TypeOK
  <2> QED BY <1>1, <2>1 DEF Unread, Recorded, Contents
<1>2. CASE ~te'
  <2>1. full' \o <<>> = full'
    BY ConcatEmptySeq DEF TypeOK
  <2> QED BY <1>2, <2>1 DEF Unread, Recorded, Contents
<1> QED BY <1>1, <1>2 DEF TypeOK

LEMMA FifoInit == Init => Fifo!Init
BY DEF Init, Fifo!Init, Unread

\* A step of the driver that neither records nor reads a fragment.
LEMMA FifoStutter ==
    ASSUME Inv, Inv', UNCHANGED <<opened, taken>>,
           opened => UNCHANGED <<Recorded, content>>
    PROVE  UNCHANGED Fifo!fifoVars
<1>1. Unread = IF opened THEN Contents(Recorded, content) ELSE <<>>
  BY UnreadIs, PlacedIs DEF Inv, Control
<1>2. Unread' = IF opened' THEN Contents(Recorded', content') ELSE <<>>
  BY UnreadIsNext, PlacedIsNext DEF Inv, Control
<1>3. Unread' = Unread
  BY <1>1, <1>2
<1> QED BY <1>3 DEF Fifo!fifoVars

LEMMA FifoOpen == ASSUME Inv, Inv', Open PROVE Fifo!Open
<1>1. ~opened /\ opened' = TRUE /\ full' = <<>> /\ te' = FALSE /\ UNCHANGED taken
  <2>1. te' = te /\ te \in BOOLEAN /\ (te => dma # None) /\ dma = None
    BY PlacedIs DEF Open, Inv, Control, TypeOK
  <2> QED BY <2>1 DEF Open
<1>2. Unread' = <<>>
  BY <1>1 DEF Unread
<1> QED BY <1>1, <1>2 DEF Fifo!Open

LEMMA FifoClose == ASSUME Release PROVE Fifo!Close
BY DEF Release, Fifo!Close, Unread

\* read() takes the oldest fragment.
LEMMA FifoGet == ASSUME Inv, Inv', Get, full # <<>> PROVE Fifo!Play
<1>1. TypeOK /\ TypeOK'
  BY PlacedIs, PlacedIsNext DEF Inv
<1>2. /\ full' = Tail(full) /\ taken' = content[Head(full)] /\ opened
      /\ UNCHANGED <<opened, content, dma, te>>
  BY DEF Get, Inv, Control, fileVars
<1>3. Recorded \in Seq(Ids) /\ Recorded # <<>> /\ Head(Recorded) = Head(full)
  <2>1. CASE te
    <3>1. dma \in Ids
      BY <1>1, <2>1 DEF TypeOK, Inv, Control
    <3>2. full \in Seq(Ids) /\ Recorded = Append(full, dma)
      BY <1>1, <2>1 DEF TypeOK, Recorded
    <3>3. /\ Append(full, dma) \in Seq(Ids) /\ Append(full, dma) # <<>>
          /\ Head(Append(full, dma)) = Head(full)
      BY <3>1, <3>2, HeadTailAppend
    <3> QED BY <3>2, <3>3
  <2>2. CASE ~te
    BY <1>1, <2>2 DEF TypeOK, Recorded
  <2> QED BY <2>1, <2>2
<1>4. Recorded' = Tail(Recorded)
  <2>1. full \in Seq(Ids)
    BY <1>1 DEF TypeOK
  <2> QED BY <1>2, <2>1, HeadTailAppend DEF Recorded
<1>5. content \in [Ids -> Samples]
  BY <1>1 DEF TypeOK, Samples
<1>6. /\ Unread = Contents(Recorded, content)
      /\ Unread' = Contents(Recorded', content')
  BY <1>1, <1>2, UnreadIs, UnreadIsNext DEF Inv, Control
<1>7. Unread # <<>> /\ taken' = Head(Unread) /\ Unread' = Tail(Unread)
  BY <1>2, <1>3, <1>4, <1>5, <1>6, ContentsTail
<1> QED BY <1>2, <1>7 DEF Fifo!Play

\* The end of a transfer makes one more fragment readable, and there is room.
LEMMA FifoDmaEnd == ASSUME Inv, Inv', DmaEnd, opened PROVE Fifo!Accept
<1>1. TypeOK /\ TypeOK' /\ Placed
  BY PlacedIs, PlacedIsNext DEF Inv
<1>2. /\ dma # None /\ te = FALSE /\ te' = TRUE
      /\ UNCHANGED <<opened, full, dma, taken>>
  BY <1>1 DEF DmaEnd, queueVars, fileVars, TypeOK
<1>3. PICK d \in Data : content' = [content EXCEPT ![dma] = d]
  BY DEF DmaEnd
<1>4. /\ dma \in Ids /\ full \in Seq(Ids) /\ content \in [Ids -> Samples]
      /\ content' \in [Ids -> Samples] /\ IsInjective(full)
  BY <1>1, <1>2 DEF TypeOK, Placed, Samples
<1>5. dma \notin Range(full)
  <2>1. Range(busy) = {dma}
    BY <1>2, SingleRange DEF Inv, Control
  <2> QED BY <1>1, <2>1, Zenon DEF Placed
<1>6. /\ Unread = Contents(full, content)
      /\ Unread' = Contents(Append(full, dma), content')
  BY <1>1, <1>2, UnreadIs, UnreadIsNext DEF Recorded
<1>7. Unread' = Append(Contents(full, content'), content'[dma])
  BY <1>4, <1>6, ContentsAppend
<1>8. Contents(full, content') = Contents(full, content) /\ content'[dma] = d
  <2>1. d \in Samples
    BY DEF Samples
  <2> QED BY <1>3, <1>4, <1>5, <2>1, ContentsElsewhere
<1>9. Len(Unread) < Frags
  <2>1. Append(full, dma) \in Seq(Ids) /\ IsInjective(Append(full, dma))
    BY <1>4, <1>5, AppendRange
  <2>2. Len(Append(full, dma)) = Len(full) + 1 /\ Len(full) \in Nat
    BY <1>4
  <2>3. Cardinality(Range(Append(full, dma))) = Len(full) + 1
    BY <2>1, <2>2, LenIsCardinality
  <2>4. Range(Append(full, dma)) \in SUBSET Ids
    BY <2>1, <1>4 DEF Range
  <2>5. IsFiniteSet(Ids) /\ Cardinality(Ids) = Frags /\ Frags \in Nat
    BY FS_Interval, RecordAssumption DEF Ids
  <2>6. Cardinality(Range(Append(full, dma))) <= Cardinality(Ids)
    BY <2>4, <2>5, FS_Subset
  <2>7. Len(Unread) = Len(full)
    BY <1>4, <1>6, ContentsType
  <2> QED BY <2>2, <2>3, <2>5, <2>6, <2>7
<1> QED BY <1>2, <1>6, <1>7, <1>8, <1>9 DEF Fifo!Accept

\* The interrupt moves a buffer from the channel to the queue: none is recorded.
LEMMA FifoRecordIrq == ASSUME Inv, Inv', RecordIrq PROVE UNCHANGED Fifo!fifoVars
<1>1. busy = <<dma>> /\ busy # <<>> /\ Head(busy) = dma
  BY SingleRange DEF Inv, Control, RecordIrq
<1>2. te /\ te' = FALSE /\ full' = Append(full, dma) /\ UNCHANGED <<opened, taken, content>>
  BY <1>1 DEF RecordIrq, fileVars
<1>3. Recorded' = Recorded
  BY <1>2 DEF Recorded
<1> QED BY <1>2, <1>3, FifoStutter

LEMMA FifoNext == ASSUME Inv, Inv', [Next]_vars PROVE [Fifo!Next]_(Fifo!fifoVars)
<1> USE DEF queueVars, fileVars, procVars
<1>1. CASE Open
  BY <1>1, FifoOpen DEF Fifo!Next
<1>2. CASE Release
  BY <1>2, FifoClose DEF Fifo!Next
<1>3. CASE Get
  <2>1. CASE full # <<>>
    BY <1>3, <2>1, FifoGet DEF Fifo!Next
  <2>2. CASE full = <<>>
    BY <1>3, <2>2, FifoStutter DEF Get, Recorded
  <2> QED BY <2>1, <2>2
<1>4. CASE DmaEnd
  <2>1. CASE opened
    BY <1>4, <2>1, FifoDmaEnd DEF Fifo!Next
  <2>2. CASE ~opened
    BY <1>4, <2>2, FifoStutter DEF DmaEnd
  <2> QED BY <2>1, <2>2
<1>5. CASE RecordIrq
  BY <1>5, FifoRecordIrq
<1>6. CASE StartDma
  <2>1. ~te
    BY <1>6 DEF Inv, Control, StartDma
  <2>2. Recorded' = Recorded /\ UNCHANGED <<opened, taken, content>>
    BY <1>6, <2>1 DEF StartDma, Recorded
  <2> QED BY <2>2, FifoStutter
<1>7. CASE ReleaseDisable
  <2>1. ~opened /\ UNCHANGED <<opened, taken>>
    BY <1>7 DEF Inv, Control, ReleaseDisable
  <2> QED BY <2>1, FifoStutter
<1>8. CASE OpenBusy \/ (\E n \in 0..MaxRead : Read(n)) \/ UNCHANGED vars
  <2>1. UNCHANGED <<opened, taken, content, full, te, dma>>
    BY <1>8 DEF OpenBusy, Read, vars
  <2> QED BY <2>1, FifoStutter DEF Recorded
<1>9. CASE Check \/ SleepOn \/ Woken \/ Put \/ Kick \/ Pull \/ PutBusy \/ Copy \/ Drain
  <2>1. UNCHANGED <<opened, taken, content, full, te, dma>>
    BY <1>9 DEF Check, SleepOn, Woken, Put, Kick, Pull, PutBusy, Copy, Drain
  <2> QED BY <2>1, FifoStutter DEF Recorded
<1> QED BY <1>1, <1>2, <1>3, <1>4, <1>5, <1>6, <1>7, <1>8, <1>9 DEF Next, Call, Process

\* For any number of fragments the recording driver implements AudioFifo: read()
\* takes each fragment that was recorded since the device was opened once and in
\* order, and no transfer ends without room for its fragment.
THEOREM RecordImplementsFifo == Spec => RecordFifo
<1>1. Inv /\ [Next]_vars => Inv'
  BY InvNext
<1>2. Inv /\ Inv' /\ [Next]_vars => [Fifo!Next]_(Fifo!fifoVars)
  BY FifoNext
<1> QED BY InvInit, FifoInit, <1>1, <1>2, PTL DEF Spec, RecordFifo, Fifo!Safety
=============================================================================
