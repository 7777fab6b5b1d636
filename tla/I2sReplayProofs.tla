--------------------------- MODULE I2sReplayProofs ---------------------------
(***************************************************************************)
(* The playback queues of I2sReplay, proved for any number of fragments    *)
(* and any samples.  For programs that set the fragment layout before they *)
(* write: buffers are conserved, playback is driven, no interrupt is       *)
(* strange, drain_dac hears all, and the driver implements the fragment    *)
(* queue of AudioFifo.                                                     *)
(*                                                                         *)
(* The sample arithmetic of I2sFill, proved for every page size that is a  *)
(* multiple of 16 and every sequence of formats, channels and writes.      *)
(***************************************************************************)
EXTENDS I2sReplay, I2sFill, FiniteSets, FiniteSetTheorems, SequenceTheorems, TLAPS

-----------------------------------------------------------------------------
(* The inductive invariant.                                                *)

\* TypeOK with the interrupt's None kept out of out_empty_queue.
Types == TypeOK /\ empty \in Seq(Ids)

Writing == {"check", "sleep_on", "asleep", "get", "queue", "wback", "kick", "pull",
            "busy", "start"}

\* What the place of the process says about the queues and the DMA channel.
Control ==
    /\ te => dma # None
    /\ ~opened => dma = None /\ pc = "idle"
    /\ ~wrote => full = <<>> /\ busy = <<>> /\ dma = None /\ pc \notin Writing
    /\ pc \in {"pull", "busy"} => busy = <<>> /\ dma = None
    /\ pc = "start" => busy = <<id>> /\ dma = None
    /\ pc = "mdelay" <=> memory = "freed"
    /\ pc = "mdelay" => ~wrote
    /\ memory = "failed" => /\ full = <<>> /\ busy = <<>> /\ dma = None
                            /\ pc \notin Writing \ {"check", "get"}
    /\ pc = "oops" => memory = "failed"
    /\ ~strange
    /\ pc \in {"check", "sleep_on", "asleep", "get", "queue"} => left > 0

Inv == Types /\ BuffersConserved /\ PlaybackDriven /\ Control

-----------------------------------------------------------------------------
(* Lemmas about sequences without repetition and their ranges.             *)

\* An element at the end joins the range, and a new one repeats nothing.
LEMMA AppendRange ==
    ASSUME NEW S, NEW s \in Seq(S), NEW e \in S
    PROVE  /\ Append(s, e) \in Seq(S)
           /\ Append(s, e) # <<>>
           /\ Range(Append(s, e)) = Range(s) \cup {e}
           /\ IsInjective(s) /\ e \notin Range(s) => IsInjective(Append(s, e))
<1>1. /\ Append(s, e) \in Seq(S) /\ Append(s, e) # <<>>
      /\ Len(Append(s, e)) = Len(s) + 1 /\ Len(s) \in Nat
      /\ DOMAIN s = 1..Len(s) /\ DOMAIN Append(s, e) = 1..(Len(s) + 1)
      /\ \A i \in 1..Len(s) : Append(s, e)[i] = s[i]
      /\ Append(s, e)[Len(s) + 1] = e
  OBVIOUS
<1>2. Range(Append(s, e)) = Range(s) \cup {e}
  BY <1>1, SMT DEF Range
<1>3. IsInjective(s) /\ e \notin Range(s) => IsInjective(Append(s, e))
  BY <1>1, SMT DEF Range, IsInjective
<1> QED BY <1>1, <1>2, <1>3

\* Removing the head of a sequence without repetition removes it from the range.
LEMMA TailRange ==
    ASSUME NEW S, NEW s \in Seq(S), s # <<>>
    PROVE  /\ Tail(s) \in Seq(S)
           /\ Head(s) \in S
           /\ Head(s) \in Range(s)
           /\ IsInjective(s) => /\ Range(Tail(s)) = Range(s) \ {Head(s)}
                                /\ IsInjective(Tail(s))
<1>1. /\ Tail(s) \in Seq(S) /\ Len(s) \in Nat \ {0} /\ Head(s) = s[1] /\ Head(s) \in S
      /\ DOMAIN s = 1..Len(s) /\ DOMAIN Tail(s) = 1..(Len(s) - 1)
      /\ \A i \in 1..(Len(s) - 1) : Tail(s)[i] = s[i + 1]
  OBVIOUS
<1>2. Head(s) \in Range(s)
  BY <1>1, SMT DEF Range
<1>3. ASSUME IsInjective(s)
      PROVE  /\ Range(Tail(s)) = Range(s) \ {Head(s)}
             /\ IsInjective(Tail(s))
  <2>1. \A i \in 2..Len(s) : s[i] = Tail(s)[i - 1] /\ i - 1 \in 1..(Len(s) - 1)
    BY <1>1, SMT
  <2>2. Range(Tail(s)) \subseteq Range(s) \ {Head(s)}
    BY <1>1, <1>3, SMT DEF Range, IsInjective
  <2>3. Range(s) \ {Head(s)} \subseteq Range(Tail(s))
    <3> SUFFICES ASSUME NEW x \in Range(s), x # Head(s)
                 PROVE  x \in Range(Tail(s))
      OBVIOUS
    <3>1. PICK i \in 1..Len(s) : x = s[i]
      BY <1>1 DEF Range
    <3>2. i \in 2..Len(s)
      BY <1>1, <3>1
    <3>3. x = Tail(s)[i - 1] /\ i - 1 \in DOMAIN Tail(s)
      BY <1>1, <2>1, <3>1, <3>2
    <3> QED BY <3>3 DEF Range
  <2>4. IsInjective(Tail(s))
    BY <1>1, <1>3, SMT DEF IsInjective
  <2> QED BY <2>2, <2>3, <2>4
<1> QED BY <1>1, <1>2, <1>3

\* The ids that open and SETFRAGMENT store.
LEMMA AllIdsRange ==
    ASSUME NEW n \in 2..MaxFrags
    PROVE  /\ AllIds(n) \in Seq(Ids)
           /\ AllIds(n) # <<>>
           /\ Range(AllIds(n)) = 0 .. n - 1
           /\ IsInjective(AllIds(n))
<1>1. n \in Nat /\ MaxFrags \in Nat /\ n <= MaxFrags
  BY FragAssumption
<1>2. /\ DOMAIN AllIds(n) = 1..n
      /\ \A i \in 1..n : AllIds(n)[i] = i - 1 /\ AllIds(n)[i] \in Ids
  BY <1>1 DEF AllIds, Ids
<1>3. AllIds(n) \in [1..n -> Ids]
  BY <1>2 DEF AllIds, Ids
<1>4. AllIds(n) \in Seq(Ids) /\ Len(AllIds(n)) = n
  BY <1>1, <1>3
<1>5. Range(AllIds(n)) = 0 .. n - 1
  <2>1. \A j \in 0 .. n - 1 : j + 1 \in 1..n /\ AllIds(n)[j + 1] = j
    BY <1>1, <1>2
  <2>2. Range(AllIds(n)) \subseteq 0 .. n - 1
    BY <1>1, <1>2, SMT DEF Range
  <2>3. ASSUME NEW j \in 0 .. n - 1 PROVE j \in Range(AllIds(n))
    BY <1>2, <2>1 DEF Range
  <2> QED BY <2>2, <2>3
<1>6. IsInjective(AllIds(n))
  BY <1>1, <1>2 DEF IsInjective
<1> QED BY <1>1, <1>4, <1>5, <1>6

\* The empty sequence.
LEMMA EmptyRange == Range(<<>>) = {} /\ IsInjective(<<>>)
BY DEF Range, IsInjective

\* One element.
LEMMA SingleRange ==
    ASSUME NEW e
    PROVE  /\ Range(<<e>>) = {e} /\ IsInjective(<<e>>) /\ <<e>> # <<>>
           /\ Head(<<e>>) = e /\ Tail(<<e>>) = <<>> /\ Append(<<>>, e) = <<e>>
BY DEF Range, IsInjective

\* A sequence without repetition is as long as its range is large.
LEMMA LenIsCardinality ==
    ASSUME NEW S, NEW s \in Seq(S), IsInjective(s)
    PROVE  IsFiniteSet(Range(s)) /\ Cardinality(Range(s)) = Len(s) /\ Len(s) \in Nat
<1>1. Len(s) \in Nat /\ DOMAIN s = 1..Len(s) /\ s \in [1..Len(s) -> Range(s)]
  BY DEF Range
<1>2. s \in Bijection(1..Len(s), Range(s))
  BY <1>1 DEF IsInjective, Range, Bijection, Injection, Surjection
<1>3. ExistsBijection(1..Len(s), Range(s))
  BY <1>2 DEF ExistsBijection
<1>4. IsFiniteSet(1..Len(s)) /\ Cardinality(1..Len(s)) = Len(s)
  BY <1>1, FS_Interval
<1> QED BY <1>1, <1>3, <1>4, FS_Bijection

-----------------------------------------------------------------------------
(* Every step keeps the invariant.  Most steps leave the queues alone.     *)

\* A step that leaves the queues and the buffer in hand alone conserves buffers.
LEMMA QueuesUnchanged ==
    ASSUME BuffersConserved, UNCHANGED <<queueVars, fragstotal>>, InHand' = InHand,
           pc' # "oops" => pc # "oops"
    PROVE  BuffersConserved'
BY DEF BuffersConserved, queueVars

LEMMA InvInit == Init => Inv
<1> SUFFICES ASSUME Init PROVE Inv
  OBVIOUS
<1>1. DefaultFrags \in 2..MaxFrags /\ MaxFrags \in Nat /\ MaxWrite \in Nat
  BY FragAssumption
<1>2. Types
  <2>1. content \in [Ids -> Data \cup {NoData}]
    BY DEF Init
  <2>2. empty \in Seq(Ids) /\ empty \in Seq(Ids \cup {None})
    BY <1>1, AllIdsRange DEF Init, AllIds
  <2>3. full \in Seq(Ids) /\ busy \in Seq(Ids)
    BY DEF Init
  <2>4. drain \in [call : {"sync", "release"}, expired : BOOLEAN]
    BY DEF Init
  <2>5. fragstotal \in 2..MaxFrags /\ want \in 2..MaxFrags /\ left \in 0..MaxWrite
    BY <1>1 DEF Init
  <2> QED BY <2>1, <2>2, <2>3, <2>4, <2>5, Zenon DEF Init, Types, TypeOK, PC
<1>3. BuffersConserved
  BY <1>1, AllIdsRange, EmptyRange DEF Init, BuffersConserved, InHand
<1>4. PlaybackDriven /\ Control
  BY DEF Init, PlaybackDriven, Control, Writing
<1> QED BY <1>2, <1>3, <1>4 DEF Inv

LEMMA SetNonblockInv == ASSUME Inv, SetNonblock PROVE Inv'
<1> USE DEF SetNonblock, Inv, queueVars, procVars, fileVars, dmaVars
<1>1. Types'
  BY FragAssumption DEF Types, TypeOK, PC
<1>2. BuffersConserved'
  BY QueuesUnchanged DEF InHand, Control
<1>3. PlaybackDriven'
  BY DEF PlaybackDriven, Control, Writing, Types, TypeOK
<1>4. Control'
  BY DEF PlaybackDriven, Control, Writing, Types, TypeOK, PC
<1> QED BY <1>1, <1>2, <1>3, <1>4

LEMMA WriteInv == ASSUME NEW n \in 1..MaxWrite, Inv, Write(n) PROVE Inv'
<1> USE DEF Write, Inv, queueVars, procVars, fileVars, dmaVars
<1>1. n \in 0..MaxWrite /\ n > 0
  BY FragAssumption
<1>2. Types'
  BY <1>1 DEF Types, TypeOK, PC
<1>3. BuffersConserved'
  BY QueuesUnchanged DEF InHand, Control
<1>4. PlaybackDriven'
  BY DEF PlaybackDriven
<1>5. Control'
  BY <1>1 DEF Control, Writing
<1> QED BY <1>2, <1>3, <1>4, <1>5

\* A step that leaves the buffers, the fragment counts and the locals of the
\* write loop alone keeps the types if what it does change has its type.
LEMMA TypesKept ==
    ASSUME Types,
           UNCHANGED <<content, memory, fragstotal, cached, left, id, want, strange>>,
           empty' \in Seq(Ids), empty' \in Seq(Ids \cup {None}),
           full' \in Seq(Ids), busy' \in Seq(Ids),
           pc' \in PC, opened' \in BOOLEAN, nonblock' \in BOOLEAN, wrote' \in BOOLEAN,
           drain' \in [call : {"sync", "release"}, expired : BOOLEAN],
           dma' \in Ids \cup {None}, te' \in BOOLEAN, recent' \in BOOLEAN,
           early' \in BOOLEAN, heard' \in Data \cup {NoData}, torn' \in BOOLEAN
    PROVE  Types'
BY Zenon DEF Types, TypeOK

LEMMA CheckInv == ASSUME Inv, Check PROVE Inv'
<1> USE DEF Inv
<1>1. pc' \in {"get", "idle", "sleep_on"} /\ (empty # <<>> => pc' = "get")
  BY Zenon DEF Check
<1>2. /\ pc = "check" /\ recent' = FALSE
      /\ UNCHANGED <<empty, full, busy, content, memory, fragstotal, opened, nonblock, cached,
                     left, id, want, drain, wrote, dma, te, early, heard, torn, strange>>
  BY DEF Check, queueVars, procVars, fileVars
<1>3. Types'
  <2>1. pc' \in PC /\ recent' \in BOOLEAN
    BY <1>1, <1>2 DEF PC
  <2>2. UNCHANGED drain /\ drain \in [call : {"sync", "release"}, expired : BOOLEAN]
    BY <1>2 DEF Types, TypeOK
  <2>3. Types /\ UNCHANGED <<empty, full, busy, content, memory, fragstotal, opened, nonblock,
                             cached, left, id, want, wrote, dma, te, early, heard,
                             torn, strange>>
    BY <1>2
  <2> QED BY <2>1, <2>2, <2>3 DEF Types, TypeOK
<1>4. BuffersConserved'
  BY <1>1, <1>2, QueuesUnchanged DEF InHand, queueVars
<1>5. PlaybackDriven'
  BY <1>1, <1>2 DEF PlaybackDriven
<1>6. memory = "failed" => pc' = "get"
  <2> SUFFICES ASSUME memory = "failed" PROVE empty # <<>>
    BY <1>1
  <2>1. Range(empty) = 0 .. fragstotal - 1 /\ fragstotal \in 2..MaxFrags
    BY <1>2, EmptyRange DEF BuffersConserved, InHand, Control, Types, TypeOK
  <2>2. 0 \in 0 .. fragstotal - 1
    BY <2>1, FragAssumption
  <2> QED BY <2>1, <2>2, EmptyRange
<1>7. Control'
  BY <1>1, <1>2, <1>6 DEF Control, Writing
<1> QED BY <1>3, <1>4, <1>5, <1>7

LEMMA SleepOnInv == ASSUME Inv, SleepOn PROVE Inv'
<1> USE DEF SleepOn, Inv, queueVars, procVars, fileVars, dmaVars
<1>1. Types'
  BY FragAssumption DEF Types, TypeOK, PC
<1>2. BuffersConserved'
  BY QueuesUnchanged DEF InHand, Control
<1>3. PlaybackDriven'
  BY DEF PlaybackDriven, Control, Writing, Types, TypeOK
<1>4. Control'
  BY DEF PlaybackDriven, Control, Writing, Types, TypeOK, PC
<1> QED BY <1>1, <1>2, <1>3, <1>4

LEMMA WriteBackInv == ASSUME Inv, WriteBack PROVE Inv'
<1> USE DEF WriteBack, Inv, queueVars, procVars, fileVars, dmaVars
<1>1. Types'
  BY FragAssumption DEF Types, TypeOK, PC
<1>2. BuffersConserved'
  BY QueuesUnchanged DEF InHand, Control
<1>3. PlaybackDriven'
  BY DEF PlaybackDriven, Control, Writing, Types, TypeOK
<1>4. Control'
  BY DEF PlaybackDriven, Control, Writing, Types, TypeOK, PC
<1> QED BY <1>1, <1>2, <1>3, <1>4

LEMMA KickInv == ASSUME Inv, Kick PROVE Inv'
<1> USE DEF Kick, Again, Inv, queueVars, procVars, fileVars, dmaVars
<1>1. Types'
  BY DEF Types, TypeOK, PC
<1>2. BuffersConserved'
  BY QueuesUnchanged DEF InHand, Control
<1>3. PlaybackDriven'
  BY DEF PlaybackDriven, Control
<1>4. busy = <<>> => dma = None
  BY SingleRange DEF PlaybackDriven
<1>5. Control'
  BY <1>4 DEF Control, Writing
<1> QED BY <1>1, <1>2, <1>3, <1>5

LEMMA StartDmaInv == ASSUME Inv, StartDma PROVE Inv'
<1> USE DEF StartDma, Again, Inv, queueVars, procVars, fileVars, dmaVars
<1>1. Types'
  <2>1. early' \in BOOLEAN /\ te' \in BOOLEAN /\ recent' \in BOOLEAN
    BY Zenon
  <2>2. pc' \in PC /\ dma' \in Ids \cup {None}
    BY DEF Types, TypeOK, PC
  <2> QED BY <2>1, <2>2, TypesKept, Zenon DEF Types, TypeOK
<1>2. BuffersConserved'
  BY QueuesUnchanged DEF InHand, Control
<1>3. busy = <<id>> /\ busy # <<>> /\ id # None
  <2>1. busy = <<id>> /\ busy # <<>> /\ busy \in Seq(Ids) /\ MaxFrags \in Nat
    BY SingleRange, FragAssumption DEF Control, Types, TypeOK
  <2>2. Head(busy) = id /\ Head(busy) \in Ids
    BY <2>1, TailRange, SingleRange
  <2> QED BY <2>1, <2>2 DEF Ids, None
<1>4. PlaybackDriven'
  BY <1>3 DEF PlaybackDriven
<1>5. Control'
  BY <1>3 DEF Control, Writing, Types, TypeOK
<1> QED BY <1>1, <1>2, <1>4, <1>5

LEMMA DmaEndInv == ASSUME Inv, DmaEnd PROVE Inv'
<1> USE DEF DmaEnd, Inv, queueVars, procVars, fileVars, dmaVars
<1>1. Types'
  <2>1. /\ early' \in BOOLEAN /\ torn' \in {FALSE, early} /\ early \in BOOLEAN
        /\ te' \in BOOLEAN
    BY Zenon DEF Types, TypeOK
  <2>2. heard' \in Data \cup {NoData} /\ torn' \in BOOLEAN
    BY <2>1 DEF Types, TypeOK, None
  <2> QED BY <2>1, <2>2, TypesKept, Zenon DEF Types, TypeOK
<1>2. BuffersConserved'
  BY QueuesUnchanged DEF InHand, Control
<1>3. PlaybackDriven'
  BY DEF PlaybackDriven, Control, Writing, Types, TypeOK
<1>4. Control'
  BY DEF PlaybackDriven, Control, Writing, Types, TypeOK, PC
<1> QED BY <1>1, <1>2, <1>3, <1>4

LEMMA DrainInv == ASSUME NEW call \in {"sync", "release"}, Inv, Drain(call) PROVE Inv'
<1> USE DEF Drain, Inv, queueVars, procVars, fileVars, dmaVars
<1>1. Types'
  BY FragAssumption DEF Types, TypeOK, PC
<1>2. BuffersConserved'
  BY QueuesUnchanged DEF InHand, Control
<1>3. PlaybackDriven'
  BY DEF PlaybackDriven, Control, Writing, Types, TypeOK
<1>4. Control'
  BY DEF PlaybackDriven, Control, Writing, Types, TypeOK, PC
<1> QED BY <1>1, <1>2, <1>3, <1>4

LEMMA DrainExpiresInv == ASSUME Inv, DrainExpires PROVE Inv'
<1> USE DEF DrainExpires, Inv, queueVars, procVars, fileVars, dmaVars
<1>1. Types'
  <2>1. drain' \in [call : {"sync", "release"}, expired : BOOLEAN] /\ pc' \in PC
    BY DEF Types, TypeOK, PC
  <2> QED BY <2>1, TypesKept, Zenon DEF Types, TypeOK
<1>2. BuffersConserved'
  BY QueuesUnchanged DEF InHand, Control
<1>3. PlaybackDriven'
  BY DEF PlaybackDriven, Control, Writing, Types, TypeOK
<1>4. Control'
  BY DEF PlaybackDriven, Control, Writing, Types, TypeOK, PC
<1> QED BY <1>1, <1>2, <1>3, <1>4

LEMMA DrainCheckInv == ASSUME Inv, DrainCheck PROVE Inv'
<1> USE DEF DrainCheck, Inv, queueVars, procVars, fileVars, dmaVars
<1>1. Types'
  BY FragAssumption DEF Types, TypeOK, PC
<1>2. BuffersConserved'
  BY QueuesUnchanged DEF InHand, Control
<1>3. PlaybackDriven'
  BY DEF PlaybackDriven, Control, Writing, Types, TypeOK
<1>4. Control'
  BY DEF PlaybackDriven, Control, Writing, Types, TypeOK, PC
<1> QED BY <1>1, <1>2, <1>3, <1>4

LEMMA DrainResidueInv == ASSUME Inv, DrainResidue PROVE Inv'
<1> USE DEF DrainResidue, Inv, queueVars, procVars, fileVars, dmaVars
<1>1. Types'
  BY FragAssumption DEF Types, TypeOK, PC
<1>2. BuffersConserved'
  BY QueuesUnchanged DEF InHand, Control
<1>3. PlaybackDriven'
  BY DEF PlaybackDriven, Control, Writing, Types, TypeOK
<1>4. Control'
  BY DEF PlaybackDriven, Control, Writing, Types, TypeOK, PC
<1> QED BY <1>1, <1>2, <1>3, <1>4

LEMMA DrainDoneInv == ASSUME Inv, DrainDone PROVE Inv'
<1> USE DEF DrainDone, Inv, queueVars, procVars, fileVars, dmaVars
<1>1. Types'
  BY FragAssumption DEF Types, TypeOK, PC
<1>2. BuffersConserved'
  BY QueuesUnchanged DEF InHand, Control
<1>3. PlaybackDriven'
  BY DEF PlaybackDriven, Control, Writing, Types, TypeOK
<1>4. Control'
  BY DEF PlaybackDriven, Control, Writing, Types, TypeOK, PC
<1> QED BY <1>1, <1>2, <1>3, <1>4

LEMMA ReleaseDisableInv == ASSUME Inv, ReleaseDisable PROVE Inv'
<1> USE DEF ReleaseDisable, Inv, queueVars, procVars, fileVars, dmaVars
<1>1. Types'
  <2>1. /\ opened' \in BOOLEAN /\ te' \in BOOLEAN /\ early' \in BOOLEAN
        /\ dma' \in Ids \cup {None}
    BY Zenon
  <2>2. pc' \in PC
    BY DEF PC
  <2> QED BY <2>1, <2>2, TypesKept, Zenon DEF Types, TypeOK
<1>2. BuffersConserved'
  BY QueuesUnchanged DEF InHand, Control
<1>3. PlaybackDriven'
  BY DEF PlaybackDriven, Control, Writing, Types, TypeOK
<1>4. Control'
  BY DEF PlaybackDriven, Control, Writing, Types, TypeOK, PC
<1> QED BY <1>1, <1>2, <1>3, <1>4

LEMMA OpenInv == ASSUME Inv, Open PROVE Inv'
<1> USE DEF Open, Inv, dmaVars
<1>1. fragstotal \in 2..MaxFrags
  BY DEF Types, TypeOK
<1>2. /\ empty' \in Seq(Ids) /\ Range(empty') = 0 .. fragstotal - 1 /\ IsInjective(empty')
      /\ full' = <<>> /\ busy' = <<>>
  BY <1>1, AllIdsRange
<1>3. Types'
  <2>1. empty' \in Seq(Ids \cup {None}) /\ full' \in Seq(Ids) /\ busy' \in Seq(Ids)
    BY <1>2
  <2>2. pc' \in PC
    BY DEF PC
  <2> QED BY <1>2, <2>1, <2>2, TypesKept, Zenon DEF Types, TypeOK
<1>4. BuffersConserved'
  BY <1>2, EmptyRange DEF BuffersConserved, InHand
<1>5. PlaybackDriven' /\ Control'
  BY <1>2 DEF PlaybackDriven, Control, Writing, Types, TypeOK
<1> QED BY <1>3, <1>4, <1>5

LEMMA SetFragmentInv ==
    ASSUME EarlySetfrag, NEW t \in 0..MaxRequest, Inv, SetFragment(t) PROVE Inv'
<1> USE DEF SetFragment, Inv, dmaVars
<1>1. fragstotal \in 2..MaxFrags /\ Clamp(t) \in 2..MaxFrags
  BY FragAssumption DEF Types, TypeOK, Clamp
<1>2. /\ empty' \in Seq(Ids) /\ Range(empty') = 0 .. fragstotal - 1 /\ IsInjective(empty')
      /\ full' = <<>> /\ busy' = <<>>
  BY <1>1, AllIdsRange
<1>3. Types'
  <2>1. empty' \in Seq(Ids \cup {None}) /\ full' \in Seq(Ids) /\ busy' \in Seq(Ids)
    BY <1>2
  <2> QED BY <1>1, <1>2, <2>1 DEF Types, TypeOK, PC
<1>4. BuffersConserved'
  BY <1>2, EmptyRange DEF BuffersConserved, InHand
<1>5. PlaybackDriven' /\ Control'
  BY <1>2 DEF PlaybackDriven, Control, Writing, Types, TypeOK
<1> QED BY <1>3, <1>4, <1>5

LEMMA InitQueuesInv == ASSUME Inv, InitQueues PROVE Inv'
<1> USE DEF InitQueues, Inv, dmaVars, procVars
<1>1. want \in 2..MaxFrags
  BY DEF Types, TypeOK
<1>2. /\ empty' \in Seq(Ids) /\ Range(empty') = 0 .. want - 1 /\ IsInjective(empty')
      /\ full' = <<>> /\ busy' = <<>>
  BY <1>1, AllIdsRange
<1>3. Types'
  <2>1. empty' \in Seq(Ids \cup {None}) /\ full' \in Seq(Ids) /\ busy' \in Seq(Ids)
    BY <1>2
  <2> QED BY <1>1, <1>2, <2>1 DEF Types, TypeOK, PC
<1>4. BuffersConserved'
  BY <1>2, EmptyRange DEF BuffersConserved, InHand
<1>5. PlaybackDriven' /\ Control'
  BY <1>2 DEF PlaybackDriven, Control, Writing, Types, TypeOK
<1> QED BY <1>3, <1>4, <1>5

LEMMA QueueInv == ASSUME Inv, Queue PROVE Inv'
<1> USE DEF Queue, Inv, dmaVars, fileVars
<1>1. id \in Ids /\ id \notin Range(full) /\ full \in Seq(Ids) /\ IsInjective(full)
  <2>1. InHand = {id} /\ pc # "oops"
    BY DEF InHand
  <2>2. id \in 0 .. fragstotal - 1 /\ id \notin Range(full) /\ IsInjective(full)
    BY <2>1 DEF BuffersConserved
  <2> QED BY <2>2, FragAssumption DEF Types, TypeOK, Ids
<1>2. /\ full' \in Seq(Ids) /\ full' # <<>> /\ Range(full') = Range(full) \cup {id}
      /\ IsInjective(full')
  BY <1>1, AppendRange
<1>3. Types'
  BY <1>2, FragAssumption DEF Types, TypeOK, PC, Control
<1>4. BuffersConserved'
  BY <1>2, Zenon DEF BuffersConserved, InHand
<1>5. PlaybackDriven' /\ Control'
  BY <1>2 DEF PlaybackDriven, Control, Writing, Types, TypeOK
<1> QED BY <1>3, <1>4, <1>5

LEMMA PullInv == ASSUME Inv, Pull PROVE Inv'
<1> USE DEF Pull, Again, Inv, dmaVars, fileVars
<1>1. CASE full = <<>>
  <2>1. Types'
    BY <1>1 DEF Types, TypeOK, PC
  <2>2. BuffersConserved'
    BY <1>1, QueuesUnchanged DEF InHand, queueVars
  <2>3. PlaybackDriven' /\ Control'
    BY <1>1 DEF PlaybackDriven, Control, Writing, Types, TypeOK
  <2> QED BY <2>1, <2>2, <2>3
<1>2. CASE full # <<>>
  <2>1. full \in Seq(Ids) /\ IsInjective(full)
    BY DEF Types, TypeOK, BuffersConserved
  <2>2. /\ full' \in Seq(Ids) /\ Range(full') = Range(full) \ {Head(full)}
        /\ IsInjective(full') /\ id' = Head(full) /\ id' \in Ids /\ id' \in Range(full)
    <3>1. full' = Tail(full) /\ id' = Head(full)
      BY <1>2
    <3> QED BY <1>2, <2>1, <3>1, TailRange, Zenon
  <2>3. Types'
    BY <1>2, <2>2 DEF Types, TypeOK, PC
  <2>4. BuffersConserved'
    BY <1>2, <2>2, Zenon DEF BuffersConserved, InHand
  <2>5. PlaybackDriven' /\ Control'
    BY <1>2, <2>2 DEF PlaybackDriven, Control, Writing, Types, TypeOK
  <2> QED BY <2>3, <2>4, <2>5
<1> QED BY <1>1, <1>2

LEMMA PutBusyInv == ASSUME Inv, PutBusy PROVE Inv'
<1> USE DEF PutBusy, Inv, dmaVars, fileVars, procVars
<1>1. busy = <<>> /\ busy' = <<id>> /\ busy' # <<>> /\ Range(busy') = {id}
      /\ IsInjective(busy') /\ Range(busy) = {}
  BY SingleRange, EmptyRange DEF Control
<1>2. id \in Ids
  BY FragAssumption DEF BuffersConserved, InHand, Types, TypeOK, Ids
<1>3. Types'
  BY <1>1, <1>2 DEF Types, TypeOK, PC
<1>4. BuffersConserved'
  BY <1>1, Zenon DEF BuffersConserved, InHand
<1>5. PlaybackDriven' /\ Control'
  BY <1>1 DEF PlaybackDriven, Control, Writing, Types, TypeOK
<1> QED BY <1>3, <1>4, <1>5

LEMMA GetInv == ASSUME Inv, Get PROVE Inv'
<1> USE DEF Get, Inv, dmaVars, fileVars
<1>1. CASE empty = <<>>
  <2>1. pc' = "check" /\ empty' = empty /\ UNCHANGED <<id, cached, content>>
    BY <1>1
  <2>2. Types'
    BY <2>1 DEF Types, TypeOK, PC
  <2>3. BuffersConserved'
    BY <2>1, QueuesUnchanged DEF InHand, queueVars
  <2>4. PlaybackDriven' /\ Control'
    BY <2>1 DEF PlaybackDriven, Control, Writing, Types, TypeOK
  <2> QED BY <2>2, <2>3, <2>4
<1>2. CASE empty # <<>>
  <2>1. empty \in Seq(Ids) /\ IsInjective(empty) /\ MaxFrags \in Nat
    BY FragAssumption DEF Types, BuffersConserved
  <2>2. /\ empty' = Tail(empty) /\ Tail(empty) \in Seq(Ids) /\ Head(empty) \in Ids
        /\ Range(Tail(empty)) = Range(empty) \ {Head(empty)}
        /\ IsInjective(Tail(empty)) /\ Head(empty) \in Range(empty)
    BY <1>2, <2>1, TailRange
  <2>3. Head(empty) # None
    BY <2>1, <2>2 DEF Ids, None
  <2>4. /\ pc' = IF memory = "ok" THEN "queue" ELSE "oops"
        /\ id' = Head(empty) /\ cached' = Head(empty)
        /\ \E d \in Data : content' = [content EXCEPT ![Head(empty)] = d]
    BY <1>2, <2>3
  <2>5. Types'
    <3>1. content' \in [Ids -> Data \cup {NoData}]
      BY <2>4 DEF Types, TypeOK
    <3>2. empty' \in Seq(Ids) /\ empty' \in Seq(Ids \cup {None})
      BY <2>2
    <3> QED BY <2>2, <2>4, <3>1, <3>2 DEF Types, TypeOK, PC
  <2>6. BuffersConserved'
    BY <2>2, <2>4, Zenon DEF BuffersConserved, InHand
  <2>7. PlaybackDriven' /\ Control'
    BY <2>4 DEF PlaybackDriven, Control, Writing, Types, TypeOK
  <2> QED BY <2>5, <2>6, <2>7
<1> QED BY <1>1, <1>2

\* The interrupt finds the buffer it is about, gives it back and sends the next.
LEMMA ReplayIrqInv == ASSUME Inv, ReplayIrq PROVE Inv'
<1> USE DEF ReplayIrq, Inv, fileVars, procVars
<1>1. /\ dma # None /\ busy = <<dma>> /\ busy # <<>> /\ Range(busy) = {dma}
      /\ Head(busy) = dma /\ Tail(busy) = <<>>
  BY SingleRange DEF Control, PlaybackDriven
<1>2. /\ opened /\ wrote /\ memory = "ok"
      /\ pc \notin {"pull", "busy", "start", "mdelay", "oops"}
  BY <1>1 DEF Control, Types, TypeOK
<1>3. /\ dma \in Ids /\ dma \notin Range(empty) /\ dma \notin Range(full)
      /\ empty \in Seq(Ids) /\ full \in Seq(Ids)
      /\ IsInjective(empty) /\ IsInjective(full)
  BY <1>1, <1>2 DEF BuffersConserved, Types, TypeOK
<1>4. /\ empty' = Append(empty, dma) /\ strange' = FALSE /\ te' = FALSE /\ recent' = TRUE
      /\ pc' = IF pc = "asleep" THEN "get" ELSE pc
  BY <1>1, <1>2 DEF Control
<1>5. /\ empty' \in Seq(Ids) /\ Range(empty') = Range(empty) \cup {dma}
      /\ IsInjective(empty')
  BY <1>3, <1>4, AppendRange
<1>6. InHand' = InHand
  BY <1>4 DEF InHand
<1>a. empty' \in Seq(Ids \cup {None}) /\ pc' \in PC
  <2>1. empty' \in Seq(Ids \cup {None})
    BY <1>5
  <2>2. pc' \in PC
    BY <1>4 DEF Types, TypeOK, PC
  <2> QED BY <2>1, <2>2
<1>7. CASE full = <<>>
  <2>1. full' = <<>> /\ busy' = <<>> /\ dma' = None /\ Range(busy') = {}
    BY <1>7, EmptyRange
  <2>2. Types'
    <3>1. busy' \in Seq(Ids) /\ full' \in Seq(Ids) /\ dma' \in Ids \cup {None}
      BY <2>1
    <3> QED BY <1>a, <1>4, <1>5, <3>1 DEF Types, TypeOK
  <2>3. BuffersConserved'
    BY <1>1, <1>2, <1>5, <1>6, <1>7, <2>1, EmptyRange, Zenon DEF BuffersConserved
  <2>4. PlaybackDriven' /\ Control'
    BY <1>2, <1>4, <2>1 DEF PlaybackDriven, Control, Writing
  <2> QED BY <2>2, <2>3, <2>4
<1>8. CASE full # <<>>
  <2>1. /\ Tail(full) \in Seq(Ids) /\ Head(full) \in Ids /\ Head(full) \in Range(full)
        /\ Range(Tail(full)) = Range(full) \ {Head(full)} /\ IsInjective(Tail(full))
    BY <1>3, <1>8, TailRange
  <2>2. full' = Tail(full) /\ dma' = Head(full) /\ busy' = Append(<<>>, Head(full))
    BY <1>1, <1>8
  <2>3. busy' = <<dma'>> /\ Range(busy') = {Head(full)} /\ IsInjective(busy') /\ busy' # <<>>
    BY <2>2, SingleRange
  <2>4. Types'
    <3>1. busy' \in Seq(Ids) /\ full' \in Seq(Ids) /\ dma' \in Ids \cup {None}
      BY <2>1, <2>2, <2>3
    <3> QED BY <1>a, <1>4, <1>5, <3>1 DEF Types, TypeOK
  <2>5. BuffersConserved'
    <3>1. Range(full') = Range(full) \ {Head(full)} /\ IsInjective(full')
      BY <2>1, <2>2
    <3>2. pc # "oops" /\ fragstotal' = fragstotal
      BY <1>2
    <3> DEFINE E == Range(empty)
               F == Range(full)
               N == 0 .. fragstotal - 1
               h == Head(full)
    <3>3. /\ E \cup F \cup {dma} \cup InHand = N /\ h \in F
          /\ E \cap (F \cup {dma}) = {} /\ F \cap {dma} = {}
          /\ InHand \cap (E \cup F \cup {dma}) = {}
      BY <1>1, <2>1, <3>2, Zenon DEF BuffersConserved
    <3>4. /\ Range(empty') = E \cup {dma} /\ Range(full') = F \ {h} /\ Range(busy') = {h}
          /\ 0 .. fragstotal' - 1 = N
      BY <1>5, <2>3, <3>1, <3>2
    <3> HIDE DEF E, F, N, h, ReplayIrq, Inv
    <3>5. /\ Range(empty') \cup Range(full') \cup Range(busy') \cup InHand' = N
          /\ Range(empty') \cap (Range(full') \cup Range(busy')) = {}
          /\ Range(full') \cap Range(busy') = {}
          /\ InHand' \cap (Range(empty') \cup Range(full') \cup Range(busy')) = {}
      BY <1>6, <3>3, <3>4, SMT
    <3> QED BY <1>5, <2>3, <3>1, <3>4, <3>5 DEF BuffersConserved
  <2>6. dma' # None
    BY <2>1, <2>2, FragAssumption DEF Ids, None
  <2>7. PlaybackDriven' /\ Control'
    BY <1>2, <1>4, <2>2, <2>3, <2>6 DEF PlaybackDriven, Control, Writing
  <2> QED BY <2>4, <2>5, <2>7
<1> QED BY <1>7, <1>8

\* Nothing changes.
LEMMA StutterInv == ASSUME Inv, UNCHANGED vars PROVE Inv'
BY QueuesUnchanged DEF Inv, vars, queueVars, fileVars, procVars, dmaVars, Types, TypeOK,
   PlaybackDriven, Control, InHand

-----------------------------------------------------------------------------
(* The theorems.                                                           *)

LEMMA InvNext == ASSUME EarlySetfrag, Inv, [Next]_vars PROVE Inv'
<1>1. CASE Call
  <2>1. ASSUME NEW n \in 1..MaxWrite, Write(n) PROVE Inv'
    BY <2>1, WriteInv
  <2>2. ASSUME NEW call \in {"sync", "release"}, Drain(call) PROVE Inv'
    BY <2>2, DrainInv
  <2>3. ASSUME NEW t \in 0..MaxRequest, SetFragment(t) PROVE Inv'
    BY <2>3, SetFragmentInv
  <2>4. CASE OpenBusy
    BY <2>4, StutterInv DEF OpenBusy
  <2> QED BY <1>1, <2>1, <2>2, <2>3, <2>4, OpenInv, SetNonblockInv DEF Call
<1>2. CASE Process
  BY <1>2, CheckInv, SleepOnInv, GetInv, QueueInv, WriteBackInv, KickInv, PullInv, PutBusyInv,
     StartDmaInv, DrainExpiresInv, DrainCheckInv, DrainResidueInv, DrainDoneInv,
     ReleaseDisableInv, InitQueuesInv DEF Process
<1>3. CASE Oops \/ UNCHANGED vars
  BY <1>3, StutterInv DEF Oops
<1> QED BY <1>1, <1>2, <1>3, DmaEndInv, ReplayIrqInv DEF Next

\* For programs that set the fragment layout before they write, and for any
\* number of fragments, the queues, the process and the interrupt of the
\* playback driver never lose or share a buffer, never leave a full fragment
\* without somebody to send it, and see no strange interrupt.
THEOREM QueuesCorrect ==
    ASSUME EarlySetfrag
    PROVE  Spec => [](TypeOK /\ BuffersConserved /\ PlaybackDriven /\ NoStrangeInterrupt
                        /\ OopsOnlyIfAllocFailed)
<1>1. Inv /\ [Next]_vars => Inv'
  BY InvNext
<1>2. Inv => /\ TypeOK /\ BuffersConserved /\ PlaybackDriven /\ NoStrangeInterrupt
             /\ OopsOnlyIfAllocFailed
  BY DEF Inv, Types, Control, NoStrangeInterrupt, OopsOnlyIfAllocFailed
<1> QED BY InvInit, <1>1, <1>2, PTL DEF Spec

\* Fragments are in the data cache only between the filling of a buffer and its
\* write-back; until it is queued the buffer is the one in hand, and after that
\* the last one of out_full_queue unless the interrupt has taken all there were.
Cached ==
    /\ cached # None => pc \in {"queue", "wback", "oops"}
    /\ pc = "queue" => cached = id
    /\ pc = "wback" /\ full # <<>> => full[Len(full)] = cached

\* The steps of the write loop, the interrupt and the calls keep to it.
LEMMA CachedNext == ASSUME Inv, Cached, [Next]_vars PROVE Cached'
<1> USE DEF Cached
<1>1. CASE Call
  <2>1. ASSUME NEW n \in 1..MaxWrite, Write(n) PROVE Cached'
    BY <2>1 DEF Write, Again
  <2>2. ASSUME NEW call \in {"sync", "release"}, Drain(call) PROVE Cached'
    BY <2>2 DEF Drain
  <2>3. ASSUME NEW t \in 0..MaxRequest, SetFragment(t) PROVE Cached'
    BY <2>3 DEF SetFragment
  <2>4. CASE Open \/ OpenBusy \/ SetNonblock
    BY <2>4 DEF Open, OpenBusy, SetNonblock, vars, procVars
  <2> QED BY <1>1, <2>1, <2>2, <2>3, <2>4 DEF Call
<1>2. CASE Check \/ SleepOn \/ Kick \/ Pull \/ PutBusy \/ StartDma
  BY <1>2 DEF Check, SleepOn, Kick, Pull, PutBusy, StartDma, Again, procVars
<1>3. CASE Get
  BY <1>3 DEF Get
<1>4. CASE Queue \/ WriteBack
  BY <1>4 DEF Queue, WriteBack
<1>5. CASE DrainExpires \/ DrainCheck \/ DrainResidue \/ DrainDone \/ ReleaseDisable \/ InitQueues
  BY <1>5 DEF DrainExpires, DrainCheck, DrainResidue, DrainDone, ReleaseDisable, InitQueues,
     procVars
<1>6. CASE DmaEnd \/ ReplayIrq
  <2>1. CASE DmaEnd
    BY <2>1 DEF DmaEnd, procVars, queueVars
  <2>2. CASE ReplayIrq
    <3>1. /\ full \in Seq(Ids) /\ UNCHANGED <<cached, id>>
          /\ pc' \in {"queue", "wback"} => pc' = pc /\ pc # "oops"
          /\ pc' = "oops" \/ pc' = pc \/ pc = "asleep"
      BY <2>2 DEF ReplayIrq, procVars, Inv, Types, TypeOK
    <3>2. CASE full = <<>>
      BY <2>2, <3>1, <3>2 DEF ReplayIrq
    <3>3. CASE full # <<>>
      <4>1. full' = Tail(full)
        BY <2>2, <3>3 DEF ReplayIrq
      <4>2. Tail(full) # <<>> => Tail(full)[Len(Tail(full))] = full[Len(full)]
        BY <3>1, <3>3
      <4> QED BY <3>1, <3>3, <4>1, <4>2
    <3> QED BY <3>2, <3>3
  <2> QED BY <1>6, <2>1, <2>2
<1>7. CASE Oops \/ UNCHANGED vars
  BY <1>7 DEF Oops, vars, procVars, queueVars
<1> QED BY <1>1, <1>2, <1>3, <1>4, <1>5, <1>6, <1>7 DEF Next, Process

\* For the same programs the DMA runs on a buffer whose samples are still in the
\* data cache only between put_buffer_id and the end of dma_cache_wback_inv in
\* jz_audio_write, and only if no other buffer was queued: an interrupt can take
\* no buffer before it is queued, and takes the last one last.
THEOREM CacheWindow ==
    ASSUME EarlySetfrag
    PROVE  Spec => []StaleOnlyInWindow
<1>1. Init => Cached
  BY DEF Init, Cached
<1>2. Inv /\ Cached /\ [Next]_vars => Cached'
  BY CachedNext
<1>3. Inv /\ [Next]_vars => Inv'
  BY InvNext
<1>4. ASSUME Inv, Cached PROVE StaleOnlyInWindow
  <2> SUFFICES ASSUME dma # None, dma = cached PROVE pc = "wback" /\ full = <<>>
    BY DEF StaleOnlyInWindow
  <2>1. pc # "oops" /\ pc \in {"queue", "wback"} /\ Range(busy) = {dma}
    BY <1>4, SingleRange DEF Inv, Control, Cached, PlaybackDriven
  <2>2. pc # "queue"
    <3> SUFFICES ASSUME pc = "queue" PROVE FALSE
      OBVIOUS
    <3>1. InHand = {dma}
      BY <1>4 DEF Cached, InHand
    <3> QED BY <1>4, <2>1, <3>1, Zenon DEF Inv, BuffersConserved
  <2>3. full = <<>>
    <3> SUFFICES ASSUME full # <<>> PROVE FALSE
      OBVIOUS
    <3>1. full \in Seq(Ids) /\ full[Len(full)] = dma
      BY <1>4, <2>1, <2>2 DEF Inv, Types, TypeOK, Cached
    <3>2. Len(full) \in DOMAIN full
      BY <3>1
    <3>3. dma \in Range(full)
      BY <3>1, <3>2 DEF Range
    <3> QED BY <1>4, <2>1, <3>3, Zenon DEF Inv, BuffersConserved
  <2> QED BY <2>1, <2>2, <2>3
<1> QED BY InvInit, <1>1, <1>2, <1>3, <1>4, PTL DEF Spec

-----------------------------------------------------------------------------
(* drain_dac.                                                              *)

\* Between the look at out_full_queue and the end of the drain nothing is queued;
\* a drain that saw the end of the last transfer leaves at most its interrupt.
Drained ==
    /\ pc = "residue" => full = <<>>
    /\ pc \in {"drained", "disable"} /\ ~drain.expired => full = <<>> /\ (te \/ busy = <<>>)

LEMMA DrainedNext == ASSUME Inv, Drained, [Next]_vars PROVE Drained'
<1> USE DEF Drained, queueVars, procVars, fileVars, dmaVars
<1>1. CASE Call
  <2>1. ASSUME NEW n \in 1..MaxWrite, Write(n) PROVE Drained'
    BY <2>1 DEF Write
  <2>2. ASSUME NEW call \in {"sync", "release"}, Drain(call) PROVE Drained'
    BY <2>2 DEF Drain
  <2>3. ASSUME NEW t \in 0..MaxRequest, SetFragment(t) PROVE Drained'
    BY <2>3 DEF SetFragment
  <2>4. CASE Open \/ OpenBusy \/ SetNonblock
    BY <2>4 DEF Open, OpenBusy, SetNonblock, vars
  <2> QED BY <1>1, <2>1, <2>2, <2>3, <2>4 DEF Call
<1>2. CASE Check \/ SleepOn \/ Get \/ Queue \/ WriteBack \/ Kick \/ Pull \/ PutBusy \/ StartDma
  BY <1>2 DEF Check, SleepOn, Get, Queue, WriteBack, Kick, Pull, PutBusy, StartDma, Again
<1>3. CASE DrainExpires
  <2>1. drain'.expired
    BY <1>3 DEF DrainExpires, Inv, Types, TypeOK
  <2> QED BY <1>3, <2>1 DEF DrainExpires
<1>4. CASE DrainCheck \/ DrainDone \/ ReleaseDisable \/ InitQueues
  BY <1>4 DEF DrainCheck, DrainDone, ReleaseDisable, InitQueues
<1>5. CASE DrainResidue
  <2>1. opened /\ (busy # <<>> => dma # None)
    BY <1>5 DEF DrainResidue, Inv, Control, PlaybackDriven, Types, TypeOK
  <2> QED BY <1>5, <2>1 DEF DrainResidue
<1>6. CASE DmaEnd
  BY <1>6 DEF DmaEnd
<1>7. CASE ReplayIrq
  <2>1. memory = "ok"
    BY <1>7 DEF ReplayIrq, Inv, Control, Types, TypeOK
  <2> QED BY <1>7, <2>1 DEF ReplayIrq
<1>8. CASE Oops \/ UNCHANGED vars
  BY <1>8 DEF Oops, vars
<1> QED BY <1>1, <1>2, <1>3, <1>4, <1>5, <1>6, <1>7, <1>8 DEF Next, Process

\* For the same programs a drain_dac that does not time out ends only when every
\* fragment has been heard, although it looks at out_full_queue and at the DMA
\* residue at different times and the interrupt may come in between.
THEOREM DrainComplete ==
    ASSUME EarlySetfrag
    PROVE  Spec => []DrainHearsAll
<1>1. Init => Drained
  BY DEF Init, Drained
<1>2. Inv /\ Drained /\ [Next]_vars => Drained'
  BY DrainedNext
<1>3. Inv /\ [Next]_vars => Inv'
  BY InvNext
<1>4. ASSUME Drained PROVE DrainHearsAll
  <2> SUFFICES ASSUME pc \in {"drained", "disable"}, ~drain.expired PROVE Unheard = <<>>
    BY DEF DrainHearsAll
  <2>1. pc # "busy" /\ full = <<>> /\ (te \/ busy = <<>>)
    BY <1>4 DEF Drained
  <2>2. Pending = <<>>
    BY <2>1 DEF Pending
  <2> QED BY <2>2 DEF Unheard
<1> QED BY InvInit, <1>1, <1>2, <1>3, <1>4, PTL DEF Spec

-----------------------------------------------------------------------------
(* The driver implements AudioFifo.                                        *)

Fragments == Data \cup {NoData}

\* The samples in the buffers of a queue.
Contents(q, c) == [i \in DOMAIN q |-> c[q[i]]]

LEMMA ContentsType ==
    ASSUME NEW q \in Seq(Ids), NEW c \in [Ids -> Fragments]
    PROVE  /\ Contents(q, c) \in Seq(Fragments) /\ Len(Contents(q, c)) = Len(q) /\ Len(q) \in Nat
           /\ \A i \in 1..Len(q) : Contents(q, c)[i] = c[q[i]]
<1>1. Len(q) \in Nat /\ DOMAIN q = 1..Len(q) /\ \A i \in 1..Len(q) : q[i] \in Ids
  OBVIOUS
<1>2. Contents(q, c) \in [1..Len(q) -> Fragments]
  BY <1>1 DEF Contents
<1> QED BY <1>1, <1>2 DEF Contents

LEMMA ContentsAppend ==
    ASSUME NEW q \in Seq(Ids), NEW e \in Ids, NEW c \in [Ids -> Fragments]
    PROVE  Contents(Append(q, e), c) = Append(Contents(q, c), c[e])
<1>1. /\ Append(q, e) \in Seq(Ids) /\ Len(Append(q, e)) = Len(q) + 1 /\ Len(q) \in Nat
      /\ \A i \in 1..Len(q) : Append(q, e)[i] = q[i]
      /\ Append(q, e)[Len(q) + 1] = e /\ c[e] \in Fragments
  OBVIOUS
<1>2. /\ Contents(Append(q, e), c) \in Seq(Fragments) /\ Len(Contents(Append(q, e), c)) = Len(q) + 1
      /\ \A i \in 1..(Len(q) + 1) : Contents(Append(q, e), c)[i] = c[Append(q, e)[i]]
  BY <1>1, ContentsType
<1>3. /\ Contents(q, c) \in Seq(Fragments) /\ Len(Contents(q, c)) = Len(q)
      /\ \A i \in 1..Len(q) : Contents(q, c)[i] = c[q[i]]
  BY ContentsType
<1>4. /\ Append(Contents(q, c), c[e]) \in Seq(Fragments)
      /\ Len(Append(Contents(q, c), c[e])) = Len(q) + 1
      /\ \A i \in 1..Len(q) : Append(Contents(q, c), c[e])[i] = c[q[i]]
      /\ Append(Contents(q, c), c[e])[Len(q) + 1] = c[e]
  BY <1>1, <1>3
<1>5. \A i \in 1..(Len(q) + 1) : Contents(Append(q, e), c)[i] = Append(Contents(q, c), c[e])[i]
  <2> SUFFICES ASSUME NEW i \in 1..(Len(q) + 1)
               PROVE  c[Append(q, e)[i]] = Append(Contents(q, c), c[e])[i]
    BY <1>2
  <2>1. i \in 1..Len(q) \/ i = Len(q) + 1
    BY <1>1
  <2> QED BY <1>1, <1>4, <2>1
<1> QED BY <1>2, <1>4, <1>5, SeqEqual

LEMMA ContentsTail ==
    ASSUME NEW q \in Seq(Ids), NEW c \in [Ids -> Fragments], q # <<>>
    PROVE  /\ Contents(q, c) # <<>>
           /\ Head(Contents(q, c)) = c[Head(q)]
           /\ Contents(Tail(q), c) = Tail(Contents(q, c))
<1>1. /\ Tail(q) \in Seq(Ids) /\ Len(Tail(q)) = Len(q) - 1 /\ Len(q) \in Nat \ {0}
      /\ Head(q) = q[1] /\ \A i \in 1..(Len(q) - 1) : Tail(q)[i] = q[i + 1]
  OBVIOUS
<1>2. /\ Contents(q, c) \in Seq(Fragments) /\ Len(Contents(q, c)) = Len(q)
      /\ \A i \in 1..Len(q) : Contents(q, c)[i] = c[q[i]]
  BY ContentsType
<1>3. /\ Contents(Tail(q), c) \in Seq(Fragments) /\ Len(Contents(Tail(q), c)) = Len(q) - 1
      /\ \A i \in 1..(Len(q) - 1) : Contents(Tail(q), c)[i] = c[q[i + 1]]
  <2>1. /\ Contents(Tail(q), c) \in Seq(Fragments) /\ Len(Contents(Tail(q), c)) = Len(Tail(q))
        /\ \A i \in 1..Len(Tail(q)) : Contents(Tail(q), c)[i] = c[Tail(q)[i]]
    BY <1>1, ContentsType
  <2>2. \A i \in 1..(Len(q) - 1) : Contents(Tail(q), c)[i] = c[Tail(q)[i]]
    BY <1>1, <2>1
  <2> QED BY <1>1, <2>1, <2>2
<1>4. Contents(q, c) # <<>> /\ Head(Contents(q, c)) = c[Head(q)]
  BY <1>1, <1>2
<1>5. /\ Tail(Contents(q, c)) \in Seq(Fragments) /\ Len(Tail(Contents(q, c))) = Len(q) - 1
      /\ \A i \in 1..(Len(q) - 1) : Tail(Contents(q, c))[i] = Contents(q, c)[i + 1]
  BY <1>1, <1>2, <1>4
<1>6. \A i \in 1..(Len(q) - 1) : Tail(Contents(q, c))[i] = c[q[i + 1]]
  BY <1>1, <1>2, <1>5
<1>7. Contents(Tail(q), c) = Tail(Contents(q, c))
  BY <1>3, <1>5, <1>6, SeqEqual
<1> QED BY <1>4, <1>7

\* What is stored elsewhere does not change the samples of a queue.
LEMMA ContentsElsewhere ==
    ASSUME NEW q \in Seq(Ids), NEW c \in [Ids -> Fragments], NEW x \in Ids, NEW d \in Fragments,
           x \notin Range(q)
    PROVE  Contents(q, [c EXCEPT ![x] = d]) = Contents(q, c)
<1>1. DOMAIN q = 1..Len(q) /\ \A i \in 1..Len(q) : q[i] \in Ids /\ q[i] # x
  BY DEF Range
<1>2. \A i \in DOMAIN q : [c EXCEPT ![x] = d][q[i]] = c[q[i]]
  BY <1>1
<1> QED BY <1>2 DEF Contents

\* A sequence is its head and then its tail.
LEMMA HeadThenTail ==
    ASSUME NEW S, NEW q \in Seq(S), q # <<>>
    PROVE  <<Head(q)>> \o Tail(q) = q
<1>1. Len(q) \in Nat \ {0} /\ Head(q) \in S /\ Tail(q) \in Seq(S) /\ Len(Tail(q)) = Len(q) - 1
  OBVIOUS
<1>2. q = SubSeq(q, 1, Len(q)) /\ 1 \in 1..Len(q) /\ Len(q) \in 1..Len(q)
  BY <1>1, SubSeqFull
<1>3. SubSeq(q, 1, Len(q)) = <<q[1]>> \o SubSeq(q, 2, Len(q))
  BY <1>1, <1>2, SubSeqRecursiveFirst
<1> QED BY <1>2, <1>3, TailIsSubSeq

\* One element and a sequence.
LEMMA ConsProperties ==
    ASSUME NEW S, NEW q \in Seq(S), NEW e \in S
    PROVE  /\ <<e>> \o q \in Seq(S) /\ <<e>> \o q # <<>> /\ Len(<<e>> \o q) = Len(q) + 1
           /\ Head(<<e>> \o q) = e /\ Tail(<<e>> \o q) = q
<1>1. /\ <<e>> \in Seq(S) /\ Len(<<e>>) = 1 /\ <<e>>[1] = e /\ Len(q) \in Nat
  OBVIOUS
<1>2. /\ <<e>> \o q \in Seq(S) /\ Len(<<e>> \o q) = Len(q) + 1
      /\ (<<e>> \o q)[1] = e /\ \A i \in 1..Len(q) : (<<e>> \o q)[i + 1] = q[i]
  BY <1>1
<1>3. <<e>> \o q # <<>> /\ Head(<<e>> \o q) = e
  BY <1>2
<1>4. Tail(<<e>> \o q) = q
  <2>1. /\ Tail(<<e>> \o q) \in Seq(S) /\ Len(Tail(<<e>> \o q)) = Len(q)
        /\ \A i \in 1..Len(q) : Tail(<<e>> \o q)[i] = q[i]
    BY <1>2, <1>3, HeadTailProperties
  <2> QED BY <2>1, SeqEqual
<1> QED BY <1>2, <1>3, <1>4

\* What is pending, by the place of the process and the state of the channel.
PendingShape ==
    /\ pc = "busy" => Pending = <<id>> \o full
    /\ pc # "busy" /\ ~te => Pending = busy \o full
    /\ pc # "busy" /\ te => Pending = full
    /\ pc # "busy" /\ busy = <<>> => Pending = full

LEMMA PendingIs == Inv => PendingShape
<1> SUFFICES ASSUME Inv PROVE PendingShape
  OBVIOUS
<1> USE DEF PendingShape
<1>1. full \in Seq(Ids) /\ busy \in Seq(Ids)
  BY DEF Inv, Types, TypeOK
<1>2. \A q \in Seq(Ids) : <<>> \o q = q /\ q \o <<>> = q
  BY ConcatEmptySeq
<1>3. CASE pc = "busy"
  <2>1. busy = <<>> /\ ~te /\ id \in Ids
    BY <1>3, FragAssumption DEF Inv, Control, BuffersConserved, InHand, Types, TypeOK, Ids
  <2>2. <<id>> \in Seq(Ids)
    BY <2>1
  <2> QED BY <1>2, <1>3, <2>1, <2>2 DEF Pending
<1>4. CASE pc # "busy"
  <2>1. Pending = (<<>> \o (IF te THEN <<>> ELSE busy)) \o full
    BY <1>4 DEF Pending
  <2>2. <<>> \o <<>> = <<>> /\ <<>> \o busy = busy /\ <<>> \o full = full
    BY <1>1, <1>2
  <2> QED BY <1>4, <2>1, <2>2
<1> QED BY <1>3, <1>4

LEMMA PendingIsNext == Inv' => PendingShape'
BY PendingIs, PTL

\* Only buffers that exist and that are not free are pending.
LEMMA PendingType ==
    Inv => /\ Pending \in Seq(Ids)
           /\ pc # "oops" => Range(Pending) \cap Range(empty) = {}
<1> SUFFICES ASSUME Inv
             PROVE  /\ Pending \in Seq(Ids)
                    /\ pc # "oops" => Range(Pending) \cap Range(empty) = {}
  OBVIOUS
<1>1. full \in Seq(Ids) /\ busy \in Seq(Ids)
  BY DEF Inv, Types, TypeOK
<1>2. CASE pc = "busy"
  <2>1. id \in Ids /\ id \notin Range(empty) /\ Range(full) \cap Range(empty) = {}
    BY <1>2, FragAssumption DEF Inv, BuffersConserved, InHand, Types, TypeOK, Ids
  <2>2. <<id>> \in Seq(Ids) /\ Range(<<id>>) = {id}
    BY <2>1, SingleRange
  <2> DEFINE one == <<id>>
  <2> HIDE DEF one
  <2>3. one \o full \in Seq(Ids) /\ Range(one \o full) = Range(one) \cup Range(full)
    <3>1. one \in Seq(Ids)
      BY <2>2 DEF one
    <3> QED BY <1>1, <3>1, RangeConcatenation
  <2> QED BY <1>2, <2>1, <2>2, <2>3, PendingIs DEF one, PendingShape
<1>3. CASE pc # "busy"
  <2>1. busy \o full \in Seq(Ids) /\ Range(busy \o full) = Range(busy) \cup Range(full)
    BY <1>1, RangeConcatenation
  <2>2. pc # "oops" => (Range(busy) \cup Range(full)) \cap Range(empty) = {}
    BY DEF Inv, BuffersConserved
  <2>3. Pending = full \/ Pending = busy \o full
    BY <1>3, PendingIs DEF PendingShape
  <2> QED BY <1>1, <2>1, <2>2, <2>3
<1> QED BY <1>2, <1>3

\* What the queue is about to accept came from the program.
Filled == pc = "queue" => content[id] \in Data

LEMMA FilledNext == ASSUME Inv, Filled, [Next]_vars PROVE Filled'
<1> USE DEF Filled, queueVars, procVars, fileVars, dmaVars
<1>1. CASE Get
  <2>1. CASE empty = <<>> \/ Head(empty) = None
    BY <1>1, <2>1 DEF Get
  <2>2. CASE ~(empty = <<>> \/ Head(empty) = None)
    <3>1. PICK d \in Data : content' = [content EXCEPT ![Head(empty)] = d]
      BY <1>1, <2>2 DEF Get
    <3>2. id' = Head(empty) /\ Head(empty) \in Ids
      BY <1>1, <2>2, TailRange DEF Get, Inv, Types
    <3>3. content'[id'] = d
      BY <3>1, <3>2 DEF Inv, Types, TypeOK
    <3> QED BY <3>3
  <2> QED BY <2>1, <2>2
<1>2. CASE Call
  <2>1. pc' # "queue" \/ UNCHANGED <<pc, content, id>>
    BY <1>2 DEF Call, Open, OpenBusy, SetNonblock, Write, Drain, SetFragment, vars
  <2> QED BY <2>1
<1>3. CASE Process /\ ~Get
  BY <1>3 DEF Process, Check, SleepOn, Queue, WriteBack, Kick, Pull, PutBusy, StartDma, Again,
     DrainExpires, DrainCheck, DrainResidue, DrainDone, ReleaseDisable, InitQueues
<1>4. CASE DmaEnd \/ ReplayIrq \/ Oops \/ UNCHANGED vars
  BY <1>4 DEF DmaEnd, ReplayIrq, Oops, vars
<1> QED BY <1>1, <1>2, <1>3, <1>4 DEF Next
LEMMA FifoInit == Init => Fifo!Init
BY DEF Init, Fifo!Init, Unheard

\* A step that neither accepts nor sends a fragment.
LEMMA FifoStutter ==
    ASSUME UNCHANGED <<opened, heard, torn>>,
           opened => Contents(Pending', content') = Contents(Pending, content)
    PROVE  UNCHANGED Fifo!fifoVars
<1>1. Unheard = IF opened THEN Contents(Pending, content) ELSE <<>>
  BY DEF Unheard, Contents
<1>2. Unheard' = IF opened' THEN Contents(Pending', content') ELSE <<>>
  BY DEF Unheard, Contents
<1> QED BY <1>1, <1>2 DEF Fifo!fifoVars

\* A step that leaves the queues and the channel alone, outside the hand-over
\* from out_full_queue to out_busy_queue.
LEMMA FifoIdle ==
    ASSUME UNCHANGED <<opened, heard, torn, full, busy, te, content, id>>, pc # "busy", pc' # "busy"
    PROVE  UNCHANGED Fifo!fifoVars
<1>1. Pending' = Pending
  BY DEF Pending
<1> QED BY <1>1, FifoStutter

LEMMA FifoOpen == ASSUME Inv, Inv', Open PROVE Fifo!Open
<1>1. ~opened /\ opened' = TRUE /\ full' = <<>> /\ busy' = <<>> /\ pc' # "busy"
      /\ UNCHANGED <<heard, torn>>
  BY DEF Open, dmaVars
<1>2. Pending' = <<>>
  BY <1>1, PendingIsNext DEF PendingShape
<1>3. Unheard' = <<>>
  BY <1>2 DEF Unheard
<1> QED BY <1>1, <1>3 DEF Fifo!Open

LEMMA FifoClose == ASSUME Inv, ReleaseDisable PROVE Fifo!Close
<1>1. opened
  BY DEF Inv, Control, ReleaseDisable, Types, TypeOK
<1> QED BY <1>1 DEF ReleaseDisable, Fifo!Close, Unheard

\* With a fragment in the writer's hand, there is room for one more.
LEMMA PendingRoom == ASSUME Inv, pc = "queue" PROVE Len(Pending) < MaxFrags
<1>1. full \in Seq(Ids) /\ IsInjective(full) /\ MaxFrags \in Nat /\ Len(full) \in Nat
  BY FragAssumption DEF Inv, Types, TypeOK, BuffersConserved
<1>2. /\ InHand = {id} /\ id \notin Range(full) /\ id \notin Range(busy)
      /\ Range(full) \subseteq Ids /\ Range(busy) \subseteq Ids /\ id \in Ids
      /\ Range(full) \cap Range(busy) = {}
  <2>1. InHand = {id}
    BY DEF InHand
  <2>2. 0 .. fragstotal - 1 \subseteq Ids
    BY FragAssumption DEF Inv, Types, TypeOK, Ids
  <2> QED BY <2>1, <2>2 DEF Inv, BuffersConserved
<1>3. IsFiniteSet(Ids) /\ Cardinality(Ids) = MaxFrags
  BY <1>1, FS_Interval DEF Ids
<1>4. IsFiniteSet(Range(full)) /\ Cardinality(Range(full)) = Len(full)
  BY <1>1, LenIsCardinality
<1> DEFINE F == Range(full)
<1> HIDE DEF F
<1>5. IsFiniteSet(F \cup {id}) /\ Cardinality(F \cup {id}) = Len(full) + 1
  <2>1. IsFiniteSet(F) /\ Cardinality(F) = Len(full) /\ id \notin F
    BY <1>2, <1>4 DEF F
  <2> QED BY <2>1, FS_AddElement
<1>6. CASE busy = <<>> \/ te
  <2>1. Pending = full
    BY <1>6, PendingIs DEF PendingShape
  <2>2. Cardinality(F \cup {id}) <= Cardinality(Ids)
    <3>1. F \cup {id} \in SUBSET Ids
      BY <1>2 DEF F
    <3> QED BY <1>3, <3>1, FS_Subset
  <2> QED BY <1>1, <1>3, <1>5, <2>1, <2>2
<1>7. CASE busy # <<>> /\ ~te
  <2>1. opened /\ dma # None /\ busy = <<dma>> /\ Range(busy) = {dma} /\ dma \in Ids
    BY <1>7, SingleRange DEF Inv, Control, PlaybackDriven, Types, TypeOK
  <2>2. Pending = <<dma>> \o full
    BY <1>7, <2>1, PendingIs DEF PendingShape
  <2>3. Len(Pending) = Len(full) + 1
    BY <1>1, <2>1, <2>2, ConsProperties
  <2> DEFINE G == F \cup {id}
  <2>4. dma \notin G /\ G \cup {dma} \in SUBSET Ids
    BY <1>2, <2>1 DEF F
  <2> HIDE DEF G
  <2>5. Cardinality(G \cup {dma}) = Cardinality(G) + 1 /\ IsFiniteSet(G)
    <3>1. IsFiniteSet(G)
      BY <1>5 DEF G
    <3> QED BY <3>1, <2>4, FS_AddElement
  <2>6. Cardinality(G \cup {dma}) <= Cardinality(Ids)
    BY <1>3, <2>4, FS_Subset
  <2>7. Cardinality(G) = Len(full) + 1
    BY <1>5 DEF G
  <2> QED BY <1>1, <1>3, <2>3, <2>5, <2>6, <2>7
<1> QED BY <1>6, <1>7

\* put_buffer_id(&out_full_queue) accepts a fragment.
LEMMA FifoQueue == ASSUME Inv, Inv', Filled, Queue PROVE Fifo!Accept
<1>1. /\ full' = Append(full, id) /\ pc = "queue" /\ pc' = "wback"
      /\ UNCHANGED <<opened, heard, torn, busy, te, content, id>>
  BY DEF Queue, fileVars, dmaVars
<1>2. opened
  BY <1>1 DEF Inv, Control, Types, TypeOK
<1>3. id \in Ids /\ full \in Seq(Ids) /\ busy \in Seq(Ids) /\ te \in BOOLEAN
  <2>1. id \in 0 .. fragstotal - 1
    BY <1>1 DEF Inv, BuffersConserved, InHand
  <2> QED BY <2>1, FragAssumption DEF Inv, Types, TypeOK, Ids
<1>4. Pending' = Append(Pending, id) /\ Pending \in Seq(Ids)
  <2>1. CASE te
    BY <1>1, <1>3, <2>1, PendingIs, PendingIsNext DEF PendingShape
  <2>2. CASE ~te
    <3>1. Pending = busy \o full /\ Pending' = busy \o Append(full, id)
      BY <1>1, <2>2, PendingIs, PendingIsNext DEF PendingShape
    <3>2. <<id>> \in Seq(Ids) /\ busy \o full \in Seq(Ids)
      BY <1>3
    <3>3. /\ Append(full, id) = full \o <<id>>
          /\ Append(busy \o full, id) = (busy \o full) \o <<id>>
      BY <1>3, <3>2, AppendIsConcat
    <3>4. (busy \o full) \o <<id>> = busy \o (full \o <<id>>)
      BY <1>3, <3>2, ConcatAssociative
    <3> QED BY <3>1, <3>2, <3>3, <3>4
  <2> QED BY <1>3, <2>1, <2>2
<1>5. content \in [Ids -> Fragments] /\ content[id] \in Data
  BY <1>1 DEF Inv, Types, TypeOK, Fragments, Filled
<1>6. Contents(Append(Pending, id), content) = Append(Contents(Pending, content), content[id])
  BY <1>3, <1>4, <1>5, ContentsAppend
<1>7. Unheard = Contents(Pending, content) /\ Unheard' = Contents(Pending', content')
  BY <1>1, <1>2 DEF Unheard, Contents
<1>8. Unheard' = Append(Unheard, content[id])
  BY <1>1, <1>4, <1>6, <1>7
<1>9. Len(Unheard) < MaxFrags
  BY <1>1, <1>4, <1>5, <1>7, PendingRoom, ContentsType
<1> QED BY <1>1, <1>2, <1>5, <1>8, <1>9 DEF Fifo!Accept

\* The end of a transfer: the oldest fragment has been heard.
LEMMA FifoDmaEnd == ASSUME Inv, Inv', DmaEnd PROVE Fifo!Play
<1>1. /\ dma # None /\ ~te /\ te' /\ heard' = content[dma] /\ torn' \in BOOLEAN
      /\ UNCHANGED <<opened, full, busy, content, pc, dma>>
  BY DEF DmaEnd, queueVars, fileVars, Inv, Types, TypeOK
<1>2. opened /\ pc # "busy" /\ busy = <<dma>> /\ dma \in Ids /\ full \in Seq(Ids)
  BY <1>1 DEF Inv, Control, PlaybackDriven, Types, TypeOK
<1>3. Pending = <<dma>> \o full /\ Pending' = full
  BY <1>1, <1>2, PendingIs, PendingIsNext DEF PendingShape
<1>4. Pending \in Seq(Ids) /\ Pending # <<>> /\ Head(Pending) = dma /\ Pending' = Tail(Pending)
  BY <1>2, <1>3, ConsProperties
<1>5. content \in [Ids -> Fragments]
  BY DEF Inv, Types, TypeOK, Fragments
<1>6. Unheard = Contents(Pending, content) /\ Unheard' = Contents(Tail(Pending), content)
  BY <1>1, <1>2, <1>4 DEF Unheard, Contents
<1>7. Unheard # <<>> /\ Head(Unheard) = content[dma] /\ Unheard' = Tail(Unheard)
  BY <1>4, <1>5, <1>6, ContentsTail
<1> QED BY <1>1, <1>2, <1>7 DEF Fifo!Play

\* The fragment being filled is not pending yet.
LEMMA FifoGet == ASSUME Inv, Get PROVE UNCHANGED Fifo!fifoVars
<1>1. /\ pc = "get" /\ pc' # "busy" /\ UNCHANGED <<full, busy, te, opened, heard, torn>>
  BY DEF Get, fileVars, dmaVars
<1>2. Pending' = Pending
  BY <1>1 DEF Pending
<1>3. CASE empty = <<>> \/ Head(empty) = None
  BY <1>1, <1>2, <1>3, FifoStutter DEF Get
<1>4. CASE ~(empty = <<>> \/ Head(empty) = None)
  <2>1. PICK d \in Data : content' = [content EXCEPT ![Head(empty)] = d]
    BY <1>4 DEF Get
  <2>2. Head(empty) \in Ids /\ Head(empty) \in Range(empty)
    BY <1>4, TailRange DEF Inv, Types
  <2>3. Pending \in Seq(Ids) /\ Head(empty) \notin Range(Pending)
    BY <1>1, <2>2, PendingType
  <2>4. content \in [Ids -> Fragments] /\ d \in Fragments
    BY DEF Inv, Types, TypeOK, Fragments
  <2>5. Contents(Pending, content') = Contents(Pending, content)
    BY <2>1, <2>2, <2>3, <2>4, ContentsElsewhere
  <2> QED BY <1>1, <1>2, <2>5, FifoStutter
<1> QED BY <1>3, <1>4

\* The buffer on its way from out_full_queue to the channel stays the oldest.
LEMMA FifoHandOver ==
    ASSUME Inv, Inv', Pull \/ PutBusy \/ StartDma PROVE UNCHANGED Fifo!fifoVars
<1>1. full \in Seq(Ids) /\ UNCHANGED <<opened, heard, torn, content>>
  BY DEF Inv, Types, TypeOK, Pull, PutBusy, StartDma, fileVars, dmaVars
<1>2. Pending' = Pending
  <2>1. CASE Pull /\ full = <<>>
    BY <2>1 DEF Pull, Again, dmaVars, Pending
  <2>2. CASE Pull /\ full # <<>>
    <3>1. Pending = full /\ Pending' = <<Head(full)>> \o Tail(full)
      BY <2>2, PendingIs, PendingIsNext DEF PendingShape, Pull, Inv, Control
    <3> QED BY <1>1, <2>2, <3>1, HeadThenTail
  <2>3. CASE PutBusy
    <3>1. busy' = <<id>> /\ ~te' /\ full' = full /\ pc = "busy" /\ pc' # "busy"
      BY <2>3 DEF PutBusy, Inv, Control, dmaVars
    <3> QED BY <3>1, PendingIs, PendingIsNext DEF PendingShape
  <2>4. CASE StartDma
    <3>1. ~te /\ ~te' /\ full' = full /\ busy' = busy /\ pc # "busy" /\ pc' # "busy"
      BY <2>4 DEF StartDma, Inv, Control, queueVars, Again
    <3> QED BY <3>1, PendingIs, PendingIsNext DEF PendingShape
  <2> QED BY <2>1, <2>2, <2>3, <2>4
<1> QED BY <1>1, <1>2, FifoStutter

\* The interrupt sends the next fragment without changing the order.
LEMMA FifoReplayIrq == ASSUME Inv, Inv', ReplayIrq PROVE UNCHANGED Fifo!fifoVars
<1>1. te /\ ~te' /\ UNCHANGED <<opened, heard, torn, content>>
  BY DEF ReplayIrq, fileVars
<1>2. busy # <<>> /\ Tail(busy) = <<>> /\ pc # "busy" /\ memory = "ok" /\ full \in Seq(Ids)
  BY <1>1, SingleRange DEF Inv, Control, PlaybackDriven, Types, TypeOK
<1>3. pc' # "busy"
  BY <1>2 DEF ReplayIrq
<1>4. Pending = full /\ Pending' = busy' \o full'
  BY <1>1, <1>2, <1>3, PendingIs, PendingIsNext DEF PendingShape
<1>5. CASE full = <<>>
  <2>1. busy' = <<>> /\ full' = <<>>
    BY <1>5 DEF ReplayIrq
  <2>2. Pending' = <<>>
    BY <1>3, <2>1, PendingIsNext DEF PendingShape
  <2> QED BY <1>1, <1>4, <1>5, <2>2, FifoStutter
<1>6. CASE full # <<>>
  <2>1. busy' = <<Head(full)>> /\ full' = Tail(full)
    BY <1>2, <1>6, SingleRange DEF ReplayIrq
  <2>2. Pending' = Pending
    BY <1>2, <1>4, <1>6, <2>1, HeadThenTail
  <2> QED BY <1>1, <2>2, FifoStutter
<1> QED BY <1>5, <1>6

\* A layout is changed before anything is written.
LEMMA FifoSetFragment ==
    ASSUME EarlySetfrag, Inv, Inv', InitQueues \/ \E t \in 0..MaxRequest : SetFragment(t)
    PROVE  UNCHANGED Fifo!fifoVars
<1>1. /\ full' = <<>> /\ busy' = <<>> /\ pc # "busy" /\ pc' # "busy" /\ ~wrote
      /\ UNCHANGED <<opened, heard, torn, content>>
  BY DEF InitQueues, SetFragment, Inv, Control, fileVars, dmaVars
<1>2. full = <<>> /\ busy = <<>>
  BY <1>1 DEF Inv, Control
<1>3. Pending = <<>> /\ Pending' = <<>>
  BY <1>1, <1>2, PendingIs, PendingIsNext DEF PendingShape
<1> QED BY <1>1, <1>3, FifoStutter

LEMMA FifoNext ==
    ASSUME EarlySetfrag, Inv, Inv', Filled, [Next]_vars
    PROVE  [Fifo!Next]_(Fifo!fifoVars)
<1> USE DEF queueVars, procVars, fileVars, dmaVars
<1>1. CASE Open \/ ReleaseDisable \/ Queue \/ DmaEnd
  BY <1>1, FifoOpen, FifoClose, FifoQueue, FifoDmaEnd DEF Fifo!Next
<1>2. CASE Get \/ Pull \/ PutBusy \/ StartDma \/ ReplayIrq
  BY <1>2, FifoGet, FifoHandOver, FifoReplayIrq
<1>3. CASE InitQueues \/ \E t \in 0..MaxRequest : SetFragment(t)
  BY <1>3, FifoSetFragment
<1>4. CASE OpenBusy \/ Oops \/ UNCHANGED vars
  <2>1. UNCHANGED <<opened, heard, torn, content, pc, id, te, busy, full>>
    BY <1>4 DEF OpenBusy, Oops, vars
  <2>2. Pending' = Pending
    BY <2>1 DEF Pending
  <2> QED BY <2>1, <2>2, FifoStutter
<1>5. CASE SetNonblock \/ (\E n \in 1..MaxWrite : Write(n))
           \/ (\E call \in {"sync", "release"} : Drain(call))
  BY <1>5, FifoIdle DEF SetNonblock, Write, Drain
<1>6. CASE Check \/ SleepOn \/ WriteBack \/ Kick
  BY <1>6, FifoIdle DEF Check, SleepOn, WriteBack, Kick, Again
<1>7. CASE DrainExpires \/ DrainCheck \/ DrainResidue \/ DrainDone
  BY <1>7, FifoIdle DEF DrainExpires, DrainCheck, DrainResidue, DrainDone
<1> QED BY <1>1, <1>2, <1>3, <1>4, <1>5, <1>6, <1>7 DEF Next, Call, Process

\* For programs that set the fragment layout before they write, and for any
\* number of fragments, the playback driver implements AudioFifo: what write()
\* queued is sent to the codec once and in order, whoever starts the transfer,
\* and what was not heard is dropped only when the device is closed.  A fragment
\* that the interrupt starts before its write-back may begin with old samples;
\* CacheWindow says when that can happen.
THEOREM ReplayImplementsFifo ==
    ASSUME EarlySetfrag
    PROVE  Spec => FifoSafety
<1>1. Init => Filled
  BY DEF Init, Filled
<1>2. Inv /\ Filled /\ [Next]_vars => Filled'
  BY FilledNext
<1>3. Inv /\ [Next]_vars => Inv'
  BY InvNext
<1>4. Inv /\ Inv' /\ Filled /\ [Next]_vars => [Fifo!Next]_(Fifo!fifoVars)
  BY FifoNext
<1> QED BY InvInit, FifoInit, <1>1, <1>2, <1>3, <1>4, PTL DEF Spec, FifoSafety, Fifo!Safety

-----------------------------------------------------------------------------
(* The sample arithmetic of playback (I2sFill), for every page size that   *)
(* is a multiple of 16 and every byte count a program may write: the       *)
(* inductive invariant.                                                    *)

\* The filler and its expansion follow the format and the channels once both
\* are set.
FillerFollows ==
    IF format # "none" /\ channels # 0
      THEN filler = <<format, channels>> /\ b = Expand(format)
      ELSE filler = NoFiller

\* Inside the loop of jz_audio_write copy is the size of a whole fragment.
Cutting == ret # count => filler # NoFiller /\ copy = CopyCount

Counting == FillTypeOK /\ FillerFollows /\ Cutting

-----------------------------------------------------------------------------
(* Numbers.                                                                *)

\* A fragment is a number of 16-byte DMA units.
LEMMA WholeUnits ==
    ASSUME FillTypeOK
    PROVE  \E u \in Nat \ {0} : fragsize = 16 * u
<1>0. PAGE_SIZE = 16 * (PAGE_SIZE \div 16) /\ PAGE_SIZE \div 16 \in Int
  BY FillAssumption
<1>1. PICK m \in Int : PAGE_SIZE = 16 * m
  BY <1>0
<1>2. m \in Nat \ {0}
  BY <1>1, FillAssumption
<1>3. PICK p \in {4, 5, 8, 16} : fragsize = p * PAGE_SIZE
  BY DEF FillTypeOK
<1>4. fragsize = 16 * (p * m) /\ p * m \in Nat \ {0}
  <2>1. CASE p = 4
    BY <1>1, <1>2, <1>3, <2>1
  <2>2. CASE p = 5
    BY <1>1, <1>2, <1>3, <2>2
  <2>3. CASE p = 8
    BY <1>1, <1>2, <1>3, <2>3
  <2>4. CASE p = 16
    BY <1>1, <1>2, <1>3, <2>4
  <2> QED BY <2>1, <2>2, <2>3, <2>4
<1> QED BY <1>4

\* What the filler makes of n bytes of a program.
LEMMA FillerCounts ==
    ASSUME NEW f \in {"U8", "S16"}, NEW c \in {1, 2}, NEW n \in Nat,
           filler = <<f, c>>, b = Expand(f)
    PROVE  /\ f = "U8" /\ c = 1 => 4 * Words(n) = 8 * n /\ DataCount(n) = 8 * n
           /\ f = "U8" /\ c = 2 => 4 * Words(n) = 4 * n /\ DataCount(n) = 4 * n
           /\ f = "S16" /\ c = 1 => 4 * Words(n) = 8 * ((n + 1) \div 2) /\ DataCount(n) = 8 * ((n + 1) \div 2)
           /\ f = "S16" /\ c = 2 => 4 * Words(n) = 4 * ((n + 1) \div 2) /\ DataCount(n) = 4 * ((n + 1) \div 2)
<1>1. filler[1] = f /\ filler[2] = c
  OBVIOUS
<1>2. CASE f = "U8"
  <2>1. Samples(n) = n /\ b = 4
    BY <1>1, <1>2 DEF Samples, Expand
  <2> QED BY <1>1, <1>2, <2>1 DEF Words, DataCount
<1>3. CASE f = "S16"
  <2> DEFINE h == (n + 1) \div 2
  <2>1. Samples(n) = h /\ b = 2 /\ h \in Nat
    BY <1>1, <1>3 DEF Samples, Expand
  <2>2. Words(n) = (IF c = 1 THEN 2 * h ELSE h)
    BY <1>1, <2>1 DEF Words
  <2>3. DataCount(n) = (2 * h) * (IF c = 1 THEN 4 ELSE 2)
    BY <1>1, <1>3, <2>1 DEF DataCount
  <2> HIDE DEF h
  <2> QED BY <1>3, <2>1, <2>2, <2>3 DEF h
<1> QED BY <1>2, <1>3

\* The bytes of a program that fill u units of 16 bytes.
LEMMA CopyCounts ==
    ASSUME Counting, filler # NoFiller, NEW u \in Nat \ {0}, fragsize = 16 * u
    PROVE  /\ format \in {"U8", "S16"} /\ channels \in {1, 2}
           /\ filler = <<format, channels>> /\ b = Expand(format)
           /\ format = "S16" /\ channels = 2 => CopyCount = 8 * u
           /\ ~(format = "S16" /\ channels = 2) => CopyCount = 4 * u
           /\ CopyCount \in Nat \ {0}
<1>1. format \in {"U8", "S16"} /\ channels \in {1, 2} /\ filler = <<format, channels>> /\ b = Expand(format)
  BY DEF Counting, FillTypeOK, FillerFollows
<1>2. /\ format = "S16" /\ channels = 2 => CopyCount = 8 * u
      /\ ~(format = "S16" /\ channels = 2) => CopyCount = 4 * u
  BY <1>1 DEF CopyCount, Expand
<1> QED BY <1>1, <1>2

-----------------------------------------------------------------------------
(* The steps.                                                              *)

\* The ioctls: jz_update_filler keeps the filler in step with both settings.
LEMMA SettingsInv ==
    ASSUME Counting, (\E f \in {"U8", "S16"} : SetFormat(f)) \/ (\E c \in {1, 2} : SetChannels(c))
    PROVE  Counting'
<1>1. /\ format' \in {"none", "U8", "S16"} /\ channels' \in 0..2
      /\ update_filler(format', channels') /\ Idle
      /\ format' = "none" => format = "none"
      /\ channels' = 0 => channels = 0
      /\ UNCHANGED <<fragsize, ds, count, ret, copy, stored, data_count, units>>
  BY DEF SetFormat, SetChannels, Counting, FillTypeOK
<1>2. FillerFollows'
  BY <1>1 DEF Counting, update_filler, FillerFollows, NoFiller
<1>3. filler' \in {"none", "U8", "S16"} \X (0..2) /\ b' \in {0, 2, 4}
  BY <1>1 DEF Counting, FillTypeOK, update_filler, Expand
<1>4. FillTypeOK'
  BY <1>1, <1>3 DEF Counting, FillTypeOK
<1>5. Cutting'
  BY <1>1 DEF Cutting, Idle
<1> QED BY <1>2, <1>4, <1>5 DEF Counting

LEMMA FragsizeInv == ASSUME Counting, NEW p \in {4, 8, 16}, SetFragsize(p) PROVE Counting'
<1>1. FillTypeOK'
  BY DEF SetFragsize, Counting, FillTypeOK
<1>2. FillerFollows'
  BY DEF SetFragsize, Counting, FillerFollows, NoFiller
<1>3. Cutting'
  BY DEF SetFragsize, Cutting, Idle
<1> QED BY <1>1, <1>2, <1>3 DEF Counting

LEMMA FillWriteInv == ASSUME Counting, NEW n \in Counts, FillWrite(n) PROVE Counting'
<1>1. PICK u \in Nat \ {0} : fragsize = 16 * u
  BY WholeUnits DEF Counting
<1>2. CopyCount \in Nat \ {0} /\ n \in Nat \ {0}
  BY <1>1, CopyCounts, FillAssumption DEF FillWrite
<1>3. FillTypeOK'
  BY <1>2 DEF FillWrite, Counting, FillTypeOK
<1>4. FillerFollows'
  BY DEF FillWrite, Counting, FillerFollows, NoFiller
<1>5. Cutting'
  BY DEF FillWrite, Cutting, CopyCount, NoFiller
<1> QED BY <1>3, <1>4, <1>5 DEF Counting

\* One turn of the loop of jz_audio_write.
LEMMA FillStep ==
    ASSUME Counting, Fill, NEW u \in Nat \ {0}, fragsize = 16 * u
    PROVE  /\ LastCopy \in Nat \ {0} /\ ret + LastCopy <= count /\ LastCopy <= CopyCount
           /\ ret' < count => LastCopy = CopyCount
<1>1. ret # count /\ copy = CopyCount /\ CopyCount \in Nat \ {0} /\ ret \in 0..count /\ count \in Nat
  BY CopyCounts DEF Fill, Idle, Counting, Cutting, FillTypeOK
<1>2. ret' = ret + LastCopy
  BY DEF Fill
<1>3. LastCopy = IF ret + copy > count THEN count - ret ELSE copy
  BY DEF LastCopy
<1> HIDE DEF Counting
<1> QED BY <1>1, <1>2, <1>3

LEMMA FillStepInv == ASSUME Counting, Fill PROVE Counting'
<1>1. PICK u \in Nat \ {0} : fragsize = 16 * u
  BY WholeUnits DEF Counting
<1>2. /\ LastCopy \in Nat \ {0} /\ ret + LastCopy <= count
      /\ ret' < count => LastCopy = CopyCount
  BY <1>1, FillStep
<1>3. filler # NoFiller /\ ret \in 0..count /\ count \in Nat /\ ds \in {4, 16}
  BY DEF Fill, Idle, Counting, Cutting, FillTypeOK
<1>4. format \in {"U8", "S16"} /\ channels \in {1, 2} /\ filler = <<format, channels>> /\ b = Expand(format)
  BY <1>1, <1>3, CopyCounts
<1> DEFINE n == LastCopy
<1>5. 4 * Words(n) \in Nat /\ DataCount(n) \in Nat
  <2>1. n \in Nat /\ (n + 1) \div 2 \in Nat
    BY <1>2
  <2> HIDE DEF n
  <2> QED BY <1>4, <2>1, FillerCounts
<1>6. /\ copy' = n /\ ret' = ret + n /\ stored' = 4 * Words(n) /\ data_count' = DataCount(n)
      /\ ds' = (IF format = "S16" THEN 16 ELSE ds) /\ units' = data_count' \div ds'
      /\ UNCHANGED <<format, channels, filler, b, fragsize, count>>
  BY DEF Fill
<1> HIDE DEF n
<1>7. ds' \in {4, 16}
  BY <1>3, <1>6
<1>8. units' \in Nat
  BY <1>5, <1>6, <1>7
<1>9. FillTypeOK'
  <2>1. ret' \in 0..count' /\ copy' \in Nat
    BY <1>2, <1>3, <1>6 DEF n
  <2> QED BY <1>5, <1>6, <1>7, <1>8, <2>1 DEF Counting, FillTypeOK
<1>10. FillerFollows'
  BY <1>6 DEF Counting, FillerFollows, NoFiller
<1>11. Cutting'
  <2> SUFFICES ASSUME ret' # count' PROVE filler' # NoFiller /\ copy' = CopyCount'
    BY DEF Cutting, NoFiller
  <2>1. ret' < count
    BY <1>2, <1>3, <1>6 DEF n
  <2> QED BY <1>2, <1>3, <1>6, <2>1 DEF n, CopyCount, NoFiller
<1> QED BY <1>9, <1>10, <1>11 DEF Counting

LEMMA CountingInit == FillInit => Counting
<1> SUFFICES ASSUME FillInit PROVE Counting
  OBVIOUS
<1>1. FillTypeOK
  BY FillAssumption DEF FillInit, FillTypeOK, NoFiller
<1>2. FillerFollows /\ Cutting
  BY DEF FillInit, FillerFollows, Cutting
<1> QED BY <1>1, <1>2 DEF Counting

LEMMA CountingNext == ASSUME Counting, [FillNext]_fillVars PROVE Counting'
<1>1. CASE UNCHANGED fillVars
  BY <1>1 DEF fillVars, Counting, FillTypeOK, FillerFollows, Cutting, CopyCount, NoFiller
<1> QED BY <1>1, SettingsInv, FragsizeInv, FillWriteInv, FillStepInv DEF FillNext

-----------------------------------------------------------------------------
\* SNDCTL_DSP_GETOSPACE offers exactly the bytes that fill the empty fragments,
\* whatever page size, formats, channels and fragment sizes were set before.
THEOREM SpaceHonest == FillSpec => []SpaceIsHonest
<1>1. Counting => SpaceIsHonest
  <2> SUFFICES ASSUME Counting, filler # NoFiller, NEW n \in 1..32
               PROVE  OSpaceBytes(n) = n * CopyCount /\ CopyCount > 0
    BY DEF SpaceIsHonest, Counting
  <2>1. PICK u \in Nat \ {0} : fragsize = 16 * u
    BY WholeUnits DEF Counting
  <2>2. /\ format \in {"U8", "S16"} /\ channels \in {1, 2} /\ b = Expand(format)
        /\ format = "S16" /\ channels = 2 => CopyCount = 8 * u
        /\ ~(format = "S16" /\ channels = 2) => CopyCount = 4 * u
    BY <2>1, CopyCounts
  <2> DEFINE x == n * u
  <2>3. x \in Nat /\ n * fragsize = 16 * x /\ n * (8 * u) = 8 * x /\ n * (4 * u) = 4 * x
    BY <2>1
  <2>4. b \in {2, 4} /\ (format = "S16" => b = 2) /\ (format = "U8" => b = 4)
    BY <2>2 DEF Expand
  <2> DEFINE y == n * fragsize
  <2>5. y = 16 * x
    BY <2>3
  <2>6. OSpaceBytes(n) = IF channels = 2 THEN y \div b ELSE y \div 4
    BY DEF OSpaceBytes
  <2> HIDE DEF x, y
  <2>7. y \div 4 = 4 * x /\ y \div 2 = 8 * x
    BY <2>3, <2>5
  <2>8. CASE format = "S16" /\ channels = 2
    BY <2>1, <2>2, <2>3, <2>4, <2>6, <2>7, <2>8
  <2>9. CASE ~(format = "S16" /\ channels = 2)
    BY <2>1, <2>2, <2>3, <2>4, <2>6, <2>7, <2>9
  <2> QED BY <2>8, <2>9
<1>2. Counting /\ [FillNext]_fillVars => Counting'
  BY CountingNext
<1> QED BY CountingInit, <1>1, <1>2, PTL DEF FillSpec

\* For every page size and every count: a filled fragment fits its buffer unless it
\* is 8-bit mono, and the DMA channel is told to send all of a fragment that is
\* not the last one of its write.
THEOREM FragmentsRight == FillSpec => FitsUnlessMono8 /\ FragmentsSentWhole
<1>1. ASSUME Counting, Fill
      PROVE  /\ filler # <<"U8", 1>> => stored' <= fragsize
             /\ ret' < count => units' * ds' = stored'
  <2>1. PICK u \in Nat \ {0} : fragsize = 16 * u
    BY <1>1, WholeUnits DEF Counting
  <2>2. /\ LastCopy \in Nat \ {0} /\ LastCopy <= CopyCount
        /\ ret' < count => LastCopy = CopyCount
    BY <1>1, <2>1, FillStep
  <2>3. filler # NoFiller /\ ds \in {4, 16}
    BY <1>1 DEF Fill, Idle, Counting, Cutting, FillTypeOK
  <2>4. /\ format \in {"U8", "S16"} /\ channels \in {1, 2} /\ filler = <<format, channels>>
        /\ b = Expand(format)
        /\ format = "S16" /\ channels = 2 => CopyCount = 8 * u
        /\ ~(format = "S16" /\ channels = 2) => CopyCount = 4 * u
    BY <1>1, <2>1, <2>3, CopyCounts
  <2> DEFINE n == LastCopy
             h == (n + 1) \div 2
  <2>5. /\ stored' = 4 * Words(n) /\ units' = DataCount(n) \div ds'
        /\ ds' = (IF format = "S16" THEN 16 ELSE ds)
    BY <1>1 DEF Fill
  <2>6. n \in Nat /\ n <= CopyCount /\ h \in Nat /\ 2 * h <= n + 1 /\ (ret' < count => n = CopyCount)
    BY <2>2
  <2> HIDE DEF n
  <2>7. /\ format = "U8" /\ channels = 1 => 4 * Words(n) = 8 * n /\ DataCount(n) = 8 * n
        /\ format = "U8" /\ channels = 2 => 4 * Words(n) = 4 * n /\ DataCount(n) = 4 * n
        /\ format = "S16" /\ channels = 1 => 4 * Words(n) = 8 * h /\ DataCount(n) = 8 * h
        /\ format = "S16" /\ channels = 2 => 4 * Words(n) = 4 * h /\ DataCount(n) = 4 * h
    BY <2>4, <2>6, FillerCounts
  <2>8. \A v \in Nat : n = 8 * v => h = 4 * v
    OBVIOUS
  <2>9. \A v \in Nat : n = 4 * v => h = 2 * v
    OBVIOUS
  <2> DEFINE s == stored'
             d == ds'
             k == CopyCount
             last == ~(ret' < count)
  <2>10. d \in {4, 16}
    BY <2>3, <2>5
  <2> HIDE DEF h
  <2>11. s = DataCount(n) /\ units' = s \div d
    BY <2>4, <2>5, <2>7
  <2>12. filler # <<"U8", 1>> => ~(format = "U8" /\ channels = 1)
    BY <2>4
  <2>13. /\ ~(format = "U8" /\ channels = 1) => s <= 16 * u
         /\ last \/ \E v \in Nat : s = 16 * v
    <3> HIDE DEF s, k, last
    <3>1. s = 4 * Words(n) /\ n <= k /\ (last \/ n = k)
          /\ (format = "S16" /\ channels = 2 => k = 8 * u)
          /\ (~(format = "S16" /\ channels = 2) => k = 4 * u)
      BY <2>4, <2>5, <2>6 DEF s, k, last
    <3>2. CASE format = "U8" /\ channels = 1
      <4>1. s = 8 * n /\ k = 4 * u
        BY <2>7, <3>1, <3>2
      <4>2. last \/ s = 16 * (2 * u)
        BY <3>1, <4>1
      <4>3. 2 * u \in Nat
        OBVIOUS
      <4> QED BY <3>2, <4>2, <4>3
    <3>3. CASE format = "U8" /\ channels = 2
      <4>1. s = 4 * n /\ k = 4 * u
        BY <2>7, <3>1, <3>3
      <4> QED BY <2>6, <3>1, <4>1
    <3>4. CASE format = "S16" /\ channels = 1
      <4>1. s = 8 * h /\ k = 4 * u
        BY <2>7, <3>1, <3>4
      <4>2. h <= 2 * u
        BY <2>6, <3>1, <4>1
      <4> QED BY <2>6, <2>9, <3>1, <4>1, <4>2
    <3>5. CASE format = "S16" /\ channels = 2
      <4>1. s = 4 * h /\ k = 8 * u
        BY <2>7, <3>1, <3>5
      <4>2. h <= 4 * u
        BY <2>6, <3>1, <4>1
      <4> QED BY <2>6, <2>8, <3>1, <4>1, <4>2
    <3> QED BY <2>4, <3>2, <3>3, <3>4, <3>5
  <2>14. \A v \in Nat : ((16 * v) \div 4) * 4 = 16 * v /\ ((16 * v) \div 16) * 16 = 16 * v
    OBVIOUS
  <2>15. ret' < count => units' * ds' = stored'
    <3> SUFFICES ASSUME ret' < count PROVE (s \div d) * d = s
      BY <2>11
    <3>1. PICK v \in Nat : s = 16 * v
      BY <2>13
    <3> HIDE DEF s, d
    <3> QED BY <2>10, <2>14, <3>1
  <2> QED BY <2>1, <2>12, <2>13, <2>15
<1>2. Counting /\ [FillNext]_fillVars => Counting'
  BY CountingNext
<1>3. ASSUME Counting, [FillNext]_fillVars PROVE [Fill /\ filler # <<"U8", 1>> => stored' <= fragsize]_fillVars
  BY <1>1, <1>3
<1>4. ASSUME Counting, [FillNext]_fillVars PROVE [Fill /\ ret' < count => units' * ds' = stored']_fillVars
  BY <1>1, <1>4
<1> QED BY CountingInit, <1>2, <1>3, <1>4, PTL DEF FillSpec, FitsUnlessMono8, FragmentsSentWhole
=============================================================================
