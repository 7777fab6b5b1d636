----------------------------- MODULE UdcProofs -----------------------------
(***************************************************************************)
(* The data endpoints of the USB device controller driver, proved for any  *)
(* requests and any use a gadget driver makes of its endpoints: a request  *)
(* is given back once per submission, channel 2 never writes to one that   *)
(* was given back as completed, and an endpoint loses what drives it in    *)
(* four ways only.                                                        *)
(***************************************************************************)
EXTENDS Udc, SequenceTheorems, TLAPS

-----------------------------------------------------------------------------
(* The inductive invariant.                                                *)

NoRepeat(q) == \A i, j \in DOMAIN q : q[i] = q[j] => i = j

\* The queues and the status words agree.
Listed ==
  /\ \A e \in Eps : NoRepeat(queue[e])
  /\ \A e \in Eps : \A r \in Members(queue[e]) : EpOf[r] = e
  /\ \A r \in Reqs : status[r] = "progress" <=> r \in Members(queue[EpOf[r]])

\* A request that queue() has checked and not yet queued is on no queue.
Apart == \A r \in checked : r \notin Members(queue[EpOf[r]])

\* Channel 2 works for the OUT endpoint, on a request not given back as completed.
OutChannel ==
  LET c == chan["out"]
  IN  c.run => c.req \in Reqs /\ EpOf[c.req] = 1 /\ status[c.req] # "ok"

\* What channel 1 announces is for an endpoint that it names in CNTL1.
InChannel ==
  chan["in"].run \/ "dma_in" \in intr \/ "dma_in" \in snap => chan["in"].ep # 0

Inv == TypeOK /\ Listed /\ Apart /\ OutChannel /\ InChannel

-----------------------------------------------------------------------------
(* Queues.                                                                 *)

LEMMA AppendQueue ==
  ASSUME NEW q \in Seq(Reqs), NEW r \in Reqs
  PROVE  /\ Append(q, r) \in Seq(Reqs) /\ Members(Append(q, r)) = Members(q) \cup {r}
         /\ NoRepeat(q) /\ r \notin Members(q) => NoRepeat(Append(q, r))
<1>1. /\ Append(q, r) \in Seq(Reqs) /\ Len(q) \in Nat
      /\ DOMAIN q = 1..Len(q) /\ DOMAIN Append(q, r) = 1..(Len(q) + 1)
      /\ \A i \in 1..Len(q) : Append(q, r)[i] = q[i]
      /\ Append(q, r)[Len(q) + 1] = r
  OBVIOUS
<1>2. Members(Append(q, r)) = Members(q) \cup {r}
  BY <1>1, SMT DEF Members
<1>3. NoRepeat(q) /\ r \notin Members(q) => NoRepeat(Append(q, r))
  BY <1>1, SMT DEF Members, NoRepeat
<1> QED BY <1>1, <1>2, <1>3

\* dequeue: the list without the entry at i.
LEMMA RemoveQueue ==
  ASSUME NEW q \in Seq(Reqs), NEW i \in DOMAIN q, NoRepeat(q)
  PROVE  /\ RemoveAt(q, i) \in Seq(Reqs) /\ NoRepeat(RemoveAt(q, i))
         /\ Members(RemoveAt(q, i)) = Members(q) \ {q[i]}
<1> DEFINE n == Len(q)
           a == i - 1
           b == i + 1
           s == SubSeq(q, 1, a)
           t == SubSeq(q, b, n)
           u == RemoveAt(q, i)
<1>1. /\ n \in Nat /\ DOMAIN q = 1..n /\ i \in 1..n /\ a \in 0..n - 1 /\ b \in 2..n + 1
      /\ 1 \in Int /\ a \in Int /\ b \in Int /\ n \in Int
      /\ \A k \in 1..n : q[k] \in Reqs
  OBVIOUS
<1>2. /\ \A k \in 1..a : q[k] \in Reqs
      /\ \A k \in b..n : q[k] \in Reqs
  BY <1>1
<1> HIDE DEF n, a, b
<1>3. /\ s \in Seq(Reqs) /\ Len(s) = (IF 1 <= a THEN a - 1 + 1 ELSE 0)
      /\ \A k \in 1..a - 1 + 1 : s[k] = q[1 + k - 1]
  BY <1>1, <1>2, SubSeqProperties
<1>4. /\ t \in Seq(Reqs) /\ Len(t) = (IF b <= n THEN n - b + 1 ELSE 0)
      /\ \A k \in 1..n - b + 1 : t[k] = q[b + k - 1]
  BY <1>1, <1>2, SubSeqProperties
<1>5. u = s \o t
  BY DEF RemoveAt, n, a, b
<1> HIDE DEF s, t, u
<1>6. /\ u \in Seq(Reqs) /\ Len(u) = Len(s) + Len(t)
      /\ \A k \in 1..Len(s) + Len(t) : u[k] = IF k <= Len(s) THEN s[k] ELSE t[k - Len(s)]
  BY <1>3, <1>4, <1>5, ConcatProperties
<1>7. Len(s) = i - 1 /\ Len(t) = n - i
  BY <1>1, <1>3, <1>4 DEF a, b
<1>8. /\ DOMAIN u = 1..n - 1
      /\ \A k \in 1..i - 1 : u[k] = q[k]
      /\ \A k \in i..n - 1 : u[k] = q[k + 1]
  <2>1. DOMAIN u = 1..n - 1
    BY <1>1, <1>6, <1>7
  <2>2. ASSUME NEW k \in 1..i - 1 PROVE u[k] = q[k]
    <3>1. k \in 1..Len(s) + Len(t) /\ k <= Len(s) /\ k \in 1..a - 1 + 1 /\ 1 + k - 1 = k
      BY <1>1, <1>7 DEF a
    <3> QED BY <1>3, <1>6, <3>1
  <2>3. ASSUME NEW k \in i..n - 1 PROVE u[k] = q[k + 1]
    <3> DEFINE m == k - Len(s)
    <3>0. b = i + 1 /\ k \in Int /\ i <= k /\ k <= n - 1
      BY <1>1 DEF b
    <3>1. k \in 1..Len(s) + Len(t) /\ ~(k <= Len(s)) /\ m \in 1..n - b + 1 /\ b + m - 1 = k + 1
      <4>1. i \in Int /\ n \in Int /\ i >= 1 /\ m = k - (i - 1) /\ m \in Int
        BY <1>1, <1>7, <3>0
      <4>2. k \in 1..Len(s) + Len(t) /\ ~(k <= Len(s))
        <5>1. Len(s) + Len(t) = n - 1
          BY <1>7, <4>1
        <5>2. 1 <= k /\ k <= Len(s) + Len(t)
          BY <3>0, <4>1, <5>1
        <5>3. ~(k <= Len(s))
          BY <1>7, <3>0, <4>1
        <5> QED BY <3>0, <5>1, <5>2, <5>3
      <4> HIDE DEF m
      <4>3. b + m - 1 = k + 1 /\ m >= 1 /\ m <= n - b + 1
        BY <3>0, <4>1
      <4> QED BY <4>1, <4>2, <4>3
    <3>2. u[k] = t[m]
      BY <1>6, <3>1
    <3> HIDE DEF m
    <3> QED BY <1>4, <3>1, <3>2
  <2> QED BY <2>1, <2>2, <2>3
<1>9. \A k \in 1..n - 1 : k \in 1..i - 1 \/ k \in i..n - 1
  BY <1>1
<1>10. NoRepeat(u)
  <2> SUFFICES ASSUME NEW k \in 1..n - 1, NEW m \in 1..n - 1, u[k] = u[m] PROVE k = m
    BY <1>8 DEF NoRepeat
  <2>1. ASSUME NEW x \in 1..n, NEW y \in 1..n, q[x] = q[y] PROVE x = y
    BY <1>1, <2>1 DEF NoRepeat
  <2>2. ASSUME NEW x \in 1..n - 1
        PROVE  \/ x <= i - 1 /\ x \in 1..n /\ u[x] = q[x]
               \/ x >= i /\ x + 1 \in 1..n /\ u[x] = q[x + 1]
    BY <1>1, <1>8, <1>9
  <2>3. k \in Int /\ m \in Int /\ i \in Int
    BY <1>1
  <2>4. CASE u[k] = q[k] /\ k \in 1..n /\ k <= i - 1
    <3>1. CASE m \in 1..n /\ u[m] = q[m]
      BY <2>1, <2>4, <3>1
    <3>2. CASE m >= i /\ m + 1 \in 1..n /\ u[m] = q[m + 1]
      <4>1. k = m + 1
        BY <2>1, <2>4, <3>2
      <4> QED BY <2>3, <2>4, <3>2, <4>1
    <3> QED BY <2>2, <3>1, <3>2
  <2>5. CASE u[k] = q[k + 1] /\ k + 1 \in 1..n /\ k >= i
    <3>1. CASE m <= i - 1 /\ m \in 1..n /\ u[m] = q[m]
      <4>1. k + 1 = m
        BY <2>1, <2>5, <3>1
      <4> QED BY <2>3, <2>5, <3>1, <4>1
    <3>2. CASE m + 1 \in 1..n /\ u[m] = q[m + 1]
      <4>1. k + 1 = m + 1
        BY <2>1, <2>5, <3>2
      <4> QED BY <2>3, <4>1
    <3> QED BY <2>2, <3>1, <3>2
  <2> QED BY <2>2, <2>4, <2>5
<1>11. Members(u) \subseteq Members(q) \ {q[i]}
  <2> SUFFICES ASSUME NEW k \in 1..n - 1 PROVE u[k] \in Members(q) /\ u[k] # q[i]
    BY <1>8 DEF Members
  <2>1. CASE k \in 1..i - 1
    BY <1>1, <1>8, <2>1 DEF Members, NoRepeat
  <2>2. CASE k \in i..n - 1
    <3>1. u[k] = q[k + 1] /\ k + 1 \in 1..n /\ k + 1 # i
      BY <1>1, <1>8, <2>2
    <3> QED BY <1>1, <3>1 DEF Members, NoRepeat
  <2> QED BY <1>9, <2>1, <2>2
<1>12. Members(q) \ {q[i]} \subseteq Members(u)
  <2> SUFFICES ASSUME NEW k \in 1..n, k # i PROVE q[k] \in Members(u)
    BY <1>1 DEF Members
  <2>1. CASE k < i
    BY <1>1, <1>8, <2>1 DEF Members
  <2>2. CASE k > i
    <3>1. k - 1 \in i..n - 1 /\ k - 1 \in 1..n - 1 /\ k - 1 + 1 = k
      BY <1>1, <2>2
    <3> QED BY <1>8, <3>1 DEF Members
  <2> QED BY <1>1, <2>1, <2>2
<1> QED BY <1>6, <1>10, <1>11, <1>12 DEF u

LEMMA TailQueue ==
  ASSUME NEW q \in Seq(Reqs), q # << >>, NoRepeat(q)
  PROVE  /\ Tail(q) \in Seq(Reqs) /\ Head(q) \in Reqs /\ Head(q) \in Members(q)
         /\ NoRepeat(Tail(q)) /\ Members(Tail(q)) = Members(q) \ {Head(q)}
<1>1. /\ Tail(q) \in Seq(Reqs) /\ Len(q) \in Nat \ {0} /\ Head(q) = q[1] /\ Head(q) \in Reqs
      /\ DOMAIN q = 1..Len(q) /\ DOMAIN Tail(q) = 1..(Len(q) - 1)
      /\ \A i \in 1..(Len(q) - 1) : Tail(q)[i] = q[i + 1]
  OBVIOUS
<1>2. Head(q) \in Members(q)
  BY <1>1, SMT DEF Members
<1>3. NoRepeat(Tail(q))
  BY <1>1, SMT DEF NoRepeat
<1>4. Members(Tail(q)) \subseteq Members(q) \ {Head(q)}
  BY <1>1, SMT DEF Members, NoRepeat
<1>5. ASSUME NEW x \in Members(q), x # Head(q) PROVE x \in Members(Tail(q))
  <2>1. PICK i \in 1..Len(q) : x = q[i]
    BY <1>1 DEF Members
  <2>2. i - 1 \in 1..(Len(q) - 1) /\ i - 1 + 1 = i
    BY <1>1, <1>5, <2>1
  <2> QED BY <1>1, <2>1, <2>2 DEF Members
<1> QED BY <1>1, <1>2, <1>3, <1>4, <1>5

\* done on the head, with a callback that queues the request again or does not.
LEMMA RetiredQueue ==
  ASSUME NEW q \in Seq(Reqs), q # << >>, NoRepeat(q), NEW again \in BOOLEAN
  PROVE  LET p == Retired(q, again)
         IN  /\ p \in Seq(Reqs) /\ NoRepeat(p) /\ Head(q) \in Members(q) /\ Head(q) \in Reqs
             /\ Members(p) = IF again THEN Members(q) ELSE Members(q) \ {Head(q)}
             /\ p # << >> => Head(p) \in Members(p) /\ Head(p) \in Reqs
<1> DEFINE p == Retired(q, again)
           t == Tail(q)
           r == Head(q)
<1>1. /\ t \in Seq(Reqs) /\ r \in Reqs /\ r \in Members(q)
      /\ NoRepeat(t) /\ Members(t) = Members(q) \ {r}
  BY TailQueue
<1>2. p = IF again THEN Append(t, r) ELSE t
  BY DEF Retired
<1> HIDE DEF p, t, r
<1>3. p \in Seq(Reqs) /\ NoRepeat(p) /\ Members(p) = IF again THEN Members(q) ELSE Members(q) \ {r}
  <2>1. CASE again
    <3>1. p = Append(t, r) /\ r \notin Members(t) /\ Members(t) \cup {r} = Members(q)
      BY <1>1, <1>2, <2>1
    <3>2. p \in Seq(Reqs) /\ NoRepeat(p) /\ Members(p) = Members(q)
      BY <1>1, <3>1, AppendQueue
    <3> QED BY <2>1, <3>2
  <2>2. CASE ~again
    BY <1>1, <1>2, <2>2
  <2> QED BY <2>1, <2>2
<1>4. p # << >> => Head(p) \in Members(p) /\ Head(p) \in Reqs
  BY <1>3, TailQueue
<1> QED BY <1>1, <1>3, <1>4 DEF p, r

-----------------------------------------------------------------------------
(* The parts of the state.                                                 *)

Channels == [{"in", "out"} -> [ep : 0..2, req : Reqs \cup {"none"}, run : BOOLEAN]]

TGadget == driver \in {"none", "bound", "leaving"} /\ speed \in BOOLEAN
TCalls == checked \subseteq Reqs /\ claimed \subseteq Eps
TSoft == desc \in [Eps -> BOOLEAN] /\ stopped \in [Eps -> BOOLEAN]
TQueue == queue \in [Eps -> Seq(Reqs)] /\ status \in [Reqs -> {"progress", "ok", "error"}]
THard == irqe \subseteq Eps /\ sendstall \subseteq Eps /\ sentstall \subseteq {2, 3}
         /\ fifo \in {"none", "short", "zero"}
TChan == chan \in Channels
TIntr == intr \subseteq Members(Bits) /\ snap \subseteq Members(Bits)
Typed == TGadget /\ TCalls /\ TSoft /\ TQueue /\ THard /\ TChan /\ TIntr

LEMMA TypedIs == Typed <=> TypeOK
BY DEF Typed, TypeOK, TGadget, TCalls, TSoft, TQueue, THard, TChan, TIntr, Channels

LEMMA TypedIsNext == Typed' <=> TypeOK'
BY TypedIs, PTL

\* The bits of the interrupt words.
LEMMA AllBits ==
  Members(Bits) = {"reset", "ep0", "setup", "dma_in", "dma_out", "inep1", "inep2", "outep1"}
<1>1. DOMAIN Bits = 1..8 /\ 1..8 = {1, 2, 3, 4, 5, 6, 7, 8}
  BY DEF Bits
<1>2. Members(Bits) = {Bits[i] : i \in {1, 2, 3, 4, 5, 6, 7, 8}}
  BY <1>1 DEF Members
<1>3. /\ Bits[1] = "reset" /\ Bits[2] = "ep0" /\ Bits[3] = "setup" /\ Bits[4] = "dma_in"
      /\ Bits[5] = "dma_out" /\ Bits[6] = "inep1" /\ Bits[7] = "inep2" /\ Bits[8] = "outep1"
  BY DEF Bits
<1> QED BY <1>2, <1>3

LEMMA EndpointBits ==
  /\ Eps = {1, 2, 3}
  /\ \A e \in Eps : EpBit(e) \in Members(Bits) /\ EpBit(e) # "dma_in"
<1>1. Eps = {1, 2, 3}
  BY DEF Eps
<1>2. EpBit(1) = "outep1" /\ EpBit(2) = "inep1" /\ EpBit(3) = "inep2"
  BY DEF EpBit
<1> QED BY <1>1, <1>2, AllBits

\* kick_dma and read_fifo on the channels.
LEMMA Kick ==
  ASSUME NEW c \in Channels, NEW e \in Eps, NEW r \in Reqs
  PROVE  LET k == kick_dma(c, e, r)
         IN  /\ k \in Channels
             /\ e = 1 => k["in"] = c["in"] /\ k["out"].req = r
             /\ e # 1 => k["out"] = c["out"] /\ k["in"].ep # 0
<1> DEFINE n == ep_index(e)
           x == [ep |-> n, req |-> r, run |-> TRUE]
           d == Dir(e)
<1>1. n \in 1..2
  BY DEF ep_index, Eps
<1>2. d \in {"in", "out"} /\ (e = 1 => d = "out") /\ (e # 1 => d = "in")
  BY DEF Dir, ep_is_in
<1>3. kick_dma(c, e, r) = [c EXCEPT ![d] = x]
  BY DEF kick_dma
<1> HIDE DEF n, d
<1>4. x \in [ep : 0..2, req : Reqs \cup {"none"}, run : BOOLEAN] /\ x.req = r /\ x.ep # 0
  <2>1. n \in 0..2 /\ n # 0
    BY <1>1
  <2> QED BY <2>1
<1> HIDE DEF x
<1> QED BY <1>2, <1>3, <1>4 DEF Channels

LEMMA ChannelOff ==
  /\ Idle \in [ep : 0..2, req : Reqs \cup {"none"}, run : BOOLEAN] /\ ~Idle.run
  /\ \A c \in Channels : /\ DmaOff(c) \in Channels /\ DmaOff(c)["in"] = c["in"]
                         /\ ~DmaOff(c)["out"].run
<1>1. Idle \in [ep : 0..2, req : Reqs \cup {"none"}, run : BOOLEAN] /\ ~Idle.run
  BY DEF Idle
<1>2. ASSUME NEW c \in Channels
      PROVE  /\ DmaOff(c) \in Channels /\ DmaOff(c)["in"] = c["in"]
             /\ ~DmaOff(c)["out"].run
  BY <1>1 DEF Channels, DmaOff
<1> QED BY <1>1, <1>2

\* One request of an endpoint changes its status, its queue follows.
LEMMA QueueStep ==
  ASSUME TQueue, Listed, NEW r \in Reqs, NEW q \in Seq(Reqs),
         NEW st \in {"progress", "ok", "error"}, NoRepeat(q),
         queue' = [queue EXCEPT ![EpOf[r]] = q], status' = [status EXCEPT ![r] = st],
         Members(q) \subseteq Members(queue[EpOf[r]]) \cup {r},
         Members(queue[EpOf[r]]) \subseteq Members(q) \cup {r},
         st = "progress" <=> r \in Members(q)
  PROVE  /\ TQueue' /\ Listed'
         /\ \A s \in Reqs : s # r =>
              (s \in Members(queue'[EpOf[s]]) <=> s \in Members(queue[EpOf[s]]))
         /\ \A s \in Reqs : s # r => status'[s] = status[s]
         /\ status'[r] = st
<1> DEFINE e == EpOf[r]
<1>1. e \in Eps /\ \A s \in Reqs : EpOf[s] \in Eps
  BY UdcAssumption
<1>2. /\ queue' \in [Eps -> Seq(Reqs)] /\ queue'[e] = q
      /\ \A f \in Eps : f # e => queue'[f] = queue[f]
  BY <1>1 DEF TQueue
<1>3. /\ status' \in [Reqs -> {"progress", "ok", "error"}] /\ status'[r] = st
      /\ \A s \in Reqs : s # r => status'[s] = status[s]
  BY DEF TQueue
<1>4. \A s \in Reqs : s # r =>
          (s \in Members(queue'[EpOf[s]]) <=> s \in Members(queue[EpOf[s]]))
  BY <1>1, <1>2
<1>5. \A f \in Eps : NoRepeat(queue'[f])
  BY <1>2 DEF Listed
<1>6. ASSUME NEW f \in Eps, NEW s \in Members(queue'[f]) PROVE EpOf[s] = f
  BY <1>1, <1>2 DEF Listed
<1>7. ASSUME NEW s \in Reqs
      PROVE  status'[s] = "progress" <=> s \in Members(queue'[EpOf[s]])
  <2>1. CASE s = r
    BY <1>2, <1>3, <2>1
  <2>2. CASE s # r
    BY <1>3, <1>4, <2>2 DEF Listed
  <2> QED BY <2>1, <2>2
<1>8. Listed'
  BY <1>5, <1>6, <1>7 DEF Listed, Members, NoRepeat
<1> QED BY <1>2, <1>3, <1>4, <1>8 DEF TQueue

\* Steps that leave the queues alone.
LEMMA QueuesKept ==
  ASSUME Inv, UNCHANGED <<queue, status>>, checked' \subseteq checked
  PROVE  TQueue' /\ Listed' /\ Apart'
<1>1. TQueue /\ Listed /\ Apart /\ queue' = queue /\ status' = status
  BY TypedIs DEF Inv, Typed
<1>2. TQueue'
  BY <1>1 DEF TQueue
<1>3. Listed'
  BY <1>1 DEF Listed, Members, NoRepeat
<1>4. Apart'
  BY <1>1 DEF Apart, Members
<1> QED BY <1>2, <1>3, <1>4

LEMMA ChannelsKept ==
  ASSUME Inv, UNCHANGED <<chan, status>>,
         "dma_in" \in intr' \/ "dma_in" \in snap' => "dma_in" \in intr \/ "dma_in" \in snap
  PROVE  TChan' /\ OutChannel' /\ InChannel'
<1>1. TChan /\ OutChannel /\ InChannel /\ chan' = chan /\ status' = status
  BY TypedIs DEF Inv, Typed
<1> QED BY <1>1 DEF TChan, OutChannel, InChannel

-----------------------------------------------------------------------------
(* Halting, enabling, registration and the hardware.                       *)

LEMMA HaltTypes ==
  ASSUME TSoft, THard, NEW e \in Eps, NEW value \in BOOLEAN, Halt(e, value)
  PROVE  stopped' \in [Eps -> BOOLEAN] /\ sendstall' \subseteq Eps /\ fifo' \in {"none", "short", "zero"}
<1>1. CASE UNCHANGED <<stopped, sendstall, fifo>>
  BY <1>1 DEF TSoft, THard
<1>2. CASE /\ stopped' = [stopped EXCEPT ![e] = value]
           /\ sendstall' = IF value THEN sendstall \cup {e} ELSE sendstall \ {e}
           /\ fifo' = Flushed(e)
  <2>1. stopped' \in [Eps -> BOOLEAN]
    BY <1>2 DEF TSoft
  <2>2. sendstall' \subseteq Eps
    BY <1>2 DEF THard
  <2>3. fifo' \in {"none", "short", "zero"}
    BY <1>2 DEF THard, Flushed
  <2> QED BY <2>1, <2>2, <2>3
<1> QED BY <1>1, <1>2 DEF Halt

\* set_halt by the gadget driver or by the host, and ep_enable.
LEMMA HaltInv ==
  ASSUME Inv, NEW e \in Eps, NEW value \in BOOLEAN,
         Halt(e, value) \/ UNCHANGED <<stopped, sendstall, fifo>>,
         desc' = desc \/ desc' = [desc EXCEPT ![e] = TRUE],
         snap' \subseteq snap,
         UNCHANGED <<gadget, queue, status, irqe, sentstall, chan, intr>>
  PROVE  Inv'
<1>1. TGadget /\ TCalls /\ TSoft /\ TQueue /\ THard /\ TChan /\ TIntr
  BY TypedIs DEF Inv, Typed
<1>2. stopped' \in [Eps -> BOOLEAN] /\ sendstall' \subseteq Eps /\ fifo' \in {"none", "short", "zero"}
  BY <1>1, HaltTypes DEF TSoft, THard
<1>3. TSoft'
  BY <1>1, <1>2 DEF TSoft
<1>4. THard'
  BY <1>1, <1>2 DEF THard
<1>5. TGadget' /\ TCalls' /\ TIntr'
  BY <1>1 DEF gadget, TGadget, TCalls, TIntr, Members
<1>6. TQueue' /\ Listed' /\ Apart'
  BY QueuesKept DEF gadget
<1>7. TChan' /\ OutChannel' /\ InChannel'
  BY ChannelsKept
<1> QED BY <1>3, <1>4, <1>5, <1>6, <1>7, TypedIsNext DEF Inv, Typed

\* Steps that leave the endpoints' queues, status words and channels alone.
LEMMA QuietInv ==
  ASSUME Inv, UNCHANGED <<queue, status, chan, desc, stopped>>, checked' \subseteq checked,
         claimed' = claimed, TGadget', THard', intr' \cup snap' \subseteq Members(Bits),
         "dma_in" \in intr' \/ "dma_in" \in snap' => "dma_in" \in intr \/ "dma_in" \in snap
  PROVE  Inv'
<1>1. TCalls /\ TSoft
  BY TypedIs DEF Inv, Typed
<1>2. TCalls' /\ TSoft' /\ TIntr'
  BY <1>1 DEF TCalls, TSoft, TIntr, Members
<1>3. TQueue' /\ Listed' /\ Apart'
  BY QueuesKept
<1>4. TChan' /\ OutChannel' /\ InChannel'
  BY ChannelsKept
<1> QED BY <1>2, <1>3, <1>4, TypedIsNext DEF Inv, Typed

LEMMA HardwareInv ==
  ASSUME Inv, \/ Register \/ IrqEnter \/ IrqReset \/ SetupCalls \/ SetupReturns \/ ShortPacket
              \/ HostReset \/ HostSetup \/ \E e \in Eps : HostStalled(e)
              \/ UNCHANGED vars
  PROVE  Inv'
<1>1. TGadget /\ THard /\ TIntr
  BY TypedIs DEF Inv, Typed
<1> USE DEF gadget, soft, hard
<1>2. UNCHANGED <<queue, status, chan, desc, stopped, checked, claimed>>
  BY DEF Register, IrqEnter, IrqReset, SetupCalls, SetupReturns, ShortPacket, HostReset,
         HostSetup, HostStalled, vars
<1>3. TGadget'
  BY <1>1 DEF Register, IrqEnter, IrqReset, SetupCalls, SetupReturns, ShortPacket, HostReset,
         HostSetup, HostStalled, vars, TGadget
<1>4. THard'
  <2>1. CASE ShortPacket
    BY <1>1, <2>1 DEF ShortPacket, THard
  <2>2. CASE Register
    BY <1>1, <2>2 DEF Register, THard
  <2>3. CASE \E e \in Eps : HostStalled(e)
    BY <1>1, <2>3 DEF HostStalled, THard, Eps, ep_is_in
  <2>4. CASE \/ IrqEnter \/ IrqReset \/ SetupCalls \/ SetupReturns \/ HostReset \/ HostSetup
             \/ UNCHANGED vars
    BY <1>1, <2>4 DEF IrqEnter, IrqReset, SetupCalls, SetupReturns, HostReset, HostSetup, vars,
         THard
  <2> QED BY <2>1, <2>2, <2>3, <2>4
<1>5. /\ intr' \cup snap' \subseteq intr \cup snap \cup (Members(Bits) \ {"dma_in"})
  BY AllBits, EndpointBits
     DEF Register, IrqEnter, IrqReset, SetupCalls, SetupReturns, ShortPacket, HostReset,
         HostSetup, HostStalled, vars, Served
<1>6. intr' \cup snap' \subseteq Members(Bits)
  BY <1>1, <1>5 DEF TIntr
<1> QED BY <1>2, <1>3, <1>4, <1>5, <1>6, QuietInv

\* A channel has moved its buffer, or udc_disable has stopped both.
LEMMA ChannelInv ==
  ASSUME Inv, UdcDisable \/ \E d \in {"in", "out"} : DmaDone(d)
  PROVE  Inv'
<1>1. TGadget /\ TCalls /\ TSoft /\ THard /\ TChan /\ TIntr /\ OutChannel /\ InChannel
  BY TypedIs DEF Inv, Typed
<1> USE DEF gadget, soft
<1>2. UNCHANGED <<queue, status, desc, stopped, checked, claimed, fifo, sendstall, sentstall>>
  BY DEF UdcDisable, DmaDone
<1>3. TQueue' /\ Listed' /\ Apart'
  BY <1>2, QueuesKept
<1>4. TCalls' /\ TSoft'
  BY <1>1, <1>2 DEF TCalls, TSoft
<1>5. TGadget' /\ irqe' \subseteq irqe
  BY <1>1 DEF UdcDisable, DmaDone, TGadget
<1>6. THard'
  BY <1>1, <1>2, <1>5 DEF THard
<1>7. TIntr'
  BY <1>1, AllBits DEF UdcDisable, DmaDone, TIntr
<1>8. TChan' /\ OutChannel' /\ InChannel'
  <2>1. CASE UdcDisable
    <3>1. /\ chan' = [d \in {"in", "out"} |-> Idle] /\ snap' = {}
          /\ intr' \subseteq {EpBit(e) : e \in Eps}
      BY <2>1 DEF UdcDisable, Process
    <3>2. chan' \in Channels /\ ~chan'["in"].run /\ ~chan'["out"].run
      BY <3>1, ChannelOff DEF Channels
    <3>3. "dma_in" \notin intr'
      BY <3>1, EndpointBits
    <3> QED BY <3>1, <3>2, <3>3 DEF TChan, OutChannel, InChannel
  <2>2. ASSUME NEW d \in {"in", "out"}, DmaDone(d) PROVE TChan' /\ OutChannel' /\ InChannel'
    <3> DEFINE c == [chan[d] EXCEPT !.run = FALSE]
    <3>1. /\ chan[d].run /\ chan' = [chan EXCEPT ![d] = c] /\ snap' = snap
          /\ intr' = intr \cup {IF d = "in" THEN "dma_in" ELSE "dma_out"}
      BY <1>1, <2>2 DEF DmaDone, TChan, Channels
    <3>2. /\ c \in [ep : 0..2, req : Reqs \cup {"none"}, run : BOOLEAN]
          /\ ~c.run /\ c.ep = chan[d].ep
      BY <1>1 DEF TChan, Channels
    <3> HIDE DEF c
    <3>3. chan' \in Channels /\ chan'[d] = c /\ \A b \in {"in", "out"} : b # d => chan'[b] = chan[b]
      BY <1>1, <3>1, <3>2 DEF TChan, Channels
    <3>4. OutChannel'
      BY <1>1, <1>2, <3>2, <3>3 DEF OutChannel
    <3>5. InChannel'
      BY <1>1, <3>1, <3>2, <3>3 DEF InChannel
    <3> QED BY <3>3, <3>4, <3>5 DEF TChan
  <2> QED BY <2>1, <2>2
<1> QED BY <1>3, <1>4, <1>5, <1>6, <1>7, <1>8, TypedIsNext DEF Inv, Typed

-----------------------------------------------------------------------------
(* The operations on the queues.                                           *)

\* queue() checks that the request is not queued before it takes the lock.
LEMMA QueueCheckInv == ASSUME Inv, NEW r \in Reqs, QueueCheck(r) PROVE Inv'
<1>1. TGadget /\ TCalls /\ TSoft /\ TQueue /\ THard /\ TChan /\ TIntr /\ Listed /\ Apart
  BY TypedIs DEF Inv, Typed
<1>2. /\ checked' = checked \cup {r} /\ r \notin Members(queue[EpOf[r]])
      /\ UNCHANGED <<driver, claimed, speed, soft, hard, intr, snap>>
  BY DEF QueueCheck, Accepts, Queued
<1>3. UNCHANGED <<queue, status, desc, stopped, irqe, sendstall, sentstall, fifo, chan>>
  BY <1>2 DEF soft, hard
<1>4. TCalls' /\ TGadget' /\ TSoft' /\ THard' /\ TIntr'
  BY <1>1, <1>2, <1>3 DEF TCalls, TGadget, TSoft, THard, TIntr, Members
<1>5. TQueue' /\ Listed'
  BY <1>1, <1>3 DEF TQueue, Listed, Members, NoRepeat
<1>6. Apart'
  BY <1>1, <1>2, <1>3 DEF Apart, Members
<1>7. TChan' /\ OutChannel' /\ InChannel'
  BY <1>2, <1>3, ChannelsKept
<1> QED BY <1>4, <1>5, <1>6, <1>7, TypedIsNext DEF Inv, Typed

\* The locked part of queue(): the request is on no queue, so its status is final
\* and channel 2 is not given a request that was completed.
LEMMA SubmitInv ==
  ASSUME Inv, NEW r \in Reqs, Submit(r), r \notin Members(queue[EpOf[r]]), r \notin checked',
         checked' \subseteq checked, UNCHANGED <<driver, claimed, speed, intr, snap>>
  PROVE  Inv'
<1>1. /\ TGadget /\ TCalls /\ TSoft /\ TQueue /\ THard /\ TChan /\ TIntr
      /\ Listed /\ Apart /\ OutChannel /\ InChannel
  BY TypedIs DEF Inv, Typed
<1> DEFINE e == EpOf[r]
           q == Append(queue[e], r)
<1>2. e \in Eps /\ queue[e] \in Seq(Reqs) /\ NoRepeat(queue[e])
  BY <1>1, UdcAssumption DEF TQueue, Listed
<1>3. q \in Seq(Reqs) /\ NoRepeat(q) /\ Members(q) = Members(queue[e]) \cup {r}
  BY <1>2, AppendQueue
<1>4. /\ status' = [status EXCEPT ![r] = "progress"] /\ queue' = [queue EXCEPT ![EpOf[r]] = q]
      /\ UNCHANGED <<desc, stopped, sendstall, sentstall, fifo>>
      /\ \/ chan' = kick_dma(chan, e, r) /\ irqe' = irqe \cup {e}
         \/ UNCHANGED <<chan, irqe>>
  BY <1>1, <1>2 DEF Submit, TQueue
<1> HIDE DEF q
<1>5. /\ TQueue' /\ Listed' /\ status'[r] = "progress"
      /\ \A s \in Reqs : s # r =>
           (s \in Members(queue'[EpOf[s]]) <=> s \in Members(queue[EpOf[s]]))
      /\ \A s \in Reqs : s # r => status'[s] = status[s]
  BY <1>1, <1>3, <1>4, QueueStep
<1>6. Apart'
  <2> SUFFICES ASSUME NEW s \in checked' PROVE s \notin Members(queue'[EpOf[s]])
    BY DEF Apart, Members
  <2> QED BY <1>1, <1>5 DEF Apart, TCalls
<1>7. TGadget' /\ TCalls' /\ TSoft' /\ TIntr'
  BY <1>1, <1>4 DEF TGadget, TCalls, TSoft, TIntr, Members
<1>8. THard'
  BY <1>1, <1>2, <1>4 DEF THard
<1>9. TChan' /\ OutChannel' /\ InChannel'
  <2>1. \A s \in Reqs : status[s] # "ok" => status'[s] # "ok"
    BY <1>5
  <2>2. CASE chan' = chan
    BY <1>1, <2>1, <2>2 DEF TChan, OutChannel, InChannel
  <2>3. CASE chan' = kick_dma(chan, e, r)
    <3> DEFINE c == kick_dma(chan, e, r)
    <3>1. /\ c \in Channels
          /\ e = 1 => c["in"] = chan["in"] /\ c["out"].req = r
          /\ e # 1 => c["out"] = chan["out"] /\ c["in"].ep # 0
      BY <1>1, <1>2, Kick DEF TChan
    <3>2. chan' = c
      BY <2>3
    <3> HIDE DEF c
    <3>3. OutChannel'
      BY <1>1, <1>5, <2>1, <3>1, <3>2 DEF OutChannel
    <3>4. InChannel'
      BY <1>1, <3>1, <3>2 DEF InChannel
    <3> QED BY <3>1, <3>2, <3>3, <3>4 DEF TChan
  <2> QED BY <1>4, <2>2, <2>3
<1> QED BY <1>5, <1>6, <1>7, <1>8, <1>9, TypedIsNext DEF Inv, Typed

LEMMA QueueInv == ASSUME Inv, NEW r \in Reqs, QueueLocked(r) \/ QueueInSetup(r) PROVE Inv'
<1>1. Apart
  BY DEF Inv
<1>2. CASE QueueLocked(r)
  BY <1>1, <1>2, SubmitInv DEF QueueLocked, Apart
<1>3. CASE QueueInSetup(r)
  BY <1>3, SubmitInv DEF QueueInSetup, Accepts, Queued, gadget
<1> QED BY <1>2, <1>3

LEMMA DequeueInv == ASSUME Inv, NEW r \in Reqs, Dequeue(r) PROVE Inv'
<1>1. /\ TGadget /\ TCalls /\ TSoft /\ TQueue /\ THard /\ TChan /\ TIntr
      /\ Listed /\ Apart /\ OutChannel /\ InChannel
  BY TypedIs DEF Inv, Typed
<1>2. PICK i \in DOMAIN queue[EpOf[r]] :
        /\ queue[EpOf[r]][i] = r
        /\ queue' = [queue EXCEPT ![EpOf[r]] = RemoveAt(queue[EpOf[r]], i)]
  BY DEF Dequeue
<1>3. /\ status' = [status EXCEPT ![r] = "error"]
      /\ UNCHANGED <<gadget, desc, stopped, hard, intr, snap>>
  BY DEF Dequeue
<1>4. EpOf[r] \in Eps /\ queue[EpOf[r]] \in Seq(Reqs) /\ NoRepeat(queue[EpOf[r]])
  BY <1>1, UdcAssumption DEF TQueue, Listed
<1> DEFINE q == RemoveAt(queue[EpOf[r]], i)
<1>5. q \in Seq(Reqs) /\ NoRepeat(q) /\ Members(q) = Members(queue[EpOf[r]]) \ {r}
  BY <1>2, <1>4, RemoveQueue
<1>6. queue' = [queue EXCEPT ![EpOf[r]] = q]
  BY <1>2
<1> HIDE DEF q
<1>7. /\ TQueue' /\ Listed' /\ status'[r] = "error"
      /\ \A s \in Reqs : s # r =>
           (s \in Members(queue'[EpOf[s]]) <=> s \in Members(queue[EpOf[s]]))
      /\ \A s \in Reqs : s # r => status'[s] = status[s]
  BY <1>1, <1>3, <1>5, <1>6, QueueStep
<1>8. Apart'
  <2> SUFFICES ASSUME NEW s \in checked' PROVE s \notin Members(queue'[EpOf[s]])
    BY DEF Apart, Members
  <2>1. s \in checked /\ s \in Reqs
    BY <1>1, <1>3 DEF gadget, TCalls
  <2>2. CASE s = r
    <3>1. status'[s] # "progress"
      BY <1>7, <2>2
    <3> QED BY <1>7, <2>1, <3>1 DEF Listed, Members
  <2>3. CASE s # r
    BY <1>1, <1>7, <2>1, <2>3 DEF Apart
  <2> QED BY <2>2, <2>3
<1>9. TGadget' /\ TCalls' /\ TSoft' /\ TIntr' /\ THard'
  BY <1>1, <1>3 DEF gadget, hard, TGadget, TCalls, TSoft, TIntr, THard, Members
<1>10. TChan' /\ OutChannel' /\ InChannel'
  <2>1. \A s \in Reqs : status[s] # "ok" => status'[s] # "ok"
    BY <1>7
  <2>2. chan' = chan /\ intr' = intr /\ snap' = snap
    BY <1>3 DEF hard
  <2> QED BY <1>1, <2>1, <2>2 DEF TChan, OutChannel, InChannel
<1> QED BY <1>7, <1>8, <1>9, <1>10, TypedIsNext DEF Inv, Typed

\* nuke, by ep_disable and by stop_activity.
LEMMA NukeInv ==
  ASSUME Inv, NEW es \in SUBSET Eps, Nuke(es), TGadget', TSoft',
         UNCHANGED <<claimed, checked, sendstall, sentstall, chan, intr, snap>>
  PROVE  Inv'
<1>1. TCalls /\ TQueue /\ THard /\ TChan /\ TIntr /\ Listed /\ Apart /\ OutChannel /\ InChannel
  BY TypedIs DEF Inv, Typed
<1>2. /\ queue' = [e \in Eps |-> IF e \in es THEN << >> ELSE queue[e]]
      /\ status' = [r \in Reqs |-> IF EpOf[r] \in es /\ r \in Members(queue[EpOf[r]])
                                     THEN "error" ELSE status[r]]
      /\ fifo' = (IF 1 \in es THEN "none" ELSE fifo) /\ irqe' \subseteq irqe
  BY DEF Nuke, Queued
<1>3. \A r \in Reqs : EpOf[r] \in Eps
  BY UdcAssumption
<1>4. << >> \in Seq(Reqs) /\ Members(<< >>) = {} /\ NoRepeat(<< >>)
  BY DEF Members, NoRepeat
<1>5. TQueue'
  BY <1>1, <1>2, <1>4 DEF TQueue
<1>6. \A e \in Eps : queue'[e] = << >> \/ queue'[e] = queue[e]
  BY <1>2
<1>7. Listed'
  <2>1. ASSUME NEW e \in Eps PROVE NoRepeat(queue'[e]) /\ \A r \in Members(queue'[e]) : EpOf[r] = e
    BY <1>1, <1>4, <1>6 DEF Listed
  <2>2. ASSUME NEW r \in Reqs
        PROVE  status'[r] = "progress" <=> r \in Members(queue'[EpOf[r]])
    BY <1>1, <1>2, <1>3, <1>4 DEF Listed
  <2> QED BY <2>1, <2>2 DEF Listed, Members, NoRepeat
<1>8. Apart'
  <2> SUFFICES ASSUME NEW s \in checked' PROVE s \notin Members(queue'[EpOf[s]])
    BY DEF Apart, Members
  <2> QED BY <1>1, <1>3, <1>4, <1>6 DEF Apart, TCalls
<1>9. TCalls' /\ TIntr'
  BY <1>1 DEF TCalls, TIntr, Members
<1>10. THard'
  BY <1>1, <1>2 DEF THard
<1>11. TChan' /\ OutChannel' /\ InChannel'
  <2>1. \A s \in Reqs : status[s] # "ok" => status'[s] # "ok"
    BY <1>2
  <2> QED BY <1>1, <2>1 DEF TChan, OutChannel, InChannel
<1> QED BY <1>5, <1>7, <1>8, <1>9, <1>10, <1>11, TypedIsNext DEF Inv, Typed

LEMMA DisableInv ==
  ASSUME Inv, StopActivity \/ \E e \in Eps : EpDisable(e)
  PROVE  Inv'
<1>1. TGadget /\ TSoft
  BY TypedIs DEF Inv, Typed
<1>2. CASE StopActivity
  <2>1. TGadget' /\ TSoft'
    BY <1>2 DEF StopActivity, TGadget, TSoft
  <2> QED BY <1>2, <2>1, NukeInv DEF StopActivity
<1>3. ASSUME NEW e \in Eps, EpDisable(e) PROVE Inv'
  <2>1. TGadget' /\ TSoft'
    BY <1>1, <1>3 DEF EpDisable, TGadget, TSoft, gadget
  <2> QED BY <1>3, <2>1, NukeInv DEF EpDisable, gadget
<1> QED BY <1>2, <1>3

-----------------------------------------------------------------------------
(* The interrupt handler.                                                  *)

\* The head of a queue is complete, and what follows it is still in progress.
LEMMA DoneStep ==
  ASSUME Inv, NEW e \in Eps, NEW again \in BOOLEAN, queue[e] # << >>, checked' = checked,
         queue' = [queue EXCEPT ![e] = Retired(queue[e], again)],
         status' = [status EXCEPT ![Head(queue[e])] = IF again THEN "progress" ELSE "ok"]
  PROVE  LET q == Retired(queue[e], again)
             r == Head(queue[e])
         IN  /\ TQueue' /\ Listed' /\ Apart'
             /\ r \in Reqs /\ EpOf[r] = e
             /\ \A s \in Reqs : s # r => status'[s] = status[s]
             /\ q # << >> => /\ Head(q) \in Reqs /\ EpOf[Head(q)] = e
                             /\ status'[Head(q)] = "progress"
<1>1. TCalls /\ TQueue /\ Listed /\ Apart
  BY TypedIs DEF Inv, Typed
<1> DEFINE q == Retired(queue[e], again)
           r == Head(queue[e])
           st == IF again THEN "progress" ELSE "ok"
<1>2. queue[e] \in Seq(Reqs) /\ NoRepeat(queue[e])
  BY <1>1 DEF TQueue, Listed
<1>3. /\ q \in Seq(Reqs) /\ NoRepeat(q) /\ r \in Members(queue[e]) /\ r \in Reqs
      /\ Members(q) = IF again THEN Members(queue[e]) ELSE Members(queue[e]) \ {r}
      /\ q # << >> => Head(q) \in Members(q) /\ Head(q) \in Reqs
  BY <1>2, RetiredQueue
<1>4. queue' = [queue EXCEPT ![e] = q] /\ status' = [status EXCEPT ![r] = st]
  OBVIOUS
<1>5. /\ st \in {"progress", "ok", "error"} /\ (st = "progress" <=> again)
  OBVIOUS
<1> HIDE DEF q, r, st
<1>6. EpOf[r] = e
  BY <1>1, <1>3 DEF Listed
<1>7. /\ Members(q) \subseteq Members(queue[e]) \cup {r}
      /\ Members(queue[e]) \subseteq Members(q) \cup {r}
      /\ st = "progress" <=> r \in Members(q)
  BY <1>3, <1>5
<1>8. /\ TQueue' /\ Listed'
      /\ \A s \in Reqs : s # r =>
           (s \in Members(queue'[EpOf[s]]) <=> s \in Members(queue[EpOf[s]]))
      /\ \A s \in Reqs : s # r => status'[s] = status[s]
  BY <1>1, <1>3, <1>4, <1>5, <1>6, <1>7, QueueStep
<1>9. Apart'
  <2> SUFFICES ASSUME NEW s \in checked' PROVE s \notin Members(queue'[EpOf[s]])
    BY DEF Apart, Members
  <2>1. s # r /\ s \in Reqs
    BY <1>1, <1>3, <1>6 DEF Apart, TCalls
  <2> QED BY <1>1, <1>8, <2>1 DEF Apart
<1>10. q # << >> => Head(q) \in Reqs /\ EpOf[Head(q)] = e /\ status'[Head(q)] = "progress"
  <2> SUFFICES ASSUME q # << >>
               PROVE  Head(q) \in Reqs /\ EpOf[Head(q)] = e /\ status'[Head(q)] = "progress"
    OBVIOUS
  <2>1. queue'[e] = q
    BY <1>1, <1>4 DEF TQueue
  <2>2. Head(q) \in Members(queue'[e]) /\ Head(q) \in Reqs
    BY <1>3, <2>1
  <2>3. EpOf[Head(q)] = e
    BY <1>8, <2>2 DEF Listed, Members
  <2>4. status'[Head(q)] = "progress"
    BY <1>8, <2>2, <2>3 DEF Listed, Members
  <2> QED BY <2>2, <2>3, <2>4
<1> QED BY <1>3, <1>6, <1>8, <1>9, <1>10 DEF q, r

\* The endpoints and the masks of the interrupt handler.
LEMMA HandlerTypes ==
  ASSUME Inv, UNCHANGED <<driver, claimed, speed, checked, desc, stopped, intr>>,
         snap' \subseteq snap
  PROVE  TGadget' /\ TCalls' /\ TSoft' /\ TIntr'
BY TypedIs DEF Inv, Typed, TGadget, TCalls, TSoft, TIntr, Members

\* jz4740_in_epn, for the endpoint of channel 1 or of the interrupt: it completes
\* no request that channel 2 works on.
LEMMA InEpInv ==
  ASSUME Inv, NEW e \in {2, 3}, in_epn(e), snap' \subseteq snap, UNCHANGED <<gadget, intr>>
  PROVE  Inv'
<1>1. THard /\ TChan /\ OutChannel /\ InChannel /\ e \in Eps /\ e # 1
  BY TypedIs, EndpointBits DEF Inv, Typed
<1>2. UNCHANGED <<driver, claimed, speed, checked, desc, stopped, intr>>
  BY DEF in_epn, write_fifo, gadget, soft
<1>3. TGadget' /\ TCalls' /\ TSoft' /\ TIntr'
  BY <1>2, HandlerTypes
<1>4. CASE write_fifo(e) /\ queue[e] # << >>
  <2>1. PICK again \in BOOLEAN :
          LET r == Head(queue[e])
              q == Retired(queue[e], again)
          IN /\ queue' = [queue EXCEPT ![e] = q]
             /\ status' = [status EXCEPT ![r] = IF again THEN "progress" ELSE "ok"]
             /\ irqe' = IF q = << >> THEN irqe \ {e} ELSE irqe \cup {e}
             /\ chan' = Advance(chan, e, q)
             /\ UNCHANGED <<desc, stopped, sendstall, sentstall, fifo>>
    BY <1>4 DEF write_fifo
  <2> DEFINE q == Retired(queue[e], again)
             r == Head(queue[e])
  <2>2. /\ TQueue' /\ Listed' /\ Apart' /\ r \in Reqs /\ EpOf[r] = e
        /\ \A s \in Reqs : s # r => status'[s] = status[s]
        /\ q # << >> => Head(q) \in Reqs
    BY <1>1, <1>2, <1>4, <2>1, DoneStep
  <2>3. THard'
    BY <1>1, <2>1 DEF THard
  <2>4. chan' = chan \/ (q # << >> /\ chan' = kick_dma(chan, e, Head(q)))
    BY <2>1 DEF Advance
  <2> HIDE DEF q, r
  <2>5. chan' \in Channels /\ chan'["out"] = chan["out"] /\ (chan'["in"] = chan["in"] \/ chan'["in"].ep # 0)
    BY <1>1, <2>2, <2>4, Kick DEF TChan
  <2>6. OutChannel'
    BY <1>1, <2>2, <2>5 DEF OutChannel
  <2>7. InChannel'
    BY <1>1, <1>2, <2>5 DEF InChannel
  <2> QED BY <1>3, <2>2, <2>3, <2>5, <2>6, <2>7, TypedIsNext DEF Inv, Typed, TChan
<1>5. CASE UNCHANGED <<soft, irqe, sendstall, fifo, chan>> /\ sentstall' \subseteq sentstall
  <2>1. THard' /\ UNCHANGED <<queue, status, chan>>
    BY <1>1, <1>5 DEF THard, soft
  <2>2. TQueue' /\ Listed' /\ Apart'
    BY <1>2, <2>1, QueuesKept
  <2>3. TChan' /\ OutChannel' /\ InChannel'
    BY <1>2, <2>1, ChannelsKept
  <2> QED BY <1>3, <2>1, <2>2, <2>3, TypedIsNext DEF Inv, Typed
<1> QED BY <1>4, <1>5 DEF in_epn, hard

\* read_fifo leaves the packet or acknowledges it, and does the latter when bytes of
\* it fit the buffer that channel 2 was filling.
LEMMA LeftFacts ==
  ASSUME THard, TChan, NEW r, NEW x \in Left(r)
  PROVE  /\ x \in {"none", "short", "zero"} /\ x \in {fifo, "none"}
         /\ fifo = "short" /\ chan["out"].run /\ chan["out"].req = r => x = "none"
<1>1. fifo \in {"none", "short", "zero"} /\ chan["out"].run \in BOOLEAN
  BY DEF THard, TChan, Channels
<1>2. CASE fifo = "zero" \/ (chan["out"].req = r /\ ~chan["out"].run)
  <2>1. Left(r) = {fifo}
    BY <1>2 DEF Left
  <2> QED BY <1>1, <1>2, <2>1
<1>3. CASE fifo # "zero" /\ chan["out"].req = r /\ chan["out"].run
  <2>1. Left(r) = {"none"}
    BY <1>3 DEF Left
  <2> QED BY <1>1, <1>3, <2>1
<1>4. CASE fifo # "zero" /\ chan["out"].req # r
  <2>1. Left(r) = {fifo, "none"}
    BY <1>4 DEF Left
  <2> QED BY <1>1, <1>4, <2>1
<1> QED BY <1>1, <1>2, <1>3, <1>4

\* jz4740_out_epn: channel 2 is off before done() gives the head back, and is
\* started again for a request that is in progress.
LEMMA OutEpInv ==
  ASSUME Inv, NEW e, out_epn(e), snap' \subseteq snap, UNCHANGED <<gadget, intr>>
  PROVE  Inv'
<1>1. THard /\ TChan /\ OutChannel /\ InChannel /\ 1 \in Eps
  BY TypedIs, EndpointBits DEF Inv, Typed
<1>2. UNCHANGED <<driver, claimed, speed, checked, desc, stopped, intr>>
  BY DEF out_epn, read_fifo, gadget, soft
<1>3. TGadget' /\ TCalls' /\ TSoft' /\ TIntr'
  BY <1>2, HandlerTypes
<1>4. CASE read_fifo /\ queue[1] # << >>
  <2>1. PICK again \in BOOLEAN :
          LET r == Head(queue[1])
              q == Retired(queue[1], again)
          IN /\ queue' = [queue EXCEPT ![1] = q]
             /\ status' = [status EXCEPT ![r] = IF again THEN "progress" ELSE "ok"]
             /\ fifo' \in Left(r)
             /\ irqe' = IF q = << >> THEN irqe \ {1} ELSE irqe \cup {1}
             /\ chan' = Advance(DmaOff(chan), 1, q)
             /\ UNCHANGED <<desc, stopped, sendstall, sentstall>>
    BY <1>4 DEF read_fifo
  <2> DEFINE q == Retired(queue[1], again)
             r == Head(queue[1])
             c == DmaOff(chan)
  <2>2. /\ TQueue' /\ Listed' /\ Apart'
        /\ q # << >> => /\ Head(q) \in Reqs /\ EpOf[Head(q)] = 1
                        /\ status'[Head(q)] = "progress"
    <3>1. /\ queue' = [queue EXCEPT ![1] = Retired(queue[1], again)]
          /\ status' = [status EXCEPT ![Head(queue[1])] = IF again THEN "progress" ELSE "ok"]
      BY <2>1
    <3>2. 1 \in Eps /\ queue[1] # << >> /\ checked' = checked /\ Inv
      BY <1>1, <1>2, <1>4
    <3> HIDE DEF q
    <3>3. LET p == Retired(queue[1], again)
          IN  /\ TQueue' /\ Listed' /\ Apart'
              /\ p # << >> => /\ Head(p) \in Reqs /\ EpOf[Head(p)] = 1
                              /\ status'[Head(p)] = "progress"
      BY ONLY <3>1, <3>2, DoneStep, again \in BOOLEAN
    <3> QED BY <3>3 DEF q
  <2>3. THard'
    BY <1>1, <2>1, LeftFacts DEF THard
  <2>4. chan' = c \/ (q # << >> /\ chan' = kick_dma(c, 1, Head(q)))
    BY <2>1 DEF Advance
  <2>5. c \in Channels /\ c["in"] = chan["in"] /\ ~c["out"].run
    BY <1>1, ChannelOff DEF TChan
  <2> HIDE DEF q, r, c
  <2>6. /\ chan' \in Channels /\ chan'["in"] = chan["in"]
        /\ chan'["out"].run => q # << >> /\ chan'["out"].req = Head(q)
    BY <1>1, <2>2, <2>4, <2>5, Kick
  <2>7. OutChannel'
    BY <2>2, <2>6 DEF OutChannel
  <2>8. InChannel'
    BY <1>1, <1>2, <2>6 DEF InChannel
  <2> QED BY <1>3, <2>2, <2>3, <2>6, <2>7, <2>8, TypedIsNext DEF Inv, Typed, TChan
<1>5. CASE UNCHANGED <<soft, irqe, sendstall, sentstall, chan>> /\ (fifo' = fifo \/ fifo' = "none")
  <2>1. THard' /\ UNCHANGED <<queue, status, chan>>
    BY <1>1, <1>5 DEF THard, soft
  <2>2. TQueue' /\ Listed' /\ Apart'
    BY <1>2, <2>1, QueuesKept
  <2>3. TChan' /\ OutChannel' /\ InChannel'
    BY <1>2, <2>1, ChannelsKept
  <2> QED BY <1>3, <2>1, <2>2, <2>3, TypedIsNext DEF Inv, Typed
<1> QED BY <1>4, <1>5 DEF out_epn, hard

LEMMA IrqInv == ASSUME Inv, Irq PROVE Inv'
<1>1. CASE IrqDmaIn
  <2>1. /\ in_epn(chan["in"].ep + 1) /\ snap' \subseteq snap /\ "dma_in" \in snap
        /\ UNCHANGED <<gadget, intr>>
    BY <1>1 DEF IrqDmaIn, Served, First
  <2>2. chan["in"].ep \in 0..2 /\ chan["in"].ep # 0
    BY <2>1, TypedIs DEF Inv, Typed, TChan, Channels, InChannel
  <2>3. chan["in"].ep + 1 \in {2, 3}
    BY <2>2
  <2> QED BY <2>1, <2>3, InEpInv
<1>2. ASSUME NEW e \in {2, 3}, IrqInEp(e) PROVE Inv'
  BY <1>2, InEpInv DEF IrqInEp, Served
<1>3. CASE IrqDmaOut \/ IrqOutEp
  BY <1>3, OutEpInv DEF IrqDmaOut, IrqOutEp, Served
<1>4. ASSUME NEW a \in Eps, NEW value \in BOOLEAN, HostFeature(a, value) PROVE Inv'
  <2>1. ep_index(a) \in Eps
    BY EndpointBits DEF ep_index
  <2> QED BY <1>4, <2>1, HaltInv DEF HostFeature, Served
<1> QED BY <1>1, <1>2, <1>3, <1>4, HardwareInv DEF Irq

-----------------------------------------------------------------------------

LEMMA InvInit == Init => Inv
<1> SUFFICES ASSUME Init PROVE Inv
  OBVIOUS
<1>1. TGadget /\ TCalls /\ TSoft
  BY UdcAssumption DEF Init, TGadget, TCalls, TSoft
<1>2. TQueue
  BY DEF Init, TQueue
<1>3. THard /\ TIntr
  BY DEF Init, THard, TIntr
<1>4. TChan /\ ~chan["in"].run /\ ~chan["out"].run
  BY ChannelOff DEF Init, TChan, Channels
<1>5. Listed
  BY UdcAssumption DEF Init, Listed, Members, NoRepeat
<1>6. Apart /\ OutChannel /\ InChannel
  BY <1>4 DEF Init, Apart, OutChannel, InChannel
<1> QED BY <1>1, <1>2, <1>3, <1>4, <1>5, <1>6, TypedIs DEF Inv, Typed

LEMMA InvNext == ASSUME Inv, [Next]_vars PROVE Inv'
<1>1. ASSUME NEW e \in Eps, EpEnable(e) \/ \E value \in BOOLEAN : SetHalt(e, value) PROVE Inv'
  BY <1>1, HaltInv DEF EpEnable, SetHalt
<1> QED BY <1>1, QueueCheckInv, QueueInv, DequeueInv, DisableInv, HardwareInv, ChannelInv, IrqInv
        DEF Next

\* Whatever requests a gadget driver has, whichever endpoints it claims and however
\* many of its calls of queue() are interrupted: a request is on the queue of its
\* endpoint exactly from the time it is accepted to the time it is given back
\* (queue, done, nuke), and channel 2 never runs on a request that read_fifo has
\* given back as completed.
THEOREM RequestsSafe == Spec => [](GivenBackOnce /\ CompletedIsStill)
<1>1. Inv /\ [Next]_vars => Inv'
  BY InvNext
<1>2. Inv => GivenBackOnce /\ CompletedIsStill
  BY DEF Inv, Listed, NoRepeat, GivenBackOnce, Queued, OutChannel, CompletedIsStill
<1> QED BY InvInit, <1>1, <1>2, PTL DEF Spec

-----------------------------------------------------------------------------
(* What drives an endpoint: a second inductive invariant, on the first, of *)
(* what the interrupts announce.                                           *)

\* No endpoint is enabled without a gadget driver.
Unbound == driver # "bound" => \A e \in Eps : ~desc[e]

\* An enabled endpoint that answers with a stall is stopped.
Halted == \A e \in Eps : desc[e] /\ e \in sendstall => stopped[e]

\* A stall that was sent is announced by the interrupt of the endpoint.
Stalled == \A e \in sentstall : EpBit(e) \in intr \/ EpBit(e) \in snap

\* A short packet that came before the end of a transfer of channel 2 was served
\* is still announced.
ShortAnnounced ==
  fifo # "none" =>
    /\ "dma_out" \in intr => "outep1" \in intr
    /\ "dma_out" \in snap => "outep1" \in intr \/ "outep1" \in snap

Signals == Unbound /\ Halted /\ Stalled /\ ShortAnnounced

\* The handler serves the interrupt of the OUT endpoint after that of channel 2.
LEMMA OutLast == First("outep1") => "dma_out" \notin snap
<1> SUFFICES ASSUME First("outep1") PROVE "dma_out" \notin snap
  OBVIOUS
<1>1. DOMAIN Bits = 1..8 /\ 1..8 = {1, 2, 3, 4, 5, 6, 7, 8}
  BY DEF Bits
<1>2. /\ Bits[1] = "reset" /\ Bits[2] = "ep0" /\ Bits[3] = "setup" /\ Bits[4] = "dma_in"
      /\ Bits[5] = "dma_out" /\ Bits[6] = "inep1" /\ Bits[7] = "inep2" /\ Bits[8] = "outep1"
  BY DEF Bits
<1>3. PICK i \in 1..8 : Bits[i] = "outep1" /\ \A j \in 1..(i - 1) : Bits[j] \notin snap
  BY <1>1 DEF First
<1>4. i = 8
  BY <1>1, <1>2, <1>3
<1>5. 5 \in 1..(i - 1)
  BY <1>4
<1> QED BY <1>2, <1>3, <1>5

LEMMA EpBits ==
  /\ Eps = {1, 2, 3}
  /\ EpBit(1) = "outep1" /\ EpBit(2) = "inep1" /\ EpBit(3) = "inep2"
BY DEF Eps, EpBit

LEMMA HaltFacts ==
  ASSUME TSoft, NEW e \in Eps, NEW value \in BOOLEAN,
         Halt(e, value) \/ UNCHANGED <<stopped, sendstall, fifo>>
  PROVE  /\ \/ UNCHANGED <<stopped, sendstall>>
            \/ /\ stopped'[e] = value /\ (e \in sendstall' => value)
               /\ \A f \in Eps : f # e => /\ stopped'[f] = stopped[f]
                                          /\ f \in sendstall' => f \in sendstall
         /\ fifo' # "none" => fifo # "none"
         /\ e # 1 => fifo' = fifo
<1>1. CASE UNCHANGED <<stopped, sendstall, fifo>>
  BY <1>1
<1>2. CASE /\ stopped' = [stopped EXCEPT ![e] = value]
           /\ sendstall' = IF value THEN sendstall \cup {e} ELSE sendstall \ {e}
           /\ fifo' = Flushed(e)
  <2>1. /\ stopped'[e] = value /\ (e \in sendstall' => value)
        /\ \A f \in Eps : f # e => /\ stopped'[f] = stopped[f]
                                   /\ f \in sendstall' => f \in sendstall
    BY <1>2 DEF TSoft
  <2>2. (fifo' # "none" => fifo # "none") /\ (e # 1 => fifo' = fifo)
    BY <1>2 DEF Flushed
  <2> QED BY <2>1, <2>2
<1> QED BY <1>1, <1>2 DEF Halt

\* The gadget driver's endpoints: who enables, halts and shuts down.
LEMMA EndpointsNext == ASSUME Inv, Unbound, Halted, [Next]_vars PROVE Unbound' /\ Halted'
<1>1. TSoft
  BY TypedIs DEF Inv, Typed
<1>2. CASE UNCHANGED <<driver, desc, stopped, sendstall>>
  BY <1>2 DEF Unbound, Halted
<1>3. ASSUME NEW e \in Eps, NEW value \in BOOLEAN, driver' = driver,
             Halt(e, value) \/ UNCHANGED <<stopped, sendstall, fifo>>,
             \/ desc' = desc
             \/ driver = "bound" /\ Halt(e, FALSE) /\ desc' = [desc EXCEPT ![e] = TRUE]
      PROVE  Unbound' /\ Halted'
  <2>1. Unbound'
    BY <1>3 DEF Unbound
  <2>2. CASE desc' = desc
    <3>1. Halted'
      BY <1>1, <1>3, <2>2, HaltFacts DEF Halted
    <3> QED BY <2>1, <3>1
  <2>3. CASE Halt(e, FALSE) /\ desc' = [desc EXCEPT ![e] = TRUE]
    <3>1. /\ \A f \in Eps : f # e => stopped'[f] = stopped[f] /\ desc'[f] = desc[f]
          /\ \A f \in Eps : f \in sendstall' => f \in sendstall /\ f # e
      BY <1>1, <2>3 DEF Halt, TSoft
    <3> QED BY <2>1, <3>1 DEF Halted
  <2> QED BY <1>3, <2>2, <2>3
<1>4. CASE Register \/ StopActivity \/ UdcDisable
  BY <1>4 DEF Register, StopActivity, UdcDisable, soft, Unbound, Halted
<1>5. ASSUME NEW e \in Eps, EpDisable(e) PROVE Unbound' /\ Halted'
  BY <1>1, <1>5 DEF EpDisable, gadget, TSoft, Unbound, Halted
<1>6. ASSUME NEW e \in Eps, EpEnable(e) PROVE Unbound' /\ Halted'
  <2>1. driver' = driver /\ driver = "bound" /\ Halt(e, FALSE) /\ desc' = [desc EXCEPT ![e] = TRUE]
    BY <1>6 DEF EpEnable, gadget
  <2> QED BY <1>3, <2>1
<1>7. ASSUME NEW e \in Eps, NEW value \in BOOLEAN, SetHalt(e, value) PROVE Unbound' /\ Halted'
  BY <1>3, <1>7 DEF SetHalt, gadget
<1>8. ASSUME NEW a \in Eps, NEW value \in BOOLEAN, HostFeature(a, value)
      PROVE  Unbound' /\ Halted'
  <2>1. ep_index(a) \in Eps
    BY EpBits DEF ep_index
  <2> QED BY <1>3, <1>8, <2>1 DEF HostFeature, gadget
<1>9. ASSUME NEW r \in Reqs, QueueCheck(r) \/ QueueLocked(r) \/ QueueInSetup(r) \/ Dequeue(r)
      PROVE  Unbound' /\ Halted'
  BY <1>2, <1>9 DEF QueueCheck, QueueLocked, QueueInSetup, Dequeue, Submit, gadget, soft, hard
<1>10. CASE \/ \E e \in Eps : HostStalled(e)
            \/ IrqEnter \/ IrqReset \/ SetupCalls \/ SetupReturns
            \/ \E d \in {"in", "out"} : DmaDone(d)
            \/ ShortPacket \/ HostReset \/ HostSetup \/ UNCHANGED vars
  BY <1>2, <1>10 DEF HostStalled, IrqEnter, IrqReset, SetupCalls, SetupReturns, DmaDone,
     ShortPacket, HostReset, HostSetup, vars, gadget, soft, hard
<1>11. CASE IrqDmaIn \/ \E e \in {2, 3} : IrqInEp(e)
  BY <1>2, <1>11 DEF IrqDmaIn, IrqInEp, in_epn, write_fifo, gadget, soft, hard
<1>12. CASE IrqDmaOut \/ IrqOutEp
  BY <1>2, <1>12 DEF IrqDmaOut, IrqOutEp, out_epn, read_fifo, gadget, soft, hard
<1> QED BY <1>4, <1>5, <1>6, <1>7, <1>8, <1>9, <1>10, <1>11, <1>12 DEF Next, Irq

\* Steps that add no stall and no short packet and take no bit of an endpoint or of
\* channel 2 away.
LEMMA AnnouncedKept ==
  ASSUME Stalled, ShortAnnounced, sentstall' \subseteq sentstall, sentstall \subseteq {2, 3},
         fifo' # "none" => fifo # "none",
         \A b \in {"inep1", "inep2", "outep1"} :
           (b \in intr => b \in intr') /\ (b \in snap => b \in snap'),
         "dma_out" \in intr' => "dma_out" \in intr,
         "dma_out" \in snap' => "dma_out" \in snap
  PROVE  Stalled' /\ ShortAnnounced'
<1>1. Stalled'
  <2> SUFFICES ASSUME NEW e \in sentstall' PROVE EpBit(e) \in intr' \/ EpBit(e) \in snap'
    BY DEF Stalled
  <2>1. e \in sentstall /\ e \in {2, 3} /\ EpBit(e) \in {"inep1", "inep2", "outep1"}
    BY EpBits
  <2> QED BY <2>1 DEF Stalled
<1>2. ShortAnnounced'
  BY DEF ShortAnnounced
<1> QED BY <1>1, <1>2

LEMMA AnnouncedNext ==
  ASSUME Inv, Stalled, ShortAnnounced, [Next]_vars
  PROVE  Stalled' /\ ShortAnnounced'
<1>1. sentstall \subseteq {2, 3} /\ THard /\ TChan
  BY TypedIs DEF Inv, Typed, THard
<1>2. ASSUME NEW r \in Reqs, QueueCheck(r) \/ QueueLocked(r) \/ QueueInSetup(r) \/ Dequeue(r)
      PROVE  Stalled' /\ ShortAnnounced'
  <2>1. UNCHANGED <<sentstall, fifo, intr, snap>>
    BY <1>2 DEF QueueCheck, QueueLocked, QueueInSetup, Dequeue, Submit, gadget, soft, hard
  <2> QED BY <1>1, <2>1, AnnouncedKept
<1>3. ASSUME NEW e \in Eps, NEW value \in BOOLEAN, EpEnable(e) \/ EpDisable(e) \/ SetHalt(e, value)
      PROVE  Stalled' /\ ShortAnnounced'
  <2>1. (fifo' # "none" => fifo # "none") /\ UNCHANGED <<sentstall, intr, snap>>
    BY <1>3 DEF EpEnable, EpDisable, SetHalt, Halt, Flushed, Nuke
  <2> QED BY <1>1, <2>1, AnnouncedKept
<1>4. CASE Register \/ StopActivity
  <2>1. (fifo' # "none" => fifo # "none") /\ UNCHANGED <<sentstall, intr, snap>>
    BY <1>4 DEF Register, StopActivity, Nuke
  <2> QED BY <1>1, <2>1, AnnouncedKept
<1>5. CASE UdcDisable
  <2>1. /\ UNCHANGED <<sentstall, fifo, snap>>
        /\ intr' = intr \cap {EpBit(e) : e \in Eps}
    BY <1>5 DEF UdcDisable
  <2>2. {EpBit(e) : e \in Eps} = {"inep1", "inep2", "outep1"}
    BY EpBits
  <2> QED BY <1>1, <2>1, <2>2, AnnouncedKept
<1>6. CASE IrqEnter
  <2>1. snap = {} /\ snap' = intr /\ intr' = {} /\ UNCHANGED <<sentstall, fifo>>
    BY <1>6 DEF IrqEnter, Process, hard
  <2> QED BY <2>1 DEF Stalled, ShortAnnounced
<1>7. CASE \/ IrqReset \/ SetupCalls \/ SetupReturns
           \/ \E a \in Eps, value \in BOOLEAN : HostFeature(a, value)
  <2>1. (fifo' # "none" => fifo # "none") /\ UNCHANGED <<sentstall, intr>>
    BY <1>7 DEF IrqReset, SetupCalls, SetupReturns, HostFeature, Halt, Flushed, hard
  <2>2. \A b \in {"dma_out", "inep1", "inep2", "outep1"} : b \in snap' <=> b \in snap
    BY <1>7 DEF IrqReset, SetupCalls, SetupReturns, HostFeature, Served
  <2> QED BY <1>1, <2>1, <2>2, AnnouncedKept
<1>8. CASE IrqDmaIn
  <2>1. sentstall' \subseteq sentstall /\ fifo' = fifo /\ intr' = intr
    BY <1>8 DEF IrqDmaIn, in_epn, write_fifo, hard
  <2>2. snap' = snap \ {"dma_in"}
    BY <1>8 DEF IrqDmaIn, Served
  <2> QED BY <1>1, <2>1, <2>2, AnnouncedKept
<1>9. ASSUME NEW e \in {2, 3}, IrqInEp(e) PROVE Stalled' /\ ShortAnnounced'
  <2>1. sentstall' \subseteq sentstall /\ e \notin sentstall' /\ fifo' = fifo /\ intr' = intr
    BY <1>9 DEF IrqInEp, in_epn, write_fifo, hard
  <2>2. snap' = snap \ {EpBit(e)}
    BY <1>9 DEF IrqInEp, Served
  <2>3. Stalled'
    <3> SUFFICES ASSUME NEW f \in sentstall' PROVE EpBit(f) \in intr' \/ EpBit(f) \in snap'
      BY DEF Stalled
    <3>1. f \in {2, 3} /\ f # e /\ (EpBit(f) \in intr \/ EpBit(f) \in snap)
      BY <1>1, <2>1 DEF Stalled
    <3>2. EpBit(f) # EpBit(e)
      BY <3>1, EpBits
    <3> QED BY <2>1, <2>2, <3>1, <3>2
  <2>4. EpBit(e) # "outep1" /\ EpBit(e) # "dma_out"
    BY EpBits
  <2>5. ShortAnnounced'
    BY <2>1, <2>2, <2>4 DEF ShortAnnounced
  <2> QED BY <2>3, <2>5
<1>10. CASE IrqDmaOut \/ IrqOutEp
  <2>1. (fifo' # "none" => fifo # "none") /\ UNCHANGED <<sentstall, intr>>
    <3>1. PICK e : out_epn(e) /\ intr' = intr
      BY <1>10 DEF IrqDmaOut, IrqOutEp
    <3>2. CASE fifo' = "none" /\ sentstall' = sentstall
      BY <3>1, <3>2
    <3>3. CASE UNCHANGED <<fifo, sentstall>>
      BY <3>1, <3>3
    <3>4. CASE read_fifo
      <4>1. fifo' \in Left(Head(queue[1])) /\ sentstall' = sentstall
        BY <3>4 DEF read_fifo
      <4> QED BY <1>1, <3>1, <4>1, LeftFacts
    <3> QED BY <3>1, <3>2, <3>3, <3>4 DEF out_epn, hard
  <2>2. CASE IrqDmaOut
    <3>1. snap' = snap \ {"dma_out"}
      BY <2>2 DEF IrqDmaOut, Served
    <3> QED BY <1>1, <2>1, <3>1, AnnouncedKept
  <2>3. CASE IrqOutEp
    <3>1. snap' = snap \ {"outep1"} /\ "dma_out" \notin snap
      BY <2>3, OutLast DEF IrqOutEp, Served
    <3>2. ShortAnnounced'
      BY <2>1, <3>1 DEF ShortAnnounced
    <3>3. ASSUME NEW e \in {2, 3} PROVE EpBit(e) # "outep1"
      BY EpBits
    <3>4. Stalled'
      BY <1>1, <2>1, <3>1, <3>3 DEF Stalled
    <3> QED BY <3>2, <3>4
  <2> QED BY <1>10, <2>2, <2>3
<1>11. ASSUME NEW d \in {"in", "out"}, DmaDone(d) PROVE Stalled' /\ ShortAnnounced'
  <2>1. /\ UNCHANGED <<sentstall, fifo, snap>> /\ (d = "out" => fifo = "none")
        /\ intr' = intr \cup {IF d = "in" THEN "dma_in" ELSE "dma_out"}
    BY <1>11 DEF DmaDone
  <2>2. ShortAnnounced'
    BY <2>1 DEF ShortAnnounced
  <2>3. Stalled'
    BY <2>1 DEF Stalled
  <2> QED BY <2>2, <2>3
<1>12. CASE ShortPacket
  BY <1>12 DEF ShortPacket, Stalled, ShortAnnounced
<1>13. ASSUME NEW e \in Eps, HostStalled(e) PROVE Stalled' /\ ShortAnnounced'
  <2>1. /\ sentstall' \subseteq sentstall \cup {e}
        /\ intr' = intr \cup {EpBit(e)} /\ UNCHANGED <<fifo, snap>>
    BY <1>13 DEF HostStalled
  <2>2. Stalled'
    BY <2>1 DEF Stalled
  <2>3. EpBit(e) # "dma_out"
    BY EpBits
  <2>4. ShortAnnounced'
    BY <2>1, <2>3 DEF ShortAnnounced
  <2> QED BY <2>2, <2>4
<1>14. CASE HostReset \/ HostSetup \/ UNCHANGED vars
  <2>1. /\ UNCHANGED <<sentstall, fifo, snap>>
        /\ intr' \in {intr, intr \cup {"reset"}, intr \cup {"ep0"}}
    BY <1>14 DEF HostReset, HostSetup, vars, hard
  <2> QED BY <1>1, <2>1, AnnouncedKept
<1> QED BY <1>2, <1>3, <1>4, <1>5, <1>6, <1>7, <1>8, <1>9, <1>10, <1>11, <1>12, <1>13, <1>14
        DEF Next, Irq

LEMMA SignalsAlways == Spec => [](Inv /\ Signals)
<1>1. Init => Signals
  BY DEF Init, Signals, Unbound, Halted, Stalled, ShortAnnounced
<1>2. Inv /\ Signals /\ [Next]_vars => Inv' /\ Signals'
  BY InvNext, EndpointsNext, AnnouncedNext DEF Signals
<1> QED BY InvInit, <1>1, <1>2, PTL DEF Spec

-----------------------------------------------------------------------------
(* Driven, with the bits of the interrupt mask spelt out.                  *)

DmaBit(e) == IF ep_is_in(e) THEN "dma_in" ELSE "dma_out"
Wants(e) == desc[e] /\ ~stopped[e] /\ queue[e] # << >>
ByBit(e) == /\ EpBit(e) \in snap \/ (EpBit(e) \in intr /\ e \in irqe)
            /\ e \notin sentstall
Moves(e) == chan[Dir(e)].run /\ (e = 1 => fifo = "none")
ByDma(e) == /\ chan[Dir(e)].ep = ep_index(e) /\ e \in irqe
            /\ DmaBit(e) \in snap \/ DmaBit(e) \in intr \/ Moves(e)
DrivenMeans == \A e \in Eps : Driven(e) <=> (Wants(e) => ByBit(e) \/ ByDma(e))

LEMMA EpFacts ==
  /\ Dir(1) = "out" /\ Dir(2) = "in" /\ Dir(3) = "in"
  /\ DmaBit(1) = "dma_out" /\ DmaBit(2) = "dma_in" /\ DmaBit(3) = "dma_in"
  /\ ep_index(1) = 1 /\ ep_index(2) = 1 /\ ep_index(3) = 2
  /\ ~ep_is_in(1) /\ ep_is_in(2) /\ ep_is_in(3)
BY DEF Dir, DmaBit, ep_index, ep_is_in

LEMMA Meaning == THard => DrivenMeans
<1> SUFFICES ASSUME THard, NEW e \in Eps
             PROVE  Driven(e) <=> (Wants(e) => ByBit(e) \/ ByDma(e))
  BY DEF DrivenMeans
<1>1. irqe \subseteq {1, 2, 3} /\ e \in {1, 2, 3}
  BY EpBits DEF THard
<1>2. EpBit(e) \in Enabled <=> e \in irqe
  BY <1>1, EpBits DEF Enabled
<1>3. DmaBit(e) \in Enabled
  BY DEF Enabled, DmaBit
<1>4. \A b : Pending(b) <=> b \in snap \/ (b \in intr /\ b \in Enabled)
  BY DEF Pending
<1>5. Driven(e) <=> (Wants(e) =>
         \/ Pending(EpBit(e)) /\ e \notin sentstall
         \/ /\ chan[Dir(e)].ep = ep_index(e) /\ e \in irqe
            /\ Pending(DmaBit(e)) \/ Moves(e))
  BY Zenon DEF Driven, Wants, DmaBit, Moves
<1> QED BY <1>2, <1>3, <1>4, <1>5, Zenon DEF ByBit, ByDma

LEMMA MeaningNext == THard' => DrivenMeans'
BY Meaning, PTL

\* What keeps an endpoint driven.
LEMMA DrivenKept ==
  ASSUME Inv, Inv', NEW e \in Eps, Driven(e), Wants(e)' => Wants(e),
         e \in irqe => e \in irqe', e \in sentstall' => e \in sentstall,
         EpBit(e) \in snap => EpBit(e) \in snap',
         EpBit(e) \in intr => EpBit(e) \in intr' \/ EpBit(e) \in snap',
         chan[Dir(e)].ep = ep_index(e) =>
           /\ chan'[Dir(e)].ep = ep_index(e)
           /\ DmaBit(e) \in snap => DmaBit(e) \in snap'
           /\ DmaBit(e) \in intr => DmaBit(e) \in intr' \/ DmaBit(e) \in snap'
           /\ Moves(e) => Moves(e)' \/ DmaBit(e) \in intr' \/ DmaBit(e) \in snap'
  PROVE  Driven(e)'
<1>1. DrivenMeans /\ DrivenMeans'
  BY TypedIs, TypedIsNext, Meaning, MeaningNext DEF Inv, Typed
<1>2. Wants(e)' => ByBit(e) \/ ByDma(e)
  BY <1>1 DEF DrivenMeans
<1>3. ByBit(e) => ByBit(e)'
  BY DEF ByBit
<1>4. ByDma(e) => ByDma(e)'
  BY DEF ByDma
<1>5. Wants(e)' => ByBit(e)' \/ ByDma(e)'
  BY <1>2, <1>3, <1>4
<1> QED BY <1>1, <1>5 DEF DrivenMeans

\* Steps that leave the channels and the masks alone and lose no bit.
LEMMA DrivenStill ==
  ASSUME Inv, Inv', NEW e \in Eps, Driven(e), Wants(e)' => Wants(e),
         UNCHANGED <<irqe, sentstall, chan>>, fifo' # "none" => fifo # "none",
         \A b \in {"dma_in", "dma_out", "inep1", "inep2", "outep1"} :
           (b \in snap => b \in snap') /\ (b \in intr => b \in intr' \/ b \in snap')
  PROVE  Driven(e)'
<1>1. EpBit(e) \in {"inep1", "inep2", "outep1"} /\ DmaBit(e) \in {"dma_in", "dma_out"}
  BY EpBits DEF DmaBit
<1>2. Moves(e) => Moves(e)'
  BY DEF Moves
<1> QED BY <1>1, <1>2, DrivenKept

\* A running channel drives its endpoint.
LEMMA DrivenByChannel ==
  ASSUME Inv', NEW e \in Eps, e \in irqe',
         chan'[Dir(e)].ep = ep_index(e), chan'[Dir(e)].run, e = 1 => fifo' = "none"
  PROVE  Driven(e)'
<1>1. DrivenMeans'
  BY TypedIsNext, MeaningNext DEF Inv, Typed
<1>2. ByDma(e)'
  BY DEF ByDma, Moves
<1> QED BY <1>1, <1>2 DEF DrivenMeans

LEMMA DrivenByBit ==
  ASSUME Inv', NEW e \in Eps, e \notin sentstall',
         EpBit(e) \in snap' \/ (EpBit(e) \in intr' /\ e \in irqe')
  PROVE  Driven(e)'
<1>1. DrivenMeans'
  BY TypedIsNext, MeaningNext DEF Inv, Typed
<1>2. ByBit(e)'
  BY DEF ByBit
<1> QED BY <1>1, <1>2 DEF DrivenMeans

LEMMA DrivenIfIdle == ASSUME Inv', NEW e \in Eps, ~Wants(e)' PROVE Driven(e)'
<1>1. DrivenMeans'
  BY TypedIsNext, MeaningNext DEF Inv, Typed
<1> QED BY <1>1 DEF DrivenMeans

\* kick_dma for e takes channel 1 from the other IN endpoint, or leaves f alone.
LEMMA KickFacts ==
  ASSUME NEW c \in Channels, NEW e \in Eps, NEW r
  PROVE  LET k == kick_dma(c, e, r)
         IN  /\ k[Dir(e)].ep = ep_index(e) /\ k[Dir(e)].run
             /\ \A f \in Eps : f # e => \/ k[Dir(f)] = c[Dir(f)]
                                        \/ ep_is_in(f) /\ k["in"].ep # ep_index(f)
<1> DEFINE x == [ep |-> ep_index(e), req |-> r, run |-> TRUE]
           k == kick_dma(c, e, r)
<1>1. k = [c EXCEPT ![Dir(e)] = x] /\ x.ep = ep_index(e) /\ x.run
  BY DEF kick_dma
<1>2. Dir(e) \in {"in", "out"} /\ \A f \in Eps : Dir(f) \in {"in", "out"}
  BY DEF Dir
<1> HIDE DEF x, k
<1>3. k[Dir(e)] = x /\ \A f \in Eps : Dir(f) # Dir(e) => k[Dir(f)] = c[Dir(f)]
  BY <1>1, <1>2 DEF Channels
<1>4. ASSUME NEW f \in Eps, f # e, Dir(f) = Dir(e)
      PROVE  ep_is_in(f) /\ Dir(e) = "in" /\ ep_index(e) # ep_index(f)
  BY <1>4, EpBits, EpFacts
<1>5. \A f \in Eps : f # e => \/ k[Dir(f)] = c[Dir(f)]
                              \/ ep_is_in(f) /\ k["in"].ep # ep_index(f)
  BY <1>1, <1>3, <1>4
<1> QED BY <1>1, <1>3, <1>5 DEF k

\* An endpoint that another one's step does not concern.
LEMMA DrivenUnlessStolen ==
  ASSUME Inv, Inv', NEW e \in Eps, Driven(e), Wants(e)' => Wants(e),
         e \in irqe => e \in irqe', e \in sentstall' => e \in sentstall, fifo' # "none" => fifo # "none",
         EpBit(e) \in snap => EpBit(e) \in snap', intr' = intr,
         chan[Dir(e)].ep = ep_index(e) => (DmaBit(e) \in snap => DmaBit(e) \in snap'),
         \/ chan'[Dir(e)] = chan[Dir(e)]
         \/ ep_is_in(e) /\ chan'["in"].ep # ep_index(e)
  PROVE  Driven(e)' \/ Stolen(e)
<1>1. CASE chan'[Dir(e)] = chan[Dir(e)]
  <2>1. Moves(e) => Moves(e)'
    BY <1>1 DEF Moves
  <2>2. Driven(e)'
    BY <1>1, <2>1, DrivenKept
  <2> QED BY <2>2
<1>2. CASE ep_is_in(e) /\ chan'["in"].ep # ep_index(e) /\ chan["in"].ep = ep_index(e)
  BY <1>2 DEF Stolen
<1>3. CASE ep_is_in(e) /\ chan["in"].ep # ep_index(e)
  <2>1. chan[Dir(e)].ep # ep_index(e)
    BY <1>3 DEF Dir
  <2>2. Driven(e)'
    BY <2>1, DrivenKept
  <2> QED BY <2>2
<1> QED BY <1>1, <1>2, <1>3

LEMMA SubmitDriven ==
  ASSUME Inv, Inv', NEW r \in Reqs, Submit(r), UNCHANGED <<intr, snap>>,
         NEW e \in Eps, Driven(e)
  PROVE  Driven(e)' \/ Stolen(e) \/ Deaf(e)
<1> DEFINE g == EpOf[r]
<1>1. TQueue /\ TChan /\ g \in Eps
  BY TypedIs, UdcAssumption DEF Inv, Typed
<1>2. /\ \A f \in Eps : f # g => queue'[f] = queue[f]
      /\ UNCHANGED <<desc, stopped, sentstall, fifo>>
  BY <1>1 DEF Submit, TQueue
<1>3. CASE queue[g] = << >> /\ ~stopped[g]
  <2>1. chan' = kick_dma(chan, g, r) /\ irqe' = irqe \cup {g}
    BY <1>3 DEF Submit
  <2>2. /\ chan'[Dir(g)].ep = ep_index(g) /\ chan'[Dir(g)].run
        /\ \A f \in Eps : f # g => \/ chan'[Dir(f)] = chan[Dir(f)]
                                   \/ ep_is_in(f) /\ chan'["in"].ep # ep_index(f)
    BY <1>1, <2>1, KickFacts DEF TChan
  <2>3. CASE e = g /\ ~(e = 1 /\ fifo # "none")
    BY <1>2, <2>1, <2>2, <2>3, DrivenByChannel
  <2>4. CASE e = g /\ e = 1 /\ fifo # "none"
    BY <1>3, <2>4 DEF Deaf
  <2>5. CASE e # g
    <3>1. Wants(e)' => Wants(e)
      BY <1>2, <2>5 DEF Wants
    <3> QED BY <1>2, <2>1, <2>2, <2>5, <3>1, DrivenUnlessStolen
  <2> QED BY <2>3, <2>4, <2>5
<1>4. CASE ~(queue[g] = << >> /\ ~stopped[g])
  <2>1. UNCHANGED <<chan, irqe>>
    BY <1>4 DEF Submit
  <2>2. Wants(e)' => Wants(e)
    BY <1>2, <1>4 DEF Wants
  <2> QED BY <1>2, <2>1, <2>2, DrivenStill
<1> QED BY <1>3, <1>4

LEMMA GadgetDriven ==
  ASSUME Inv, Inv', Signals, NEW e \in Eps, Driven(e),
         \/ \E r \in Reqs : QueueCheck(r) \/ Dequeue(r)
         \/ Register \/ StopActivity \/ UdcDisable
         \/ \E g \in Eps : EpEnable(g) \/ EpDisable(g) \/ \E value \in BOOLEAN : SetHalt(g, value)
         \/ \E a \in Eps, value \in BOOLEAN : HostFeature(a, value)
  PROVE  Driven(e)' \/ Restarted(e)
<1>1. TQueue /\ TSoft
  BY TypedIs DEF Inv, Typed
<1>2. ASSUME NEW r \in Reqs, QueueCheck(r) PROVE Driven(e)'
  <2>1. UNCHANGED <<desc, stopped, queue, irqe, sentstall, chan, fifo, intr, snap>>
    BY <1>2 DEF QueueCheck, soft, hard
  <2> QED BY <2>1, DrivenStill DEF Wants
<1>3. ASSUME NEW r \in Reqs, Dequeue(r) PROVE Driven(e)'
  <2>1. UNCHANGED <<desc, stopped, irqe, sentstall, chan, fifo, intr, snap>>
    BY <1>3 DEF Dequeue, hard
  <2>2. queue'[e] = queue[e] \/ queue[e] # << >>
    BY <1>1, <1>3 DEF Dequeue, TQueue
  <2> QED BY <2>1, <2>2, DrivenStill DEF Wants
<1>4. CASE Register \/ UdcDisable
  <2>1. desc' = desc /\ driver # "bound"
    BY <1>4 DEF Register, UdcDisable, soft
  <2>2. ~Wants(e)'
    BY <2>1 DEF Wants, Signals, Unbound
  <2> QED BY <2>2, DrivenIfIdle
<1>5. CASE StopActivity
  <2>1. ~Wants(e)'
    BY <1>5 DEF Wants, StopActivity
  <2> QED BY <2>1, DrivenIfIdle
<1>6. ASSUME NEW g \in Eps, EpDisable(g) PROVE Driven(e)'
  <2>1. CASE e = g
    <3>1. ~Wants(e)'
      BY <1>1, <1>6, <2>1 DEF EpDisable, Wants, TSoft
    <3> QED BY <3>1, DrivenIfIdle
  <2>2. CASE e # g
    <3>1. /\ Wants(e)' <=> Wants(e)
          /\ UNCHANGED <<sentstall, chan, intr, snap>>
          /\ fifo' # "none" => fifo # "none"
          /\ e \in irqe => e \in irqe'
      BY <1>1, <1>6, <2>2 DEF EpDisable, Nuke, Wants, TSoft
    <3>2. Moves(e) => Moves(e)'
      BY <3>1 DEF Moves
    <3> QED BY <3>1, <3>2, DrivenKept
  <2> QED BY <2>1, <2>2
<1>7. ASSUME NEW g \in Eps, NEW value \in BOOLEAN,
             Halt(g, value) \/ UNCHANGED <<stopped, sendstall, fifo>>,
             desc' = desc \/ (~desc[g] /\ desc' = [desc EXCEPT ![g] = TRUE]),
             UNCHANGED <<queue, irqe, sentstall, chan, intr>>,
             \A b \in {"dma_in", "dma_out", "inep1", "inep2", "outep1"} : b \in snap => b \in snap'
      PROVE  Driven(e)' \/ Restarted(e)
  <2>1. (Wants(e)' => Wants(e)) \/ Restarted(e)
    BY <1>7 DEF Wants, Restarted
  <2>2. fifo' # "none" => fifo # "none"
    BY <1>1, <1>7, HaltFacts
  <2> QED BY <1>7, <2>1, <2>2, DrivenStill
<1>8. ASSUME NEW g \in Eps, EpEnable(g) PROVE Driven(e)' \/ Restarted(e)
  BY <1>7, <1>8 DEF EpEnable
<1>9. ASSUME NEW g \in Eps, NEW value \in BOOLEAN, SetHalt(g, value)
      PROVE  Driven(e)' \/ Restarted(e)
  BY <1>7, <1>9 DEF SetHalt
<1>10. ASSUME NEW a \in Eps, NEW value \in BOOLEAN, HostFeature(a, value)
       PROVE  Driven(e)' \/ Restarted(e)
  <2>1. ep_index(a) \in Eps
    BY EpBits DEF ep_index
  <2>2. \A b \in {"dma_in", "dma_out", "inep1", "inep2", "outep1"} : b \in snap => b \in snap'
    BY <1>10 DEF HostFeature, Served
  <2> QED BY <1>7, <1>10, <2>1, <2>2 DEF HostFeature
<1> QED BY <1>2, <1>3, <1>4, <1>5, <1>6, <1>8, <1>9, <1>10

LEMMA HardwareDriven ==
  ASSUME Inv, Inv', Signals, NEW e \in Eps, Driven(e),
         \/ IrqEnter \/ IrqReset \/ SetupCalls \/ SetupReturns \/ HostReset \/ HostSetup
         \/ ShortPacket \/ UNCHANGED vars
         \/ \E d \in {"in", "out"} : DmaDone(d)
         \/ \E g \in Eps : HostStalled(g)
  PROVE  Driven(e)'
<1>1. THard /\ TChan
  BY TypedIs DEF Inv, Typed
<1>2. CASE IrqEnter \/ IrqReset \/ SetupCalls \/ SetupReturns \/ HostReset \/ HostSetup
           \/ UNCHANGED vars
  <2>1. UNCHANGED <<desc, stopped, queue, irqe, sentstall, chan, fifo>>
    BY <1>2 DEF IrqEnter, IrqReset, SetupCalls, SetupReturns, HostReset, HostSetup, vars, soft, hard
  <2>2. \A b \in {"dma_in", "dma_out", "inep1", "inep2", "outep1"} :
          (b \in snap => b \in snap') /\ (b \in intr => b \in intr' \/ b \in snap')
    BY <1>2 DEF IrqEnter, IrqReset, SetupCalls, SetupReturns, HostReset, HostSetup, vars,
       Process, Served
  <2> QED BY <2>1, <2>2, DrivenStill DEF Wants
<1>3. ASSUME NEW d \in {"in", "out"}, DmaDone(d) PROVE Driven(e)'
  <2>1. /\ UNCHANGED <<desc, stopped, queue, irqe, sentstall, fifo, snap>>
        /\ intr' = intr \cup {IF d = "in" THEN "dma_in" ELSE "dma_out"}
    BY <1>3 DEF DmaDone, soft
  <2>2. /\ chan'[Dir(e)].ep = chan[Dir(e)].ep
        /\ Dir(e) # d => chan'[Dir(e)] = chan[Dir(e)]
    <3>1. Dir(e) \in {"in", "out"}
      BY DEF Dir
    <3> QED BY <1>1, <1>3, <3>1 DEF DmaDone, TChan, Channels
  <2>3. Dir(e) = d => DmaBit(e) \in intr'
    BY <2>1, EpBits, EpFacts
  <2>4. Moves(e) => Moves(e)' \/ DmaBit(e) \in intr'
    BY <2>1, <2>2, <2>3 DEF Moves
  <2> QED BY <2>1, <2>2, <2>4, DrivenKept DEF Wants
<1>4. CASE ShortPacket
  <2>1. /\ UNCHANGED <<desc, stopped, queue, irqe, sentstall, chan, snap>>
        /\ intr' = intr \cup {"outep1"}
    BY <1>4 DEF ShortPacket, soft
  <2>2. CASE e = 1
    <3>1. 1 \notin sentstall' /\ EpBit(1) \in intr'
      BY <1>1, <2>1, EpBits DEF THard
    <3>2. CASE 1 \in irqe'
      BY <2>2, <3>1, <3>2, DrivenByBit
    <3>3. CASE 1 \notin irqe'
      <4>1. DrivenMeans /\ DrivenMeans'
        BY TypedIs, TypedIsNext, Meaning, MeaningNext DEF Inv, Typed
      <4>2. ~ByDma(1)
        BY <2>1, <3>3 DEF ByDma
      <4>3. (ByBit(1) => ByBit(1)') /\ (Wants(1)' => Wants(1))
        BY <2>1 DEF ByBit, Wants
      <4> QED BY <2>2, <4>1, <4>2, <4>3 DEF DrivenMeans
    <3> QED BY <3>2, <3>3
  <2>3. CASE e # 1
    <3>1. Moves(e) => Moves(e)'
      BY <2>1, <2>3 DEF Moves
    <3> QED BY <2>1, <3>1, DrivenKept DEF Wants
  <2> QED BY <2>2, <2>3
<1>5. ASSUME NEW g \in Eps, HostStalled(g) PROVE Driven(e)'
  <2>1. /\ UNCHANGED <<desc, stopped, queue, irqe, chan, fifo, snap>> /\ intr \subseteq intr'
        /\ g \in sendstall /\ desc[g] /\ sentstall' \subseteq sentstall \cup {g}
    BY <1>5 DEF HostStalled, soft
  <2>2. CASE e = g
    <3>1. ~Wants(e)'
      BY <2>1, <2>2 DEF Signals, Halted, Wants
    <3> QED BY <3>1, DrivenIfIdle
  <2>3. CASE e # g
    <3>1. Moves(e) => Moves(e)'
      BY <2>1 DEF Moves
    <3> QED BY <2>1, <2>3, <3>1, DrivenKept DEF Wants
  <2> QED BY <2>2, <2>3
<1> QED BY <1>2, <1>3, <1>4, <1>5

\* jz4740_in_epn completes the head of an IN endpoint and starts the next one, or
\* finds a stall to acknowledge, whose interrupt is then still to come.
LEMMA InEpDriven ==
  ASSUME Inv, Inv', Signals, NEW g \in {2, 3}, in_epn(g), intr' = intr,
         \/ snap' = snap \ {EpBit(g)}
         \/ snap' = snap \ {"dma_in"} /\ chan["in"].ep = ep_index(g),
         NEW e \in Eps, Driven(e)
  PROVE  Driven(e)' \/ Stolen(e)
<1>1. TQueue /\ TChan /\ THard /\ g \in Eps
  BY TypedIs, EpBits DEF Inv, Typed
<1>2. /\ UNCHANGED <<desc, stopped, sendstall, fifo>> /\ sentstall' \subseteq sentstall
      /\ \A f \in Eps : f # g => /\ queue'[f] = queue[f]
                                 /\ f \in irqe => f \in irqe'
  BY <1>1 DEF in_epn, write_fifo, soft, hard, TQueue
<1>3. \A f \in Eps : f # g => \/ chan'[Dir(f)] = chan[Dir(f)]
                              \/ ep_is_in(f) /\ chan'["in"].ep # ep_index(f)
  <2>1. chan' = chan \/ \E r : chan' = kick_dma(chan, g, r)
    BY DEF in_epn, write_fifo, hard, Advance
  <2> QED BY <1>1, <2>1, KickFacts DEF TChan
<1>4. CASE e # g
  <2>1. EpBit(e) # EpBit(g) /\ EpBit(e) # "dma_in" /\ DmaBit(e) # EpBit(g)
    BY <1>1, <1>4, EpBits, EpFacts
  <2>2. EpBit(e) \in snap => EpBit(e) \in snap'
    BY <2>1
  <2>3. chan["in"].ep = ep_index(g) /\ chan[Dir(e)].ep = ep_index(e) => DmaBit(e) # "dma_in"
    BY <1>1, <1>4, EpBits, EpFacts
  <2>4. chan[Dir(e)].ep = ep_index(e) => (DmaBit(e) \in snap => DmaBit(e) \in snap')
    BY <2>1, <2>3
  <2>5. Wants(e)' => Wants(e)
    BY <1>2, <1>4 DEF Wants
  <2> QED BY <1>2, <1>3, <1>4, <2>2, <2>4, <2>5, DrivenUnlessStolen
<1>5. CASE e = g /\ g \in sentstall
  <2>1. sentstall' = sentstall \ {g} /\ UNCHANGED <<desc, stopped, queue, irqe, chan, fifo>>
    BY <1>5 DEF in_epn, soft
  <2>2. DrivenMeans /\ DrivenMeans'
    BY TypedIs, TypedIsNext, Meaning, MeaningNext DEF Inv, Typed
  <2>3. Wants(e)' => ByDma(e)
    <3>1. ~ByBit(e)
      BY <1>5 DEF ByBit
    <3>2. Wants(e)' => Wants(e)
      BY <2>1 DEF Wants
    <3> QED BY <2>2, <3>1, <3>2 DEF DrivenMeans
  <2>4. CASE snap' = snap \ {EpBit(g)}
    <3>1. DmaBit(e) # EpBit(g)
      BY <1>1, <1>5, EpBits, EpFacts
    <3>2. ByDma(e) => ByDma(e)'
      BY <2>1, <2>4, <3>1 DEF ByDma, Moves
    <3> QED BY <2>2, <2>3, <3>2 DEF DrivenMeans
  <2>5. CASE snap' = snap \ {"dma_in"}
    <3>1. EpBit(e) \in intr \/ EpBit(e) \in snap
      BY <1>5 DEF Signals, Stalled
    <3>2. EpBit(e) # "dma_in"
      BY <1>5, EpBits
    <3>3. ByDma(e) => e \in irqe'
      BY <2>1 DEF ByDma
    <3>4. ByDma(e) => ByBit(e)'
      BY <1>5, <2>1, <2>5, <3>1, <3>2, <3>3 DEF ByBit
    <3> QED BY <2>2, <2>3, <3>4 DEF DrivenMeans
  <2> QED BY <2>4, <2>5
<1>6. CASE e = g /\ g \notin sentstall /\ (~desc[g] \/ queue[g] = << >>)
  <2>1. desc' = desc /\ (~desc[g] \/ queue'[g] = << >>)
    BY <1>6 DEF in_epn, soft
  <2>2. ~Wants(e)'
    BY <1>6, <2>1 DEF Wants
  <2> QED BY <2>2, DrivenIfIdle
<1>7. CASE e = g /\ g \notin sentstall /\ desc[g] /\ queue[g] # << >>
  <2>1. PICK again \in BOOLEAN :
          LET q == Retired(queue[g], again)
          IN /\ queue' = [queue EXCEPT ![g] = q]
             /\ irqe' = IF q = << >> THEN irqe \ {g} ELSE irqe \cup {g}
             /\ chan' = Advance(chan, g, q)
    BY <1>7 DEF in_epn, write_fifo
  <2> DEFINE q == Retired(queue[g], again)
  <2>2. queue'[g] = q
    BY <1>1, <2>1 DEF TQueue
  <2>3. CASE q = << >>
    <3>1. ~Wants(e)'
      BY <1>7, <2>2, <2>3 DEF Wants
    <3> QED BY <3>1, DrivenIfIdle
  <2>4. CASE q # << >>
    <3>1. chan' = kick_dma(chan, g, Head(q)) /\ g \in irqe'
      BY <2>1, <2>4 DEF Advance
    <3>2. chan'[Dir(g)].ep = ep_index(g) /\ chan'[Dir(g)].run
      BY <1>1, <3>1, KickFacts DEF TChan
    <3>3. e # 1
      BY <1>7
    <3> QED BY <1>7, <3>1, <3>2, <3>3, DrivenByChannel
  <2> QED BY <2>3, <2>4
<1> QED BY <1>4, <1>5, <1>6, <1>7

\* jz4740_out_epn, called for channel 2 or for the interrupt of the endpoint: the
\* next request is started, and a packet that stays in the FIFO is announced
\* unless its own interrupt is the one that is served.
LEMMA OutEpDriven ==
  ASSUME Inv, Inv', Signals, IrqDmaOut \/ IrqOutEp, NEW e \in Eps, Driven(e)
  PROVE  Driven(e)' \/ Stolen(e) \/ Unread(e)
<1>1. TQueue /\ TChan /\ THard /\ 1 \in Eps
  BY TypedIs, EpBits DEF Inv, Typed
<1>2. PICK g, bit : /\ out_epn(g) /\ First(bit) /\ bit \in snap /\ snap' = snap \ {bit} /\ intr' = intr
                    /\ \/ g = 1 /\ bit = "outep1"
                       \/ g = chan["out"].ep /\ bit = "dma_out"
  BY DEF IrqDmaOut, IrqOutEp, Served, First
<1>3. CASE read_fifo /\ desc[1] /\ queue[1] # << >> /\ g = 1
  <2>1. PICK again \in BOOLEAN :
          LET q == Retired(queue[1], again)
          IN /\ queue' = [queue EXCEPT ![1] = q]
             /\ fifo' \in Left(Head(queue[1]))
             /\ irqe' = IF q = << >> THEN irqe \ {1} ELSE irqe \cup {1}
             /\ chan' = Advance(DmaOff(chan), 1, q)
             /\ UNCHANGED <<desc, stopped, sendstall, sentstall>>
    BY <1>3 DEF read_fifo
  <2> DEFINE q == Retired(queue[1], again)
             c == DmaOff(chan)
  <2>2. /\ fifo' # "none" => fifo # "none"
        /\ fifo = "short" /\ chan["out"].run /\ chan["out"].req = Head(queue[1]) => fifo' = "none"
    BY <1>1, <2>1, LeftFacts
  <2>3. c \in Channels /\ c["in"] = chan["in"]
    BY <1>1, ChannelOff DEF TChan
  <2>4. queue'[1] = q /\ \A f \in Eps : f # 1 => queue'[f] = queue[f]
    BY <1>1, <2>1 DEF TQueue
  <2>5. chan' = c \/ \E r : chan' = kick_dma(c, 1, r)
    BY <2>1 DEF Advance
  <2>6. q # << >> => chan' = kick_dma(c, 1, Head(q)) /\ 1 \in irqe'
    BY <2>1 DEF Advance
  <2> HIDE DEF q, c
  <2>7. CASE e = 1 /\ q = << >>
    <3>1. ~Wants(e)'
      BY <2>4, <2>7 DEF Wants
    <3> QED BY <3>1, DrivenIfIdle
  <2>8. CASE e = 1 /\ q # << >> /\ fifo' = "none"
    <3>1. chan'[Dir(1)].ep = ep_index(1) /\ chan'[Dir(1)].run
      BY <1>1, <2>3, <2>6, <2>8, KickFacts
    <3> QED BY <2>6, <2>8, <3>1, DrivenByChannel
  <2>9. CASE e = 1 /\ q # << >> /\ fifo' # "none" /\ bit = "dma_out"
    <3>1. fifo # "none" /\ bit = "dma_out" /\ 1 \in irqe'
      BY <2>2, <2>6, <2>9
    <3>2. "outep1" \in intr \/ "outep1" \in snap
      BY <1>2, <3>1 DEF Signals, ShortAnnounced
    <3>3. EpBit(1) \in snap' \/ (EpBit(1) \in intr' /\ 1 \in irqe')
      BY <1>2, <3>1, <3>2, EpBits
    <3>4. 1 \notin sentstall'
      BY <1>1, <2>1 DEF THard
    <3> QED BY <2>9, <3>3, <3>4, DrivenByBit
  <2>10. CASE e = 1 /\ fifo' # "none" /\ bit = "outep1"
    <3>1. \/ fifo = "zero"
          \/ fifo = "short" /\ ~(chan["out"].run /\ chan["out"].req = Head(queue[1]))
      BY <1>1, <2>2, <2>10 DEF THard
    <3>2. EpOf[Head(queue[1])] = 1
      <4>1. queue[1] \in Seq(Reqs) /\ queue[1] # << >>
        BY <1>1, <1>3 DEF TQueue
      <4>2. Head(queue[1]) \in Members(queue[1])
        BY <4>1 DEF Members
      <4> QED BY <1>1, <4>2 DEF Inv, Listed
    <3>3. Retires(Head(queue[1]))
      BY <1>1, <1>2, <1>3, <2>10, <3>2, EpBits DEF Retires, THard
    <3>4. Unread(e)
      BY <1>2, <1>3, <2>10, <3>1, <3>3 DEF Unread
    <3> QED BY <3>4
  <2>11. CASE e # 1
    <3>1. chan'[Dir(e)] = chan[Dir(e)]
      <4>1. Dir(e) = "in" /\ Dir(1) = "out"
        BY <2>11, EpBits, EpFacts
      <4>2. chan'["in"] = c["in"]
        BY <2>3, <2>5, <4>1 DEF kick_dma, Channels
      <4> QED BY <2>3, <4>1, <4>2
    <3>2. /\ EpBit(e) \in snap => EpBit(e) \in snap'
          /\ DmaBit(e) \in snap => DmaBit(e) \in snap'
      BY <1>2, <2>11, EpBits, EpFacts
    <3>3. (e \in irqe => e \in irqe') /\ (Wants(e)' => Wants(e))
      BY <2>1, <2>4, <2>11 DEF Wants
    <3> QED BY <1>2, <2>1, <2>2, <3>1, <3>2, <3>3, DrivenUnlessStolen
  <2> QED BY <1>2, <2>7, <2>8, <2>9, <2>10, <2>11
<1>4. CASE /\ UNCHANGED <<soft, irqe, sendstall, sentstall, chan>> /\ (fifo' = fifo \/ fifo' = "none")
           /\ g = 1 => ~desc[1] \/ queue[1] = << >>
  <2>1. UNCHANGED <<desc, stopped, queue>>
    BY <1>4 DEF soft
  <2>2. CASE e = 1 /\ g = 1
    <3>1. ~Wants(e)'
      BY <1>4, <2>1, <2>2 DEF Wants
    <3> QED BY <3>1, DrivenIfIdle
  <2>3. CASE ~(e = 1 /\ g = 1)
    <3>1. EpBit(e) \in snap => EpBit(e) \in snap'
      BY <1>2, <2>3, EpBits
    <3>2. chan[Dir(e)].ep = ep_index(e) => (DmaBit(e) \in snap => DmaBit(e) \in snap')
      BY <1>2, <2>3, EpBits, EpFacts
    <3>3. Wants(e)' => Wants(e)
      BY <2>1 DEF Wants
    <3>4. chan'[Dir(e)] = chan[Dir(e)] /\ (fifo' # "none" => fifo # "none")
      BY <1>4
    <3> QED BY <1>2, <1>4, <3>1, <3>2, <3>3, <3>4, DrivenUnlessStolen
  <2> QED BY <2>2, <2>3
<1>5. \/ read_fifo /\ desc[1] /\ queue[1] # << >> /\ g = 1
      \/ /\ UNCHANGED <<soft, irqe, sendstall, sentstall, chan>> /\ (fifo' = fifo \/ fifo' = "none")
         /\ g = 1 => ~desc[1] \/ queue[1] = << >>
  BY <1>2 DEF out_epn, hard
<1> QED BY <1>3, <1>4, <1>5

LEMMA DrivenNext ==
  ASSUME Inv, Inv', Signals, [Next]_vars, NEW e \in Eps, Driven(e)
  PROVE  Driven(e)' \/ Restarted(e) \/ Stolen(e) \/ Deaf(e) \/ Unread(e)
<1>1. ASSUME NEW r \in Reqs, QueueLocked(r) \/ QueueInSetup(r)
      PROVE  Driven(e)' \/ Stolen(e) \/ Deaf(e)
  BY <1>1, SubmitDriven DEF QueueLocked, QueueInSetup
<1>2. CASE IrqDmaIn
  <2>1. /\ in_epn(chan["in"].ep + 1) /\ snap' = snap \ {"dma_in"} /\ "dma_in" \in snap
        /\ intr' = intr
    BY <1>2 DEF IrqDmaIn, Served, First
  <2>2. chan["in"].ep \in {1, 2}
    BY <2>1, TypedIs DEF Inv, Typed, TChan, Channels, InChannel
  <2>3. chan["in"].ep + 1 \in {2, 3} /\ chan["in"].ep = ep_index(chan["in"].ep + 1)
    BY <2>2 DEF ep_index
  <2> QED BY <2>1, <2>3, InEpDriven
<1>3. ASSUME NEW g \in {2, 3}, IrqInEp(g) PROVE Driven(e)' \/ Stolen(e)
  BY <1>3, InEpDriven DEF IrqInEp, Served
<1> QED BY <1>1, <1>2, <1>3, OutEpDriven, GadgetDriven, HardwareDriven DEF Next, Irq

\* Whatever requests a gadget driver has and whichever endpoints it claims and halts,
\* an endpoint with requests and something to drive it loses that only where
\* LostOnlyThus says.  Completing a request (write_fifo, and read_fifo unless it
\* leaves the packet it was called for in the FIFO), dequeueing, halting, shutting
\* down (nuke), a stall sent and an interrupt served in whatever order leave the
\* endpoint driven.
THEOREM LostWays == Spec => LostOnlyThus
<1>1. Inv /\ Inv' /\ Signals /\ [Next]_vars =>
        [\A e \in Eps :
           Driven(e) => \/ Driven(e)'
                        \/ Restarted(e) \/ Stolen(e) \/ Deaf(e) \/ Unread(e)]_vars
  BY DrivenNext
<1> QED BY <1>1, SignalsAlways, PTL DEF Spec, LostOnlyThus
=============================================================================
