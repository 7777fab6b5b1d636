--------------------------- MODULE MininitProofs ---------------------------
(***************************************************************************)
(* mininit, proved for every kernel command line, every table of           *)
(* parameters, any devices and any number of tries: init finds what the    *)
(* command line asked for, and mininit passes a device over, or gives up   *)
(* on a list, only if the device was not there when the try began.         *)
(***************************************************************************)
EXTENDS Mininit, SequenceTheorems, WellFoundedInduction, TLAPS

-----------------------------------------------------------------------------
(* The inductive invariant.                                                *)

Table == mkparam(line, TableSize - 2)

Places == {"setup", "boot", "mount boot", "loop", "root", "mount root", "move",
           "switch", "init", "running", "fatal"}

\* The places of main behind the boot mount, behind the root mount, and so on.
AfterBoot == {"loop", "root", "mount root", "move", "switch", "init", "running"}
AfterRoot == {"move", "switch", "init", "running"}
AfterMove == {"switch", "init", "running"}
AfterSwitch == {"init", "running"}

Types ==
  /\ pc \in Places /\ line \in Cmdlines
  /\ try \in 0 .. Retries
  /\ pc \in {"mount boot", "mount root"} => try < Retries
  /\ ready \subseteq Devices /\ attached \subseteq Loops /\ atPass \subseteq ready
  /\ mounts \in [proc : BOOLEAN, sys : BOOLEAN, boot : Devices \cup Loops \cup {None},
                 moved : BOOLEAN, root : Devices \cup Loops \cup {None},
                 slash : Devices \cup Loops \cup {None, "initramfs"}]

\* The table is that of the command line once it is read: _multimount has put
\* every comma back.
Parameters ==
  /\ pc = "setup" => paramv = <<>>
  /\ pc = "fatal" => paramv = <<>> \/ paramv = Table
  /\ pc \notin {"setup", "fatal"} => paramv = Table
  /\ i \in 1 .. Len(paramv) + 1

\* _multimount works on the first list of its kind, and what it has passed over
\* could not be mounted when the pass began.
Passing ==
  \A key \in {"boot", "root"} :
    pc = CallOf(key) =>
      /\ Given(key) # {} /\ i = Min(Given(key)) /\ i \in 1 .. Len(paramv)
      /\ t \in 1 .. Len(Listed(key))
      /\ \A n \in 1 .. t - 1 : ~UsableAtPass(Listed(key)[n])

\* What is mounted at which place of main.
Mounted ==
  /\ pc \in {"setup", "boot", "mount boot"} => mounts.boot = None
  /\ pc \in AfterBoot => (mounts.boot # None <=> Given("boot") # {})
  /\ pc \in AfterBoot /\ mounts.boot # None => mounts.boot \in Range(Listed("boot"))
  /\ pc \in AfterRoot => mounts.root \in Range(Listed("root"))
  /\ pc \in AfterMove => (mounts.moved <=> mounts.boot # None)
  /\ pc \in AfterSwitch => mounts.slash = mounts.root

\* What init was executed with.
Executed ==
  pc = "running" =>
    /\ Given("init") # {} => argv[1].key = Table[Max(Given("init"))].toks[1]
    /\ Given("init") = {} => argv[1].key \in present
    /\ Tail(argv) = Table

Inv == Types /\ Parameters /\ Passing /\ Mounted /\ Executed

-----------------------------------------------------------------------------
(* The table of parameters.                                                *)

Texts == STRING \cup {Spoilt}
Params == [key : STRING, toks : Seq(Texts)]

\* A parameter with the key k and at least one token.
IsParam(p, k) == p \in Params /\ p.key = k /\ Len(p.toks) > 0

LEMMA Least ==
  ASSUME NEW T \in SUBSET Nat, T # {}
  PROVE  \E x \in T : \A y \in T : x <= y
<1>1. PICK x \in T : \A y \in T : ~(<<y, x>> \in OpToRel(<, Nat))
  BY NatLessThanWellFounded, WFMin
<1>2. \A y \in T : x <= y
  <2> SUFFICES ASSUME NEW y \in T, y < x PROVE FALSE
    OBVIOUS
  <2>1. <<y, x>> \in Nat \X Nat /\ <<y, x>>[1] < <<y, x>>[2]
    OBVIOUS
  <2>2. <<y, x>> \in OpToRel(<, Nat)
    BY <2>1, Zenon DEF OpToRel
  <2> QED BY <1>1, <2>2
<1> QED BY <1>2

\* A parameter that goes on with the next one keeps its key and has a token.
LEMMA SwallowIs ==
  ASSUME NEW p, NEW q, NEW k, IsParam(p, k), q \in Params, Len(q.toks) > 0
  PROVE  IsParam(Swallow(p, q), k)
<1> DEFINE a == Front(p.toks)
           b == Tail(q.toks)
           sp == <<Spoilt>>
           u == a \o sp
           v == u \o b
<1>1. p.toks \in Seq(Texts) /\ q.toks \in Seq(Texts) /\ p.key \in STRING /\ p.key = k
  BY DEF IsParam, Params
<1>2. Len(p.toks) \in Nat /\ Len(p.toks) > 0 /\ q.toks # << >>
  BY <1>1 DEF IsParam
<1>3. a \in Seq(Texts)
  <2>1. Len(p.toks) - 1 \in Int /\ \A n \in 1 .. Len(p.toks) - 1 : p.toks[n] \in Texts
    BY <1>1, <1>2
  <2> QED BY <1>1, <2>1, SubSeqProperties DEF Front
<1>4. b \in Seq(Texts) /\ sp \in Seq(Texts) /\ Len(sp) = 1
  <2>1. b \in Seq(Texts)
    BY <1>1, <1>2, HeadTailProperties
  <2>2. Spoilt \in Texts
    BY DEF Texts
  <2> HIDE DEF b
  <2> QED BY <2>1, <2>2
<1>5. Swallow(p, q) = [key |-> p.key, toks |-> v]
  BY DEF Swallow
<1> HIDE DEF a, b, sp
<1>6. u \in Seq(Texts) /\ Len(u) = Len(a) + Len(sp)
  BY <1>3, <1>4, ConcatProperties
<1> HIDE DEF u
<1>7. v \in Seq(Texts) /\ Len(v) = Len(u) + Len(b)
  BY <1>4, <1>6, ConcatProperties
<1>8. Len(v) > 0
  <2>1. Len(a) \in Nat /\ Len(b) \in Nat
    BY <1>3, <1>4
  <2> QED BY <1>4, <1>6, <1>7, <2>1
<1> HIDE DEF v
<1> QED BY <1>1, <1>5, <1>7, <1>8 DEF IsParam, Params

\* Whatever the table cuts off, the last parameter keeps its key and has a token.
LEMMA RemainderIs ==
  ASSUME NEW l \in Seq(Params), \A n \in 1 .. Len(l) : Len(l[n].toks) > 0,
         NEW max \in Nat \ {0}, max < Len(l)
  PROVE  IsParam(Remainder(l, max), l[max].key)
<1> DEFINE N == Len(l) - max
           Rest(g, m) == g = [n \in 0 .. m |-> IF n = 0 THEN l[max]
                                               ELSE Swallow(g[n - 1], l[max + n])]
           k == l[max].key
<1>1. N \in Nat /\ max \in 1 .. Len(l) /\ Len(l) \in Nat
      /\ \A n \in 1 .. N : max + n \in 1 .. Len(l)
  OBVIOUS
<1>2. \A n \in 1 .. Len(l) : l[n] \in Params
  OBVIOUS
<1> HIDE DEF N
<1> HIDE DEF Rest
<1>3. \A m \in 0 .. N : \E g : Rest(g, m)
  <2> SUFFICES ASSUME NEW x \in 0 .. N, ~\E g : Rest(g, x) PROVE FALSE
    OBVIOUS
  <2> DEFINE T == {m \in 0 .. N : ~\E g : Rest(g, m)}
  <2>1. T \in SUBSET Nat /\ T # {}
    <3>1. T \subseteq 0 .. N /\ x \in T
      BY Zenon
    <3>2. 0 .. N \subseteq Nat
      BY <1>1
    <3> HIDE DEF T
    <3> QED BY <3>1, <3>2
  <2>2. PICK m \in T : \A y \in T : m <= y
    BY <2>1, Least
  <2>3. m \in 0 .. N /\ ~\E g : Rest(g, m)
    BY <2>2
  <2>4. CASE m = 0
    <3> DEFINE h == [n \in 0 .. 0 |-> l[max]]
    <3>1. h = [n \in 0 .. 0 |-> IF n = 0 THEN l[max] ELSE Swallow(h[n - 1], l[max + n])]
      <4>1. \A n \in 0 .. 0 : n = 0
        OBVIOUS
      <4> QED BY <4>1
    <3> HIDE DEF h
    <3>2. Rest(h, 0)
      BY <3>1 DEF Rest
    <3> QED BY <2>3, <2>4, <3>2
  <2>5. CASE m # 0
    <3>1. m - 1 \in 0 .. N /\ m - 1 \notin T
      BY <1>1, <2>2, <2>3, <2>5
    <3>2. PICK g : Rest(g, m - 1)
      BY <3>1
    <3> DEFINE h == [n \in 0 .. m |-> IF n = m THEN Swallow(g[m - 1], l[max + m]) ELSE g[n]]
    <3>3. \A n \in 0 .. m - 1 : g[n] = IF n = 0 THEN l[max] ELSE Swallow(g[n - 1], l[max + n])
      BY <3>2 DEF Rest
    <3>4. ASSUME NEW n \in 0 .. m
          PROVE  h[n] = IF n = 0 THEN l[max] ELSE Swallow(h[n - 1], l[max + n])
      <4>1. CASE n = m
        <5>1. m - 1 \in 0 .. m /\ m - 1 # m /\ h[m - 1] = g[m - 1]
          BY <1>1, <2>3, <2>5
        <5> QED BY <2>5, <4>1, <5>1
      <4>2. CASE n # m /\ n = 0
        <5>1. 0 \in 0 .. m - 1
          BY <1>1, <2>3, <2>5
        <5> QED BY <3>3, <4>2, <5>1
      <4>3. CASE n # m /\ n # 0
        <5>1. n \in 0 .. m - 1 /\ n - 1 \in 0 .. m /\ n - 1 # m
          BY <1>1, <2>3, <4>3
        <5>2. h[n] = g[n] /\ h[n - 1] = g[n - 1]
          BY <4>3, <5>1
        <5> QED BY <3>3, <4>3, <5>1, <5>2
      <4> QED BY <4>1, <4>2, <4>3
    <3>5. h = [n \in 0 .. m |-> h[n]]
      OBVIOUS
    <3> HIDE DEF h
    <3>6. Rest(h, m)
      BY <3>4, <3>5 DEF Rest
    <3> QED BY <2>3, <3>6
  <2> QED BY <2>4, <2>5
<1> DEFINE r == CHOOSE g : Rest(g, N)
<1>4. N \in 0 .. N
  BY <1>1
<1>5. Rest(r, N)
  BY <1>3, <1>4
<1>6. Remainder(l, max) = r[N]
  BY DEF Remainder, N, Rest
<1>7. \A n \in 0 .. N : r[n] = IF n = 0 THEN l[max] ELSE Swallow(r[n - 1], l[max + n])
  <2> HIDE DEF r
  <2> QED BY <1>5 DEF Rest
<1> HIDE DEF r
<1>8. \A m \in 0 .. N : IsParam(r[m], k)
  <2> SUFFICES ASSUME NEW x \in 0 .. N, ~IsParam(r[x], k) PROVE FALSE
    OBVIOUS
  <2> DEFINE T == {m \in 0 .. N : ~IsParam(r[m], k)}
  <2>1. T \in SUBSET Nat /\ T # {}
    BY <1>1
  <2>2. PICK m \in T : \A y \in T : m <= y
    BY <2>1, Least
  <2>3. m \in 0 .. N /\ ~IsParam(r[m], k)
    BY <2>2
  <2>4. CASE m = 0
    BY <1>1, <1>2, <1>7, <2>3, <2>4 DEF IsParam
  <2>5. CASE m # 0
    <3>1. m - 1 \in 0 .. N /\ m - 1 \notin T
      BY <1>1, <2>2, <2>3, <2>5
    <3>2. IsParam(r[m - 1], k)
      BY <3>1
    <3>3. max + m \in 1 .. Len(l)
      BY <1>1, <2>3, <2>5
    <3>4. l[max + m] \in Params /\ Len(l[max + m].toks) > 0
      BY <1>2, <3>3
    <3>5. IsParam(Swallow(r[m - 1], l[max + m]), k)
      BY <3>2, <3>4, SwallowIs
    <3> QED BY <1>7, <2>3, <2>5, <3>5
  <2> QED BY <2>4, <2>5
<1> QED BY <1>4, <1>6, <1>8

\* A command line and what _mkparam makes of it.
LEMMA SeqOfMore ==
  ASSUME NEW S, NEW T, S \subseteq T, NEW l \in Seq(S)
  PROVE  l \in Seq(T)
OBVIOUS

LEMMA LineIs ==
  ASSUME NEW l \in Cmdlines
  PROVE  l \in Seq(Params) /\ \A n \in 1 .. Len(l) : Len(l[n].toks) > 0
<1> DEFINE S == [key : STRING, toks : Seq(STRING)]
<1>1. l \in Seq(S) /\ \A n \in 1 .. Len(l) : Len(l[n].toks) > 0
  BY MininitAssumption
<1>2. S \subseteq Params
  <2>1. Seq(STRING) \subseteq Seq(Texts)
    BY DEF Texts
  <2> QED BY <2>1 DEF Params
<1> HIDE DEF S
<1> QED BY <1>1, <1>2, SeqOfMore

LEMMA TableIs ==
  ASSUME NEW l \in Cmdlines, NEW max \in Nat \ {0}
  PROVE  LET p == mkparam(l, max)
             m == IF Len(l) <= max THEN Len(l) ELSE max
         IN  /\ m \in Nat /\ Len(p) = m /\ p = [n \in 1 .. m |-> p[n]] /\ m <= max
             /\ m <= Len(l) /\ (m = Len(l) \/ m = max)
             /\ \A n \in 1 .. m : /\ p[n].key = l[n].key
                                  /\ p[n].toks \in Seq(Texts)
                                  /\ Len(p[n].toks) \in Nat \ {0}
                                  /\ p[n].commas = 1 .. Len(p[n].toks) - 1
<1> DEFINE p == mkparam(l, max)
           m == IF Len(l) <= max THEN Len(l) ELSE max
           f(n) == IF Len(l) <= max \/ n < max THEN l[n] ELSE Remainder(l, max)
<1>1. l \in Seq(Params) /\ (\A n \in 1 .. Len(l) : Len(l[n].toks) > 0) /\ Len(l) \in Nat
  BY LineIs
<1>2. m \in Nat /\ m <= max /\ m <= Len(l) /\ (m = Len(l) \/ m = max)
  BY <1>1
<1>3. p = [n \in 1 .. m |-> Whole(f(n))]
  BY DEF mkparam
<1>4. \A n \in 1 .. m : IsParam(f(n), l[n].key)
  <2> SUFFICES ASSUME NEW n \in 1 .. m PROVE IsParam(f(n), l[n].key)
    OBVIOUS
  <2>1. n \in 1 .. Len(l) /\ l[n] \in Params
    BY <1>1, <1>2
  <2>2. CASE Len(l) <= max \/ n < max
    BY <1>1, <2>1, <2>2 DEF IsParam
  <2>3. CASE ~(Len(l) <= max \/ n < max)
    <3>1. max < Len(l) /\ n = max
      BY <1>1, <1>2, <2>3
    <3> QED BY <1>1, <2>3, <3>1, RemainderIs
  <2> QED BY <2>2, <2>3
<1> HIDE DEF f, m, p
<1>5. ASSUME NEW n \in 1 .. m
      PROVE  /\ p[n].key = l[n].key /\ p[n].toks \in Seq(Texts)
             /\ Len(p[n].toks) \in Nat \ {0}
             /\ p[n].commas = 1 .. Len(p[n].toks) - 1
  <2>1. p[n] = [key |-> f(n).key, toks |-> f(n).toks, commas |-> 1 .. Len(f(n).toks) - 1]
    BY <1>3 DEF Whole
  <2>2. f(n).key = l[n].key /\ f(n).toks \in Seq(Texts) /\ Len(f(n).toks) > 0
    BY <1>4 DEF IsParam, Params
  <2>3. Len(f(n).toks) \in Nat \ {0}
    BY <2>2
  <2> QED BY <2>1, <2>2, <2>3
<1>6. Len(p) = m /\ p = [n \in 1 .. m |-> p[n]]
  BY <1>2, <1>3
<1> QED BY <1>2, <1>5, <1>6 DEF p, m

-----------------------------------------------------------------------------
(* The table main works on, and its searches.                              *)

LEMMA LeastIsMin ==
  ASSUME NEW T \in SUBSET Nat, T # {}
  PROVE  Min(T) \in T
<1>1. \E x \in T : \A y \in T : x <= y
  BY Least
<1> QED BY <1>1 DEF Min

LEMMA TheTable ==
  ASSUME Types
  PROVE  /\ Len(Table) \in Nat /\ Len(Table) + 2 <= TableSize
         /\ Table = [n \in 1 .. Len(Table) |-> Table[n]]
         /\ \A n \in 1 .. Len(Table) : /\ Table[n].toks \in Seq(Texts)
                                       /\ Len(Table[n].toks) \in Nat \ {0}
                                       /\ Table[n].commas = 1 .. Len(Table[n].toks) - 1
         /\ \A key : Given(key) = {m \in 1 .. Len(Table) : Table[m].key = key}
<1> DEFINE max == TableSize - 2
           m == IF Len(line) <= max THEN Len(line) ELSE max
<1>1. line \in Cmdlines /\ max \in Nat \ {0} /\ TableSize \in Nat
  <2>1. TableSize \in Nat /\ TableSize >= 3
    BY MininitAssumption
  <2>2. line \in Cmdlines
    BY Zenon DEF Types
  <2>3. max \in Nat \ {0}
    BY <2>1
  <2> QED BY <2>1, <2>2, <2>3
<1>2. line \in Seq(Params)
  BY <1>1, LineIs
<1>3. Len(line) \in Nat
  BY <1>2
<1>4. /\ m \in Nat /\ Len(Table) = m /\ Table = [n \in 1 .. m |-> Table[n]] /\ m <= max
      /\ m <= Len(line) /\ (m = Len(line) \/ m = max)
      /\ \A n \in 1 .. m : /\ Table[n].key = line[n].key
                           /\ Table[n].toks \in Seq(Texts)
                           /\ Len(Table[n].toks) \in Nat \ {0}
                           /\ Table[n].commas = 1 .. Len(Table[n].toks) - 1
  <2> HIDE DEF max
  <2> QED BY <1>1, TableIs DEF Table, max
<1> HIDE DEF m
<1>5. \A n : (n \in 1 .. Len(line) /\ n <= max) <=> n \in 1 .. m
  BY <1>1, <1>3, <1>4
<1>6. ASSUME NEW key PROVE Given(key) = {n \in 1 .. Len(Table) : Table[n].key = key}
  BY <1>4, <1>5 DEF Given
<1>7. Len(Table) + 2 <= TableSize
  BY <1>1, <1>4
<1> HIDE DEF max
<1> QED BY <1>4, <1>6, <1>7

\* The search of main finds the first parameter with the key.
LEMMA FirstGiven ==
  ASSUME Types, paramv = Table, NEW key
  PROVE  /\ Given(key) = {} => Find(key, 1) = Len(paramv) + 1
         /\ Given(key) # {} => /\ Find(key, 1) = Min(Given(key))
                               /\ Min(Given(key)) \in 1 .. Len(paramv)
                               /\ paramv[Min(Given(key))].key = key
<1>1. Given(key) = {m \in 1 .. Len(paramv) : paramv[m].key = key} /\ Len(paramv) \in Nat
  BY TheTable
<1>2. Given(key) \in SUBSET Nat
  BY <1>1
<1>3. Find(key, 1) = IF Given(key) = {} THEN Len(paramv) + 1 ELSE Min(Given(key))
  BY <1>1 DEF Find, paramc
<1>4. Given(key) # {} => Min(Given(key)) \in Given(key)
  BY <1>2, LeastIsMin
<1> QED BY <1>1, <1>3, <1>4

LEMMA FindFrom ==
  ASSUME Len(paramv) \in Nat, NEW key, NEW n \in 1 .. Len(paramv) + 1
  PROVE  Find(key, n) \in n .. Len(paramv) + 1
<1> DEFINE F == {m \in n .. Len(paramv) : paramv[m].key = key}
<1>1. F \in SUBSET Nat /\ F \subseteq n .. Len(paramv)
  OBVIOUS
<1>2. Find(key, n) = IF F = {} THEN Len(paramv) + 1 ELSE Min(F)
  BY DEF Find, paramc
<1> HIDE DEF F
<1>3. F # {} => Min(F) \in F
  BY <1>1, LeastIsMin
<1>4. CASE F = {}
  BY <1>2, <1>4
<1>5. CASE F # {}
  <2>1. Find(key, n) \in n .. Len(paramv)
    BY <1>1, <1>2, <1>3, <1>5, Zenon
  <2> QED BY <2>1
<1> QED BY <1>4, <1>5

-----------------------------------------------------------------------------
(* The invariant is preserved.                                             *)

Lists == {"boot", "root"}

LEMMA SameLine ==
  ASSUME UNCHANGED line
  PROVE  /\ Table' = Table
         /\ Given("boot")' = Given("boot") /\ Given("root")' = Given("root")
         /\ Given("init")' = Given("init")
         /\ Listed("boot")' = Listed("boot") /\ Listed("root")' = Listed("root")
         /\ \A key : Given(key)' = Given(key) /\ Listed(key)' = Listed(key)
<1>1. line' = line
  OBVIOUS
<1>2. Table' = Table
  BY <1>1 DEF Table
<1>3. ASSUME NEW key PROVE Given(key)' = Given(key) /\ Listed(key)' = Listed(key)
  BY <1>1 DEF Given, Listed
<1> QED BY <1>2, <1>3

\* The list _multimount works on.
LEMMA TheList ==
  ASSUME Inv, NEW key \in Lists, Given(key) # {}
  PROVE  /\ Min(Given(key)) \in 1 .. Len(Table)
         /\ Table[Min(Given(key))].toks = Listed(key)
         /\ Listed(key) \in Seq(Texts) /\ Len(Listed(key)) \in Nat \ {0}
         /\ Table[Min(Given(key))].commas = 1 .. Len(Listed(key)) - 1
<1>1. Given(key) = {m \in 1 .. Len(Table) : Table[m].key = key} /\ Len(Table) \in Nat
  BY TheTable DEF Inv
<1>2. Given(key) \in SUBSET Nat
  BY <1>1
<1>3. Min(Given(key)) \in Given(key)
  BY <1>2, LeastIsMin
<1>4. Min(Given(key)) \in 1 .. Len(Table)
  BY <1>1, <1>3
<1>5. Table[Min(Given(key))].toks = Listed(key)
  BY DEF Listed, Table
<1> QED BY <1>4, <1>5, TheTable DEF Inv

\* One token: it is mounted, or passed over for the next, or it was the last.
LEMMA OneToken ==
  ASSUME Inv, NEW key \in Lists, NEW next, pc = CallOf(key), Mount(key, next)
  PROVE  /\ Given(key) # {} /\ paramv' = paramv /\ paramv = Table
         /\ i = Min(Given(key)) /\ i \in 1 .. Len(paramv)
         /\ Len(Listed(key)) \in Nat \ {0} /\ Listed(key) \in Seq(Texts)
         /\ t \in 1 .. Len(Listed(key))
         /\ \A n \in 1 .. t - 1 : ~UsableAtPass(Listed(key)[n])
         /\ \/ /\ Usable(Listed(key)[t])
               /\ mounts' = [mounts EXCEPT ![key] = Listed(key)[t]]
               /\ pc' = next /\ i' = 1 /\ UNCHANGED <<try, t, atPass>>
            \/ /\ ~Usable(Listed(key)[t]) /\ t < Len(Listed(key)) /\ t' = t + 1
               /\ UNCHANGED <<pc, i, try, atPass, mounts>>
            \/ /\ ~Usable(Listed(key)[t]) /\ t = Len(Listed(key)) /\ t' = 1
               /\ try' = try + 1 /\ atPass' = ready
               /\ IF try + 1 < Retries THEN pc' = pc ELSE pc' = "fatal"
               /\ UNCHANGED <<i, mounts>>
         /\ UNCHANGED <<ready, attached, argv, sound, present, line>>
<1>1. pc \notin {"setup", "fatal"}
  BY DEF CallOf, Lists
<1>2. paramv = Table
  BY <1>1 DEF Inv, Parameters
<1>3. /\ Given(key) # {} /\ i = Min(Given(key)) /\ i \in 1 .. Len(paramv)
      /\ t \in 1 .. Len(Listed(key))
      /\ \A n \in 1 .. t - 1 : ~UsableAtPass(Listed(key)[n])
  BY DEF Inv, Passing, Lists
<1>4. /\ paramv[i].toks = Listed(key) /\ Listed(key) \in Seq(Texts)
      /\ Len(Listed(key)) \in Nat \ {0} /\ paramv[i].commas = 1 .. Len(Listed(key)) - 1
  BY <1>2, <1>3, TheList
<1>5. t \in paramv[i].commas <=> t < Len(Listed(key))
  BY <1>3, <1>4
<1>6. t \notin paramv[i].commas <=> t = Len(Listed(key))
  BY <1>3, <1>4
<1>7. paramv' = paramv
  <2>1. paramv = [n \in 1 .. Len(paramv) |-> paramv[n]]
    BY <1>2, TheTable DEF Inv
  <2>2. paramv' = [paramv EXCEPT ![i] = paramv[i]]
    BY DEF Mount, Restored
  <2> QED BY <2>1, <2>2
<1> QED BY <1>2, <1>3, <1>4, <1>5, <1>6, <1>7, Zenon DEF Mount, NewPass, fatal, env

Sources == Devices \cup Loops \cup {None}
Mounts == [proc : BOOLEAN, sys : BOOLEAN, boot : Sources, moved : BOOLEAN, root : Sources,
           slash : Sources \cup {"initramfs"}]

\* What is used of Types, with the mounts as a set of their own.
LEMMA TypesAre ==
  Types <=> /\ pc \in Places /\ line \in Cmdlines /\ try \in 0 .. Retries
            /\ (pc \in {"mount boot", "mount root"} => try < Retries)
            /\ ready \subseteq Devices /\ attached \subseteq Loops /\ atPass \subseteq ready
            /\ mounts \in Mounts
<1>1. Devices \cup Loops \cup {None, "initramfs"} = Sources \cup {"initramfs"}
  BY DEF Sources
<1> QED BY <1>1, Zenon DEF Types, Mounts, Sources

LEMMA TypesKept ==
  ASSUME pc' \in Places, line' \in Cmdlines, try' \in 0 .. Retries,
         pc' \in {"mount boot", "mount root"} => try' < Retries,
         ready' \subseteq Devices, attached' \subseteq Loops, atPass' \subseteq ready',
         mounts' \in Mounts
  PROVE  Types'
<1>1. Devices \cup Loops \cup {None, "initramfs"} = Sources \cup {"initramfs"}
  BY DEF Sources
<1> QED BY <1>1, Zenon DEF Types, Mounts, Sources

LEMMA InvInit ==
  Init => Inv
<1> SUFFICES ASSUME Init PROVE Inv
  OBVIOUS
<1>1. mounts \in Mounts
  BY DEF Init, Mounts, Sources
<1>2. Types
  <2>1. Retries \in Nat
    BY MininitAssumption
  <2> QED BY <1>1, <2>1, TypesAre DEF Init, Places
<1>3. Parameters
  <2>1. Len(paramv) = 0
    BY DEF Init
  <2> QED BY <2>1 DEF Init, Parameters
<1>4. Passing /\ Mounted /\ Executed
  BY DEF Init, Passing, CallOf, Mounted, Executed, AfterBoot, AfterRoot, AfterMove, AfterSwitch
<1> QED BY <1>2, <1>3, <1>4 DEF Inv

LEMMA SetupInv ==
  Inv /\ Setup => Inv'
<1> SUFFICES ASSUME Inv, Setup PROVE Inv'
  OBVIOUS
<1>1. /\ pc = "setup" /\ paramv = << >> /\ i \in 1 .. Len(paramv) + 1 /\ i' = i
      /\ UNCHANGED <<i, try, t, ready, atPass, attached, argv, line, sound, present>>
  BY DEF Inv, Parameters, Setup, env
<1>2. /\ line \in Cmdlines /\ try \in 0 .. Retries
      /\ ready \subseteq Devices /\ attached \subseteq Loops /\ atPass \subseteq ready
      /\ mounts \in Mounts
  BY TypesAre DEF Inv
<1>3. Table' = Table
  BY <1>1, SameLine
<1>4. CASE pc' = "fatal" /\ paramv' = paramv /\ mounts' = mounts
  <2>1. Types'
    BY <1>1, <1>2, <1>4, TypesKept DEF Places
  <2>2. Parameters'
    BY <1>1, <1>4 DEF Parameters
  <2>3. Passing' /\ Mounted' /\ Executed'
    BY <1>4 DEF Passing, CallOf, Mounted, Executed, AfterBoot, AfterRoot, AfterMove, AfterSwitch
  <2> QED BY <2>1, <2>2, <2>3 DEF Inv
<1>5. CASE /\ pc' = "boot" /\ mounts' = [mounts EXCEPT !.proc = TRUE, !.sys = TRUE]
           /\ paramv' = Table
  <2>1. mounts' \in Mounts /\ mounts'.boot = mounts.boot
    BY <1>2, <1>5 DEF Mounts
  <2>2. Types'
    BY <1>1, <1>2, <1>5, <2>1, TypesKept DEF Places
  <2>3. Parameters'
    <3>1. Len(Table) \in Nat
      BY TheTable DEF Inv
    <3>2. i = 1
      <4>1. Len(paramv) = 0
        BY <1>1
      <4> QED BY <1>1, <4>1
    <3>3. i' \in 1 .. Len(paramv') + 1
      BY <1>1, <1>5, <3>1, <3>2
    <3> QED BY <1>3, <1>5, <3>3 DEF Parameters
  <2>4. Passing' /\ Executed'
    BY <1>5 DEF Passing, CallOf, Executed
  <2>5. Mounted'
    <3>1. mounts.boot = None
      BY <1>1 DEF Inv, Mounted
    <3> QED BY <1>5, <2>1, <3>1 DEF Mounted, AfterBoot, AfterRoot, AfterMove, AfterSwitch
  <2> QED BY <2>2, <2>3, <2>4, <2>5 DEF Inv
<1> QED BY <1>4, <1>5 DEF Setup, fatal, Table

\* The call of _multimount, or what follows without it.
LEMMA EnterInv ==
  ASSUME Inv, NEW key \in Lists, NEW without \in {"loop", "fatal"},
         pc = key, Enter(key, CallOf(key), without),
         without = "loop" => key = "boot"
  PROVE  Inv'
<1>1. /\ pc = key /\ key \in {"boot", "root"} /\ pc \notin {"setup", "fatal"}
      /\ i' = Find(key, 1) /\ try' = 0 /\ t' = 1 /\ atPass' = ready
      /\ UNCHANGED <<paramv, ready, mounts, attached, argv, sound, present, line>>
      /\ paramv' = paramv /\ mounts' = mounts /\ ready' = ready
  BY DEF Enter, env, Lists
<1>2. /\ line \in Cmdlines /\ ready \subseteq Devices /\ attached \subseteq Loops
      /\ mounts \in Mounts
  BY TypesAre DEF Inv
<1>3. /\ Table' = Table
      /\ \A k : Given(k)' = Given(k) /\ Listed(k)' = Listed(k)
  BY <1>1, SameLine
<1>4. paramv = Table /\ Len(paramv) \in Nat
  BY <1>1, TheTable DEF Inv, Parameters
<1>5. /\ Given(key) = {} => i' = Len(paramv) + 1
      /\ Given(key) # {} => i' = Min(Given(key)) /\ i' \in 1 .. Len(paramv)
  BY <1>1, <1>4, FirstGiven DEF Inv
<1>6. pc' = IF i' < Len(paramv) + 1 THEN CallOf(key) ELSE without
  BY DEF Enter, paramc
<1>7. pc' = IF Given(key) # {} THEN CallOf(key) ELSE without
  BY <1>4, <1>5, <1>6
<1>8. pc' \in {"mount boot", "mount root", "loop", "fatal"}
  BY <1>7 DEF CallOf
<1>9. Types'
  <2>1. Retries \in Nat \ {0}
    BY MininitAssumption
  <2>2. try' \in 0 .. Retries /\ try' < Retries
    BY <1>1, <2>1
  <2> QED BY <1>1, <1>2, <1>8, <2>2, TypesKept DEF Places
<1>10. Parameters'
  <2>1. i' \in 1 .. Len(paramv') + 1
    BY <1>1, <1>4, <1>5
  <2> QED BY <1>1, <1>3, <1>4, <1>8, <2>1 DEF Parameters
<1>11. Passing'
  <2> SUFFICES ASSUME NEW k \in {"boot", "root"}, pc' = CallOf(k)
      PROVE  /\ Given(k)' # {} /\ i' = Min(Given(k)') /\ i' \in 1 .. Len(paramv')
             /\ t' \in 1 .. Len(Listed(k)')
             /\ \A n \in 1 .. t' - 1 : ~UsableAtPass(Listed(k)[n])'
    BY Zenon DEF Passing, CallOf
  <2>1. k = key /\ Given(key) # {}
    BY <1>1, <1>7 DEF CallOf
  <2>2. Len(Listed(key)) \in Nat \ {0}
    BY <2>1, TheList
  <2>3. 1 .. t' - 1 = {}
    BY <1>1
  <2> QED BY <1>1, <1>3, <1>5, <2>1, <2>2, <2>3
<1>12. Mounted'
  <2>1. CASE key = "boot"
    <3>1. mounts.boot = None
      BY <1>1, <2>1 DEF Inv, Mounted
    <3>2. pc' = "loop" => Given("boot") = {}
      BY <1>7, <2>1 DEF CallOf
    <3>3. pc' \in {"mount boot", "loop", "fatal"}
      BY <1>7, <2>1 DEF CallOf
    <3> QED BY <1>1, <1>3, <3>1, <3>2, <3>3
        DEF Mounted, AfterBoot, AfterRoot, AfterMove, AfterSwitch
  <2>2. CASE key = "root"
    <3>1. /\ mounts.boot # None <=> Given("boot") # {}
          /\ mounts.boot # None => mounts.boot \in Range(Listed("boot"))
      BY <1>1, <2>2 DEF Inv, Mounted, AfterBoot
    <3>2. pc' \in {"mount root", "fatal"}
      BY <1>7, <2>2 DEF CallOf
    <3> QED BY <1>1, <1>3, <3>1, <3>2
        DEF Mounted, AfterBoot, AfterRoot, AfterMove, AfterSwitch
  <2> QED BY <1>1, <2>1, <2>2
<1>13. Executed'
  BY <1>8 DEF Executed
<1> QED BY <1>9, <1>10, <1>11, <1>12, <1>13 DEF Inv

LEMMA AppearInv ==
  ASSUME Inv, NEW d \in Devices, Appear(d)
  PROVE  Inv'
<1>1. /\ ready' = ready \cup {d}
      /\ UNCHANGED <<pc, paramv, i, try, t, atPass, mounts, attached, argv, sound, present, line>>
  BY DEF Appear, env
<1>2. /\ pc \in Places /\ line \in Cmdlines /\ try \in 0 .. Retries
      /\ (pc \in {"mount boot", "mount root"} => try < Retries)
      /\ ready \subseteq Devices /\ attached \subseteq Loops /\ atPass \subseteq ready
      /\ mounts \in Mounts
  BY TypesAre DEF Inv
<1>3. Types'
  <2>1. ready' \subseteq Devices /\ atPass' \subseteq ready'
    BY <1>1, <1>2
  <2> QED BY <1>1, <1>2, <2>1, TypesKept
<1>4. Table' = Table /\ \A k : Given(k)' = Given(k) /\ Listed(k)' = Listed(k)
  BY <1>1, SameLine
<1>5. Given("init")' = Given("init") /\ Given("boot")' = Given("boot")
      /\ Listed("boot")' = Listed("boot") /\ Listed("root")' = Listed("root")
  BY <1>4
<1>6. Parameters' /\ Mounted' /\ Executed'
  BY <1>1, <1>4, <1>5, Zenon DEF Inv, Parameters, Mounted, Executed
<1>7. Passing'
  BY <1>1, <1>4, Zenon DEF Inv, Passing, UsableAtPass, CallOf
<1> QED BY <1>3, <1>6, <1>7 DEF Inv

LEMMA StutterInv ==
  ASSUME Inv, UNCHANGED vars
  PROVE  Inv'
<1>1. UNCHANGED <<pc, paramv, i, try, t, ready, sound, atPass, mounts, attached, present, argv, line>>
  BY DEF vars
<1>2. Types'
  BY <1>1 DEF Inv, Types
<1>4. Table' = Table /\ \A k : Given(k)' = Given(k) /\ Listed(k)' = Listed(k)
  BY <1>1, SameLine
<1>5. Given("init")' = Given("init") /\ Given("boot")' = Given("boot")
      /\ Listed("boot")' = Listed("boot") /\ Listed("root")' = Listed("root")
  BY <1>4
<1>6. Parameters' /\ Mounted' /\ Executed'
  BY <1>1, <1>4, <1>5, Zenon DEF Inv, Parameters, Mounted, Executed
<1>7. Passing'
  BY <1>1, <1>4, Zenon DEF Inv, Passing, UsableAtPass, CallOf
<1> QED BY <1>2, <1>6, <1>7 DEF Inv

\* A device that can be mounted is one of the system's.
LEMMA UsableIs ==
  ASSUME Inv, NEW d, Usable(d)
  PROVE  d \in Devices \cup Loops /\ d # None
<1>1. ready \subseteq Devices /\ attached \subseteq Loops
  BY TypesAre DEF Inv
<1>2. d \in Devices \cup Loops
  BY <1>1 DEF Usable
<1>3. None \notin Devices \cup Loops
  BY MininitAssumption
<1> QED BY <1>2, <1>3

LEMMA MountInv ==
  ASSUME Inv, NEW key \in Lists, pc = CallOf(key), NEW next,
         next = IF key = "boot" THEN "loop" ELSE "move", Mount(key, next)
  PROVE  Inv'
<1> DEFINE L == Listed(key)
<1>1. /\ Given(key) # {} /\ paramv' = paramv /\ paramv = Table
      /\ i = Min(Given(key)) /\ i \in 1 .. Len(paramv)
      /\ Len(L) \in Nat \ {0} /\ L \in Seq(Texts) /\ t \in 1 .. Len(L)
      /\ \A n \in 1 .. t - 1 : ~UsableAtPass(L[n])
      /\ UNCHANGED <<ready, attached, argv, sound, present, line>>
  BY OneToken
<1>2. \/ /\ Usable(L[t]) /\ mounts' = [mounts EXCEPT ![key] = L[t]]
         /\ pc' = next /\ i' = 1 /\ UNCHANGED <<try, t, atPass>>
      \/ /\ ~Usable(L[t]) /\ t < Len(L) /\ t' = t + 1
         /\ UNCHANGED <<pc, i, try, atPass, mounts>>
      \/ /\ ~Usable(L[t]) /\ t = Len(L) /\ t' = 1
         /\ try' = try + 1 /\ atPass' = ready
         /\ IF try + 1 < Retries THEN pc' = pc ELSE pc' = "fatal"
         /\ UNCHANGED <<i, mounts>>
  BY OneToken
<1>3. /\ pc \in Places /\ line \in Cmdlines /\ try \in 0 .. Retries
      /\ (pc \in {"mount boot", "mount root"} => try < Retries)
      /\ ready \subseteq Devices /\ attached \subseteq Loops /\ atPass \subseteq ready
      /\ mounts \in Mounts
  BY TypesAre DEF Inv
<1>4. /\ Table' = Table /\ \A k : Given(k)' = Given(k) /\ Listed(k)' = Listed(k)
      /\ Given("boot")' = Given("boot") /\ Listed("boot")' = Listed("boot")
      /\ Listed("root")' = Listed("root")
  BY <1>1, SameLine
<1>5. /\ Len(paramv) \in Nat /\ Retries \in Nat \ {0}
      /\ pc \in {"mount boot", "mount root"} /\ key \in {"boot", "root"}
  BY <1>1, TheTable, MininitAssumption DEF Inv, CallOf, Lists
<1>6. /\ pc = "mount boot" => mounts.boot = None
      /\ pc = "mount root" => /\ mounts.boot # None <=> Given("boot") # {}
                              /\ mounts.boot # None => mounts.boot \in Range(Listed("boot"))
  BY DEF Inv, Mounted, AfterBoot
<1> DEFINE len == Len(paramv)
<1>0. /\ Len(paramv') = len /\ len \in Nat /\ i \in 1 .. len
  BY <1>1, <1>5
<1> HIDE DEF L, len
\* The token is mounted.
<1>7. CASE /\ Usable(L[t]) /\ mounts' = [mounts EXCEPT ![key] = L[t]]
           /\ pc' = next /\ i' = 1 /\ UNCHANGED <<try, t, atPass>>
  <2>1. L[t] \in Sources /\ L[t] # None
    BY <1>7, UsableIs DEF Sources
  <2>2. L[t] \in Range(L)
    <3>1. DOMAIN L = 1 .. Len(L)
      BY <1>1
    <3> QED BY <1>1, <3>1 DEF Range
  <2>3. pc' \in {"loop", "move"}
    BY <1>7
  <2>4. mounts' \in Mounts
    <3>1. CASE key = "boot"
      BY <1>3, <1>7, <2>1, <3>1 DEF Mounts
    <3>2. CASE key = "root"
      BY <1>3, <1>7, <2>1, <3>2 DEF Mounts
    <3> QED BY <1>5, <3>1, <3>2
  <2>5. Types'
    BY <1>1, <1>3, <1>7, <2>3, <2>4, TypesKept DEF Places
  <2>6. Parameters'
    <3>1. i' \in 1 .. Len(paramv') + 1
      BY <1>0, <1>7
    <3> QED BY <1>1, <1>4, <2>3, <3>1 DEF Parameters
  <2>7. Passing' /\ Executed'
    BY <2>3 DEF Passing, CallOf, Executed
  <2>8. Mounted'
    <3>1. CASE key = "boot"
      <4>1. pc' = "loop" /\ mounts'.boot = L[t] /\ L = Listed("boot") /\ Given("boot") # {}
        BY <1>1, <1>3, <1>7, <3>1 DEF Mounts, L
      <4> QED BY <1>4, <2>1, <2>2, <4>1
          DEF Mounted, AfterBoot, AfterRoot, AfterMove, AfterSwitch
    <3>2. CASE key = "root"
      <4>1. pc' = "move" /\ mounts'.root = L[t] /\ L = Listed("root") /\ mounts'.boot = mounts.boot
        BY <1>3, <1>7, <3>2 DEF Mounts, L
      <4>2. pc = "mount root"
        BY <3>2 DEF CallOf
      <4> QED BY <1>4, <1>6, <2>2, <4>1, <4>2
          DEF Mounted, AfterBoot, AfterRoot, AfterMove, AfterSwitch
    <3> QED BY <1>5, <3>1, <3>2
  <2> QED BY <2>5, <2>6, <2>7, <2>8 DEF Inv
\* The token is passed over, or the list is through.
<1>8. CASE /\ mounts' = mounts /\ i' = i /\ pc' \in {pc, "fatal"} /\ try' \in 0 .. Retries
           /\ pc' = pc => try' < Retries
           /\ atPass' \subseteq ready'
           /\ pc' = pc => /\ t' \in 1 .. Len(L)
                          /\ \A n \in 1 .. t' - 1 : ~UsableAtPass(L[n])'
  <2>1. Types'
    <3>1. pc' \in {"mount boot", "mount root"} => try' < Retries
      BY <1>8
    <3>2. pc' \in Places
      BY <1>3, <1>8 DEF Places
    <3> QED BY <1>1, <1>3, <1>8, <3>1, <3>2, TypesKept
  <2>2. Parameters'
    <3>1. i' \in 1 .. Len(paramv') + 1
      BY <1>0, <1>8
    <3> QED BY <1>1, <1>4, <1>5, <1>8, <3>1 DEF Parameters
  <2>3. Passing'
    <3> SUFFICES ASSUME NEW k \in {"boot", "root"}, pc' = CallOf(k)
        PROVE  /\ Given(k)' # {} /\ i' = Min(Given(k)') /\ i' \in 1 .. Len(paramv')
               /\ t' \in 1 .. Len(Listed(k)')
               /\ \A n \in 1 .. t' - 1 : ~UsableAtPass(Listed(k)[n])'
      BY Zenon DEF Passing, CallOf
    <3>1. k = key /\ pc' = pc
      BY <1>5, <1>8 DEF CallOf
    <3>2. Listed(k)' = L /\ L' = L
      BY <1>4, <3>1 DEF L
    <3> QED BY <1>1, <1>4, <1>8, <3>1, <3>2 DEF UsableAtPass
  <2>4. Mounted'
    BY <1>4, <1>5, <1>6, <1>8 DEF Mounted, AfterBoot, AfterRoot, AfterMove, AfterSwitch
  <2>5. Executed'
    BY <1>5, <1>8 DEF Executed
  <2> QED BY <2>1, <2>2, <2>3, <2>4, <2>5 DEF Inv
<1>9. CASE /\ ~Usable(L[t]) /\ t < Len(L) /\ t' = t + 1
           /\ UNCHANGED <<pc, i, try, atPass, mounts>>
  <2>1. L' = L
    BY <1>4 DEF L
  <2>2. ~UsableAtPass(L[t])
    BY <1>3, <1>9 DEF Usable, UsableAtPass
  <2>3. ASSUME NEW n \in 1 .. t' - 1 PROVE ~UsableAtPass(L[n])
    BY <1>1, <1>9, <2>2
  <2>4. \A n \in 1 .. t' - 1 : ~UsableAtPass(L[n])'
    BY <1>1, <1>9, <2>1, <2>3, Zenon DEF UsableAtPass
  <2>5. t' \in 1 .. Len(L)
    BY <1>1, <1>9
  <2> QED BY <1>1, <1>3, <1>5, <1>8, <1>9, <2>4, <2>5
<1>10. CASE /\ ~Usable(L[t]) /\ t = Len(L) /\ t' = 1
            /\ try' = try + 1 /\ atPass' = ready
            /\ IF try + 1 < Retries THEN pc' = pc ELSE pc' = "fatal"
            /\ UNCHANGED <<i, mounts>>
  <2>1. 1 .. t' - 1 = {} /\ t' \in 1 .. Len(L)
    BY <1>1, <1>10
  <2>2. try' \in 0 .. Retries /\ pc' \in {pc, "fatal"} /\ (pc' = pc => try' < Retries)
    <3>1. try \in 0 .. Retries /\ try < Retries /\ Retries \in Nat
      BY <1>3, <1>5
    <3>2. try' \in 0 .. Retries /\ (try + 1 < Retries => try' < Retries)
      BY <1>10, <3>1
    <3>3. pc # "fatal"
      BY <1>5
    <3> QED BY <1>10, <3>2, <3>3, Zenon
  <2> QED BY <1>1, <1>8, <1>10, <2>1, <2>2
<1> QED BY <1>2, <1>7, <1>9, <1>10

LEMMA LosetupInv ==
  ASSUME Inv, Losetup
  PROVE  Inv'
<1>1. /\ pc = "loop" /\ paramv' = paramv /\ mounts' = mounts /\ pc' \in {"loop", "root", "fatal"}
      /\ UNCHANGED <<paramv, try, t, ready, atPass, mounts, argv, sound, present, line>>
  BY DEF Losetup, fatal, env
<1>2. /\ line \in Cmdlines /\ try \in 0 .. Retries
      /\ ready \subseteq Devices /\ attached \subseteq Loops /\ atPass \subseteq ready
      /\ mounts \in Mounts
  BY TypesAre DEF Inv
<1>3. paramv = Table /\ Len(paramv) \in Nat /\ i \in 1 .. Len(paramv) + 1
  BY <1>1, TheTable DEF Inv, Parameters
<1>4. Table' = Table /\ Given("boot")' = Given("boot") /\ Listed("boot")' = Listed("boot")
  BY <1>1, SameLine
<1>5. attached' \subseteq Loops /\ i' \in 1 .. Len(paramv) + 1
  <2> DEFINE n == Find("loop", i)
             d == paramv[n].toks[1]
  <2>1. n \in i .. Len(paramv) + 1
    BY <1>3, FindFrom
  <2>2. \/ i' = 1 /\ attached' = attached
        \/ i' = i /\ attached' = attached
        \/ n # Len(paramv) + 1 /\ d \in Loops /\ attached' = attached \cup {d} /\ i' = n + 1
    BY Zenon DEF Losetup, paramc
  <2> HIDE DEF n, d
  <2>3. attached' \subseteq Loops
    BY <1>2, <2>2
  <2>4. i' \in 1 .. Len(paramv) + 1
    BY <1>3, <2>1, <2>2
  <2> QED BY <2>3, <2>4
<1>6. Types'
  BY <1>1, <1>2, <1>5, TypesKept DEF Places
<1>7. Parameters'
  BY <1>1, <1>3, <1>4, <1>5 DEF Parameters
<1>8. Passing' /\ Executed'
  BY <1>1 DEF Passing, CallOf, Executed
<1>9. Mounted'
  <2>1. /\ mounts.boot # None <=> Given("boot") # {}
        /\ mounts.boot # None => mounts.boot \in Range(Listed("boot"))
    BY <1>1 DEF Inv, Mounted, AfterBoot
  <2> QED BY <1>1, <1>4, <2>1 DEF Mounted, AfterBoot, AfterRoot, AfterMove, AfterSwitch
<1> QED BY <1>6, <1>7, <1>8, <1>9 DEF Inv

LEMMA MoveInv ==
  ASSUME Inv, Move
  PROVE  Inv'
<1>1. /\ pc = "move" /\ paramv' = paramv
      /\ UNCHANGED <<paramv, i, try, t, ready, atPass, attached, argv, sound, present, line>>
  BY DEF Move, env
<1>2. /\ line \in Cmdlines /\ try \in 0 .. Retries
      /\ ready \subseteq Devices /\ attached \subseteq Loops /\ atPass \subseteq ready
      /\ mounts \in Mounts
  BY TypesAre DEF Inv
<1>3. /\ Table' = Table /\ Given("boot")' = Given("boot") /\ Listed("boot")' = Listed("boot")
      /\ Listed("root")' = Listed("root")
  BY <1>1, SameLine
<1>4. \/ pc' = "fatal" /\ mounts' = mounts
      \/ pc' = "switch" /\ mounts' = [mounts EXCEPT !.moved = mounts.boot # None]
  BY DEF Move, fatal
<1>5. /\ mounts' \in Mounts /\ mounts'.boot = mounts.boot /\ mounts'.root = mounts.root
      /\ pc' = "switch" => (mounts'.moved <=> mounts.boot # None)
  BY <1>2, <1>4 DEF Mounts
<1>6. pc' \in {"switch", "fatal"}
  BY <1>4
<1>7. Types'
  BY <1>1, <1>2, <1>5, <1>6, TypesKept DEF Places
<1>8. Parameters'
  BY <1>1, <1>3, <1>6 DEF Inv, Parameters
<1>9. Passing' /\ Executed'
  BY <1>6 DEF Passing, CallOf, Executed
<1>10. Mounted'
  <2>1. /\ mounts.boot # None <=> Given("boot") # {}
        /\ mounts.boot # None => mounts.boot \in Range(Listed("boot"))
        /\ mounts.root \in Range(Listed("root"))
    BY <1>1 DEF Inv, Mounted, AfterBoot, AfterRoot
  <2> QED BY <1>3, <1>5, <1>6, <2>1 DEF Mounted, AfterBoot, AfterRoot, AfterMove, AfterSwitch
<1> QED BY <1>7, <1>8, <1>9, <1>10 DEF Inv

LEMMA SwitchInv ==
  ASSUME Inv, Switch
  PROVE  Inv'
<1>1. /\ pc = "switch" /\ paramv' = paramv
      /\ UNCHANGED <<paramv, i, try, t, ready, atPass, attached, argv, sound, present, line>>
  BY DEF Switch, env
<1>2. /\ line \in Cmdlines /\ try \in 0 .. Retries
      /\ ready \subseteq Devices /\ attached \subseteq Loops /\ atPass \subseteq ready
      /\ mounts \in Mounts
  BY TypesAre DEF Inv
<1>3. /\ Table' = Table /\ Given("boot")' = Given("boot") /\ Listed("boot")' = Listed("boot")
      /\ Listed("root")' = Listed("root")
  BY <1>1, SameLine
<1>4. /\ pc' \in {"init", "fatal"} /\ mounts' \in Mounts
      /\ mounts'.boot = mounts.boot /\ mounts'.root = mounts.root /\ mounts'.moved = mounts.moved
      /\ pc' = "init" => mounts'.slash = mounts.root
  <2>1. CASE pc' = "fatal" /\ mounts' = mounts
    BY <1>2, <2>1
  <2>2. ASSUME NEW proc \in BOOLEAN, NEW sys \in BOOLEAN, pc' = "fatal",
               mounts' = [mounts EXCEPT !.proc = proc, !.sys = sys]
        PROVE  <1>4!1 /\ <1>4!2 /\ <1>4!3
    BY <1>2, <2>2 DEF Mounts
  <2>3. ASSUME NEW proc \in BOOLEAN, NEW sys \in BOOLEAN, pc' \in {"init", "fatal"},
               mounts' = [mounts EXCEPT !.proc = proc, !.sys = sys, !.slash = mounts.root]
        PROVE  <1>4!1 /\ <1>4!2 /\ <1>4!3
    BY <1>2, <2>3 DEF Mounts
  <2> QED BY <2>1, <2>2, <2>3 DEF Switch, fatal
<1>5. Types'
  BY <1>1, <1>2, <1>4, TypesKept DEF Places
<1>6. Parameters'
  BY <1>1, <1>3, <1>4 DEF Inv, Parameters
<1>7. Passing' /\ Executed'
  BY <1>4 DEF Passing, CallOf, Executed
<1>8. Mounted'
  <2>1. /\ mounts.boot # None <=> Given("boot") # {}
        /\ mounts.boot # None => mounts.boot \in Range(Listed("boot"))
        /\ mounts.root \in Range(Listed("root"))
        /\ mounts.moved <=> mounts.boot # None
    BY <1>1 DEF Inv, Mounted, AfterBoot, AfterRoot, AfterMove
  <2> QED BY <1>3, <1>4, <2>1 DEF Mounted, AfterBoot, AfterRoot, AfterMove, AfterSwitch
<1> QED BY <1>5, <1>6, <1>7, <1>8 DEF Inv

\* The arguments of init behind its name.
LEMMA BehindName ==
  ASSUME NEW S, NEW s \in Seq(S), NEW e
  PROVE  (<<e>> \o s)[1] = e /\ Tail(<<e>> \o s) = s
<1> DEFINE T == S \cup {e}
           f == <<e>>
           r == f \o s
<1>1. s \in Seq(T) /\ f \in Seq(T) /\ Len(f) = 1 /\ f[1] = e /\ f # << >>
  BY SeqOfMore
<1>2. Len(s) \in Nat
  OBVIOUS
<1> HIDE DEF T, f
<1>3. r \in Seq(T) /\ Len(r) = Len(f) + Len(s)
      /\ \A n \in 1 .. Len(f) + Len(s) : r[n] = IF n <= Len(f) THEN f[n] ELSE s[n - Len(f)]
  BY <1>1, ConcatProperties
<1>4. Len(r) = 1 + Len(s) /\ \A n \in 1 .. 1 + Len(s) : r[n] = IF n <= 1 THEN f[n] ELSE s[n - 1]
  BY <1>1, <1>3
<1> HIDE DEF r
<1>5. r # << >>
  BY <1>2, <1>4
<1>6. /\ Tail(r) \in Seq(T) /\ Len(Tail(r)) = Len(r) - 1
      /\ \A n \in 1 .. Len(Tail(r)) : Tail(r)[n] = r[n + 1]
  BY <1>3, <1>5, HeadTailProperties
<1>7. Len(Tail(r)) = Len(s) /\ \A n \in 1 .. Len(s) : Tail(r)[n] = s[n]
  BY <1>2, <1>4, <1>6
<1>8. Tail(r) = s
  BY <1>1, <1>6, <1>7, SeqEqual
<1>9. r[1] = e
  BY <1>1, <1>2, <1>4
<1> QED BY <1>8, <1>9 DEF r, f

LEMMA ExecInv ==
  ASSUME Inv, Exec
  PROVE  Inv'
<1>1. /\ pc = "init" /\ paramv' = paramv /\ mounts' = mounts /\ pc' \in {"running", "fatal"}
      /\ UNCHANGED <<paramv, i, try, t, ready, atPass, mounts, attached, sound, present, line>>
  BY DEF Exec, fatal, env
<1>2. /\ line \in Cmdlines /\ try \in 0 .. Retries
      /\ ready \subseteq Devices /\ attached \subseteq Loops /\ atPass \subseteq ready
      /\ mounts \in Mounts
  BY TypesAre DEF Inv
<1>3. /\ Table' = Table /\ Given("boot")' = Given("boot") /\ Listed("boot")' = Listed("boot")
      /\ Listed("root")' = Listed("root") /\ Given("init")' = Given("init")
  BY <1>1, SameLine
<1>4. paramv = Table
  BY <1>1 DEF Inv, Parameters
<1>5. Types'
  BY <1>1, <1>2, TypesKept DEF Places
<1>6. Parameters'
  BY <1>1, <1>3 DEF Inv, Parameters
<1>7. Passing'
  BY <1>1 DEF Passing, CallOf
<1>8. Mounted'
  BY <1>1, <1>3 DEF Inv, Mounted, AfterBoot, AfterRoot, AfterMove, AfterSwitch
<1>9. Executed'
  <2> SUFFICES ASSUME pc' = "running" PROVE
        /\ Given("init") # {} => argv'[1].key = Table[Max(Given("init"))].toks[1]
        /\ Given("init") = {} => argv'[1].key \in present
        /\ Tail(argv') = Table
    BY <1>1, <1>3 DEF Executed
  <2> DEFINE e == [key |-> Program, toks |-> << >>, commas |-> {}]
             P == {n \in 1 .. Len(Inits) : Inits[n] \in present}
  <2>1. Program \notin {None, Spoilt} /\ argv' = <<e>> \o paramv
    BY DEF Exec, fatal
  <2>2. argv'[1] = e /\ Tail(argv') = paramv
    <3> DEFINE S == {paramv[n] : n \in 1 .. Len(paramv)}
    <3>1. paramv = [n \in 1 .. Len(paramv) |-> paramv[n]] /\ Len(paramv) \in Nat
      BY <1>4, TheTable DEF Inv
    <3>2. \A n \in 1 .. Len(paramv) : paramv[n] \in S
      OBVIOUS
    <3> HIDE DEF S
    <3>3. paramv \in Seq(S)
      BY <3>1, <3>2
    <3> HIDE DEF e
    <3> QED BY <2>1, <3>3, BehindName
  <2>3. Given("init") = {m \in 1 .. Len(paramv) : paramv[m].key = "init"}
    BY <1>4, TheTable DEF Inv
  <2>4. Program = IF Given("init") # {} THEN paramv[Max(Given("init"))].toks[1]
                  ELSE IF P # {} THEN Inits[Min(P)] ELSE None
    BY <2>3 DEF Program
  <2>5. argv'[1].key = Program
    BY <2>2
  <2>6. P # {} => Min(P) \in P
    <3>1. Len(Inits) \in Nat
      BY MininitAssumption
    <3>2. P \in SUBSET Nat
      BY <3>1
    <3> HIDE DEF P
    <3> QED BY <3>2, LeastIsMin
  <2>7. ASSUME Given("init") = {} PROVE Program \in present
    <3>1. P # {} /\ Program = Inits[Min(P)]
      BY <2>1, <2>4, <2>7
    <3> QED BY <2>6, <3>1
  <2> QED BY <1>4, <2>2, <2>4, <2>5, <2>7
<1> QED BY <1>5, <1>6, <1>7, <1>8, <1>9 DEF Inv

LEMMA InvNext ==
  Inv /\ [Next]_vars => Inv'
<1> SUFFICES ASSUME Inv, [Next]_vars PROVE Inv'
  OBVIOUS
<1>1. CASE Setup
  BY <1>1, SetupInv
<1>2. CASE Boot
  BY <1>2, EnterInv DEF Boot, CallOf, Lists
<1>3. CASE Root
  BY <1>3, EnterInv DEF Root, CallOf, Lists
<1>4. CASE MountBoot
  BY <1>4, MountInv DEF MountBoot, CallOf, Lists
<1>5. CASE MountRoot
  BY <1>5, MountInv DEF MountRoot, CallOf, Lists
<1>6. CASE Losetup \/ Move \/ Switch \/ Exec
  BY <1>6, LosetupInv, MoveInv, SwitchInv, ExecInv
<1>7. ASSUME NEW d \in Devices, Appear(d) PROVE Inv'
  BY <1>7, AppearInv
<1>8. CASE Over \/ UNCHANGED vars
  BY <1>8, StutterInv DEF Over
<1> QED BY <1>1, <1>2, <1>3, <1>4, <1>5, <1>6, <1>7, <1>8 DEF Next, Main

-----------------------------------------------------------------------------
(* What follows from the invariant.                                        *)

LEMMA Invariance ==
  Spec => []Inv
BY InvInit, InvNext, PTL DEF Spec

LEMMA InvTypeOK ==
  Inv => TypeOK
<1> SUFFICES ASSUME Inv PROVE TypeOK
  OBVIOUS
<1>1. /\ pc \in Places /\ try \in 0 .. Retries
      /\ ready \subseteq Devices /\ attached \subseteq Loops /\ mounts \in Mounts
  BY TypesAre DEF Inv
<1>2. mounts.boot \in Devices \cup Loops \cup {None} /\ mounts.root \in Devices \cup Loops \cup {None}
  BY <1>1 DEF Mounts, Sources
<1>3. /\ Len(Table) \in Nat /\ Len(Table) + 2 <= TableSize
      /\ TableSize \in Nat /\ TableSize >= 3
  BY TheTable, MininitAssumption DEF Inv
<1>4. Len(paramv) \in Nat /\ Len(paramv) + 2 <= TableSize /\ i \in 1 .. Len(paramv) + 1
  <2>1. (paramv = << >> \/ paramv = Table) /\ i \in 1 .. Len(paramv) + 1
    BY DEF Inv, Parameters
  <2>2. CASE paramv = << >>
    BY <1>3, <2>1, <2>2
  <2>3. CASE paramv = Table
    BY <1>3, <2>1, <2>3
  <2> QED BY <2>1, <2>2, <2>3
<1>5. ASSUME pc \in {"mount boot", "mount root"} PROVE t \in 1 .. Len(paramv[i].toks)
  <2>1. PICK key \in Lists : pc = CallOf(key)
    BY <1>5 DEF Lists, CallOf
  <2>2. Given(key) # {} /\ i = Min(Given(key)) /\ t \in 1 .. Len(Listed(key))
    BY <2>1 DEF Inv, Passing, Lists
  <2>3. paramv = Table
    BY <1>5 DEF Inv, Parameters
  <2> QED BY <2>2, <2>3, TheList
<1>6. i \in 1 .. paramc + 1
  BY <1>4 DEF paramc
<1> QED BY <1>1, <1>2, <1>4, <1>5, <1>6 DEF TypeOK, Places

(* What main hands over to init: / is a device of the first root list the  *)
(* kernel's command line has, the boot device is under /boot exactly if a  *)
(* boot parameter was given, init is the program of the last init          *)
(* parameter, or one of inits[] that exists, and its arguments are the     *)
(* parameters _mkparam cut the line into; before that, paramv has room for *)
(* the program and the NULL, and _multimount stays within its list.        *)
THEOREM HandedOver ==
  Spec => []HandOver
<1>1. Inv => HandOver
  <2> SUFFICES ASSUME Inv, pc = "running" PROVE
        /\ mounts.slash = mounts.root /\ mounts.root \in Range(Listed("root"))
        /\ mounts.moved <=> Given("boot") # {}
        /\ mounts.moved => mounts.boot \in Range(Listed("boot"))
        /\ Given("init") # {} =>
             argv[1].key = mkparam(line, TableSize - 2)[Max(Given("init"))].toks[1]
        /\ Given("init") = {} => argv[1].key \in present
        /\ Tail(argv) = mkparam(line, TableSize - 2)
    BY InvTypeOK, Zenon DEF HandOver
  <2>1. /\ mounts.slash = mounts.root /\ mounts.root \in Range(Listed("root"))
        /\ mounts.moved <=> mounts.boot # None
        /\ mounts.boot # None <=> Given("boot") # {}
        /\ mounts.boot # None => mounts.boot \in Range(Listed("boot"))
    BY DEF Inv, Mounted, AfterBoot, AfterRoot, AfterMove, AfterSwitch
  <2>2. /\ Given("init") # {} => argv[1].key = Table[Max(Given("init"))].toks[1]
        /\ Given("init") = {} => argv[1].key \in present
        /\ Tail(argv) = Table
    BY DEF Inv, Executed
  <2> QED BY <2>1, <2>2, Zenon DEF Table
<1> QED BY <1>1, Invariance, PTL

\* Only _multimount gives up a list or changes what is mounted on its target.
LEMMA OnlyMultimount ==
  ASSUME Inv, [Next]_vars, NEW key \in Lists,
         (pc = CallOf(key) /\ pc' = "fatal") \/ mounts'[key] # mounts[key]
  PROVE  pc = CallOf(key) /\ \E next \in {"loop", "move"} : Mount(key, next)
<1>1. mounts \in Mounts /\ key \in {"boot", "root"}
  BY TypesAre DEF Inv, Lists
<1>2. CASE Setup
  <2>1. \/ mounts' = mounts
        \/ mounts' = [mounts EXCEPT !.proc = TRUE, !.sys = TRUE]
    BY <1>2 DEF Setup
  <2>2. mounts'[key] = mounts[key]
    BY <1>1, <2>1 DEF Mounts
  <2> QED BY <1>2, <2>2 DEF Setup, CallOf
<1>3. CASE Boot \/ Root
  BY <1>3 DEF Boot, Root, Enter, CallOf
<1>4. CASE MountBoot
  <2>1. pc = "mount boot" /\ Mount("boot", "loop")
    BY <1>4 DEF MountBoot
  <2>2. key = "boot"
    <3> SUFFICES ASSUME key = "root" PROVE FALSE
      BY <1>1
    <3>1. mounts' = mounts \/ \E d : mounts' = [mounts EXCEPT !.boot = d]
      BY <2>1 DEF Mount
    <3>2. mounts'.root = mounts.root
      BY <1>1, <3>1 DEF Mounts
    <3> QED BY <2>1, <3>2 DEF CallOf
  <2> QED BY <2>1, <2>2 DEF CallOf
<1>5. CASE MountRoot
  <2>1. pc = "mount root" /\ Mount("root", "move")
    BY <1>5 DEF MountRoot
  <2>2. key = "root"
    <3> SUFFICES ASSUME key = "boot" PROVE FALSE
      BY <1>1
    <3>1. mounts' = mounts \/ \E d : mounts' = [mounts EXCEPT !.root = d]
      BY <2>1 DEF Mount
    <3>2. mounts'.boot = mounts.boot
      BY <1>1, <3>1 DEF Mounts
    <3> QED BY <2>1, <3>2 DEF CallOf
  <2> QED BY <2>1, <2>2 DEF CallOf
<1>6. CASE Losetup \/ Exec
  BY <1>6 DEF Losetup, Exec, CallOf
<1>7. CASE Move
  <2>1. \/ mounts' = mounts
        \/ mounts' = [mounts EXCEPT !.moved = mounts.boot # None]
    BY <1>7 DEF Move
  <2>2. mounts'[key] = mounts[key]
    BY <1>1, <2>1 DEF Mounts
  <2> QED BY <1>7, <2>2 DEF Move, CallOf
<1>8. CASE Switch
  <2>1. \/ mounts' = mounts
        \/ \E proc, sys \in BOOLEAN :
             \/ mounts' = [mounts EXCEPT !.proc = proc, !.sys = sys]
             \/ mounts' = [mounts EXCEPT !.proc = proc, !.sys = sys, !.slash = mounts.root]
    BY <1>8 DEF Switch
  <2>2. mounts'[key] = mounts[key]
    BY <1>1, <2>1 DEF Mounts
  <2> QED BY <1>8, <2>2 DEF Switch, CallOf
<1>9. ASSUME NEW d \in Devices, Appear(d) PROVE FALSE
  BY <1>1, <1>9 DEF Appear, CallOf
<1>10. CASE Over \/ UNCHANGED vars
  BY <1>1, <1>10 DEF Over, vars, CallOf
<1> QED BY <1>2, <1>3, <1>4, <1>5, <1>6, <1>7, <1>8, <1>9, <1>10 DEF Next, Main

(* _multimount gives up on a boot or root list only if no device of the    *)
(* list could be mounted when the pause before its last pass began,        *)
(* wherever the device stands in the list: the commas it overwrites are    *)
(* back for the next pass, and every pass begins at the first token.       *)
THEOREM ListsTried ==
  Spec => GivesUpOnlyIfNone
<1> DEFINE A == \A key \in {"boot", "root"} :
                  pc = CallOf(key) /\ pc' = "fatal" =>
                    \A n \in 1 .. Len(Listed(key)) : ~UsableAtPass(Listed(key)[n])
<1>1. ASSUME Inv, [Next]_vars PROVE [A]_vars
  <2> SUFFICES ASSUME NEW key \in {"boot", "root"}, pc = CallOf(key), pc' = "fatal",
                      NEW n \in 1 .. Len(Listed(key))
               PROVE  ~UsableAtPass(Listed(key)[n])
    OBVIOUS
  <2> DEFINE L == Listed(key)
  <2>1. PICK next \in {"loop", "move"} : Mount(key, next)
    BY <1>1, OnlyMultimount DEF Lists
  <2>2. /\ Len(L) \in Nat /\ t \in 1 .. Len(L) /\ pc' # next /\ pc' # pc
        /\ \A m \in 1 .. t - 1 : ~UsableAtPass(L[m])
    BY <1>1, <2>1, OneToken DEF Lists, CallOf
  <2>3. ~Usable(L[t]) /\ t = Len(L)
    <3>1. \/ pc' = next \/ pc' = pc \/ (~Usable(L[t]) /\ t = Len(L))
      BY <1>1, <2>1, OneToken DEF Lists
    <3> QED BY <2>2, <3>1
  <2>4. atPass \subseteq ready
    BY <1>1, TypesAre DEF Inv
  <2>5. ~UsableAtPass(L[t])
    BY <2>3, <2>4 DEF Usable, UsableAtPass
  <2> HIDE DEF L
  <2>6. n \in 1 .. t - 1 \/ n = t
    BY <2>2, <2>3 DEF L
  <2> QED BY <2>2, <2>5, <2>6 DEF L
<1> QED BY <1>1, Invariance, PTL DEF Spec, GivesUpOnlyIfNone

(* _multimount mounts a device of a list only if none of those before it   *)
(* could be mounted when the pause before the pass began, so the order of  *)
(* the list decides between devices that are there in time.                *)
THEOREM OrderKept ==
  Spec => EarlierFirst
<1> DEFINE A == \A key \in {"boot", "root"} :
                  mounts'[key] # mounts[key] =>
                    \A n \in 1 .. t - 1 : ~UsableAtPass(Listed(key)[n])
<1>1. ASSUME Inv, [Next]_vars PROVE [A]_vars
  <2> SUFFICES ASSUME NEW key \in {"boot", "root"}, mounts'[key] # mounts[key],
                      NEW n \in 1 .. t - 1
               PROVE  ~UsableAtPass(Listed(key)[n])
    OBVIOUS
  <2>1. pc = CallOf(key)
    BY <1>1, OnlyMultimount DEF Lists
  <2> QED BY <1>1, <2>1 DEF Inv, Passing
<1> QED BY <1>1, Invariance, PTL DEF Spec, EarlierFirst

=============================================================================
