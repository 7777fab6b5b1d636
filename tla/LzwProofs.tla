----------------------------- MODULE LzwProofs -----------------------------
(***************************************************************************)
(* The dictionary of lzw_decode, proved for any number of symbols, any     *)
(* width of words and codes, and any source that 32-bit pointers can reach *)
(* (LzwAssumption): the pointers of a chain, reversed in place to read it  *)
(* from its head, are exactly turned back, whatever chains share its       *)
(* nodes.                                                                  *)
(***************************************************************************)
EXTENDS Lzw, FiniteSetTheorems, SequenceTheorems, WellFoundedInduction, TLAPS

-----------------------------------------------------------------------------
(* The inductive invariant.                                                *)

Table == 0 .. count - 1
Nodes(n) == [symbol : -1 .. Symbols, parent : -1 .. n - 1]
Walking == pc \in {"back", "forward"}

Types ==
  /\ pc \in {"fetch", "back", "forward", "done"}
  /\ src \in Seq(Word) /\ Len(src) \in 1 .. MaxWords
  /\ bitpos \in 0 .. WordBits - 1 /\ bits \in FirstBits .. WordBits
  /\ count \in Nat /\ count >= Symbols + 1
  /\ node \in [Table -> Nodes(count)]
  /\ fix \in -1 .. count - 1 /\ c \in Nat
  /\ i \in -1 .. count - 1 /\ j \in Table /\ k \in -1 .. count - 1
  /\ Walking => c < count

\* Every code has cost its bits, so a code as wide as a word never grows.
Spent ==
  FirstBits * ((count - (Symbols + 1)) + (IF Walking THEN 1 ELSE 0))
    <= (Len(src) - 1) * WordBits + bitpos

\* f is the tree of parents, and R the nodes whose pointers are reversed: each
\* points to its child in the chain, and the end of the chain to nothing.
Chain(f, R) ==
  /\ f \in [Table -> -1 .. count - 1] /\ \A m \in Table : f[m] < m
  /\ R \subseteq Table
  /\ \A m \in Table \ R : node[m].parent = f[m]
  /\ \A m \in R : node[m].parent = -1 \/ (node[m].parent \in R /\ f[node[m].parent] = m)
  /\ pc \in {"fetch", "done"} => R = {}
  /\ pc = "back" =>
       /\ \A m \in R : j < m
       /\ IF i >= 0 THEN i \in R /\ f[i] = j ELSE R = {}
       /\ \A m \in R \ {i} : f[m] \in R /\ node[f[m]].parent = m
  /\ pc = "forward" =>
       /\ j \in R /\ k = f[j] /\ k \notin R
       /\ \A m \in R \ {j} : f[m] \in R /\ node[f[m]].parent = m

Tree(f) == \E R : Chain(f, R)
Inv == Types /\ Spent /\ \E f : Tree(f)

\* The tree with the node that the end of the second loop adds.
Grown(f) == IF pc = "forward" /\ pc' = "fetch"
            THEN [m \in 0 .. count |-> IF m < count THEN f[m] ELSE c] ELSE f

-----------------------------------------------------------------------------
(* Numbers.                                                                *)

LEMMA Powers ==
  ASSUME NEW n \in Nat
  PROVE  2^n \in Nat \ {0}
<1>1. IsFiniteSet(1 .. n) /\ Cardinality(1 .. n) = n
  <2>1. Cardinality(1 .. n) = IF 1 > n THEN 0 ELSE n - 1 + 1
    BY FS_Interval
  <2> QED BY <2>1, FS_Interval
<1>2. IsFiniteSet(SUBSET (1 .. n)) /\ Cardinality(SUBSET (1 .. n)) = 2^n
  BY <1>1, FS_SUBSET
<1>3. {} \in SUBSET (1 .. n)
  OBVIOUS
<1>4. Cardinality(SUBSET (1 .. n)) \in Nat /\ Cardinality(SUBSET (1 .. n)) # 0
  BY <1>2, <1>3, FS_CardinalityType, FS_EmptySet
<1> QED BY <1>2, <1>4

LEMMA Numbers ==
  /\ Symbols \in Nat \ {0} /\ WordBits \in Nat \ {0} /\ FirstBits \in Nat \ {0}
  /\ FirstBits <= WordBits /\ MaxWords \in Nat \ {0}
  /\ 2^WordBits \in Nat /\ MaxWords * WordBits <= FirstBits * (2^WordBits - Symbols - 1)
<1>1. FirstBits # 0
  <2>1. 2^0 = 1
    OBVIOUS
  <2> SUFFICES ASSUME FirstBits = 0 PROVE FALSE
    OBVIOUS
  <2>2. 2^FirstBits = 1
    BY <2>1
  <2>3. Symbols < 2^FirstBits /\ Symbols \in Nat \ {0}
    BY LzwAssumption
  <2> QED BY <2>2, <2>3
<1> QED BY <1>1, LzwAssumption, Powers

LEMMA Least ==
  ASSUME NEW T \in SUBSET Nat, T # {}
  PROVE  \E x \in T : \A y \in T : x <= y
<1>1. PICK x \in T : \A y \in T : ~(<<y, x>> \in OpToRel(<, Nat))
  BY NatLessThanWellFounded, WFMin
<1>2. \A y \in T : x <= y
  <2> SUFFICES ASSUME NEW y \in T, y < x PROVE FALSE
    OBVIOUS
  <2>1. <<y, x>> \in Nat \X Nat /\ <<y, x>>[1] < <<y, x>>[2]
    OBVIOUS
  <2>2. <<y, x>> \in OpToRel(<, Nat)
    BY <2>1, Zenon DEF OpToRel
  <2> QED BY <1>1, <2>2
<1> QED BY <1>2

\* A code is a number.
LEMMA CodeIs ==
  ASSUME Types, NEW s \in Int, NEW w \in Int, NEW pos \in 0 .. WordBits - 1
  PROVE  Code(s, w, pos) \in Nat
<1> DEFINE low == s \div 2^pos
           over == bits - ((pos + bits) - WordBits)
           full == low + w * 2^over
<1>1. bits \in Nat /\ pos \in Nat /\ WordBits - pos \in Nat
  BY Numbers DEF Types
<1>2. over \in Nat
  BY <1>1, Numbers
<1>3. 2^pos \in Nat \ {0} /\ 2^bits \in Nat \ {0} /\ 2^over \in Nat \ {0}
  BY <1>1, <1>2, Powers
<1>4. low \in Int
  BY <1>3
<1>5. full \in Int
  <2>1. w * 2^over \in Int
    BY <1>3
  <2> QED BY <1>4, <2>1
<1>6. Code(s, w, pos) = (IF pos + bits >= WordBits THEN full ELSE low) % 2^bits
  BY DEF Code
<1> HIDE DEF low, full
<1>7. (IF pos + bits >= WordBits THEN full ELSE low) \in Int
  BY <1>4, <1>5
<1> QED BY <1>3, <1>6, <1>7

-----------------------------------------------------------------------------
(* The types and the bits spent.                                           *)

LEMMA FirstState ==
  ASSUME Init
  PROVE  Types /\ Spent /\ Chain([m \in 0 .. Symbols |-> -1], {})
<1>1. PICK w \in Word : src = <<w>>
  BY DEF Init
<1>2. src \in Seq(Word) /\ Len(src) = 1
  BY <1>1
<1>3. count = Symbols + 1 /\ Table = 0 .. Symbols /\ Symbols \in Nat \ {0}
  BY Numbers DEF Init, Table
<1>4. ASSUME NEW m \in 0 .. Symbols
      PROVE  [symbol |-> m % Symbols, parent |-> -1] \in Nodes(count)
  <2>1. m % Symbols \in 0 .. Symbols - 1
    BY <1>3
  <2>2. m % Symbols \in -1 .. Symbols /\ -1 \in -1 .. count - 1
    BY <1>3, <2>1
  <2> QED BY <2>2 DEF Nodes
<1>5. node \in [Table -> Nodes(count)] /\ \A m \in Table : node[m].parent = -1
  BY <1>3, <1>4 DEF Init
<1>6. Types
  <2>1. Len(src) \in 1 .. MaxWords /\ bitpos \in 0 .. WordBits - 1 /\ bits \in FirstBits .. WordBits
    BY <1>2, Numbers DEF Init
  <2>2. /\ fix \in -1 .. count - 1 /\ i \in -1 .. count - 1 /\ j \in Table
        /\ k \in -1 .. count - 1
    BY <1>3 DEF Init
  <2>3. count \in Nat /\ count >= Symbols + 1 /\ c \in Nat /\ pc = "fetch"
    BY <1>3 DEF Init
  <2> QED BY <1>2, <1>5, <2>1, <2>2, <2>3 DEF Types, Walking
<1>7. Spent
  BY <1>2, <1>3, Numbers DEF Init, Spent, Walking
<1>8. Chain([m \in 0 .. Symbols |-> -1], {})
  BY <1>3, <1>5 DEF Chain, Init
<1> QED BY <1>6, <1>7, <1>8

\* A code is taken: whichever word it comes from.
LEMMA TakeTypes ==
  ASSUME Types, Spent, NEW code \in Nat, Take(code), pc = "fetch",
         src' \in Seq(Word), Len(src') \in 1 .. MaxWords, bitpos' \in 0 .. WordBits - 1,
         (Len(src') - 1) * WordBits + bitpos' = (Len(src) - 1) * WordBits + bitpos + bits
  PROVE  Types' /\ Spent'
<1>1. /\ bits' = bits /\ count' = count /\ fix' = fix /\ k' = k /\ node' = node /\ c' = code
      /\ Table' = Table
      /\ \/ pc' = "done" /\ i' = i /\ j' = j
         \/ pc' = "back" /\ i' = -1 /\ j' = code /\ code < count
  <2>1. code >= count \/ code < count
    BY DEF Types
  <2> QED BY <2>1 DEF Take, Table
<1>2. count \in Nat /\ count >= Symbols + 1 /\ Table = 0 .. count - 1
  BY DEF Types, Table
<1>3. i' \in -1 .. count - 1 /\ j' \in Table
  BY <1>1, <1>2, Numbers DEF Types
<1>4. Types'
  BY <1>1, <1>2, <1>3 DEF Types, Walking
<1>5. Spent'
  <2> DEFINE D == count - (Symbols + 1)
             s == (Len(src) - 1) * WordBits + bitpos
  <2>1. FirstBits * (D + 0) <= s
    BY DEF Spent, Walking
  <2>2. D \in Nat /\ Len(src) \in Nat /\ bits \in Nat /\ bits >= FirstBits /\ bitpos \in Nat
    BY <1>2, Numbers DEF Types
  <2>3. s \in Int
    BY <2>2, Numbers
  <2>4. Spent' <=> FirstBits * (D + (IF pc' = "back" THEN 1 ELSE 0)) <= s + bits
    BY <1>1 DEF Spent, Walking
  <2> HIDE DEF D, s
  <2>5. FirstBits * (D + 1) = FirstBits * D + FirstBits /\ FirstBits * (D + 0) = FirstBits * D
        /\ FirstBits * D \in Int
    BY <2>2, Numbers
  <2> QED BY <2>1, <2>2, <2>3, <2>4, <2>5, Numbers
<1> QED BY <1>4, <1>5

LEMMA FetchTypes ==
  ASSUME Types, Spent, FetchWithin \/ FetchAcross
  PROVE  Types' /\ Spent'
<1>1. /\ src \in Seq(Word) /\ Len(src) \in 1 .. MaxWords /\ pc = "fetch"
      /\ bitpos \in 0 .. WordBits - 1 /\ bits \in FirstBits .. WordBits
  BY DEF Types, FetchWithin, FetchAcross
<1>2. Word \subseteq Int
  BY Numbers DEF Word
<1>3. Last(src) \in Int
  <2>1. Len(src) \in 1 .. Len(src)
    BY <1>1, Numbers
  <2>2. src[Len(src)] \in Word
    BY <1>1, <2>1
  <2> QED BY <1>2, <2>2 DEF Last
<1>4. CASE FetchWithin
  <2>1. Code(Last(src), 0, bitpos) \in Nat
    BY <1>1, <1>3, CodeIs
  <2>2. bitpos' = bitpos + bits /\ bitpos' \in 0 .. WordBits - 1 /\ src' = src
    BY <1>1, <1>4, Numbers DEF FetchWithin
  <2>3. (Len(src) - 1) * WordBits \in Int
    BY <1>1, Numbers
  <2>4. (Len(src') - 1) * WordBits + bitpos' = (Len(src) - 1) * WordBits + bitpos + bits
    BY <1>1, <2>2, <2>3, Numbers
  <2> QED BY <1>1, <1>4, <2>1, <2>2, <2>4, TakeTypes DEF FetchWithin
<1>5. CASE FetchAcross
  <2>1. PICK w \in Word : Take(Code(Last(src), w, bitpos)) /\ src' = Append(src, w)
    BY <1>5 DEF FetchAcross
  <2>2. Code(Last(src), w, bitpos) \in Nat
    BY <1>1, <1>2, <1>3, <2>1, CodeIs
  <2>3. Len(src) < MaxWords /\ bitpos + bits >= WordBits /\ bitpos' = bitpos + bits - WordBits
    BY <1>5 DEF FetchAcross
  <2>4. bitpos' \in 0 .. WordBits - 1
    BY <1>1, <2>3, Numbers
  <2>5. src' \in Seq(Word) /\ Len(src') = Len(src) + 1
    BY <1>1, <2>1
  <2>6. Len(src') \in 1 .. MaxWords
    BY <1>1, <2>3, <2>5, Numbers
  <2>7. (Len(src') - 1) * WordBits + bitpos' = (Len(src) - 1) * WordBits + bitpos + bits
    <3> DEFINE len == Len(src)
    <3>1. len \in Nat /\ Len(src') - 1 = len
      BY <1>1, <2>5
    <3> HIDE DEF len
    <3>2. len * WordBits = (len - 1) * WordBits + WordBits /\ (len - 1) * WordBits \in Int
      BY <3>1, Numbers
    <3> QED BY <1>1, <2>3, <3>1, <3>2, Numbers DEF len
  <2> QED BY <1>1, <2>1, <2>2, <2>4, <2>5, <2>6, <2>7, TakeTypes
<1> QED BY <1>4, <1>5

\* One turn of the first loop: what becomes of the parents.
LEMMA BackStep ==
  ASSUME Types, Spent, Back
  PROVE  /\ Types' /\ Spent' /\ Table' = Table /\ count' = count /\ pc = "back"
         /\ k' = node[j].parent
         /\ \A m \in Table : node'[m].parent = IF m = j THEN i ELSE node[m].parent
         /\ \/ k' >= 0 /\ i' = j /\ j' = k' /\ pc' = "back"
            \/ k' < 0 /\ i' = i /\ j' = j /\ pc' = "forward"
<1> DEFINE n == [node EXCEPT ![j].parent = i]
           l == [n EXCEPT ![fix].symbol = n[j].symbol]
<1>1. /\ pc = "back" /\ k' = node[j].parent /\ count' = count /\ Table' = Table
      /\ src' = src /\ bitpos' = bitpos /\ bits' = bits /\ fix' = fix /\ c' = c
      /\ \/ k' >= 0 /\ i' = j /\ j' = k' /\ pc' = "back" /\ node' = n
         \/ ~(k' >= 0) /\ i' = i /\ j' = j /\ pc' = "forward"
            /\ node' = IF fix >= 0 THEN l ELSE n
  BY DEF Back, Table
<1>2. /\ count \in Nat /\ Table = 0 .. count - 1 /\ j \in Table /\ i \in -1 .. count - 1
      /\ node \in [Table -> Nodes(count)] /\ fix \in -1 .. count - 1
      /\ Symbols \in Nat
  BY Numbers DEF Types, Table
<1>3. node[j].parent \in -1 .. count - 1 /\ node[j].symbol \in -1 .. Symbols
  BY <1>2 DEF Nodes
<1>4. /\ n \in [Table -> Nodes(count)]
      /\ \A m \in Table : n[m].parent = IF m = j THEN i ELSE node[m].parent
  BY <1>2 DEF Nodes
<1> HIDE DEF n
<1>5. fix >= 0 => /\ l \in [Table -> Nodes(count)]
                  /\ \A m \in Table : l[m].parent = n[m].parent
  <2>1. fix >= 0 => fix \in Table
    BY <1>2
  <2>2. n[j] \in Nodes(count)
    BY <1>2, <1>4
  <2>3. n[j].symbol \in -1 .. Symbols
    BY <2>2 DEF Nodes
  <2> QED BY <1>4, <2>1, <2>3 DEF Nodes
<1> HIDE DEF l
<1>6. node' \in [Table -> Nodes(count)]
      /\ \A m \in Table : node'[m].parent = IF m = j THEN i ELSE node[m].parent
  BY <1>1, <1>4, <1>5
<1>7. k' \in -1 .. count - 1 /\ i' \in -1 .. count - 1 /\ j' \in Table
  BY <1>1, <1>2, <1>3
<1>8. Types'
  BY <1>1, <1>6, <1>7 DEF Types, Walking
<1>9. Spent'
  BY <1>1 DEF Spent, Walking
<1>10. ~(k' >= 0) => k' < 0
  BY <1>7
<1> QED BY <1>1, <1>6, <1>8, <1>9, <1>10

\* One turn of the second loop.
LEMMA ForwardStep ==
  ASSUME Types, Spent, Forward
  PROVE  /\ Types' /\ Spent' /\ pc = "forward" /\ i' = node[j].parent /\ c' = c
         /\ \A m \in Table : node'[m].parent = IF m = j THEN k ELSE node[m].parent
         /\ \/ i' >= 0 /\ k' = j /\ j' = i' /\ pc' = "forward" /\ count' = count /\ Table' = Table
            \/ /\ i' < 0 /\ j' = j /\ pc' = "fetch" /\ count' = count + 1
               /\ Table' = Table \cup {count} /\ node'[count].parent = c /\ c < count
<1> DEFINE n == [node EXCEPT ![j].parent = k]
           new == [symbol |-> Junk, parent |-> c]
           l == [m \in 0 .. count |-> IF m < count THEN n[m] ELSE new]
<1>1. /\ pc = "forward" /\ i' = node[j].parent /\ src' = src /\ bitpos' = bitpos /\ c' = c
      /\ \/ i' >= 0 /\ node' = n /\ k' = j /\ j' = i' /\ pc' = "forward"
            /\ fix' = fix /\ count' = count /\ bits' = bits
         \/ ~(i' >= 0) /\ node' = l /\ k' = k /\ j' = j /\ pc' = "fetch"
            /\ fix' = count /\ count' = count + 1
            /\ bits' = IF count + 1 > 2^bits THEN bits + 1 ELSE bits
  BY DEF Forward, Wider
<1>2. /\ count \in Nat /\ Table = 0 .. count - 1 /\ j \in Table /\ k \in -1 .. count - 1
      /\ node \in [Table -> Nodes(count)] /\ fix \in -1 .. count - 1
      /\ Symbols \in Nat /\ c \in Nat /\ c < count /\ count >= Symbols + 1
  BY <1>1, Numbers DEF Types, Table, Walking
<1>3. node[j].parent \in -1 .. count - 1
  BY <1>2 DEF Nodes
<1>4. /\ n \in [Table -> Nodes(count)]
      /\ \A m \in Table : n[m].parent = IF m = j THEN k ELSE node[m].parent
  BY <1>2 DEF Nodes
<1> HIDE DEF n
<1>5. CASE /\ i' >= 0 /\ node' = n /\ k' = j /\ j' = i' /\ pc' = "forward"
           /\ fix' = fix /\ count' = count /\ bits' = bits
  <2>1. k' \in -1 .. count - 1 /\ i' \in -1 .. count - 1 /\ j' \in Table /\ Table' = Table
    BY <1>1, <1>2, <1>3, <1>5 DEF Table
  <2>2. Types'
    BY <1>1, <1>2, <1>4, <1>5, <2>1 DEF Types, Walking
  <2>3. Spent'
    BY <1>1, <1>5 DEF Spent, Walking
  <2> QED BY <1>1, <1>4, <1>5, <2>1, <2>2, <2>3
<1>6. CASE /\ ~(i' >= 0) /\ node' = l /\ k' = k /\ j' = j /\ pc' = "fetch"
           /\ fix' = count /\ count' = count + 1
           /\ bits' = IF count + 1 > 2^bits THEN bits + 1 ELSE bits
  <2>1. Table' = 0 .. count /\ Table' = Table \cup {count}
    BY <1>2, <1>6 DEF Table
  <2>2. \A m \in Table : m \in 0 .. count /\ m < count /\ m # count
    BY <1>2
  <2>3. \A m \in Table : node'[m] = n[m]
    BY <1>6, <2>2
  <2>4. node'[count] = new /\ count \in 0 .. count
    BY <1>2, <1>6
  <2>5. Nodes(count) \subseteq Nodes(count + 1) /\ new \in Nodes(count + 1)
    BY <1>2 DEF Nodes, Junk
  <2> HIDE DEF new
  <2>6. node' \in [Table' -> Nodes(count')]
    <3>1. ASSUME NEW m \in 0 .. count PROVE (IF m < count THEN n[m] ELSE new) \in Nodes(count + 1)
      <4>1. m < count => m \in Table
        BY <1>2
      <4> QED BY <1>4, <2>5, <4>1
    <3> QED BY <1>6, <2>1, <3>1
  <2>7. bits' \in FirstBits .. WordBits
    <3> DEFINE D == count - Symbols
               E == 2^WordBits - Symbols - 1
               s == (Len(src) - 1) * WordBits
               t == MaxWords * WordBits
    <3>1. bits \in FirstBits .. WordBits /\ bitpos \in 0 .. WordBits - 1 /\ Len(src) \in 1 .. MaxWords
      BY DEF Types
    <3>2. FirstBits * D <= s + bitpos /\ D \in Nat
      <4>1. (count - (Symbols + 1)) + 1 = D
        BY <1>2
      <4> QED BY <1>1, <1>2, <4>1 DEF Spent, Walking
    <3>3. s + WordBits <= t /\ s \in Int
      <4> DEFINE x == Len(src)
                 y == MaxWords - x
      <4>1. x \in Nat /\ y \in Nat /\ MaxWords = (x - 1) + 1 + y /\ x - 1 \in Nat
        BY <3>1, Numbers
      <4> HIDE DEF x, y
      <4>2. t = (x - 1) * WordBits + WordBits + y * WordBits /\ y * WordBits \in Nat
            /\ (x - 1) * WordBits \in Nat
        BY <4>1, Numbers
      <4> QED BY <4>1, <4>2, Numbers DEF x
    <3>4. t <= FirstBits * E /\ E \in Int /\ t \in Int
      BY Numbers
    <3> HIDE DEF D, E, s, t
    <3>5. FirstBits * D <= FirstBits * E
      BY <3>1, <3>2, <3>3, <3>4, Numbers
    <3>6. D <= E
      BY <3>2, <3>4, <3>5, Numbers
    <3>7. ~(count + 1 > 2^WordBits)
      BY <1>2, <3>6, Numbers DEF D, E
    <3>8. CASE bits = WordBits
      BY <1>6, <3>1, <3>7, <3>8
    <3>9. CASE bits # WordBits
      BY <1>6, <3>1, <3>9, Numbers
    <3> QED BY <3>8, <3>9
  <2>8. /\ fix' \in -1 .. count' - 1 /\ k' \in -1 .. count' - 1 /\ i' \in -1 .. count' - 1
        /\ j' \in Table' /\ count' \in Nat /\ count' >= Symbols + 1
    BY <1>1, <1>2, <1>3, <1>6, <2>1
  <2>9. Types'
    BY <1>1, <1>2, <1>6, <2>6, <2>7, <2>8 DEF Types, Walking
  <2>10. Spent'
    <3>1. (count' - (Symbols + 1)) + 0 = (count - (Symbols + 1)) + 1
      BY <1>2, <1>6
    <3> QED BY <1>1, <1>6, <3>1 DEF Spent, Walking
  <2>11. i' < 0 /\ node'[count].parent = c
    BY <1>1, <1>3, <1>6, <2>4 DEF new
  <2> QED BY <1>1, <1>2, <1>4, <1>6, <2>1, <2>3, <2>9, <2>10, <2>11
<1> QED BY <1>1, <1>5, <1>6

-----------------------------------------------------------------------------
(* The pointers.                                                           *)

\* The start of a walk, and its end without one, reverse nothing.
LEMMA FetchChain ==
  ASSUME Types, NEW f, NEW R, Chain(f, R), FetchWithin \/ FetchAcross
  PROVE  Chain(f, R)' /\ pc' # "fetch"
<1>1. PICK code : Take(code) /\ pc = "fetch"
  BY Zenon DEF FetchWithin, FetchAcross
<1>2. /\ count' = count /\ node' = node /\ Table' = Table
      /\ \/ pc' = "done"
         \/ pc' = "back" /\ i' = -1 /\ j' = code
  BY <1>1 DEF Take, Table
<1>3. R = {}
  BY <1>1 DEF Chain
<1>4. ~(-1 >= 0)
  OBVIOUS
<1> QED BY <1>2, <1>3, <1>4 DEF Chain

LEMMA BackChain ==
  ASSUME Types, Spent, NEW f, NEW R, Chain(f, R), Back
  PROVE  \E S : Chain(f, S)'
<1>0. PICK S : S = R \cup {j}
  OBVIOUS
<1>1. /\ Table' = Table /\ count' = count /\ pc = "back" /\ k' = node[j].parent
      /\ \A m \in Table : node'[m].parent = IF m = j THEN i ELSE node[m].parent
      /\ \/ k' >= 0 /\ i' = j /\ j' = k' /\ pc' = "back"
         \/ k' < 0 /\ i' = i /\ j' = j /\ pc' = "forward"
  BY BackStep
<1>2. /\ count \in Nat /\ Table = 0 .. count - 1 /\ j \in Table /\ i \in -1 .. count - 1
  BY DEF Types, Table
<1>3. /\ f \in [Table -> -1 .. count - 1] /\ \A m \in Table : f[m] < m
      /\ R \subseteq Table
      /\ \A m \in Table \ R : node[m].parent = f[m]
      /\ \A m \in R : node[m].parent = -1 \/ (node[m].parent \in R /\ f[node[m].parent] = m)
      /\ \A m \in R : j < m
      /\ IF i >= 0 THEN i \in R /\ f[i] = j ELSE R = {}
      /\ \A m \in R \ {i} : f[m] \in R /\ node[f[m]].parent = m
  BY <1>1 DEF Chain
<1>4. j \notin R /\ k' = f[j] /\ f[j] < j
  <2>1. ~(j < j)
    BY <1>2
  <2> QED BY <1>1, <1>2, <1>3, <2>1
<1>5. \A m \in Table \ S : node'[m].parent = f[m]
  BY <1>0, <1>1, <1>3
<1>6. ASSUME NEW m \in S
      PROVE  node'[m].parent = -1 \/ (node'[m].parent \in S /\ f[node'[m].parent] = m)
  <2>1. CASE m = j
    <3>1. node'[m].parent = i
      BY <1>1, <1>2, <2>1
    <3>2. CASE i >= 0
      BY <1>0, <1>3, <2>1, <3>1, <3>2
    <3>3. CASE ~(i >= 0)
      <4>1. i = -1
        BY <1>2, <3>3
      <4> QED BY <3>1, <4>1
    <3> QED BY <3>2, <3>3
  <2>2. CASE m # j
    <3>1. m \in R /\ m \in Table /\ node'[m].parent = node[m].parent
      BY <1>0, <1>1, <1>3, <2>2
    <3> QED BY <1>0, <1>3, <3>1
  <2> QED BY <2>1, <2>2
<1>7. ASSUME NEW m \in S \ {j} PROVE f[m] \in S /\ node'[f[m]].parent = m
  <2>1. m \in R
    BY <1>0
  <2>2. CASE m = i
    <3>1. i >= 0
      BY <1>3, <2>1
    <3>2. f[m] = j
      BY <1>3, <2>2, <3>1
    <3> QED BY <1>0, <1>1, <1>2, <2>2, <3>2
  <2>3. CASE m # i
    <3>1. f[m] \in R /\ node[f[m]].parent = m
      BY <1>3, <2>1, <2>3
    <3>2. f[m] \in Table /\ f[m] # j
      BY <1>3, <1>4, <3>1
    <3> QED BY <1>0, <1>1, <3>1, <3>2
  <2> QED BY <2>2, <2>3
<1>8. S \subseteq Table
  BY <1>0, <1>2, <1>3
<1>9. CASE k' >= 0 /\ i' = j /\ j' = k' /\ pc' = "back"
  <2>1. \A m \in S : j' < m
    <3> SUFFICES ASSUME NEW m \in S PROVE f[j] < m
      BY <1>4, <1>9
    <3>1. m \in Nat /\ j \in Nat /\ f[j] \in Int
      BY <1>2, <1>3, <1>8
    <3>2. j < m \/ m = j
      BY <1>0, <1>3
    <3> QED BY <1>4, <3>1, <3>2
  <2>2. i' >= 0 /\ i' \in S /\ f[i'] = j'
    BY <1>0, <1>2, <1>4, <1>9
  <2>3. \A m \in S \ {i'} : f[m] \in S /\ node'[f[m]].parent = m
    BY <1>7, <1>9
  <2>4. Chain(f, S)'
    <3> QED BY <1>1, <1>3, <1>5, <1>6, <1>8, <1>9, <2>1, <2>2, <2>3 DEF Chain
  <2> QED BY <2>4
<1>10. CASE k' < 0 /\ i' = i /\ j' = j /\ pc' = "forward"
  <2>0. k' \notin S
    <3>1. \A m \in Table : ~(m < 0)
      BY <1>2
    <3> QED BY <1>8, <1>10, <3>1
  <2>1. /\ j' \in S /\ k' = f[j'] /\ k' \notin S
        /\ \A m \in S \ {j'} : f[m] \in S /\ node'[f[m]].parent = m
    BY <1>0, <1>4, <1>7, <1>10, <2>0
  <2>2. Chain(f, S)'
    <3> QED BY <1>1, <1>3, <1>5, <1>6, <1>8, <1>10, <2>1 DEF Chain
  <2> QED BY <2>2
<1> QED BY <1>1, <1>9, <1>10

\* The second loop turns one pointer back.  When it meets the end of the chain
\* nothing is left: the smallest other node would have a reversed parent.
LEMMA ForwardChain ==
  ASSUME Types, Spent, NEW f, NEW R, Chain(f, R), Forward
  PROVE  \/ pc' = "forward" /\ \E S : Chain(f, S)'
         \/ /\ pc' = "fetch"
            /\ \E g : /\ g = [m \in 0 .. count |-> IF m < count THEN f[m] ELSE c]
                      /\ Chain(g, {})'
<1>1. /\ pc = "forward" /\ i' = node[j].parent /\ c' = c
      /\ \A m \in Table : node'[m].parent = IF m = j THEN k ELSE node[m].parent
      /\ \/ i' >= 0 /\ k' = j /\ j' = i' /\ pc' = "forward" /\ count' = count /\ Table' = Table
         \/ /\ i' < 0 /\ j' = j /\ pc' = "fetch" /\ count' = count + 1
            /\ Table' = Table \cup {count} /\ node'[count].parent = c /\ c < count
  BY ForwardStep
<1>2. /\ count \in Nat /\ Table = 0 .. count - 1 /\ j \in Table /\ c \in Nat
  BY DEF Types, Table
<1>3. /\ f \in [Table -> -1 .. count - 1] /\ \A m \in Table : f[m] < m
      /\ R \subseteq Table
      /\ \A m \in Table \ R : node[m].parent = f[m]
      /\ \A m \in R : node[m].parent = -1 \/ (node[m].parent \in R /\ f[node[m].parent] = m)
      /\ j \in R /\ k = f[j] /\ k \notin R
      /\ \A m \in R \ {j} : f[m] \in R /\ node[f[m]].parent = m
  BY <1>1 DEF Chain
<1>4. PICK S : S = R \ {j}
  OBVIOUS
<1>5. \A m \in Table \ S : node'[m].parent = f[m]
  BY <1>1, <1>3, <1>4
<1>6. CASE i' >= 0 /\ k' = j /\ j' = i' /\ pc' = "forward" /\ count' = count /\ Table' = Table
  <2>1. i' # -1
    BY <1>6
  <2>2. i' \in R /\ f[i'] = j
    BY <1>1, <1>3, <2>1
  <2>3. i' # j
    <3>1. \A m \in Table : f[m] # m
      BY <1>2, <1>3
    <3> QED BY <1>2, <2>2, <3>1
  <2>4. S \subseteq Table /\ j' \in S /\ k' = f[j'] /\ k' \notin S
    BY <1>3, <1>4, <1>6, <2>2, <2>3
  <2>5. ASSUME NEW m \in S
        PROVE  node'[m].parent = -1 \/ (node'[m].parent \in S /\ f[node'[m].parent] = m)
    <3>1. m \in R /\ m # j /\ m \in Table
      BY <1>3, <1>4
    <3>2. node'[m].parent = node[m].parent
      BY <1>1, <3>1
    <3>3. ASSUME node[m].parent \in R, f[node[m].parent] = m PROVE node[m].parent # j
      BY <1>3, <3>1, <3>3
    <3> QED BY <1>3, <1>4, <3>1, <3>2, <3>3
  <2>6. ASSUME NEW m \in S \ {j'} PROVE f[m] \in S /\ node'[f[m]].parent = m
    <3>1. m \in R \ {j} /\ m # i'
      BY <1>4, <1>6
    <3>2. f[m] \in R /\ node[f[m]].parent = m
      BY <1>3, <3>1
    <3>3. f[m] # j
      BY <1>1, <3>1, <3>2
    <3>4. f[m] \in Table
      BY <1>3, <3>2
    <3> QED BY <1>1, <1>4, <3>2, <3>3, <3>4
  <2>7. Chain(f, S)'
    BY <1>3, <1>5, <1>6, <2>4, <2>5, <2>6 DEF Chain
  <2> QED BY <1>6, <2>7
<1>7. CASE /\ i' < 0 /\ j' = j /\ pc' = "fetch" /\ count' = count + 1
           /\ Table' = Table \cup {count} /\ node'[count].parent = c /\ c < count
  <2>1. node[j].parent = -1
    <3>1. \A m \in R : ~(m < 0)
      BY <1>2, <1>3
    <3> QED BY <1>1, <1>3, <1>7, <3>1
  <2>2. S = {}
    <3> SUFFICES ASSUME S # {} PROVE FALSE
      OBVIOUS
    <3>1. S \in SUBSET Nat
      BY <1>2, <1>3, <1>4
    <3>2. PICK x \in S : \A y \in S : x <= y
      BY <3>1, Least
    <3>3. x \in R \ {j} /\ x \in Table
      BY <1>3, <1>4, <3>2
    <3>4. f[x] \in R /\ node[f[x]].parent = x /\ f[x] < x
      BY <1>3, <3>3
    <3>5. f[x] # j
      BY <1>2, <2>1, <3>3, <3>4
    <3>6. f[x] \in S /\ x \in Nat /\ f[x] \in Nat
      BY <1>4, <3>1, <3>4, <3>5
    <3> QED BY <3>2, <3>4, <3>6
  <2>3. PICK g : g = [m \in 0 .. count |-> IF m < count THEN f[m] ELSE c]
    OBVIOUS
  <2>4. Table' = 0 .. count /\ count' - 1 = count
    BY <1>2, <1>7
  <2>5. \A m \in Table : m \in 0 .. count /\ m < count
    BY <1>2
  <2>6. \A m \in 0 .. count : m \in Table \/ m = count
    BY <1>2
  <2>7. ASSUME NEW m \in 0 .. count
        PROVE  g[m] \in -1 .. count /\ g[m] < m /\ node'[m].parent = g[m]
    <3>1. CASE m \in Table
      <4>1. g[m] = f[m] /\ f[m] \in -1 .. count - 1 /\ f[m] < m
        BY <1>3, <2>3, <2>5, <3>1
      <4>2. node'[m].parent = f[m]
        BY <1>5, <2>2, <3>1
      <4> QED BY <1>2, <4>1, <4>2
    <3>2. CASE m = count
      <4>1. g[m] = c
        BY <1>2, <2>3, <3>2
      <4> QED BY <1>2, <1>7, <3>2, <4>1
    <3> QED BY <2>6, <3>1, <3>2
  <2>8. g \in [Table' -> -1 .. count' - 1]
    <3>1. g = [m \in 0 .. count |-> g[m]]
      BY <2>3
    <3> QED BY <2>4, <2>7, <3>1
  <2>9. Chain(g, {})'
    BY <1>7, <2>4, <2>7, <2>8 DEF Chain
  <2> QED BY <1>1, <1>7, <2>3, <2>9
<1> QED BY <1>1, <1>6, <1>7

LEMMA SameChain ==
  ASSUME NEW f, NEW R, Chain(f, R), UNCHANGED vars
  PROVE  Chain(f, R)'
BY DEF vars, Chain, Table

\* A step keeps the tree of parents, or adds a node to it.
LEMMA TreeNext ==
  ASSUME Types, Spent, NEW f, Tree(f), [Next]_vars
  PROVE  Types' /\ Spent' /\ \E g : g = Grown(f) /\ Tree(g)'
<1>1. PICK R : Chain(f, R)
  BY DEF Tree
<1>2. CASE FetchWithin \/ FetchAcross
  <2>1. Chain(f, R)' /\ pc' # "fetch"
    BY <1>1, <1>2, FetchChain
  <2>2. Grown(f) = f
    BY <2>1 DEF Grown
  <2> QED BY <1>2, <2>1, <2>2, FetchTypes DEF Tree
<1>3. CASE Back
  <2>1. PICK S : Chain(f, S)'
    BY <1>1, <1>3, BackChain
  <2>2. Types' /\ Spent' /\ Grown(f) = f
    BY <1>3, BackStep DEF Grown
  <2> QED BY <2>1, <2>2 DEF Tree
<1>4. CASE Forward
  <2>1. Types' /\ Spent' /\ pc = "forward"
    BY <1>4, ForwardStep
  <2>2. CASE pc' = "forward" /\ \E S : Chain(f, S)'
    <3>1. Grown(f) = f
      BY <2>2 DEF Grown
    <3> QED BY <2>1, <2>2, <3>1 DEF Tree
  <2>3. ASSUME pc' = "fetch", NEW g, g = [m \in 0 .. count |-> IF m < count THEN f[m] ELSE c],
               Chain(g, {})'
        PROVE  g = Grown(f) /\ Tree(g)'
    <3>1. Grown(f) = [m \in 0 .. count |-> IF m < count THEN f[m] ELSE c]
      BY <2>1, <2>3 DEF Grown
    <3> QED BY <2>3, <3>1, Zenon DEF Tree
  <2> QED BY <1>1, <1>4, <2>1, <2>2, <2>3, ForwardChain
<1>5. CASE UNCHANGED vars
  <2>1. Types' /\ Spent'
    BY <1>5 DEF vars, Types, Spent, Table, Walking
  <2>2. Chain(f, R)'
    BY <1>1, <1>5, SameChain
  <2>3. Grown(f) = f
    BY <1>5 DEF vars, Grown
  <2> QED BY <2>1, <2>2, <2>3 DEF Tree
<1> QED BY <1>2, <1>3, <1>4, <1>5 DEF Next, Stop

LEMMA Invariance ==
  Spec => []Inv
<1>1. Init => Inv
  BY FirstState DEF Inv, Tree
<1>2. ASSUME Inv, [Next]_vars PROVE Inv'
  BY <1>2, TreeNext DEF Inv
<1> QED BY <1>1, <1>2, PTL DEF Spec

-----------------------------------------------------------------------------
(* What follows.                                                           *)

(* Between two codes every node of lzw_decode points to an earlier one     *)
(* again; the first loop only goes to smaller nodes and the second only to *)
(* larger ones, within the table, so neither can run on; and no code is    *)
(* wider than a word.                                                      *)
THEOREM LoopsSafe ==
  Spec => []ChainsRestored
<1>1. ASSUME Inv PROVE ChainsRestored
  <2>1. PICK f, R : Chain(f, R)
    BY <1>1 DEF Inv, Tree
  <2>2. /\ count \in Nat /\ Table = 0 .. count - 1 /\ j \in Table
        /\ node \in [Table -> Nodes(count)]
    BY <1>1 DEF Inv, Types, Table
  <2>3. TypeOK
    <3>1. ASSUME NEW m \in 0 .. count - 1
          PROVE  node[m].symbol \in -1 .. Symbols /\ node[m].parent \in -1 .. count - 1
      BY <2>2 DEF Nodes
    <3>2. DOMAIN node = 0 .. count - 1
      BY <2>2
    <3> QED BY <1>1, <3>1, <3>2 DEF Inv, Types, TypeOK, Table
  <2>4. pc = "fetch" => \A m \in 0 .. count - 1 : node[m].parent < m
    BY <2>1, <2>2 DEF Chain
  <2>5. pc = "back" => node[j].parent < j /\ (i >= 0 => j < i)
    <3> SUFFICES ASSUME pc = "back" PROVE node[j].parent < j /\ (i >= 0 => j < i)
      OBVIOUS
    <3>1. (\A m \in R : j < m) /\ (i >= 0 => i \in R)
      BY <2>1 DEF Chain
    <3>2. ~(j < j)
      BY <2>2
    <3>3. node[j].parent = f[j] /\ f[j] < j
      BY <2>1, <2>2, <3>1, <3>2 DEF Chain
    <3> QED BY <3>1, <3>3
  <2>6. pc = "forward" => k < j /\ (node[j].parent >= 0 => j < node[j].parent)
    <3> SUFFICES ASSUME pc = "forward"
        PROVE  k < j /\ (node[j].parent >= 0 => j < node[j].parent)
      OBVIOUS
    <3>1. k = f[j] /\ f[j] < j
      BY <2>1, <2>2 DEF Chain
    <3> DEFINE p == node[j].parent
    <3>2. p = -1 \/ (p \in Table /\ f[p] = j)
      BY <2>1 DEF Chain
    <3>3. p \in Table => f[p] < p
      BY <2>1 DEF Chain
    <3>4. ~(-1 >= 0)
      OBVIOUS
    <3> HIDE DEF p
    <3>5. p >= 0 => j < p
      BY <3>2, <3>3, <3>4
    <3> QED BY <3>1, <3>5 DEF p
  <2> QED BY <2>3, <2>4, <2>5, <2>6 DEF ChainsRestored
<1> QED BY <1>1, Invariance, PTL

\* A history variable: the tree of parents as the nodes were added.  It has no
\* part in the steps of the decoder.
VARIABLE tree
TreeInit == Init /\ tree = [m \in 0 .. Symbols |-> -1]
TreeStep == [Next]_vars /\ tree' = Grown(tree)
TreeSpec == TreeInit /\ [][TreeStep]_<<vars, tree>>

(* The reversed pointers are turned back exactly: whenever lzw_decode      *)
(* fetches a code, or is done, every node has the parent it was given when *)
(* it was added, after any number of walks over shared chains.             *)
THEOREM PointersTurnedBack ==
  TreeSpec => [](pc \in {"fetch", "done"} => \A m \in 0 .. count - 1 : node[m].parent = tree[m])
<1> DEFINE J == Types /\ Spent /\ Tree(tree)
<1>1. TreeInit => J
  BY FirstState DEF TreeInit, Tree
<1>2. ASSUME J, [TreeStep]_<<vars, tree>> PROVE J'
  <2>1. CASE TreeStep
    <3>1. PICK g : g = Grown(tree) /\ Tree(g)'
      BY <1>2, <2>1, TreeNext DEF TreeStep
    <3>2. tree' = g
      BY <2>1, <3>1 DEF TreeStep
    <3>3. Types' /\ Spent'
      BY <1>2, <2>1, TreeNext DEF TreeStep
    <3> QED BY <3>1, <3>2, <3>3 DEF Tree, Chain
  <2>2. CASE UNCHANGED <<vars, tree>>
    <3>1. PICK R : Chain(tree, R)
      BY <1>2 DEF Tree
    <3>2. Chain(tree, R)'
      BY <2>2, <3>1 DEF vars, Chain, Table
    <3>3. Types' /\ Spent'
      BY <1>2, <2>2 DEF vars, Types, Spent, Table, Walking
    <3> QED BY <3>2, <3>3 DEF Tree
  <2> QED BY <1>2, <2>1, <2>2
<1>3. J => (pc \in {"fetch", "done"} => \A m \in 0 .. count - 1 : node[m].parent = tree[m])
  BY DEF Tree, Chain, Table
<1> QED BY <1>1, <1>2, <1>3, PTL DEF TreeSpec

=============================================================================
