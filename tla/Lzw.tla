-------------------------------- MODULE Lzw --------------------------------
(***************************************************************************)
(* lzw_decode of hwinit (src/hwinit/lzw.c), which unpacks the boot logo.   *)
(* The dictionary is a forest of nodes that point to their parents.  The   *)
(* string of a code is read from the head by reversing the pointers of its *)
(* chain, and the pointers are turned back while the symbols are written.  *)
(* LzwReference defines the same code without nodes.                       *)
(*                                                                         *)
(* The source has 256 symbols, words of 32 bits and codes of at least 9    *)
(* bits; the model keeps these numbers as constants.                       *)
(***************************************************************************)
EXTENDS Integers, Sequences, SequencesExt

CONSTANTS Symbols,   \* 256
          WordBits,  \* 32
          FirstBits, \* 9
          MaxWords,  \* bound: words of the source the decoder may read
          MaxOut     \* bound: bytes it may write, more than these words can give

ASSUME LzwAssumption ==
  /\ Symbols \in Nat \ {0} /\ WordBits \in Nat /\ FirstBits \in Nat /\ MaxWords \in Nat \ {0}
  /\ MaxOut \in Nat
  /\ FirstBits <= WordBits
  /\ Symbols < 2^FirstBits /\ 2^(FirstBits - 1) <= Symbols
  /\ MaxWords * WordBits <= FirstBits * (2^WordBits - Symbols - 1)  \* what 32-bit pointers reach

EndMark == Symbols
Junk == -1           \* the symbol of a node nobody has written yet
Word == 0 .. 2^WordBits - 1

VARIABLES
  pc,      \* "fetch", "back" (first loop), "forward" (second loop), "done"
  src,     \* the words read so far; the pointer s is at the last one
  bitpos, bits, count, fix, c, i, j, k,
  node,    \* the nodes below count
  out,     \* what has been written to dst
  ret

vars == <<pc, src, bitpos, bits, count, fix, c, i, j, k, node, out, ret>>

Init ==
  /\ pc = "fetch"
  /\ src \in {<<w>> : w \in Word}
  /\ bitpos = 0 /\ bits = FirstBits /\ count = Symbols + 1 /\ fix = -1
  /\ c = 0 /\ i = 0 /\ j = 0 /\ k = 0
  /\ node = [n \in 0 .. Symbols |-> [symbol |-> n % Symbols, parent |-> -1]]
  /\ out = <<>> /\ ret = 0

-----------------------------------------------------------------------------
\* The code that starts in the word s and goes on in the word t.
Code(s, t, pos) ==
  LET low == s \div 2^pos
      end == pos + bits
  IN  (IF end >= WordBits THEN low + t * 2^(bits - (end - WordBits)) ELSE low) % 2^bits

\* The end of one turn of the loop, or the start of the walk along the chain.
Take(code) ==
  /\ c' = code
  /\ IF code >= count
     THEN pc' = "done" /\ ret' = -1 /\ UNCHANGED <<i, j>>
     ELSE IF code = EndMark
     THEN pc' = "done" /\ ret' = Len(out) /\ UNCHANGED <<i, j>>
     ELSE pc' = "back" /\ i' = -1 /\ j' = code /\ UNCHANGED ret
  /\ UNCHANGED <<bits, count, fix, k, node, out>>

\* The code lies within the word.
FetchWithin ==
  /\ pc = "fetch" /\ bitpos + bits < WordBits
  /\ bitpos' = bitpos + bits
  /\ Take(Code(Last(src), 0, bitpos))
  /\ UNCHANGED src

\* The code reaches the end of the word: the next one is read even if the
\* code ends exactly there.
FetchAcross ==
  /\ pc = "fetch" /\ bitpos + bits >= WordBits
  /\ Len(src) < MaxWords
  /\ \E w \in Word : Take(Code(Last(src), w, bitpos)) /\ src' = Append(src, w)
  /\ bitpos' = bitpos + bits - WordBits

\* One turn of the first loop; the last one fixes the node added before.
Back ==
  /\ pc = "back"
  /\ k' = node[j].parent
  /\ LET n == [node EXCEPT ![j].parent = i] IN
       IF k' >= 0
       THEN /\ node' = n /\ i' = j /\ j' = k' /\ UNCHANGED pc
       ELSE /\ node' = IF fix >= 0 THEN [n EXCEPT ![fix].symbol = n[j].symbol] ELSE n
            /\ pc' = "forward" /\ UNCHANGED <<i, j>>
  /\ UNCHANGED <<src, bitpos, bits, count, fix, c, out, ret>>

\* MUTANT: the width grows one code too early.
Wider_early(n) == IF n >= 2^bits THEN bits + 1 ELSE bits
\* The width of the codes when n nodes exist.
Wider(n) == IF n > 2^bits THEN bits + 1 ELSE bits

\* MUTANT: the pointers are not turned back.
Forward_reversed ==
  /\ pc = "forward" /\ Len(out) < MaxOut
  /\ out' = Append(out, node[j].symbol)
  /\ i' = node[j].parent
  /\ IF i' >= 0
     THEN /\ k' = j /\ j' = i'
          /\ UNCHANGED <<pc, fix, count, bits, node>>
     ELSE /\ fix' = count /\ count' = count + 1 /\ bits' = Wider(count + 1)
          /\ node' = [m \in 0 .. count |-> IF m < count THEN node[m]
                                           ELSE [symbol |-> Junk, parent |-> c]]
          /\ pc' = "fetch" /\ UNCHANGED <<j, k>>
  /\ UNCHANGED <<src, bitpos, c, ret>>
\* One turn of the second loop; the last one adds a node.
Forward ==
  /\ pc = "forward" /\ Len(out) < MaxOut
  /\ out' = Append(out, node[j].symbol)
  /\ i' = node[j].parent
  /\ LET n == [node EXCEPT ![j].parent = k] IN
       IF i' >= 0
       THEN /\ node' = n /\ k' = j /\ j' = i'
            /\ UNCHANGED <<pc, fix, count, bits>>
       ELSE /\ fix' = count /\ count' = count + 1 /\ bits' = Wider(count + 1)
            /\ node' = [m \in 0 .. count |-> IF m < count THEN n[m]
                                             ELSE [symbol |-> Junk, parent |-> c]]
            /\ pc' = "fetch" /\ UNCHANGED <<j, k>>
  /\ UNCHANGED <<src, bitpos, c, ret>>

\* The end, or one of the bounds.
Stop ==
  /\ \/ pc = "done"
     \/ pc = "fetch" /\ bitpos + bits >= WordBits /\ Len(src) = MaxWords
     \/ pc = "forward" /\ Len(out) = MaxOut
  /\ UNCHANGED vars

Next == FetchWithin \/ FetchAcross \/ Back \/ Forward \/ Stop

Spec == Init /\ [][Next]_vars

-----------------------------------------------------------------------------
(* The decoder's variables have their types, and a symbol of a node nobody *)
(* has fixed is only in the last node.                                     *)
TypeOK ==
  /\ pc \in {"fetch", "back", "forward", "done"}
  /\ src \in Seq(Word) /\ Len(src) \in 1 .. MaxWords
  /\ bitpos \in 0 .. WordBits - 1 /\ bits \in FirstBits .. WordBits
  /\ count >= Symbols + 1 /\ DOMAIN node = 0 .. count - 1
  /\ \A m \in 0 .. count - 1 : /\ node[m].symbol \in -1 .. Symbols
                               /\ node[m].parent \in -1 .. count - 1
  /\ c \in Nat /\ i \in -1 .. count - 1 /\ j \in 0 .. count - 1 /\ k \in -1 .. count - 1

(* Between two codes the reversed pointers are all turned back: every node *)
(* points to an earlier one.  On the way the first loop goes to ever       *)
(* smaller nodes and the second to ever larger ones, so both end without   *)
(* leaving the table; and no code is wider than a word.                    *)
ChainsRestored ==
  /\ TypeOK
  /\ pc = "fetch" => \A m \in 0 .. count - 1 : node[m].parent < m
  /\ pc = "back" => node[j].parent < j /\ (i >= 0 => j < i)
  /\ pc = "forward" => k < j /\ (node[j].parent >= 0 => j < node[j].parent)
=============================================================================
