---------------------------- MODULE LzwReference ----------------------------
(***************************************************************************)
(* What the codes that Lzw decodes mean, without a dictionary of nodes.    *)
(* The source is a stream of bits, the lowest of a word first.  The n-th   *)
(* code has the least width that holds every code that may stand there.    *)
(* Entry Symbols + q is the string of the q-th code and the first symbol   *)
(* of the string of the next.                                              *)
(***************************************************************************)
EXTENDS Lzw

Bit(p) == (src[(p \div WordBits) + 1] \div 2^(p % WordBits)) % 2

RECURSIVE Value(_, _)
Value(p, w) == IF w = 0 THEN 0 ELSE Bit(p) + 2 * Value(p + 1, w - 1)

RefWidth(n) == CHOOSE w \in FirstBits .. WordBits + 1 :
                 /\ Symbols + n <= 2^w
                 /\ \A v \in FirstBits .. w - 1 : Symbols + n > 2^v

RECURSIVE RefStart(_)
RefStart(n) == IF n = 1 THEN 0 ELSE RefStart(n - 1) + RefWidth(n - 1)
RefCode(n) == Value(RefStart(n), RefWidth(n))

RECURSIVE RefFirst(_)
RefFirst(m) == IF m < Symbols THEN m ELSE RefFirst(RefCode(m - Symbols))

RECURSIVE RefString(_)
RefString(m) == IF m < Symbols THEN <<m>>
                ELSE Append(RefString(RefCode(m - Symbols)), RefFirst(RefCode(m - Symbols + 1)))

RefOut(n) == FlattenSeq([r \in 1 .. n |-> RefString(RefCode(r))])

-----------------------------------------------------------------------------
\* Codes decoded so far.
Decoded == count - (Symbols + 1)

RECURSIVE Spell(_)
Spell(m) == IF node[m].parent < 0 THEN <<node[m].symbol>>
            ELSE Append(Spell(node[m].parent), node[m].symbol)

(* What the decoder has written after each code is what the codes of the   *)
(* bit stream mean: the width changes at the right code, codes that cross  *)
(* a word are put together, and the code of the entry that is not finished *)
(* yet gives its first symbol twice.  It returns at the end mark and only  *)
(* there, or refuses a code that stands for nothing.  Between two codes    *)
(* the chain of each node spells its entry, the unset last symbol aside.   *)
DecodesReference ==
  /\ pc = "fetch" => \A r \in 1 .. Decoded : RefCode(r) # EndMark /\ RefCode(r) < Symbols + r
  /\ pc \in {"fetch", "done"} => out = RefOut(Decoded)
  /\ pc = "done" => LET next == RefCode(Decoded + 1) IN
                      \/ next = EndMark /\ ret = Len(out)
                      \/ next > Symbols + Decoded /\ ret = -1
  /\ pc = "fetch" => \A m \in (0 .. count - 2) \ {EndMark} : Spell(m) = RefString(m)
=============================================================================
