-------------------------------- MODULE Imem --------------------------------
(***************************************************************************)
(* The IPU memory manager behind /proc/jz/imem (arch/mips/jz4740/proc.c).  *)
(* A program writes an order n to reserve 2^n pages, reads the file to     *)
(* learn the address it got and the largest order that is still free, and  *)
(* writes an address to free it.  The reserved ranges are kept in a list   *)
(* sorted by address; a request takes the first gap that is large enough.  *)
(*                                                                         *)
(* There is no lock.  The kernel is not preemptible, so a call runs in one *)
(* step except where it may sleep: imem_alloc calls kmalloc(GFP_KERNEL)    *)
(* between choosing a range and entering it into the list.  Addresses are  *)
(* counted in pages.                                                       *)
(***************************************************************************)
EXTENDS Integers, Sequences, FiniteSets

CONSTANTS Clients,   \* programs that use the file
          Base,      \* jz_imem_base
          MaxOrder,  \* IMEM_MAX_ORDER
          MaxLen,    \* bound: length of the list
          Word       \* unsigned int, in pages

ASSUME ImemAssumption == /\ Base \in Nat \ {0} /\ MaxOrder \in Nat
                         /\ MaxLen \in Nat
                         /\ Word \in Nat /\ Word > Base + 2^MaxOrder

VARIABLES
  list,      \* imem_list_head: records [start, end], end included
  reported,  \* allocated_phys_addr
  call,      \* the call each client is in: "none", "kmalloc", "wrote"
  choice     \* the range a client in kmalloc has chosen; whether the list
             \* has changed since

imemVars == <<list, reported, call, choice>>

End == Base + 2^MaxOrder
Orders == 0..MaxOrder

\* Arithmetic: the powers of two, each the double of the one before.
ASSUME PowersAssumption ==
  /\ \A n \in Orders : 2^n \in Nat /\ 2^n > n
  /\ \A n \in Orders \ {0} : 2^n = 2 * 2^(n - 1)

NoChoice == [start |-> 0, end |-> 0, stale |-> FALSE]

\* Unsigned subtraction.
Minus(a, b) == (a - b) % Word

ImemInit ==
  /\ list = << >> /\ reported = 0
  /\ call = [c \in Clients |-> "none"]
  /\ choice = [c \in Clients |-> NoChoice]

-----------------------------------------------------------------------------
(* imem_alloc *)

\* The gap before entry i, or behind the last one.
GapStart(l, i) == IF i = 1 THEN Base ELSE l[i - 1].end + 1

GapEnd(l, i) == IF i > Len(l) THEN End ELSE l[i].start

\* The subtraction is unsigned: ranges that overlap make a gap of any size.
Fits(l, i, size) == Minus(GapEnd(l, i), GapStart(l, i)) >= size

\* The first gap that is large enough, 0 if there is none.
FirstFit(l, size) ==
  LET fitting == {i \in 1..(Len(l) + 1) : Fits(l, i, size)}
  IN IF fitting = {} THEN 0
     ELSE GapStart(l, CHOOSE i \in fitting : \A j \in fitting : i <= j)

\* MUTANT: the entry goes behind the first one with a larger address.
Position_behind(l, start) ==
  Cardinality({i \in DOMAIN l : \A j \in 1..(i - 1) : l[j].start <= start})
\* The entries that stay in front of a new one.
Position(l, start) ==
  Cardinality({i \in DOMAIN l : \A j \in 1..i : l[j].start <= start})

Enter(l, start, end) ==
  LET n == Position(l, start)
  IN SubSeq(l, 1, n) \o <<[start |-> start, end |-> end]>>
                     \o SubSeq(l, n + 1, Len(l))

\* The choices of the clients but c, once c has changed the list.
Outdated(c) ==
  [d \in Clients |-> IF d # c /\ call[d] = "kmalloc"
                       THEN [choice[d] EXCEPT !.stale = TRUE] ELSE choice[d]]

\* The write up to kmalloc, or the whole of it when no range is found.
Alloc(c, order) ==
  LET start == FirstFit(list, 2^order) IN
  /\ call[c] = "none" /\ Len(list) < MaxLen
  /\ reported' = start
  /\ IF start = 0
       THEN /\ call' = [call EXCEPT ![c] = "wrote"]
            /\ UNCHANGED choice
       ELSE /\ call' = [call EXCEPT ![c] = "kmalloc"]
            /\ choice' = [choice EXCEPT ![c] =
                 [start |-> start, end |-> start + 2^order - 1, stale |-> FALSE]]
  /\ UNCHANGED list

Link(c) ==
  /\ call[c] = "kmalloc"
  /\ list' = Enter(list, choice[c].start, choice[c].end)
  /\ call' = [call EXCEPT ![c] = "wrote"]
  /\ choice' = [Outdated(c) EXCEPT ![c] = NoChoice]
  /\ UNCHANGED reported

\* -ENOMEM: the write still reports success.
KmallocFails(c) ==
  /\ call[c] = "kmalloc"
  /\ call' = [call EXCEPT ![c] = "wrote"]
  /\ choice' = [choice EXCEPT ![c] = NoChoice]
  /\ UNCHANGED <<list, reported>>

-----------------------------------------------------------------------------
(* imem_free, imem_free_all, imem_read_proc *)

Without(l, addr) ==
  IF \E i \in DOMAIN l : l[i].start = addr
    THEN LET i == CHOOSE i \in DOMAIN l :
                    /\ l[i].start = addr
                    /\ \A j \in 1..(i - 1) : l[j].start # addr
         IN SubSeq(l, 1, i - 1) \o SubSeq(l, i + 1, Len(l))
    ELSE l

\* A client frees a range it knows of; another address has no effect.
FreeRange(c) ==
  /\ call[c] = "none"
  /\ \E i \in DOMAIN list : list' = Without(list, list[i].start)
  /\ choice' = Outdated(c)
  /\ UNCHANGED <<reported, call>>

FreeAll(c) ==
  /\ call[c] = "none"
  /\ list' = << >> /\ reported' = 0
  /\ choice' = Outdated(c)
  /\ UNCHANGED call

\* The client reads the address after its write.
Read(c) ==
  /\ call[c] = "wrote"
  /\ call' = [call EXCEPT ![c] = "none"]
  /\ UNCHANGED <<list, reported, choice>>

\* The largest gap; the empty list has one gap.
MaxSize(l) ==
  LET gaps == {Minus(GapEnd(l, i), GapStart(l, i)) : i \in 1..(Len(l) + 1)}
  IN CHOOSE m \in gaps : \A g \in gaps : g <= m

get_order(size) == CHOOSE k \in 0..size : /\ 2^k >= size
                                          /\ \A j \in 0..(k - 1) : 2^j < size

\* MUTANT: the order is not corrected for a gap that is no power of two.
MaxFree_rounded(l) == IF MaxSize(l) = 0 THEN -1 ELSE get_order(MaxSize(l))
\* The second word that is read: the largest order that is free, -1 for none.
MaxFree(l) ==
  LET k == get_order(MaxSize(l))
  IN IF MaxSize(l) = 0 THEN -1
     ELSE IF 2^k > MaxSize(l) THEN k - 1 ELSE k

ImemNext == \E c \in Clients :
  \/ \E order \in Orders : Alloc(c, order)
  \/ Link(c) \/ KmallocFails(c) \/ FreeRange(c) \/ FreeAll(c) \/ Read(c)

ImemSpec == ImemInit /\ [][ImemNext]_imemVars

-----------------------------------------------------------------------------
Pages == Nat
Ranges == [start : Pages, end : Pages]

\* Every variable has its type.
ImemTypeOK ==
  /\ list \in Seq(Ranges) /\ reported \in Pages
  /\ call \in [Clients -> {"none", "kmalloc", "wrote"}]
  /\ choice \in [Clients -> [start : Pages, end : Pages, stale : BOOLEAN]]

\* The ranges lie inside the reserved memory, in order and apart.
WellFormed(l) ==
  /\ \A i \in DOMAIN l : /\ Base <= l[i].start /\ l[i].start <= l[i].end
                         /\ l[i].end < End
  /\ \A i, j \in DOMAIN l : i < j => l[i].end < l[j].start

\* The list stays sorted, disjoint and inside the 4 MB in every step but
\* one: the end of an allocation that slept in kmalloc while the list it had
\* searched was changed (imem_alloc, imem_free).
OverlapOnlyIfRaced ==
  [][WellFormed(list) =>
       \/ WellFormed(list')
       \/ \E c \in Clients : Link(c) /\ choice[c].stale]_imemVars

\* A run of free pages for an allocation of the given order.
HasRoom(order) ==
  \E s \in Base..(End - 2^order) :
    \A i \in DOMAIN list : list[i].end < s \/ s + 2^order - 1 < list[i].start

\* The file announces the largest order that can be had: an allocation is
\* granted exactly if a run of free pages is long enough, and that is so
\* exactly up to the announced order, though imem_read_proc and imem_alloc
\* compute gaps in two different ways.
AnnouncedIsFree ==
  /\ ImemTypeOK
  /\ WellFormed(list) => \A order \in Orders :
       /\ FirstFit(list, 2^order) # 0 <=> HasRoom(order)
       /\ order <= MaxFree(list) <=> HasRoom(order)

=============================================================================
