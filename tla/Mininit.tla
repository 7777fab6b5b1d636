------------------------------ MODULE Mininit ------------------------------
(***************************************************************************)
(* mininit (src/mininit/init.c), the first program of the A320: it splits  *)
(* the kernel command line in place, mounts the boot device, attaches loop *)
(* devices, mounts the root device, moves to it and executes init.  Block  *)
(* devices appear while it runs.  Every step that may fail and is fatal in *)
(* the source ends in "fatal", which makes the kernel panic.               *)
(*                                                                         *)
(* A parameter is a key and a list of tokens; the commas between tokens    *)
(* are part of the buffer, because _multimount overwrites them.            *)
(***************************************************************************)
EXTENDS Integers, Sequences, SequencesExt, FiniteSetsExt

CONSTANTS
  Cmdlines,   \* the command lines: sequences of parameters [key, toks]
  Devices,    \* block devices that appear by themselves
  Loops,      \* loop devices, usable once they are set up
  Inits,      \* inits[], in order
  TableSize,  \* 64, the length of paramv
  Retries     \* 20

None == "none"
Spoilt == "spoilt"   \* a token with the text of the next parameter behind it

ASSUME MininitAssumption ==
  /\ TableSize \in Nat /\ TableSize >= 3 /\ Retries \in Nat \ {0}
  /\ Inits \in Seq(STRING)
  /\ \A l \in Cmdlines : /\ l \in Seq([key : STRING, toks : Seq(STRING)])
                         /\ \A n \in 1 .. Len(l) : Len(l[n].toks) > 0
  /\ {None, Spoilt} \cap (Devices \cup Loops) = {}

VARIABLES
  pc,       \* the step of main, "running" or "fatal"
  paramv,   \* parameters 1 .. paramc - 1: [key, toks, commas]
  i,        \* main's counter
  try, t,   \* _multimount: the try and the token it is at
  ready,    \* devices that have appeared
  sound,    \* devices with a file system that can be guessed and mounted
  atPass,   \* the devices that were ready when the pause before this pass
            \* over the list began
  mounts,   \* what is mounted where: [proc, sys, boot, root, slash]
  attached, \* loop devices set up
  present,  \* programs that exist on the root device
  argv,     \* what init is executed with
  line      \* the command line the kernel was given

vars == <<pc, paramv, i, try, t, ready, sound, atPass, mounts, attached, present, argv, line>>
env == <<sound, present, line>>

Init ==
  /\ pc = "setup" /\ line \in Cmdlines /\ paramv = <<>>
  /\ i = 1 /\ try = 0 /\ t = 1
  /\ ready = {} /\ atPass = {} /\ attached = {}
  /\ sound \in SUBSET Devices
  /\ present \in SUBSET {Inits[n] : n \in 1 .. Len(Inits)}
  /\ mounts = [proc |-> FALSE, sys |-> FALSE, boot |-> None, moved |-> FALSE,
               root |-> None, slash |-> "initramfs"]
  /\ argv = <<>>

-----------------------------------------------------------------------------
Whole(p) == [key |-> p.key, toks |-> p.toks, commas |-> 1 .. Len(p.toks) - 1]

\* A parameter that is not terminated goes on with the next ones.
Swallow(p, q) == [key |-> p.key,
                  toks |-> Front(p.toks) \o <<Spoilt>> \o Tail(q.toks)]

\* Parameter max with all that follow it.
Remainder(l, max) ==
  LET rest[n \in 0 .. Len(l) - max] ==
        IF n = 0 THEN l[max] ELSE Swallow(rest[n - 1], l[max + n])
  IN  rest[Len(l) - max]

\* _mkparam: the last parameter that fits is left with the rest of the line.
mkparam(l, max) ==
  IF Len(l) <= max THEN [n \in 1 .. Len(l) |-> Whole(l[n])]
  ELSE [n \in 1 .. max |-> Whole(IF n < max THEN l[n] ELSE Remainder(l, max))]

paramc == Len(paramv) + 1
fatal == pc' = "fatal"

\* The first parameter with this key from number n on, or paramc.
Find(key, n) == LET F == {m \in n .. Len(paramv) : paramv[m].key = key}
                IN  IF F = {} THEN paramc ELSE Min(F)

\* /proc and /sys are mounted and the command line is read.
Setup ==
  /\ pc = "setup"
  /\ \/ fatal /\ UNCHANGED <<paramv, mounts>>
     \/ /\ mounts' = [mounts EXCEPT !.proc = TRUE, !.sys = TRUE]
        /\ paramv' = mkparam(line, TableSize - 2)
        /\ pc' = "boot"
  /\ UNCHANGED <<i, try, t, ready, atPass, attached, argv, env>>

\* The call of _multimount for the first parameter with the key.
Enter(key, call, without) ==
  /\ i' = Find(key, 1)
  /\ pc' = IF i' < paramc THEN call ELSE without
  /\ try' = 0 /\ t' = 1 /\ atPass' = ready
  /\ UNCHANGED <<paramv, ready, mounts, attached, argv, env>>

Boot == pc = "boot" /\ Enter("boot", "mount boot", "loop")
Root == pc = "root" /\ Enter("root", "mount root", "fatal")

-----------------------------------------------------------------------------
(* _multimount *)

Usable(d) == d \in ready \cap sound \/ d \in attached

\* MUTANT: the comma behind the token is not put back.
Restored_cut(p, n) == [p EXCEPT !.commas = @ \ {n}]
\* The parameter after token n: the comma behind it was overwritten and put back.
Restored(p, n) == p

\* MUTANT: the next pass goes on where the last one stopped.
NewPass_resume == /\ try' = try + 1 /\ atPass' = ready /\ UNCHANGED t
                  /\ IF try + 1 < Retries THEN UNCHANGED pc ELSE fatal
\* The list is through: the next try, after a pause, or the end.
NewPass == /\ t' = 1 /\ try' = try + 1 /\ atPass' = ready
           /\ IF try + 1 < Retries THEN UNCHANGED pc ELSE fatal

\* One token of the list.
Mount(key, next) ==
  LET p == paramv[i]
      d == p.toks[t]
  IN  /\ paramv' = [paramv EXCEPT ![i] = Restored(p, t)]
      /\ \/ /\ Usable(d)
            /\ mounts' = [mounts EXCEPT ![key] = d]
            /\ pc' = next /\ i' = 1
            /\ UNCHANGED <<try, t, atPass>>
         \/ /\ ~Usable(d) /\ t \in p.commas
            /\ t' = t + 1
            /\ UNCHANGED <<pc, i, try, atPass, mounts>>
         \/ /\ ~Usable(d) /\ t \notin p.commas
            /\ NewPass
            /\ UNCHANGED <<i, mounts>>
      /\ UNCHANGED <<ready, attached, argv, env>>

MountBoot == pc = "mount boot" /\ Mount("boot", "loop")
MountRoot == pc = "mount root" /\ Mount("root", "move")

\* A device appears: while mininit sleeps or between two tokens.
Appear(d) ==
  /\ d \notin ready /\ ready' = ready \cup {d}
  /\ UNCHANGED <<pc, paramv, i, try, t, atPass, mounts, attached, argv, env>>

-----------------------------------------------------------------------------
\* _losetup of the next loop parameter.  The file may be missing; a file with
\* a spoilt name is; a device that is attached is busy.
Losetup ==
  /\ pc = "loop"
  /\ LET n == Find("loop", i) IN
       IF n = paramc THEN pc' = "root" /\ i' = 1 /\ UNCHANGED attached
       ELSE LET d == paramv[n].toks[1] IN
            \/ fatal /\ UNCHANGED <<i, attached>>
            \/ /\ d \in Loops \ attached
               /\ attached' = attached \cup {d} /\ i' = n + 1 /\ UNCHANGED pc
  /\ UNCHANGED <<paramv, try, t, ready, atPass, mounts, argv, env>>

\* The boot mount goes to /root/boot, a directory the read-only root must have.
Move ==
  /\ pc = "move"
  /\ \/ mounts.boot # None /\ fatal /\ UNCHANGED mounts
     \/ /\ pc' = "switch"
        /\ mounts' = [mounts EXCEPT !.moved = mounts.boot # None]
  /\ UNCHANGED <<paramv, i, try, t, ready, atPass, attached, argv, env>>

\* The console, the two unmounts (a forced one may fail as well), the move to /.
Switch ==
  /\ pc = "switch"
  /\ \/ fatal /\ UNCHANGED mounts
     \/ \E proc, sys \in BOOLEAN :
          \/ /\ mounts' = [mounts EXCEPT !.proc = proc, !.sys = sys]
             /\ fatal
          \/ /\ mounts' = [mounts EXCEPT !.proc = proc, !.sys = sys, !.slash = mounts.root]
             /\ pc' \in {"init", "fatal"}
  /\ UNCHANGED <<paramv, i, try, t, ready, atPass, attached, argv, env>>

\* MUTANT: the first init parameter.
Program_first ==
  LET F == {m \in 1 .. Len(paramv) : paramv[m].key = "init"}
      P == {n \in 1 .. Len(Inits) : Inits[n] \in present}
  IN  IF F # {} THEN paramv[Min(F)].toks[1]
      ELSE IF P # {} THEN Inits[Min(P)] ELSE None
\* The last init parameter, or the first program of inits that exists.
Program ==
  LET F == {m \in 1 .. Len(paramv) : paramv[m].key = "init"}
      P == {n \in 1 .. Len(Inits) : Inits[n] \in present}
  IN  IF F # {} THEN paramv[Max(F)].toks[1]
      ELSE IF P # {} THEN Inits[Min(P)] ELSE None

\* execv returns if the program cannot be executed.
Exec ==
  /\ pc = "init"
  /\ \/ fatal /\ UNCHANGED argv
     \/ /\ Program \notin {None, Spoilt}
        /\ argv' = <<[key |-> Program, toks |-> <<>>, commas |-> {}]>> \o paramv
        /\ pc' = "running"
  /\ UNCHANGED <<paramv, i, try, t, ready, atPass, mounts, attached, env>>

\* init runs, or the kernel has panicked.
Over == pc \in {"running", "fatal"} /\ UNCHANGED vars

Main == Setup \/ Boot \/ MountBoot \/ Losetup \/ Root \/ MountRoot \/ Move \/ Switch \/ Exec
Next == Main \/ (\E d \in Devices : Appear(d)) \/ Over

Spec == Init /\ [][Next]_vars

-----------------------------------------------------------------------------
(* Properties *)

(* The table of parameters leaves room for the program in front and for    *)
(* the NULL behind, and _multimount never looks past the end of its list.  *)
TypeOK ==
  /\ pc \in {"setup", "boot", "mount boot", "loop", "root", "mount root", "move",
             "switch", "init", "running", "fatal"}
  /\ Len(paramv) + 2 <= TableSize
  /\ i \in 1 .. paramc + 1 /\ try \in 0 .. Retries
  /\ pc \in {"mount boot", "mount root"} => t \in 1 .. Len(paramv[i].toks)
  /\ ready \subseteq Devices /\ attached \subseteq Loops
  /\ mounts.boot \in Devices \cup Loops \cup {None}
  /\ mounts.root \in Devices \cup Loops \cup {None}

\* The parameters of the command line with this key, as far as the table goes.
Given(key) == {n \in 1 .. Len(line) : n <= TableSize - 2 /\ line[n].key = key}
Listed(key) == mkparam(line, TableSize - 2)[Min(Given(key))].toks

(* What init finds: a device of the first root list on /, the boot device  *)
(* under /boot exactly if one was asked for, the program the last init     *)
(* parameter names, and the parameters as _mkparam cut them, of which the  *)
(* last that fits the table has swallowed the rest of the line: every      *)
(* comma that _multimount overwrote in the buffer is back.  Before that,   *)
(* the table and the list are never overrun (TypeOK).                      *)
HandOver ==
  /\ TypeOK
  /\ pc = "running" =>
       /\ mounts.slash = mounts.root /\ mounts.root \in Range(Listed("root"))
       /\ mounts.moved <=> Given("boot") # {}
       /\ mounts.moved => mounts.boot \in Range(Listed("boot"))
       /\ Given("init") # {} =>
            argv[1].key = mkparam(line, TableSize - 2)[Max(Given("init"))].toks[1]
       /\ Given("init") = {} => argv[1].key \in present
       /\ Tail(argv) = mkparam(line, TableSize - 2)

CallOf(key) == IF key = "boot" THEN "mount boot" ELSE "mount root"
UsableAtPass(d) == d \in atPass \cap sound \/ d \in attached

(* mininit gives up on a list only if no device of it could be mounted     *)
(* when the pause before the last try began: a device that appears late is *)
(* found, wherever it stands in the list.                                  *)
GivesUpOnlyIfNone ==
  [][\A key \in {"boot", "root"} :
       pc = CallOf(key) /\ pc' = "fatal" =>
         \A n \in 1 .. Len(Listed(key)) : ~UsableAtPass(Listed(key)[n])]_vars

(* A device is passed over for a later one of the list only if it could    *)
(* not be mounted when the pause before the try began.                     *)
EarlierFirst ==
  [][\A key \in {"boot", "root"} :
       mounts'[key] # mounts[key] =>
         \A n \in 1 .. t - 1 : ~UsableAtPass(Listed(key)[n])]_vars

=============================================================================
