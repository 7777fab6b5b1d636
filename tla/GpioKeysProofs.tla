--------------------------- MODULE GpioKeysProofs ---------------------------
(***************************************************************************)
(* Proofs about the button driver, for every button table, every pair of   *)
(* poll counts and every set of pdflush threads.                           *)
(***************************************************************************)
EXTENDS GpioKeys, TLAPS

Running == machine = "running"
IndInv == TypeOK /\ CountIsAlone /\ KeyMirror

\* A button that made its request and is still held is in the word the next
\* SysRq poll compares the samples with.
HeldKnown == machine = "running" => held \subseteq sysrq_state

\* What the button table guarantees about one column of codes.
Column(code) ==
    /\ \A b \in Button : code[b] # NoCode => code[b] \in keybit
    /\ \A b, c \in Button : code[b] = code[c] => b = c \/ code[b] = NoCode

\* Both columns of the table are injective on the entries they have, and their
\* codes are declared in keybit.
LEMMA Columns ==
    /\ Column(ncodes) /\ Column(scodes)
    /\ \A b, c \in Button : ncodes[b] # scodes[c]
    /\ \A b \in Button : ncodes[b] # NoCode
BY TableAssumption DEF Column, ncodes, scodes, keybit, NoCode

\* The events of a poll over one column, added to a key set that mirrors the
\* old buttons of that column, leave the mirror of the new ones.
LEMMA Toggle ==
    ASSUME NEW code, Column(code), NEW other,
           \A b \in Button : code[b] \notin other,
           NEW old \in SUBSET Button, NEW s \in SUBSET Button,
           NEW pulses,
           key = codes(old, code) \cup other,
           ReportKeys(Events(s, old, code), pulses)
    PROVE  key' = codes(s, code) \cup other
<1> DEFINE evs == Events(s, old, code)
           new == {ev \in evs : Handled(ev)}
           down == {ev[1] : ev \in {e \in new : e[2] = 1}}
           up == {ev[1] : ev \in {e \in new : e[2] = 0}}
<1>1. key' = (key \cup down) \ up
  BY DEF ReportKeys
<1>2. \A b \in Button : b \in Changed(s, old) /\ code[b] # NoCode
         => (code[b] \in key <=> b \in old)
  BY DEF codes, Column
<1>3. new = evs
  <2>1. ASSUME NEW ev \in evs PROVE Handled(ev)
    <3>1. PICK b \in Changed(s, old) : code[b] # NoCode /\ ev = <<code[b], IF b \in s THEN 1 ELSE 0>>
      BY DEF Events
    <3>2. b \in Button /\ (b \in s <=> b \notin old)
      BY <3>1 DEF Changed
    <3>3. ev[1] = code[b] /\ (ev[2] = 1 <=> b \in s)
      BY <3>1
    <3>4. ev[1] \in keybit
      BY <3>1, <3>2, <3>3 DEF Column
    <3>5. ev[1] \in key <=> b \in old
      BY <1>2, <3>1, <3>2, <3>3
    <3> QED
      BY <3>2, <3>3, <3>4, <3>5 DEF Handled
  <2> QED
    BY <2>1
<1>4. down = {code[b] : b \in {c \in s \ old : code[c] # NoCode}}
  <2>1. ASSUME NEW x \in down PROVE x \in {code[b] : b \in {c \in s \ old : code[c] # NoCode}}
    <3>1. PICK ev \in evs : ev[2] = 1 /\ x = ev[1]
      BY <1>3
    <3>2. PICK b \in Changed(s, old) : code[b] # NoCode /\ ev = <<code[b], IF b \in s THEN 1 ELSE 0>>
      BY DEF Events
    <3>3. x = code[b] /\ b \in s
      BY <3>1, <3>2
    <3> QED
      BY <3>2, <3>3 DEF Changed
  <2>2. ASSUME NEW b \in s \ old, code[b] # NoCode PROVE code[b] \in down
    <3>1. <<code[b], IF b \in s THEN 1 ELSE 0>> \in evs
      BY <2>2 DEF Events, Changed
    <3>2. <<code[b], IF b \in s THEN 1 ELSE 0>>[2] = 1 /\ <<code[b], IF b \in s THEN 1 ELSE 0>>[1] = code[b]
      BY <2>2
    <3> QED
      BY <1>3, <3>1, <3>2
  <2> QED
    BY <2>1, <2>2
<1>5. up = {code[b] : b \in {c \in old \ s : code[c] # NoCode}}
  <2>1. ASSUME NEW x \in up PROVE x \in {code[b] : b \in {c \in old \ s : code[c] # NoCode}}
    <3>1. PICK ev \in evs : ev[2] = 0 /\ x = ev[1]
      BY <1>3
    <3>2. PICK b \in Changed(s, old) : code[b] # NoCode /\ ev = <<code[b], IF b \in s THEN 1 ELSE 0>>
      BY DEF Events
    <3>3. x = code[b] /\ b \notin s
      BY <3>1, <3>2
    <3> QED
      BY <3>2, <3>3 DEF Changed
  <2>2. ASSUME NEW b \in old \ s, code[b] # NoCode PROVE code[b] \in up
    <3>1. <<code[b], IF b \in s THEN 1 ELSE 0>> \in evs
      BY <2>2 DEF Events, Changed
    <3>2. <<code[b], IF b \in s THEN 1 ELSE 0>>[2] = 0 /\ <<code[b], IF b \in s THEN 1 ELSE 0>>[1] = code[b]
      BY <2>2
    <3> QED
      BY <1>3, <3>1, <3>2
  <2> QED
    BY <2>1, <2>2
<1> HIDE DEF evs, new, down, up
<1> QED
  BY <1>1, <1>4, <1>5 DEF codes, Column

\* A poll passes on only declared keys, and the key set stays within keybit.
LEMMA ReportType ==
    ASSUME TypeOK, NEW code, NEW old \in SUBSET Button, NEW s \in SUBSET Button,
           NEW pulses, ReportKeys(Events(s, old, code), pulses)
    PROVE  key' \in SUBSET keybit /\ passed' \in SUBSET (keybit \X {0, 1})
<1> DEFINE evs == Events(s, old, code)
           new == {ev \in evs : Handled(ev)}
<1>1. ASSUME NEW ev \in new PROVE ev \in keybit \X {0, 1}
  <2>1. PICK b \in Changed(s, old) : ev = <<code[b], IF b \in s THEN 1 ELSE 0>>
    BY DEF Events
  <2>2. ev[1] \in keybit
    BY DEF Handled
  <2> QED
    BY <2>1, <2>2
<1>2. /\ passed' = new \cup ((pulses \cap keybit) \X {0, 1})
      /\ key' = (key \cup {ev[1] : ev \in {e \in new : e[2] = 1}})
                  \ {ev[1] : ev \in {e \in new : e[2] = 0}}
  BY DEF ReportKeys
<1> HIDE DEF new
<1> QED
  BY <1>1, <1>2 DEF TypeOK

\* Handing requests to pdflush leaves every thread with a job it can have.
LEMMA SysrqType ==
    ASSUME TypeOK, NEW reqs, handle_sysrq(reqs)
    PROVE  worker' \in [Worker -> Job]
<1>1. ASSUME NEW w \in [Worker -> Job], NEW fn \in Job
      PROVE  pdflush_operation(w, fn) \subseteq [Worker -> Job]
  BY DEF pdflush_operation
<1>2. ASSUME NEW W \in SUBSET [Worker -> Job], NEW r, NEW fn \in Job
      PROVE  emergency(W, reqs, r, fn) \subseteq [Worker -> Job]
  BY <1>1 DEF emergency
<1>3. emergency({worker}, reqs, "s", "do_sync") \subseteq [Worker -> Job]
  BY <1>2 DEF TypeOK, Job
<1>4. emergency(emergency({worker}, reqs, "s", "do_sync"), reqs, "u",
                "do_emergency_remount") \subseteq [Worker -> Job]
  BY <1>2, <1>3 DEF Job
<1> QED
  BY <1>4 DEF handle_sysrq

\* Both counters may be zero.
LEMMA ZeroCounts == 0 \in 0..REBOOT_COUNT /\ 0 \in 0..AloneCap
BY CountAssumption DEF AloneCap

\* The initial state satisfies the inductive invariant.
LEMMA InitInd == Init => IndInv
<1> SUFFICES ASSUME Init PROVE IndInv
  OBVIOUS
<1>1. TypeOK
  BY ZeroCounts, Zenon DEF Init, TypeOK, Job
<1>2. CountIsAlone
  BY DEF Init, CountIsAlone
<1>3. KeyMirror
  BY DEF Init, KeyMirror, codes
<1> QED
  BY <1>1, <1>2, <1>3 DEF IndInv

\* A poll without the slider preserves the inductive invariant.
LEMMA NormalInd ==
    ASSUME IndInv, Running, NEW s \in SUBSET Button, PollNormal(s), CountAlone(s, FALSE),
           held' \in SUBSET Button, tick' \in BOOLEAN
    PROVE  IndInv'
<1>1. TypeOK'
  <2>1. key' \in SUBSET keybit /\ passed' \in SUBSET (keybit \X {0, 1})
    BY ReportType DEF PollNormal, IndInv, TypeOK
  <2>2. alone' = 0
    BY DEF CountAlone
  <2> QED
    BY <2>1, <2>2, ZeroCounts, Zenon DEF PollNormal, IndInv, TypeOK
<1>2. CountIsAlone'
  BY DEF PollNormal, CountAlone, CountIsAlone
<1>3. KeyMirror'
  <2> DEFINE other == codes(special_state, scodes)
  <2>1. \A b \in Button : ncodes[b] \notin other
    BY Columns DEF codes, IndInv, TypeOK
  <2>2. key = codes(normal_state, ncodes) \cup other
    BY DEF IndInv, KeyMirror, Running
  <2>3. key' = codes(s, ncodes) \cup other
    BY <2>1, <2>2, Columns, Toggle DEF PollNormal, IndInv, TypeOK
  <2> QED
    BY <2>3 DEF PollNormal, KeyMirror
<1> QED
  BY <1>1, <1>2, <1>3 DEF IndInv

\* A poll in the SysRq mode preserves the inductive invariant.
LEMMA SysrqInd ==
    ASSUME IndInv, Running, NEW s \in SUBSET Button, SYSRQ_ALT \in s,
           PollSysrq(s), CountAlone(s, TRUE),
           held' \in SUBSET Button, tick' \in BOOLEAN
    PROVE  IndInv'
<1> DEFINE reqs == {jz_button[b].sysrq : b \in Asking(s)}
<1>1. worker' \in [Worker -> Job]
  BY SysrqType DEF PollSysrq, IndInv
<1>2. alone' = 0
  BY DEF CountAlone
<1>3. TypeOK'
  BY <1>1, <1>2, CountAssumption DEF PollSysrq, IndInv, TypeOK, AloneCap
<1>4. CountIsAlone'
  BY <1>2 DEF PollSysrq, CountIsAlone, IndInv
<1>5. KeyMirror'
  BY DEF PollSysrq, KeyMirror, IndInv, Running
<1> QED
  BY <1>3, <1>4, <1>5 DEF IndInv

\* A poll with the slider preserves the inductive invariant.
LEMMA SpecialInd ==
    ASSUME IndInv, Running, NEW s \in SUBSET Button, PollSpecial(s), CountAlone(s, TRUE),
           held' \in SUBSET Button, tick' \in BOOLEAN
    PROVE  IndInv'
<1>1. key' \in SUBSET keybit /\ passed' \in SUBSET (keybit \X {0, 1})
  BY ReportType DEF PollSpecial, IndInv, TypeOK
<1>2. alone' \in 0..AloneCap
  BY CountAssumption DEF CountAlone, AloneCap, IndInv, TypeOK
<1>3. CASE RebootDue
  <2>1. worker' \in [Worker -> Job]
    BY <1>3, SysrqType DEF PollSpecial, IndInv
  <2>2. TypeOK'
    BY <1>1, <1>2, <1>3, <2>1 DEF PollSpecial, IndInv, TypeOK, kbdVars
  <2> QED
    BY <1>3, <2>2 DEF PollSpecial, IndInv, CountIsAlone, KeyMirror
<1>4. CASE ~RebootDue
  <2>1. NextCount(s) \in 0..REBOOT_COUNT
    BY <1>4, CountAssumption DEF NextCount, RebootDue, IndInv, TypeOK, CountIsAlone, Running
  <2>2. TypeOK'
    BY <1>1, <1>2, <1>4, <2>1 DEF PollSpecial, IndInv, TypeOK
  <2>3. NextCount(s) > 0 => NextCount(s) = alone'
    <3>1. /\ power_count \in 0..REBOOT_COUNT /\ alone \in Nat
          /\ power_count > 0 => power_count = alone
          /\ ~power_state => alone = 0
      BY DEF IndInv, TypeOK, CountIsAlone, Running
    <3>2. CASE s # {}
      BY <3>2 DEF NextCount
    <3>3. CASE s = {}
      <4>1. alone <= REBOOT_COUNT => alone' = alone + 1
        BY <3>1, <3>3, CountAssumption DEF CountAlone, AloneCap
      <4> QED
        BY <3>1, <3>3, <4>1, CountAssumption DEF NextCount
    <3> QED
      BY <3>2, <3>3
  <2>4. CountIsAlone'
    BY <1>4, <2>3 DEF PollSpecial, CountIsAlone
  <2>5. KeyMirror'
    <3> DEFINE other == codes(normal_state, ncodes)
    <3>1. \A b \in Button : scodes[b] \notin other
      BY Columns DEF codes, IndInv, TypeOK
    <3>2. key = codes(special_state, scodes) \cup other
      BY DEF IndInv, KeyMirror, Running
    <3>3. key' = codes(s, scodes) \cup other
      BY <3>1, <3>2, Columns, Toggle DEF PollSpecial, IndInv, TypeOK
    <3> QED
      BY <1>4, <3>3 DEF PollSpecial, KeyMirror
  <2> QED
    BY <2>2, <2>4, <2>5 DEF IndInv
<1> QED
  BY <1>3, <1>4

\* Every step of the machine preserves the inductive invariant.
LEMMA NextInd == IndInv /\ [Next]_vars => IndInv'
<1> SUFFICES ASSUME IndInv, [Next]_vars PROVE IndInv'
  OBVIOUS
<1>1. ASSUME NEW s \in SUBSET Button, NEW p \in BOOLEAN, Poll(s, p) PROVE IndInv'
  <2>1. Running /\ CountAlone(s, p) /\ held' \in SUBSET Button /\ tick' \in BOOLEAN
    BY <1>1 DEF Poll, Hold, Asking, Running, IndInv, TypeOK
  <2>2. CASE ~p
    <3>1. PollNormal(s) /\ CountAlone(s, FALSE)
      BY <1>1, <2>1, <2>2 DEF Poll, jz_kbd_poll
    <3> QED
      BY <2>1, <3>1, NormalInd
  <2>3. CASE p /\ SYSRQ_ALT \in s
    <3>1. PollSysrq(s) /\ CountAlone(s, TRUE)
      BY <1>1, <2>1, <2>3 DEF Poll, jz_kbd_poll
    <3> QED
      BY <2>1, <2>3, <3>1, SysrqInd
  <2>4. CASE p /\ SYSRQ_ALT \notin s
    <3>1. PollSpecial(s) /\ CountAlone(s, TRUE)
      BY <1>1, <2>1, <2>4 DEF Poll, jz_kbd_poll
    <3> QED
      BY <2>1, <3>1, SpecialInd
  <2> QED
    BY <2>2, <2>3, <2>4
<1>2. ASSUME NEW t \in Worker, StartWriteback(t) PROVE IndInv'
  BY <1>2 DEF StartWriteback, IndInv, TypeOK, CountIsAlone, KeyMirror, kbdVars, history, Job
<1>3. ASSUME NEW t \in Worker, FinishWork(t) PROVE IndInv'
  BY <1>3 DEF FinishWork, IndInv, TypeOK, CountIsAlone, KeyMirror, kbdVars, history, Job
<1>4. CASE Restart
  <2>1. TypeOK'
    BY <1>4, ZeroCounts, Zenon DEF Restart, TypeOK, Job
  <2>2. CountIsAlone' /\ KeyMirror'
    BY <1>4 DEF Restart, CountIsAlone, KeyMirror, codes
  <2> QED
    BY <2>1, <2>2 DEF IndInv
<1>5. CASE UNCHANGED vars
  BY <1>5 DEF vars, kbdVars, history, IndInv, TypeOK, CountIsAlone, KeyMirror
<1> QED
  BY <1>1, <1>2, <1>3, <1>4, <1>5 DEF Next

\* The input core mirrors the two button state words of the driver, the slider
\* counter counts the polls it stands for, and every variable has its type.
THEOREM Invariance == Spec => [](TypeOK /\ CountIsAlone /\ KeyMirror)
<1>1. IndInv => TypeOK /\ CountIsAlone /\ KeyMirror
  BY DEF IndInv
<1> QED
  BY <1>1, InitInd, NextInd, PTL DEF Spec

\* The driver forces a reboot only when the slider was sampled down with no
\* button in REBOOT_COUNT consecutive polls.
THEOREM RebootHeld == Spec => ForcedRebootOnlyHeld
<1> DEFINE Held == machine = "running" /\ machine' = "forced" => alone >= REBOOT_COUNT
<1>1. IndInv /\ [Next]_vars => [Held]_vars
  <2> SUFFICES ASSUME IndInv, Next, machine = "running", machine' = "forced"
               PROVE  alone >= REBOOT_COUNT
    OBVIOUS
  <2>1. PICK s \in SUBSET Button, p \in BOOLEAN : Poll(s, p)
    BY DEF Next, StartWriteback, FinishWork, Restart
  <2>2. PollSpecial(s)
    BY <2>1 DEF Poll, jz_kbd_poll, PollNormal, PollSysrq
  <2>3. RebootDue
    BY <2>2 DEF PollSpecial
  <2> QED
    BY <2>3, CountAssumption DEF RebootDue, IndInv, CountIsAlone, TypeOK
<1> QED
  BY <1>1, InitInd, NextInd, PTL DEF Spec, ForcedRebootOnlyHeld

\* Handing requests to pdflush gives a thread a function only when the request
\* that stands for it is among them.
LEMMA SysrqJobs ==
    ASSUME TypeOK, NEW reqs, handle_sysrq(reqs), NEW t \in Worker
    PROVE  /\ worker'[t] \in {worker[t], "do_sync", "do_emergency_remount"}
           /\ worker'[t] = "do_sync" => worker[t] = "do_sync" \/ "s" \in reqs
           /\ worker'[t] = "do_emergency_remount"
                => worker[t] = "do_emergency_remount" \/ "u" \in reqs
<1> DEFINE W == emergency({worker}, reqs, "s", "do_sync")
<1>1. ASSUME NEW w \in [Worker -> Job], NEW fn \in Job, NEW v \in pdflush_operation(w, fn)
      PROVE  v \in [Worker -> Job] /\ v[t] \in {w[t], fn}
  BY DEF pdflush_operation
<1>2. worker \in [Worker -> Job] /\ "do_sync" \in Job /\ "do_emergency_remount" \in Job
  BY DEF TypeOK, Job
<1>3. ASSUME NEW w \in W
      PROVE  /\ w \in [Worker -> Job] /\ w[t] \in {worker[t], "do_sync"}
             /\ w[t] # worker[t] => "s" \in reqs
  <2>1. CASE "s" \in reqs
    <3>1. w \in pdflush_operation(worker, "do_sync")
      BY <2>1 DEF emergency
    <3> QED
      BY <1>1, <1>2, <2>1, <3>1
  <2>2. CASE "s" \notin reqs
    BY <1>2, <2>2 DEF emergency
  <2> QED
    BY <2>1, <2>2
<1>4. worker' \in emergency(W, reqs, "u", "do_emergency_remount")
  BY DEF handle_sysrq
<1>5. PICK w \in W : /\ worker'[t] \in {w[t], "do_emergency_remount"}
                     /\ worker'[t] # w[t] => "u" \in reqs
  <2>1. CASE "u" \in reqs
    <3>1. PICK w \in W : worker' \in pdflush_operation(w, "do_emergency_remount")
      BY <1>4, <2>1 DEF emergency
    <3>2. worker'[t] \in {w[t], "do_emergency_remount"}
      BY <1>1, <1>2, <1>3, <3>1
    <3> QED
      BY <2>1, <3>2
  <2>2. CASE "u" \notin reqs
    BY <1>4, <2>2 DEF emergency
  <2> QED
    BY <2>1, <2>2
<1> HIDE DEF W
<1> QED
  BY <1>3, <1>5

\* Every step keeps the held buttons known to the SysRq mode.
LEMMA NextKnown == IndInv /\ HeldKnown /\ [Next]_vars => HeldKnown'
<1> SUFFICES ASSUME IndInv, HeldKnown, [Next]_vars PROVE HeldKnown'
  OBVIOUS
<1>1. ASSUME NEW s \in SUBSET Button, NEW p \in BOOLEAN, Poll(s, p) PROVE HeldKnown'
  <2>1. held \subseteq sysrq_state /\ Hold(s, p)
    BY <1>1 DEF Poll, HeldKnown
  <2>2. CASE ~p
    <3>1. sysrq_state' = sysrq_state
      BY <1>1, <2>2 DEF Poll, jz_kbd_poll, PollNormal
    <3> QED
      BY <2>1, <2>2, <3>1 DEF Hold, HeldKnown
  <2>3. CASE p /\ SYSRQ_ALT \in s
    <3>1. machine' = "running" => sysrq_state' = s
      BY <1>1, <2>3 DEF Poll, jz_kbd_poll, PollSysrq
    <3> QED
      BY <2>1, <3>1 DEF Hold, Asking, HeldKnown
  <2>4. CASE p /\ SYSRQ_ALT \notin s
    <3>1. sysrq_state' = sysrq_state
      BY <1>1, <2>4 DEF Poll, jz_kbd_poll, PollSpecial, kbdVars
    <3> QED
      BY <2>1, <2>4, <3>1 DEF Hold, HeldKnown
  <2> QED
    BY <2>2, <2>3, <2>4
<1>2. ASSUME NEW t \in Worker, StartWriteback(t) \/ FinishWork(t) PROVE HeldKnown'
  BY <1>2 DEF StartWriteback, FinishWork, HeldKnown, kbdVars, history
<1>3. CASE Restart
  BY <1>3 DEF Restart, HeldKnown
<1>4. CASE UNCHANGED vars
  BY <1>4 DEF vars, kbdVars, history, HeldKnown
<1> QED
  BY <1>1, <1>2, <1>3, <1>4 DEF Next

\* Over any mixture of the three modes, a button that is held makes the machine
\* sync, remount or reboot at most once.
THEOREM HeldOnce == Spec => HeldAsksOnce
<1> DEFINE Once == machine' # "forced" =>
                     \A r \in {"s", "u", "b"} : TakesEffect(r) =>
                       \E b \in held' \ held : jz_button[b].sysrq = r
<1>1. Init => IndInv /\ HeldKnown
  BY InitInd DEF Init, HeldKnown
<1>2. IndInv /\ HeldKnown /\ [Next]_vars => [Once]_vars
  <2> SUFFICES ASSUME IndInv, HeldKnown, Next, machine' # "forced",
                      NEW r \in {"s", "u", "b"}, TakesEffect(r)
               PROVE  \E b \in held' \ held : jz_button[b].sysrq = r
    BY DEF TakesEffect
  <2>1. ASSUME NEW s \in SUBSET Button, NEW p \in BOOLEAN, Poll(s, p)
        PROVE  \E b \in held' \ held : jz_button[b].sysrq = r
    <3>1. machine = "running" /\ held \subseteq sysrq_state /\ Hold(s, p)
      BY <2>1 DEF Poll, HeldKnown
    <3>2. CASE ~p
      BY <2>1, <3>1, <3>2 DEF Poll, jz_kbd_poll, PollNormal, TakesEffect
    <3>3. CASE p /\ SYSRQ_ALT \notin s
      BY <2>1, <3>1, <3>3 DEF Poll, jz_kbd_poll, PollSpecial, TakesEffect
    <3>4. CASE p /\ SYSRQ_ALT \in s
      <4> DEFINE reqs == {jz_button[b].sysrq : b \in Asking(s)}
      <4>1. PollSysrq(s)
        BY <2>1, <3>4 DEF Poll, jz_kbd_poll
      <4>2. handle_sysrq(reqs) /\ (machine' # machine => "b" \in reqs)
        BY <4>1 DEF PollSysrq
      <4>3. r \in reqs
        <5>1. CASE r = "b"
          BY <3>1, <4>2, <5>1 DEF TakesEffect
        <5>2. CASE r = "s"
          BY <4>2, <5>2, SysrqJobs DEF TakesEffect, IndInv
        <5>3. CASE r = "u"
          BY <4>2, <5>3, SysrqJobs DEF TakesEffect, IndInv
        <5> QED
          BY <5>1, <5>2, <5>3
      <4>4. PICK b \in Asking(s) : jz_button[b].sysrq = r
        BY <4>3
      <4>5. b \in held' \ held
        BY <3>1, <3>4, <4>4 DEF Hold, Asking
      <4> QED
        BY <4>4, <4>5
    <3> QED
      BY <3>2, <3>3, <3>4
  <2>2. ASSUME NEW t \in Worker, StartWriteback(t) \/ FinishWork(t) PROVE FALSE
    <3>1. \A u \in Worker : worker'[u] \in {worker[u], "writeback", "idle"}
      BY <2>2 DEF StartWriteback, FinishWork, IndInv, TypeOK
    <3>2. machine' = machine
      BY <2>2 DEF StartWriteback, FinishWork
    <3> QED
      BY <3>1, <3>2 DEF TakesEffect
  <2>3. CASE Restart
    BY <2>3 DEF Restart, TakesEffect
  <2> QED
    BY <2>1, <2>2, <2>3 DEF Next
<1> QED
  BY <1>1, <1>2, NextInd, NextKnown, PTL DEF Spec, HeldAsksOnce
=============================================================================
