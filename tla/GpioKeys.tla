------------------------------- MODULE GpioKeys -------------------------------
(***************************************************************************)
(* The A320 button driver (drivers/input/keyboard/jz_gpio_keys.c) with the *)
(* parts of the kernel its poll function drives: the key bits of the input *)
(* core, the SysRq requests, and the pdflush workers that carry out an     *)
(* emergency sync or remount.                                              *)
(*                                                                         *)
(* The driver is a polled input device: every SCAN_INTERVAL the ipolldevd  *)
(* work queue calls jz_kbd_poll, which samples the twelve buttons (s) and  *)
(* the power slider (p).  One Poll step is one call; the samples are free, *)
(* since nothing constrains what the user does between two polls.          *)
(***************************************************************************)
EXTENDS Integers, Sequences, FiniteSets

CONSTANTS
    jz_button,      \* the button table: records with ncode, scode and sysrq
    SYSRQ_ALT,      \* index of the alternate SysRq button (START)
    KEY_POWER,      \* the key code of the power key
    POWER_COUNT,    \* polls before KEY_POWER     (source: 2000 / 20 = 100)
    REBOOT_COUNT,   \* polls before a forced boot (source: 5000 / 20 = 250)
    Worker          \* the pdflush threads

NoCode == 0         \* the zero of an entry the table leaves out
NoReq  == "none"
Request == {"s", "u", "e", "i", "b"}
Button == DOMAIN jz_button

\* jz_kbd_init: the key codes the device declares in input_dev->keybit.
keybit == ({jz_button[b].ncode : b \in Button}
             \cup {jz_button[b].scode : b \in Button}) \ {NoCode}

\* What the A320 table looks like: no code is used twice, and the requests are
\* listed in the order s, u, ..., b.  KEY_POWER is not in the table.
ASSUME TableAssumption ==
    /\ \A b \in Button : /\ jz_button[b].ncode \in Nat \ {NoCode}
                         /\ jz_button[b].scode \in Nat
                         /\ jz_button[b].sysrq \in Request \cup {NoReq}
    /\ \A b, c \in Button : /\ jz_button[b].ncode = jz_button[c].ncode => b = c
                            /\ jz_button[b].ncode # jz_button[c].scode
                            /\ jz_button[b].scode = jz_button[c].scode
                                 => b = c \/ jz_button[b].scode = NoCode
    /\ \A b, c \in Button : jz_button[b].sysrq = "b" /\ b < c => jz_button[c].sysrq = NoReq
    /\ \A b, c \in Button : jz_button[b].sysrq = "s" /\ jz_button[c].sysrq = "u" => b < c
    /\ SYSRQ_ALT \in Button
    /\ KEY_POWER \in Nat \ keybit /\ KEY_POWER # NoCode
ASSUME CountAssumption ==
    /\ POWER_COUNT \in Nat \ {0}
    /\ REBOOT_COUNT \in Nat
    /\ POWER_COUNT < REBOOT_COUNT

VARIABLES
    normal_state,   \* buttons down at the last poll without the slider
    special_state,  \* buttons down at the last poll with the slider
    sysrq_state,    \* buttons down at the last poll with slider and SYSRQ_ALT
    power_state,    \* the slider at the last poll outside the SysRq mode
    power_count,    \* polls the slider has been down alone, 0 when stopped
    key,            \* input core: the bits of dev->key, the keys that are down
    passed,         \* events the last poll passed on to the input handlers
    machine,        \* running, or why it is restarting
    worker,         \* what each pdflush thread is doing
    alone,          \* history: consecutive polls of slider and no button
    held,           \* history: buttons down in every poll since their request
    tick            \* flips in every poll, so that no poll is a stuttering step

kbdVars  == <<normal_state, special_state, sysrq_state, power_state, power_count>>
history  == <<alone, held>>
vars     == <<kbdVars, key, passed, machine, worker, history, tick>>

Job == {"idle", "writeback", "do_sync", "do_emergency_remount"}
AloneCap == REBOOT_COUNT + 1        \* the history counter saturates here

\* The driver's words, the input core and the pdflush threads are well formed; in
\* particular power_count of jz_kbd_poll never runs past REBOOT_COUNT.
TypeOK ==
    /\ normal_state \in SUBSET Button
    /\ special_state \in SUBSET Button
    /\ sysrq_state \in SUBSET Button
    /\ power_state \in BOOLEAN
    /\ power_count \in 0..REBOOT_COUNT
    /\ key \in SUBSET keybit
    /\ passed \in SUBSET (keybit \X {0, 1})
    /\ machine \in {"running", "sysrq", "forced"}
    /\ worker \in [Worker -> Job]
    /\ alone \in 0..AloneCap /\ held \in SUBSET Button
    /\ tick \in BOOLEAN

-----------------------------------------------------------------------------
(* The input core: input_report_key -> input_event -> input_handle_event.  *)

\* The EV_KEY case of input_handle_event: an event is passed on only when the
\* device declares the key and the key changes.
Handled(ev) == ev[1] \in keybit /\ (ev[2] = 1 <=> ev[1] \notin key)

\* MUTANT: a release is passed on without clearing the bit of the key.
ReportKeysNoRelease(evs, pulses) ==
    LET new == {ev \in evs : Handled(ev)} IN
    /\ passed' = new \cup ((pulses \cap keybit) \X {0, 1})
    /\ key' = key \cup {ev[1] : ev \in {e \in new : e[2] = 1}}

\* All the key events of one poll, which name different keys, and the keys
\* that are pressed and released within it.
ReportKeys(evs, pulses) ==
    LET new == {ev \in evs : Handled(ev)} IN
    /\ passed' = new \cup ((pulses \cap keybit) \X {0, 1})
    /\ key' = (key \cup {ev[1] : ev \in {e \in new : e[2] = 1}})
                 \ {ev[1] : ev \in {e \in new : e[2] = 0}}

-----------------------------------------------------------------------------
(* SysRq: __handle_sysrq calls the handler of the request at once; sync and *)
(* remount only hand their function to an idle pdflush thread.              *)

\* pdflush_operation: the work is dropped (-1) when no thread is idle.
pdflush_operation(w, fn) ==
    IF \E t \in Worker : w[t] = "idle"
    THEN {[w EXCEPT ![t] = fn] : t \in {u \in Worker : w[u] = "idle"}}
    ELSE {w}

\* emergency_sync, emergency_remount
emergency(W, reqs, r, fn) ==
    IF r \in reqs THEN UNION {pdflush_operation(w, fn) : w \in W} ELSE W

\* The requests of one poll, handled in table order.  'e' and 'i' signal
\* processes and change nothing here; 'b' never returns (see Poll).
handle_sysrq(reqs) ==
    worker' \in emergency(emergency({worker}, reqs, "s", "do_sync"),
                          reqs, "u", "do_emergency_remount")

-----------------------------------------------------------------------------
(* jz_kbd_poll                                                              *)

Changed(s, old) == (s \ old) \cup (old \ s)                       \* x = s ^ old

\* The events of the for loop over the changed buttons that have a code.
Events(s, old, code) ==
    {<<code[b], IF b \in s THEN 1 ELSE 0>> : b \in {c \in Changed(s, old) : code[c] # NoCode}}

ncodes == [b \in Button |-> jz_button[b].ncode]
scodes == [b \in Button |-> jz_button[b].scode]

\* MUTANT: the poll also forgets the buttons of the SysRq mode.
PollNormalForgets(s) ==
    /\ ReportKeys(Events(s, normal_state, ncodes), {})
    /\ normal_state' = s
    /\ sysrq_state' = {}
    /\ power_count' = 0
    /\ power_state' = FALSE
    /\ UNCHANGED <<special_state, machine, worker>>

\* A poll in which the slider is not pressed.
PollNormal(s) ==
    /\ ReportKeys(Events(s, normal_state, ncodes), {})
    /\ normal_state' = s
    /\ power_count' = 0
    /\ power_state' = FALSE
    /\ UNCHANGED <<special_state, sysrq_state, machine, worker>>

\* The buttons whose press the SysRq mode sees and that stand for a request.
Asking(s) == {b \in s \ sysrq_state : jz_button[b].sysrq # NoReq}

\* A poll in which the slider and SYSRQ_ALT are pressed.  A reboot request is
\* the last one of the table and does not return to the driver.
PollSysrq(s) ==
    LET reqs == {jz_button[b].sysrq : b \in Asking(s)} IN
    /\ handle_sysrq(reqs)
    /\ passed' = {}
    /\ IF "b" \in reqs
       THEN machine' = "sysrq" /\ UNCHANGED <<sysrq_state, power_count>>
       ELSE /\ sysrq_state' = s
            /\ power_count' = 0
            /\ UNCHANGED machine
    /\ UNCHANGED <<normal_state, special_state, power_state, key>>

\* The slider has been held alone for REBOOT_COUNT polls.
RebootDue == power_state /\ power_count = REBOOT_COUNT

\* After POWER_COUNT polls the power key is pressed and released at once.
PowerPulse == IF power_state /\ power_count = POWER_COUNT THEN {KEY_POWER} ELSE {}

\* MUTANT: a button does not stop the counter.
NextCountAnyButton(s) ==
    IF ~power_state THEN 1
    ELSE IF power_count > 0 THEN power_count + 1 ELSE 0

\* MUTANT: the counter stops counting when it has reported the power key.
NextCountStuck(s) ==
    IF s # {} THEN 0
    ELSE IF ~power_state THEN 1
    ELSE IF power_count \in 1..POWER_COUNT THEN power_count + 1 ELSE power_count

\* The slider counter: started by the poll that sees the slider come down,
\* then incremented, and stopped by any button.
NextCount(s) ==
    IF s # {} THEN 0
    ELSE IF ~power_state THEN 1
    ELSE IF power_count > 0 THEN power_count + 1 ELSE 0

\* A poll in which the slider is pressed and SYSRQ_ALT is not.  The forced
\* reboot does not return to the driver.
PollSpecial(s) ==
    /\ ReportKeys(Events(s, special_state, scodes), PowerPulse)
    /\ IF RebootDue
       THEN /\ handle_sysrq({"s", "u", "b"})
            /\ machine' = "forced"
            /\ UNCHANGED kbdVars
       ELSE /\ power_count' = NextCount(s)
            /\ special_state' = s
            /\ power_state' = TRUE
            /\ UNCHANGED <<normal_state, sysrq_state, machine, worker>>

jz_kbd_poll(s, p) ==
    CASE ~p                       -> PollNormal(s)
      [] p /\ SYSRQ_ALT \in s     -> PollSysrq(s)
      [] p /\ SYSRQ_ALT \notin s  -> PollSpecial(s)

\* The history variable: how long the slider has been down with no button.
CountAlone(s, p) ==
    alone' = IF p /\ s = {} THEN IF alone < AloneCap THEN alone + 1 ELSE AloneCap
             ELSE 0

\* The history variable: the buttons that made their request and have been down
\* in every poll since, whatever the mode of the poll.
Hold(s, p) ==
    held' = (held \cap s) \cup (IF p /\ SYSRQ_ALT \in s THEN Asking(s) ELSE {})

\* input_polled_device_work: one call of the poll function, samples s and p.
Poll(s, p) ==
    /\ machine = "running"
    /\ jz_kbd_poll(s, p)
    /\ CountAlone(s, p)
    /\ Hold(s, p)
    /\ tick' = ~tick

-----------------------------------------------------------------------------
(* The rest of the machine.                                                *)

\* wakeup_pdflush and the periodic kupdate hand writeback to an idle thread.
StartWriteback(t) ==
    /\ machine = "running" /\ worker[t] = "idle"
    /\ worker' = [worker EXCEPT ![t] = "writeback"]
    /\ UNCHANGED <<kbdVars, key, passed, machine, history, tick>>

\* __pdflush: a thread finishes its function and goes back to the idle list.
\* What the function did to the discs is the business of fs/ and not modelled.
FinishWork(t) ==
    /\ machine = "running" /\ worker[t] # "idle"
    /\ worker' = [worker EXCEPT ![t] = "idle"]
    /\ UNCHANGED <<kbdVars, key, passed, machine, history, tick>>

Init ==
    /\ normal_state = {} /\ special_state = {} /\ sysrq_state = {}
    /\ power_state = FALSE /\ power_count = 0
    /\ key = {} /\ passed = {}
    /\ machine = "running"
    /\ worker = [t \in Worker |-> "idle"]
    /\ alone = 0 /\ held = {} /\ tick = FALSE

\* jz_restart arms the watchdog and spins; the reset boots the machine again.
\* No thread runs in between: the kernel is built without preemption.
Restart ==
    /\ machine # "running"
    /\ normal_state' = {} /\ special_state' = {} /\ sysrq_state' = {}
    /\ power_state' = FALSE /\ power_count' = 0
    /\ key' = {} /\ passed' = {}
    /\ machine' = "running"
    /\ worker' = [t \in Worker |-> "idle"]
    /\ alone' = 0 /\ held' = {} /\ tick' = FALSE

Next ==
    \/ \E s \in SUBSET Button, p \in BOOLEAN : Poll(s, p)
    \/ \E t \in Worker : StartWriteback(t) \/ FinishWork(t)
    \/ Restart

Spec == Init /\ [][Next]_vars

\* The work queue keeps polling and the watchdog expires; the user, the pdflush
\* threads and the other processes owe nothing.
FairSpec ==
    /\ Spec
    /\ WF_vars(\E s \in SUBSET Button, p \in BOOLEAN : Poll(s, p))
    /\ WF_vars(Restart)
-----------------------------------------------------------------------------
(* Properties                                                              *)

codes(states, code) == {code[b] : b \in states} \ {NoCode}

\* The keys the input core believes to be down are exactly those of the
\* buttons in the two state words the driver compares the next samples with:
\* no press or release is ever lost or reported twice between jz_kbd_poll and
\* input_handle_event, over any sequence of slider and button movements.
KeyMirror ==
    machine = "running" =>
        key = codes(normal_state, ncodes) \cup codes(special_state, scodes)

\* While the slider counter of jz_kbd_poll runs it counts exactly the polls in
\* which the slider has been down with no button, however modes were mixed.
CountIsAlone ==
    machine = "running" =>
        /\ power_count > 0 => power_state /\ power_count = alone
        /\ alone > 0 => power_state

\* Request r takes effect in a step: a pdflush thread is given its function, or
\* the machine is rebooted.
TakesEffect(r) ==
    CASE r = "s" -> \E t \in Worker : worker[t] # "do_sync" /\ worker'[t] = "do_sync"
      [] r = "u" -> \E t \in Worker : /\ worker[t] # "do_emergency_remount"
                                     /\ worker'[t] = "do_emergency_remount"
      [] r = "b" -> machine = "running" /\ machine' # "running"

\* Outside the forced reboot, a sync, a remount or a reboot happens only because
\* a button was pressed for it since it last asked: a button that is held never
\* asks twice, although the word it is compared with, sysrq_state of jz_kbd_poll,
\* is that of the last SysRq poll and any number of other polls may lie between.
HeldAsksOnce ==
    [][machine' # "forced" =>
         \A r \in {"s", "u", "b"} : TakesEffect(r) =>
           \E b \in held' \ held : jz_button[b].sysrq = r]_vars

\* The forced reboot of jz_kbd_poll happens only after the slider was sampled
\* down, with no button, in REBOOT_COUNT polls in a row.
ForcedRebootOnlyHeld ==
    [][machine = "running" /\ machine' = "forced" => alone >= REBOOT_COUNT]_vars

\* A slider counter that runs is either stopped by the user or ends in a
\* restart of the machine: it never gets stuck at some value.
HeldReboots == power_count > 0 ~> (power_count = 0 \/ machine # "running")

=============================================================================
