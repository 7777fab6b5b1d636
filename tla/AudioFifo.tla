------------------------------ MODULE AudioFifo ------------------------------
(***************************************************************************)
(* What /dev/dsp promises to a program that plays sound: fragments are     *)
(* heard once each, in the order in which they were accepted, at most      *)
(* Capacity of them are pending, and what has not been heard is dropped    *)
(* only when the device is closed.  Whether a fragment is heard with all   *)
(* its samples is not promised if MayTear is TRUE.  To a program that      *)
(* records the device promises the same, with the codec as the one that    *)
(* writes and the program as the one that hears.                           *)
(***************************************************************************)
EXTENDS Naturals, Sequences

CONSTANTS Data, Capacity, Silence, MayTear

VARIABLES
    opened,     \* a program has the device open
    pending,    \* fragments accepted and not heard yet, oldest first
    heard,      \* the last fragment that was heard
    torn        \* some of its samples were not its own

fifoVars == <<opened, pending, heard, torn>>

Init ==
    /\ opened = FALSE
    /\ pending = <<>>
    /\ heard = Silence
    /\ torn = FALSE

Open ==
    /\ ~opened
    /\ opened' = TRUE
    /\ pending' = <<>>
    /\ UNCHANGED <<heard, torn>>

Accept ==
    /\ opened
    /\ Len(pending) < Capacity
    /\ \E d \in Data : pending' = Append(pending, d)
    /\ UNCHANGED <<opened, heard, torn>>

Play ==
    /\ opened
    /\ pending # <<>>
    /\ heard' = Head(pending)
    /\ torn' \in IF MayTear THEN BOOLEAN ELSE {FALSE}
    /\ pending' = Tail(pending)
    /\ UNCHANGED opened

Close ==
    /\ opened
    /\ opened' = FALSE
    /\ pending' = <<>>
    /\ UNCHANGED <<heard, torn>>

Next == Open \/ Accept \/ Play \/ Close

Safety == Init /\ [][Next]_fifoVars

\* The codec keeps consuming while there is something to hear.
Spec == Safety /\ WF_fifoVars(Play)
=============================================================================
