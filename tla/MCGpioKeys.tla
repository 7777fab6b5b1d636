----------------------------- MODULE MCGpioKeys -----------------------------
(***************************************************************************)
(* Three of the twelve buttons: one with a code, a special code and an     *)
(* emergency request (DOWN), one with a plain code (START, the SysRq       *)
(* button) and the one that requests a reboot (SELECT).  The key codes are *)
(* those of include/linux/input.h.                                         *)
(***************************************************************************)
EXTENDS GpioKeys

mc_button ==
    << [ncode |-> 108, scode |-> 114, sysrq |-> "u"],      \* KEY_DOWN
       [ncode |-> 28,  scode |-> NoCode, sysrq |-> NoReq], \* KEY_ENTER
       [ncode |-> 1,   scode |-> 139, sysrq |-> "b"] >>    \* KEY_ESC
=============================================================================
