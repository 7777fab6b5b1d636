----------------------------- MODULE MCMininit -----------------------------
(* Command lines of up to three of six parameters, and longer ones that     *)
(* begin with a boot parameter, for a table with room for three.            *)
EXTENDS Mininit

Param(key, toks) == [key |-> key, toks |-> toks]
Pool == {Param("boot", <<"sd", "nand">>), Param("root", <<"nand", "loop0">>),
         Param("root", <<"sd", "nand">>), Param("loop", <<"loop0">>),
         Param("init", <<"linuxrc">>), Param("init", <<"sh">>)}
MCCmdlines == UNION {[1 .. n -> Pool] : n \in 0 .. 3}
              \cup {l \in [1 .. 4 -> Pool] : l[1].key = "boot"}
MCInits == <<"init", "sh">>
=============================================================================
