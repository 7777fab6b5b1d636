------------------------------- MODULE MCJzMmc -------------------------------
(* Instances of JzMmc for TLC: one request of each kind.                    *)
EXTENDS JzMmc

Command(op, n) == [op |-> op, data |-> "none", stop |-> FALSE, retries |-> n]

MCRequests ==
    {Command("plain", 2), Command("r3", 0), Command("cid", 1), Command("sdio", 1),
     Command("width", 0)}
    \cup [op : {"read"}, data : {"read"}, stop : BOOLEAN, retries : {0}]
    \cup [op : {"write"}, data : {"write"}, stop : BOOLEAN, retries : {0}]
    \cup [op : {"switch"}, data : {"read"}, stop : {FALSE}, retries : {0}]
=============================================================================
