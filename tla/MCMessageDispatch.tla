------------------------- MODULE MCMessageDispatch -------------------------
(* Instances of MessageDispatch for TLC.                                   *)
EXTENDS MessageDispatch

Item(name) == [corr |-> TRUE, name |-> name]
Broken == [corr |-> FALSE, name |-> OTA]

(* Messages of one command, of two, and malformed ones.                    *)
SomeContents ==
    {[topic |-> t, items |-> <<Item(n)>>] :
        t \in {"command", "config"}, n \in Names}
    \union {[topic |-> "command", items |-> <<Item(n), Item(k)>>] :
               n \in {OTA, LOGS}, k \in Names}
    \union {[topic |-> "command", items |-> <<Item(n), Broken>>] :
               n \in {OTA, "other"}}

(* Messages of one named command.                                          *)
NamedCommands ==
    {[topic |-> "command", items |-> <<Item(n)>>] : n \in Names \ {NoName}}
=============================================================================
