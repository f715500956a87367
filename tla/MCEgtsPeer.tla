----------------------------- MODULE MCEgtsPeer ------------------------------
(* Packets of each kind the relay tells apart, for EgtsPeer. *)
EXTENDS EgtsPeer

CONSTANTS a, b

Record(pid, services) == [type |-> "appdata", pid |-> pid, services |-> services]
Service(number, pair, items) == [number |-> number, pair |-> pair, items |-> items]

MCRecords ==
    {Record(0, <<Service(3, "teledata", <<"other">>), Service(3, "second", <<"other", "other">>)>>),
     Record(1, <<Service(0, "auth", <<a>>), Service(1, "teledata", <<"confirmation">>)>>),
     Record(2, <<Service(1, "auth", <<"right">>)>>)}

=============================================================================
