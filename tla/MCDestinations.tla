--------------------------- MODULE MCDestinations ----------------------------
(* Messages for the brokers and stdout, packets of each kind the EGTS destination *)
(* tells apart.                                                                    *)
EXTENDS Destinations, Sequences

CONSTANTS a, b, m1, m2

Record(pid, services) == [type |-> "appdata", pid |-> pid, services |-> services]
Service(number, pair, items) == [number |-> number, pair |-> pair, items |-> items]

MCRecords ==
    {Record(0, <<Service(3, "teledata", <<"other">>), Service(3, "second", <<"other", "other">>)>>),
     Record(1, <<Service(0, "auth", <<a>>), Service(1, "teledata", <<"confirmation">>)>>),
     Record(2, <<Service(1, "auth", <<"right">>)>>)}

=============================================================================
