--------------------------- MODULE MCGatewayChain ----------------------------
(* Packets of each kind the relay tells apart, for GatewayChain. *)
EXTENDS GatewayChain

CONSTANTS a, b

Record(number, services) == [type |-> "appdata", pid |-> number, services |-> services]
Service(number, pair, items) == [number |-> number, pair |-> pair, items |-> items]

MCRecords ==
    {Record(0, <<Service(3, "teledata", <<"other">>), Service(0, "teledata", <<"other", "confirmation">>)>>),
     Record(1, <<Service(0, "auth", <<b, a>>), Service(1, "teledata", <<"other">>)>>)}

=============================================================================
