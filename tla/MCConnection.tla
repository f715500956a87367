---------------------------- MODULE MCConnection ----------------------------
(* Packets of each kind the handler tells apart, for Connection. *)
EXTENDS Connection

CONSTANTS a, b

Appdata(services) == [type |-> "appdata", broken |-> FALSE, services |-> services]
Auth(items) == [pair |-> "auth", items |-> items]
Tele(items) == [pair |-> "teledata", items |-> items]

MCInputs ==
    {[type |-> "other", broken |-> FALSE, services |-> <<>>],
     [type |-> "appdata", broken |-> TRUE, services |-> <<>>],
     Appdata(<<>>),
     Appdata(<<Auth(<<a>>)>>),
     Appdata(<<Auth(<<a, b>>), Auth(<<"right">>)>>),
     Appdata(<<Auth(<<"right">>), Tele(<<"other">>)>>),
     Appdata(<<Auth(<<"right", "wrong">>)>>),
     Appdata(<<Auth(<<"sequenced">>)>>),
     Appdata(<<Auth(<<b>>), Tele(<<"other">>)>>),
     Appdata(<<Tele(<<"other">>), Tele(<<"confirmation">>)>>)}

=============================================================================
