----------------------------- MODULE MCDumpFile -----------------------------
(* Configurations, layouts and dumps of earlier releases, for DumpFile. *)
EXTENDS DumpFile

CONSTANTS p, m, a, b

Cfg(local, log, egts, rabbitmq, valkey, capacity, dump) ==
    [stdout |-> "stdout" \in local, file |-> "file" \in local, log |-> log,
     sound |-> TRUE, egts |-> egts, rabbitmq |-> rabbitmq, valkey |-> valkey, capacity |-> capacity,
     directory |-> [dump |-> dump, logs |-> "logs", packets |-> "packets"]]

MCConfigs ==
    {Cfg({"stdout"}, "stderr", {b}, {}, {}, 2, "queue"),
     Cfg({"stdout", "file"}, "file", {a}, {}, {}, 2, "alias"),
     Cfg({"file"}, "stdout", {}, {a}, {}, 1, "queue"),
     Cfg({"stdout"}, "stderr", {a}, {}, {a}, 2, "spare"),
     Cfg({}, "stderr", {a, b}, {a}, {a}, 2, "queue"),
     Cfg({"stdout"}, "stdout", {}, {}, {}, 2, "queue"),
     Cfg({"stdout"}, "stderr", {}, {}, {}, 0, "spare"),
     [Cfg({"stdout"}, "file", {b}, {}, {}, 2, "queue") EXCEPT !.sound = FALSE]}

\* "alias" is a symbolic link to the directory "queue".
Layout(packets, odd, linked) ==
    [path |-> [queue |-> <<"data", "queue">>, alias |-> <<"data", "queue">>, spare |-> <<"data", "spare">>,
               logs |-> <<"data", "logs">>, packets |-> packets],
     odd |-> odd, linked |-> linked]
Apart == <<"data", "packets">>
MCLayouts ==
    {Layout(Apart, {}, {}), Layout(Apart, {"logs"}, {}), Layout(Apart, {"logs"}, {{"stderr", "dump"}}),
     Layout(<<"data", "queue", "sub">>, {}, {})} \union
    {Layout(Apart, {}, {{"stdout", "stderr"}, {"stdout", "dump"}, {"stderr", "dump"}})} \union
    {Layout(Apart, {}, {{f, "dump"}}) : f \in {"stdout", "stderr", "packets"}}

MCEarlier ==
    {NoDump,
     [exists |-> TRUE, intact |-> TRUE, version |-> 2,
      items |-> {[packet |-> p, left |-> {<<"stdout">>}, legacy |-> TRUE]}]}
=============================================================================
