------------------------------ MODULE DumpFile ------------------------------
(***************************************************************************)
(* The queue dump across changes of the configuration: gateway/server/     *)
(* dump.go under gateway/configuration. Between two runs of the gateway    *)
(* its operator changes destinations, limits and directories, redirects    *)
(* stdout and stderr and links files, and a dump may come from an earlier  *)
(* release (versions 1 and 2). restoreDump refuses a dump that does not    *)
(* fit the configuration, saveDump chooses the version of a new one.       *)
(*                                                                         *)
(* Module Gateway has the steps of a save, its errors and the interleaving *)
(* with the rest of the server; here a save is one step.                   *)
(***************************************************************************)
EXTENDS Integers, FiniteSetsExt, Outputs

CONSTANTS
    Packets,   \* the packets terminals send
    Data,      \* packets shouldRelay forwards
    Mixed,     \* packets that carry data and incoming credentials
    Ids,       \* IDs of destinations, of every kind
    Configs,   \* configurations the operator uses
    Layouts,   \* layouts of the file system
    Earlier    \* dumps an earlier release may have left, or none

Kinds == {"egts", "rabbitmq", "valkey"}

\* A target is <<"stdout">>, <<"file">> or a kind of destination and an ID.
Targets(cfg) ==
    {<<o>> : o \in {x \in {"stdout", "file"} : cfg[x]}} \union
    {t \in Kinds \X Ids : t[2] \in cfg[t[1]]}
AnyTarget == {<<"stdout">>, <<"file">>} \union (Kinds \X Ids)

\* An item of the queue, and of a dump: a packet and the targets it still waits for.
\* Version 2 has one flag, "legacy", for the only EGTS relay of its release.
Items == [packet : Packets, left : SUBSET AnyTarget, legacy : BOOLEAN]
NoDump == [exists |-> FALSE, intact |-> TRUE, version |-> 0, items |-> {}]

\* "sound" stands for every other value that is checked before the outputs are.
ValuesRight(c) == c.sound /\ c.capacity >= 1 /\ Targets(c) # {}

DumpPlaces == {Place(c, l, "dump") : c \in Configs, l \in Layouts}

ASSUME ConfigAssumption ==
    /\ \A c \in Configs :
         /\ c.stdout \in BOOLEAN /\ c.file \in BOOLEAN /\ c.log \in {"stdout", "stderr", "file"}
         /\ \A k \in Kinds : c[k] \subseteq Ids
         /\ c.sound \in BOOLEAN /\ c.capacity \in Int
    /\ Data \subseteq Packets /\ Mixed \subseteq Packets \ Data
ASSUME LayoutAssumption ==
    \A l \in Layouts : l = [path |-> l.path, odd |-> l.odd, linked |-> l.linked]
ASSUME EarlierAssumption ==
    \A d \in Earlier :
        \/ d = NoDump
        \/ /\ d \in [exists : BOOLEAN, intact : BOOLEAN, version : {1, 2}, items : SUBSET Items]
           /\ d.intact /\ \A i \in d.items : i.left \subseteq {<<"stdout">>, <<"file">>} /\ (i.left # {} \/ i.legacy)

VARIABLES
    cfg,      \* the configuration
    layout,   \* the layout of the file system
    up,       \* the gateway runs
    queue,    \* s.queue
    hasDump,  \* s.hasDump
    saving,   \* a delivery was made that the dump does not show yet
    dumps,    \* the dump in each directory
    sent,     \* packets terminals have sent
    owed,     \* deliveries promised, neither made nor lost with the process
    saved,    \* those among them that a dump was written for
    spoiled   \* dumps that were stderr when an error was found too early

memory == <<queue, hasDump, saving>>
history == <<sent, owed, saved, spoiled>>
vars == <<cfg, layout, up, memory, dumps, history>>

----------------------------------------------------------------------------
Here == Place(cfg, layout, "dump")
OfKind(targets, kind) == {t \in targets : t[1] = kind}

\* Configuration.Validate: the values, then the outputs. An error in a value, or in
\* reading what the outputs are, is found before anyone knows where stderr leads.
FoundEarly == ~ValuesRight(cfg) \/ ~Readable(cfg, layout)
Validate == ValuesRight(cfg) /\ ValidateOutputs(cfg, layout)

\* enqueue: an EGTS relay only gets packets with data.
Wants(p) == {t \in Targets(cfg) : t[1] = "egts" => p \in Data}

\* saveDump: the version is the one that introduced the newest kind in use.
Since == [egts |-> 3, rabbitmq |-> 4, valkey |-> 5]
MutantVersion == Max({1} \union {Since[k] : k \in {x \in {"egts", "rabbitmq"} : cfg[x] # {}}})
Version == Max({1} \union {Since[k] : k \in {x \in Kinds : cfg[x] # {}}})

\* restoreDump: the deliveries an item brings back, and what is checked before.
Left(c, item) == item.left \union (IF item.legacy THEN {"egts"} \X c.egts ELSE {})
Accepts(c, dump) ==
    /\ dump.intact
    /\ Cardinality(dump.items) <= c.capacity
    /\ \A i \in dump.items :
        /\ Left(c, i) # {} /\ Left(c, i) \subseteq Targets(c)
        /\ \A k \in Kinds : OfKind(i.left, k) # {} => dump.version >= Since[k]
        /\ i.legacy => dump.version = 2 /\ Cardinality(c.egts) = 1
        /\ OfKind(Left(c, i), "egts") # {} => i.packet \in Data

Pairs(items) == UNION {{i.packet} \X i.left : i \in items}

----------------------------------------------------------------------------
Init ==
    /\ cfg \in Configs /\ layout \in {l \in Layouts : l.linked = {}} /\ up = FALSE
    /\ queue = {} /\ hasDump = FALSE /\ saving = FALSE
    /\ \E d \in Earlier :
         /\ dumps = [x \in DumpPlaces |-> IF x = Here THEN d ELSE NoDump]
         /\ sent = {i.packet : i \in d.items}
         /\ owed = Pairs(d.items) /\ saved = Pairs(d.items)
    /\ spoiled = {}

\* The operator changes the configuration and the layout; a dump can be linked
\* to an output only where there is one.
Reconfigure(c, l) ==
    /\ ~up
    /\ (\E x \in l.linked : "dump" \in x) => dumps[Place(c, l, "dump")].exists
    /\ cfg' = c /\ layout' = l
    /\ UNCHANGED <<up, memory, dumps, history>>

\* Something is written to the given outputs. What a damaged dump was saved with stays
\* in "items", although no process can tell any more.
Written(files) ==
    dumps' = [dumps EXCEPT ![Here].intact =
                @ /\ \A f \in files : {f, "dump"} \notin layout.linked]

\* newServer and restoreDump. A legacy item is owed to the relay there is now.
Relayed(items) == {x \in sent \X AnyTarget : x[2][1] = "egts" /\ \E i \in items : i.legacy /\ i.packet = x[1]}
Start ==
    /\ ~up /\ Validate /\ Accepts(cfg, dumps[Here])
    /\ up' = TRUE
    /\ queue' = {[packet |-> i.packet, left |-> Left(cfg, i), legacy |-> FALSE] : i \in dumps[Here].items}
    /\ hasDump' = dumps[Here].exists /\ saving' = FALSE
    /\ LET legacy == Relayed(dumps[Here].items)
           now == {x \in legacy : x[2] \in Targets(cfg)}
       IN owed' = (owed \ legacy) \union now /\ saved' = (saved \ legacy) \union now
    /\ Written({LogFile(cfg)})
    /\ UNCHANGED <<cfg, layout, sent, spoiled>>

\* Otherwise the error is logged, on stderr as long as there is no logger, and
\* not at all if stderr is a file of another output.
Refused ==
    /\ ~up /\ ~(Validate /\ Accepts(cfg, dumps[Here]))
    /\ \/ Validate /\ Written({LogFile(cfg)})
       \/ ~Validate /\ ~(ValuesRight(cfg) /\ StderrUnsafe(cfg, layout)) /\ Written({"stderr"})
    /\ spoiled' = spoiled \union {d \in {Here} : FoundEarly /\ {"stderr", "dump"} \in layout.linked}
    /\ UNCHANGED <<cfg, layout, up, memory, sent, owed, saved>>

Enqueue(p) ==
    /\ up /\ p \notin sent
    /\ Cardinality(queue) < cfg.capacity
    /\ ~(p \in Mixed /\ cfg.egts # {})
    /\ sent' = sent \union {p}
    /\ queue' = queue \union {[packet |-> p, left |-> Wants(p), legacy |-> FALSE]}
    /\ owed' = owed \union ({p} \X Wants(p))
    /\ Written({LogFile(cfg)})
    /\ UNCHANGED <<cfg, layout, up, hasDump, saving, saved, spoiled>>

\* A target takes a packet; a dump that exists is then written anew.
Deliver(i, t) ==
    /\ up /\ ~saving /\ i \in queue /\ t \in i.left
    /\ queue' = (queue \ {i}) \union {[i EXCEPT !.left = @ \ {t}]}
    /\ saving' = hasDump
    /\ owed' = owed \ {<<i.packet, t>>} /\ saved' = saved \ {<<i.packet, t>>}
    /\ Written({LogFile(cfg)} \union {f \in {"stdout"} : t = <<"stdout">>}
                             \union {f \in {"packets"} : t = <<"file">>})
    /\ UNCHANGED <<cfg, layout, up, hasDump, sent, spoiled>>

\* The loop drops what every target has taken.
Compact ==
    /\ up /\ ~saving /\ \E i \in queue : i.left = {}
    /\ queue' = {i \in queue : i.left # {}}
    /\ UNCHANGED <<cfg, layout, up, hasDump, saving, dumps, history>>

\* saveDump: a new file takes the place of the dump.
Save ==
    LET items == {i \in queue : i.left # {}} IN
    /\ Validate
    /\ dumps' = [dumps EXCEPT ![Here] =
          [exists |-> TRUE, intact |-> TRUE, version |-> Version, items |-> items]]
    /\ layout' = [layout EXCEPT !.linked = {x \in @ : "dump" \notin x}]
    /\ saved' = saved \union (owed \intersect Pairs(items))
    /\ hasDump' = TRUE /\ saving' = FALSE

LoopSave == up /\ saving /\ Save /\ UNCHANGED <<cfg, up, queue, sent, owed, spoiled>>

\* The gateway stops, and saves what is pending, or writes its dump anew.
Stop ==
    /\ up /\ ~saving /\ up' = FALSE
    /\ queue' = {}
    /\ IF queue # {} \/ hasDump THEN Save ELSE UNCHANGED <<layout, dumps, saved, hasDump, saving>>
    /\ UNCHANGED <<cfg, sent, owed, spoiled>>

\* The process is killed: what no dump was written for is lost.
Crash ==
    /\ up /\ up' = FALSE
    /\ queue' = {} /\ hasDump' = FALSE /\ saving' = FALSE
    /\ owed' = owed \intersect saved
    /\ UNCHANGED <<cfg, layout, dumps, sent, saved, spoiled>>

Next ==
    \/ \E c \in Configs, l \in Layouts : Reconfigure(c, l)
    \/ \E p \in Packets : Enqueue(p)
    \/ \E i \in queue : \E t \in i.left : Deliver(i, t)
    \/ Start \/ Refused \/ Compact \/ LoopSave \/ Stop \/ Crash

Spec == Init /\ [][Next]_vars

----------------------------------------------------------------------------
\* A dump has a delivery, or stands for it if it has the flag of version 2.
Has(dump, x) == \E i \in dump.items : i.packet = x[1] /\ (x[2] \in i.left \/ (i.legacy /\ x[2][1] = "egts"))

\* A delivery that was promised is in the queue, or was saved in the dump of some
\* directory that has not been written over: one that is undamaged, or was stderr of a
\* start that failed early (main.go), whatever the operator changed.
OwedKept ==
    \A x \in owed :
        \/ up /\ x \in Pairs(queue)
        \/ \E d \in DumpPlaces : Has(dumps[d], x) /\ (dumps[d].intact \/ d \in spoiled)

\* Nothing but the error of a start that failed early is ever written to a dump: not
\* the log, no packet, and not the error that says an output and the dump are one
\* file (ValidateOutputs, StderrUnsafe). And a dump that has such an error in it is
\* left as it is: no later process restores it or writes its own dump in its place.
OnlyEarlyErrors == \A d \in DumpPlaces : dumps[d].intact <=> d \notin spoiled

\* A dump of this release is accepted by every configuration that has room for it
\* and all the destinations it names ("Keep their IDs enabled in the configuration
\* when restoring a dump", README).
Restorable ==
    \A d \in DumpPlaces, c \in Configs :
        LET dump == dumps[d] IN
        /\ dump.intact /\ Cardinality(dump.items) <= c.capacity
        /\ \A i \in dump.items : ~i.legacy /\ i.left \subseteq Targets(c)
        => Accepts(c, dump)

\* What dumps are for: they keep what is owed, undamaged as far as main can tell, for
\* every process that may restore it.
DumpServes == OwedKept /\ OnlyEarlyErrors /\ Restorable

=============================================================================
