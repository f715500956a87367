--------------------------- MODULE DumpFileProofs ---------------------------
(***************************************************************************)
(* Proofs about DumpFile for all configurations, layouts, packets and      *)
(* dumps of earlier releases: no promised delivery is left behind by a     *)
(* change of the configuration, and no dump turns unreadable but by the    *)
(* error of a start that fails before the outputs are compared.            *)
(***************************************************************************)
EXTENDS DumpFile, TLAPS

----------------------------------------------------------------------------
\* The inductive invariant.

Dumps == [exists : BOOLEAN, intact : BOOLEAN, version : Int, items : SUBSET Items]

\* What is in memory while the gateway runs fits its configuration ...
Fits(c, i) ==
    /\ i \in Items /\ ~i.legacy /\ i.left \subseteq Targets(c)
    /\ OfKind(i.left, "egts") # {} => i.packet \in Data

\* ... and what is in a dump fits its version.
Sound(dump, i) ==
    i.legacy \/ ( /\ i.left # {}
                  /\ \A k \in Kinds : OfKind(i.left, k) # {} => dump.version >= Since[k]
                  /\ OfKind(i.left, "egts") # {} => i.packet \in Data )

InDump(x) == \E d \in DumpPlaces : Has(dumps[d], x)

World ==
    /\ cfg \in Configs /\ up \in BOOLEAN
    /\ \E l \in Layouts : /\ l.path = layout.path /\ l.odd = layout.odd
                          /\ layout.linked \subseteq l.linked
    /\ layout = [path |-> layout.path, odd |-> layout.odd, linked |-> layout.linked]
    /\ dumps \in [DumpPlaces -> Dumps]
    /\ sent \subseteq Packets
    /\ owed \subseteq sent \X AnyTarget /\ saved \subseteq owed

\* A running gateway has restored its dump, or found none.
Undamaged == OnlyEarlyErrors /\ (up => dumps[Here].intact)

Contents ==
    /\ up => Validate /\ \A i \in queue : Fits(cfg, i)
    /\ \A d \in DumpPlaces : \A i \in dumps[d].items : Sound(dumps[d], i)

Promises ==
    /\ \A x \in owed : (up /\ x \in Pairs(queue)) \/ InDump(x)
    /\ \A x \in saved : InDump(x)
    /\ up => \A x \in owed : Has(dumps[Here], x) => x \in Pairs(queue)

IInv == World /\ Undamaged /\ Contents /\ Promises

----------------------------------------------------------------------------
LEMMA HerePlace ==
    ASSUME World
    PROVE  Here \in DumpPlaces
BY DEF World, Here, Place, DumpPlaces

LEMMA PairsOfItem ==
    ASSUME NEW items, NEW x
    PROVE  x \in Pairs(items) <=> \E i \in items : x \in {i.packet} \X i.left
BY DEF Pairs

\* No output that passed ValidateOutputs is the dump.
LEMMA Unlinked ==
    ASSUME World, Validate
    PROVE  /\ {LogFile(cfg), "dump"} \notin layout.linked
           /\ cfg.stdout => {"stdout", "dump"} \notin layout.linked
           /\ cfg.file => {"packets", "dump"} \notin layout.linked
<1> DEFINE F(f, o) == [file |-> f, owner |-> o]
<1>1. ASSUME NEW f, NEW o, F(f, o) \in OutputFiles(cfg), o # "dump"
      PROVE  {f, "dump"} \notin layout.linked
  <2>1. F("dump", "dump") \in OutputFiles(cfg)
    BY DEF OutputFiles, Directories
  <2>2. SUFFICES ASSUME {f, "dump"} \in layout.linked PROVE <<F(f, o), F("dump", "dump")>> \in Shared(cfg, layout)
    BY DEF Validate, ValidateOutputs
  <2> QED BY <1>1, <2>1, <2>2 DEF Shared
<1>2. F("stderr", "logs") \in OutputFiles(cfg)
  BY DEF OutputFiles
<1>3. cfg.log = "file" => F("logs", "logs") \in OutputFiles(cfg)
  BY DEF OutputFiles, Directories
<1>4. cfg.file => F("packets", "packets") \in OutputFiles(cfg)
  BY DEF OutputFiles, Directories
<1>5. cfg.stdout => F("stdout", "stdout") \in OutputFiles(cfg)
  BY DEF OutputFiles
<1>6. cfg.log = "stdout" /\ ~cfg.stdout => F("stdout", "logs") \in OutputFiles(cfg)
  BY DEF OutputFiles
<1>7. cfg.log \in {"stdout", "stderr", "file"}
  BY ConfigAssumption DEF World
<1> QED
  BY <1>1, <1>2, <1>3, <1>4, <1>5, <1>6, <1>7 DEF LogFile

\* Nothing is written to the dump, then.
LEMMA Unwritten ==
    ASSUME World, NEW files, Written(files), \A f \in files : {f, "dump"} \notin layout.linked
    PROVE  dumps' = dumps
<1>1. dumps[Here] \in Dumps /\ Here \in DumpPlaces
  BY HerePlace DEF World
<1>2. [dumps[Here] EXCEPT !.intact = @ /\ \A f \in files : {f, "dump"} \notin layout.linked] = dumps[Here]
  BY <1>1 DEF Dumps
<1>3. dumps' = [dumps EXCEPT ![Here] = dumps[Here]]
  BY <1>2 DEF Written
<1> QED BY <1>1, <1>3 DEF World

\* Nothing that is in the dump goes astray when a step leaves the dumps alone.
LEMMA DumpFrame ==
    ASSUME UNCHANGED dumps
    PROVE  \A x : InDump(x)' <=> InDump(x)
BY DEF InDump, Has

LEMMA UndamagedFrame ==
    ASSUME Undamaged, UNCHANGED <<dumps, spoiled>>, up' => up /\ Here' = Here
    PROVE  Undamaged'
BY DEF Undamaged, OnlyEarlyErrors

LEMMA SinceVersion ==
    ASSUME World, NEW k \in Kinds, cfg[k] # {}
    PROVE  Version \in Int /\ Version >= Since[k]
<1> DEFINE S == {1} \union {Since[x] : x \in {y \in Kinds : cfg[y] # {}}}
<1>1. S \subseteq {1, 3, 4, 5} /\ 1 \in S /\ Since[k] \in S
  BY DEF Kinds, Since
<1>2. \E m \in S : \A y \in S : m >= y
  <2>1. CASE 5 \in S BY <1>1, <2>1
  <2>2. CASE 5 \notin S /\ 4 \in S BY <1>1, <2>2
  <2>3. CASE 5 \notin S /\ 4 \notin S /\ 3 \in S BY <1>1, <2>3
  <2>4. CASE 5 \notin S /\ 4 \notin S /\ 3 \notin S BY <1>1, <2>4
  <2> QED BY <2>1, <2>2, <2>3, <2>4
<1>3. Version = CHOOSE m \in S : \A y \in S : m >= y
  BY DEF Version, Max
<1>4. Version \in S /\ \A y \in S : Version >= y
  BY <1>2, <1>3
<1> QED BY <1>1, <1>4

LEMMA VersionInt ==
    ASSUME World
    PROVE  Version \in Int
<1>1. CASE \E k \in Kinds : cfg[k] # {}
  BY <1>1, SinceVersion
<1>2. CASE \A k \in Kinds : cfg[k] = {}
  <2>1. {1} \union {Since[x] : x \in {y \in Kinds : cfg[y] # {}}} = {1}
    BY <1>2
  <2>2. Version = CHOOSE m \in {1} : \A y \in {1} : m >= y
    BY <2>1 DEF Version, Max
  <2>3. 1 >= 1
    OBVIOUS
  <2> QED BY <2>2, <2>3
<1> QED BY <1>1, <1>2

LEMMA InitInv ==
    Init => IInv
<1> SUFFICES ASSUME Init PROVE IInv
  OBVIOUS
<1>1. PICK d \in Earlier :
        /\ dumps = [x \in DumpPlaces |-> IF x = Here THEN d ELSE NoDump]
        /\ sent = {i.packet : i \in d.items}
        /\ owed = Pairs(d.items) /\ saved = Pairs(d.items)
  BY DEF Init
<1>0. NoDump \in Dumps /\ NoDump.items = {} /\ NoDump.intact
  BY DEF Dumps, NoDump
<1>a. \/ d = NoDump
      \/ /\ d \in [exists : BOOLEAN, intact : BOOLEAN, version : {1, 2}, items : SUBSET Items]
         /\ d.intact /\ \A i \in d.items : i.left \subseteq {<<"stdout">>, <<"file">>} /\ (i.left # {} \/ i.legacy)
  BY <1>1, EarlierAssumption
<1>2. d \in Dumps /\ NoDump \in Dumps /\ d.items \subseteq Items
  <2>1. CASE d = NoDump
    BY <1>0, <2>1
  <2>2. CASE d # NoDump
    BY <1>0, <1>a, <2>2 DEF Dumps
  <2> QED BY <2>1, <2>2
<1>3. d.intact /\ \A i \in d.items : i.left \subseteq {<<"stdout">>, <<"file">>} /\ (i.left # {} \/ i.legacy)
  BY <1>0, <1>a
<1>4. Here \in DumpPlaces
  BY DEF Init, Here, Place, DumpPlaces
<1>5. World
  <2>1. Pairs(d.items) \subseteq sent \X AnyTarget
    BY <1>1, <1>2 DEF Pairs, Items
  <2>2. sent \subseteq Packets
    BY <1>1, <1>2 DEF Items
  <2>3. layout \in Layouts /\ cfg \in Configs /\ up = FALSE
    BY DEF Init
  <2>4. dumps \in [DumpPlaces -> Dumps]
    BY <1>1, <1>2
  <2> QED BY <1>1, <2>1, <2>2, <2>3, <2>4, LayoutAssumption DEF World
<1>8. Undamaged
  <2>1. spoiled = {} /\ ~up
    BY DEF Init
  <2> QED BY <1>0, <1>1, <1>3, <2>1 DEF Undamaged, OnlyEarlyErrors
<1>6. Contents
  <2>1. \A i \in d.items : Sound(d, i)
    <3>1. \A i \in d.items, k \in Kinds : OfKind(i.left, k) = {}
      BY <1>3 DEF OfKind, Kinds
    <3> QED BY <1>3, <3>1 DEF Sound, Kinds
  <2>2. \A x \in DumpPlaces : \A i \in dumps[x].items : Sound(dumps[x], i)
    BY <1>1, <2>1 DEF NoDump
  <2>3. ~up
    BY DEF Init
  <2> QED BY <2>2, <2>3 DEF Contents
<1>7. Promises
  <2>1. \A x \in Pairs(d.items) : Has(d, x)
    BY <1>3 DEF Pairs, Has
  <2>2. \A x \in Pairs(d.items) : InDump(x)
    BY <1>1, <1>4, <2>1 DEF InDump
  <2>3. ~up
    BY DEF Init
  <2> QED BY <1>1, <2>2, <2>3 DEF Promises
<1> QED BY <1>5, <1>6, <1>7, <1>8 DEF IInv

\* The operator's changes leave the memory empty and touch no dump.
LEMMA ReconfigureStep ==
    ASSUME IInv, NEW c \in Configs, NEW l \in Layouts, Reconfigure(c, l)
    PROVE  IInv'
<1>1. World'
  BY LayoutAssumption DEF Reconfigure, IInv, World, history
<1>2. UNCHANGED <<dumps, spoiled, owed, saved, up>> /\ up = FALSE
  BY DEF Reconfigure, history, IInv, World
<1>3. Contents'
  BY <1>2 DEF IInv, Contents
<1>4. Promises'
  BY <1>2, DumpFrame DEF IInv, Promises
<1>5. Undamaged'
  BY <1>2, UndamagedFrame DEF IInv
<1> QED BY <1>1, <1>3, <1>4, <1>5 DEF IInv

\* An error that is written to the dump was found early: later ones are not written to
\* a stderr that belongs to another output.
LEMMA TooEarly ==
    ASSUME World, Refused, dumps' # dumps
    PROVE  FoundEarly /\ Written({"stderr"}) /\ {"stderr", "dump"} \in layout.linked
<1>1. ~Validate
  <2>1. SUFFICES ASSUME Validate PROVE FALSE
    OBVIOUS
  <2>2. Written({LogFile(cfg)}) /\ {LogFile(cfg), "dump"} \notin layout.linked
    BY <2>1, Unlinked DEF Refused
  <2> QED BY <2>2, Unwritten
<1>2. ~(ValuesRight(cfg) /\ StderrUnsafe(cfg, layout)) /\ Written({"stderr"})
  BY <1>1 DEF Refused
<1>3. {"stderr", "dump"} \in layout.linked
  BY <1>2, Unwritten
<1>4. Readable(cfg, layout) => StderrUnsafe(cfg, layout)
  <2> DEFINE f == [file |-> "stderr", owner |-> "logs"]
             g == [file |-> "dump", owner |-> "dump"]
  <2>1. f \in OutputFiles(cfg) /\ g \in OutputFiles(cfg)
    BY DEF OutputFiles, Directories
  <2>2. <<f, g>> \in Shared(cfg, layout)
    BY <1>3, <2>1 DEF Shared
  <2>3. <<f, g>>[1].file = "stderr"
    OBVIOUS
  <2> QED BY <2>2, <2>3 DEF StderrUnsafe
<1> QED BY <1>2, <1>3, <1>4 DEF FoundEarly

\* Such an error damages the dump, and no save takes its place.
LEMMA SpoiledStep ==
    ASSUME IInv, Refused, FoundEarly, {"stderr", "dump"} \in layout.linked
    PROVE  /\ dumps' \in [DumpPlaces -> Dumps] /\ OnlyEarlyErrors'
           /\ \A d \in DumpPlaces : dumps'[d].items = dumps[d].items /\ dumps'[d].version = dumps[d].version
<1> DEFINE now == [dumps[Here] EXCEPT !.intact = FALSE]
<1>1. Here \in DumpPlaces /\ dumps \in [DumpPlaces -> Dumps] /\ dumps[Here] \in Dumps
  BY HerePlace DEF IInv, World
<1>2. ~Validate /\ Written({"stderr"})
  BY DEF Refused, FoundEarly, Validate, ValidateOutputs
<1>3. [dumps[Here] EXCEPT !.intact = @ /\ \A f \in {"stderr"} : {f, "dump"} \notin layout.linked] = now
  BY <1>1 DEF Dumps
<1>4. dumps' = [dumps EXCEPT ![Here] = now]
  BY <1>2, <1>3 DEF Written
<1>5. now \in Dumps /\ ~now.intact /\ now.items = dumps[Here].items /\ now.version = dumps[Here].version
  BY <1>1 DEF Dumps
<1> HIDE DEF now
<1>6. dumps'[Here] = now /\ \A d \in DumpPlaces : d # Here => dumps'[d] = dumps[d]
  BY <1>1, <1>4
<1>7. dumps' \in [DumpPlaces -> Dumps]
  BY <1>1, <1>4, <1>5
<1>8. spoiled' = spoiled \union {Here}
  BY DEF Refused
<1>9. OnlyEarlyErrors'
  BY <1>5, <1>6, <1>8 DEF IInv, Undamaged, OnlyEarlyErrors
<1> QED BY <1>5, <1>6, <1>7, <1>9

LEMMA RefusedStep ==
    ASSUME IInv, Refused
    PROVE  IInv'
<1>1. UNCHANGED <<cfg, layout, up, queue, sent, owed, saved>> /\ ~up
  BY DEF Refused, memory
<1>2. /\ dumps' \in [DumpPlaces -> Dumps] /\ OnlyEarlyErrors'
      /\ \A d \in DumpPlaces : dumps'[d].items = dumps[d].items /\ dumps'[d].version = dumps[d].version
  <2>1. CASE FoundEarly /\ {"stderr", "dump"} \in layout.linked
    BY <2>1, SpoiledStep
  <2>2. CASE ~(FoundEarly /\ {"stderr", "dump"} \in layout.linked)
    <3>1. dumps' = dumps
      BY <2>2, TooEarly DEF IInv
    <3>2. spoiled' = spoiled
      BY <2>2 DEF Refused
    <3> QED BY <3>1, <3>2 DEF IInv, World, Undamaged, OnlyEarlyErrors
  <2> QED BY <2>1, <2>2
<1>3. World'
  BY <1>1, <1>2 DEF IInv, World
<1>4. Undamaged'
  BY <1>1, <1>2 DEF Undamaged
<1>5. Contents'
  BY <1>1, <1>2 DEF IInv, Contents, Sound
<1>6. \A x : InDump(x)' <=> InDump(x)
  BY <1>2 DEF InDump, Has
<1>7. Promises'
  BY <1>1, <1>6 DEF IInv, Promises
<1> QED BY <1>3, <1>4, <1>5, <1>7 DEF IInv

LEMMA StartStep ==
    ASSUME IInv, Start
    PROVE  IInv'
<1> DEFINE dump == dumps[Here]
<1>1. /\ ~up /\ up' = TRUE /\ Validate /\ Accepts(cfg, dumps[Here])
      /\ UNCHANGED <<cfg, layout, sent>>
  BY DEF Start
<1>2. dumps' = dumps
  <2>1. {LogFile(cfg), "dump"} \notin layout.linked
    BY <1>1, Unlinked DEF IInv
  <2> QED BY <2>1, Unwritten DEF IInv, Start
<1>3. Here \in DumpPlaces /\ dumps[Here].items \subseteq Items
  BY HerePlace DEF IInv, World, Dumps
<1>4. PICK legacy, now :
        /\ legacy = Relayed(dumps[Here].items)
        /\ now = {x \in legacy : x[2] \in Targets(cfg)}
        /\ owed' = (owed \ legacy) \union now /\ saved' = (saved \ legacy) \union now
  BY DEF Start
<1>5. World'
  BY <1>1, <1>2, <1>4 DEF IInv, World, Relayed
<1>6. \A i \in queue' : Fits(cfg, i)
  <2>1. SUFFICES ASSUME NEW i \in dumps[Here].items
                 PROVE  Fits(cfg, [packet |-> i.packet, left |-> Left(cfg, i), legacy |-> FALSE])
    BY DEF Start
  <2>2. i \in Items /\ Left(cfg, i) \subseteq Targets(cfg)
        /\ (OfKind(Left(cfg, i), "egts") # {} => i.packet \in Data)
    BY <1>1, <1>3 DEF Accepts
  <2>3. Targets(cfg) \subseteq AnyTarget
    BY DEF Targets, AnyTarget
  <2> QED BY <2>2, <2>3 DEF Fits, Items
<1>7. Validate'
  BY <1>1 DEF Validate
<1>8. Contents'
  BY <1>1, <1>2, <1>6, <1>7 DEF IInv, Contents
<1>9. \A x \in now : InDump(x)
  <2>1. SUFFICES ASSUME NEW x \in now PROVE Has(dumps[Here], x)
    BY <1>3 DEF InDump
  <2> QED BY <1>4 DEF Relayed, Has
<1>10. \A x \in owed' : InDump(x)
  BY <1>1, <1>4, <1>9 DEF IInv, Promises
<1>11. \A x \in saved' : InDump(x)
  BY <1>4, <1>9 DEF IInv, Promises
<1>12. ASSUME NEW x \in owed', Has(dumps[Here], x)
       PROVE  x \in Pairs(queue')
  <2>1. PICK i \in dumps[Here].items : i.packet = x[1] /\ (x[2] \in i.left \/ (i.legacy /\ x[2][1] = "egts"))
    BY <1>12 DEF Has
  <2>2. x \in sent \X AnyTarget
    BY <1>4, <1>12 DEF IInv, World, Relayed
  <2>3. x[2] \in Left(cfg, i)
    <3>1. CASE x[2] \in i.left
      BY <3>1 DEF Left
    <3>2. CASE i.legacy /\ x[2][1] = "egts"
      <4>1. x \in legacy
        BY <1>4, <2>1, <2>2, <3>2 DEF Relayed
      <4>2. x[2] \in Targets(cfg)
        BY <1>4, <1>12, <4>1
      <4>3. x[2] \in {"egts"} \X cfg.egts
        <5>1. x[2] \in Kinds \X Ids /\ x[2][2] \in cfg[x[2][1]]
          BY <3>2, <4>2 DEF Targets
        <5> QED BY <3>2, <5>1
      <4> QED BY <3>2, <4>3 DEF Left
    <3> QED BY <2>1, <3>1, <3>2
  <2>4. PICK j : j = [packet |-> i.packet, left |-> Left(cfg, i), legacy |-> FALSE]
    OBVIOUS
  <2>5. j \in queue' /\ x \in {j.packet} \X j.left
    BY <2>1, <2>2, <2>3, <2>4 DEF Start
  <2> QED BY <2>5, PairsOfItem
<1>13. Promises'
  <2>1. \A x : InDump(x)' <=> InDump(x)
    BY <1>2, DumpFrame
  <2>2. (\A x \in owed : Has(dumps[Here], x) => x \in Pairs(queue))'
    BY <1>1, <1>2, <1>12 DEF Here, Has
  <2> QED BY <1>10, <1>11, <2>1, <2>2 DEF Promises
<1>14. Undamaged'
  <2>1. Here' = Here /\ spoiled' = spoiled /\ dumps[Here].intact
    BY <1>1 DEF Here, Start, Accepts
  <2> QED BY <1>2, <2>1 DEF IInv, Undamaged, OnlyEarlyErrors
<1> QED BY <1>5, <1>8, <1>13, <1>14 DEF IInv

\* A new delivery is in the queue, and none but the packet's own.
LEMMA EnqueueStep ==
    ASSUME IInv, NEW p \in Packets, Enqueue(p)
    PROVE  IInv'
<1> DEFINE new == {p} \X Wants(p)
<1>1. /\ up /\ up' = TRUE /\ p \notin sent /\ sent' = sent \union {p}
      /\ queue' = queue \union {[packet |-> p, left |-> Wants(p), legacy |-> FALSE]}
      /\ owed' = owed \union new /\ saved' = saved
      /\ cfg' = cfg /\ layout' = layout
  BY DEF Enqueue, IInv, World
<1>2. Validate
  BY <1>1 DEF IInv, Contents
<1>3. dumps' = dumps
  <2>1. {LogFile(cfg), "dump"} \notin layout.linked
    BY <1>2, Unlinked DEF IInv
  <2> QED BY <2>1, Unwritten DEF IInv, Enqueue
<1>4. Wants(p) \subseteq Targets(cfg) /\ Targets(cfg) \subseteq AnyTarget
  BY DEF Wants, Targets, AnyTarget
<1>5. World'
  BY <1>1, <1>3, <1>4 DEF IInv, World
<1>6. Fits(cfg, [packet |-> p, left |-> Wants(p), legacy |-> FALSE])
  <2>1. OfKind(Wants(p), "egts") # {} => p \in Data
    BY DEF OfKind, Wants
  <2> QED BY <1>4, <2>1 DEF Fits, Items
<1>7. \A i \in queue' : Fits(cfg, i)
  BY <1>1, <1>6 DEF IInv, Contents
<1>8. Contents'
  <2>1. Validate'
    BY <1>1, <1>2 DEF Validate
  <2> QED BY <1>1, <1>3, <1>7, <2>1 DEF IInv, Contents
<1>9. Pairs(queue') = Pairs(queue) \union new
  <2>1. PICK j : j = [packet |-> p, left |-> Wants(p), legacy |-> FALSE]
    OBVIOUS
  <2>2. queue' = queue \union {j} /\ {j.packet} \X j.left = new
    BY <1>1, <2>1
  <2> QED BY <2>2 DEF Pairs
<1>10. Promises'
  <2>1. \A x : InDump(x)' <=> InDump(x)
    BY <1>3, DumpFrame
  <2>2. \A x \in owed' : x \in Pairs(queue') \/ InDump(x)
    BY <1>1, <1>9 DEF IInv, Promises
  <2>3. \A x \in owed' : Has(dumps[Here], x) => x \in Pairs(queue')
    BY <1>1, <1>9 DEF IInv, Promises
  <2>4. (\A x \in owed : Has(dumps[Here], x) => x \in Pairs(queue))'
    BY <1>1, <1>3, <2>3 DEF Here, Has
  <2>5. (\A x \in owed : (up /\ x \in Pairs(queue)) \/ InDump(x))'
    BY <1>1, <2>1, <2>2
  <2>6. (\A x \in saved : InDump(x))'
    BY <1>1, <2>1 DEF IInv, Promises
  <2> QED BY <2>4, <2>5, <2>6 DEF Promises
<1>11. Undamaged'
  <2>1. spoiled' = spoiled /\ Here' = Here
    BY <1>1 DEF Enqueue, Here
  <2> QED BY <1>1, <1>3, <2>1, UndamagedFrame DEF IInv
<1> QED BY <1>5, <1>8, <1>10, <1>11 DEF IInv

\* A target takes exactly what is crossed off.
LEMMA DeliverStep ==
    ASSUME IInv, NEW i \in queue, NEW t \in i.left, Deliver(i, t)
    PROVE  IInv'
<1> DEFINE j == [i EXCEPT !.left = @ \ {t}]
           done == <<i.packet, t>>
<1>1. /\ up /\ up' = TRUE /\ sent' = sent
      /\ queue' = (queue \ {i}) \union {j}
      /\ owed' = owed \ {done} /\ saved' = saved \ {done}
      /\ cfg' = cfg /\ layout' = layout
  BY DEF Deliver, IInv, World
<1>2. Validate /\ Fits(cfg, i)
  BY <1>1 DEF IInv, Contents
<1>3. dumps' = dumps
  <2>1. PICK files : /\ files = {LogFile(cfg)} \union {f \in {"stdout"} : t = <<"stdout">>}
                                               \union {f \in {"packets"} : t = <<"file">>}
                     /\ Written(files)
    BY DEF Deliver
  <2>2. t \in Targets(cfg)
    BY <1>2 DEF Fits
  <2>3. t = <<"stdout">> => cfg.stdout
    BY <2>2 DEF Targets
  <2>4. t = <<"file">> => cfg.file
    BY <2>2 DEF Targets
  <2>5. \A f \in files : {f, "dump"} \notin layout.linked
    BY <1>2, <2>1, <2>3, <2>4, Unlinked DEF IInv
  <2> QED BY <2>1, <2>5, Unwritten DEF IInv
<1>4. World'
  BY <1>1, <1>3 DEF IInv, World
<1>5. j \in Items /\ j.packet = i.packet /\ j.left = i.left \ {t} /\ ~j.legacy
  BY <1>2 DEF Fits, Items
<1>6. Fits(cfg, j)
  BY <1>2, <1>5 DEF Fits, OfKind
<1>7. Contents'
  <2>1. \A k \in queue' : Fits(cfg, k)
    BY <1>1, <1>6 DEF IInv, Contents
  <2>2. Validate'
    BY <1>1, <1>2 DEF Validate
  <2> QED BY <1>1, <1>3, <2>1, <2>2 DEF IInv, Contents
<1>8. \A x \in Pairs(queue) : x # done => x \in Pairs(queue')
  <2>1. SUFFICES ASSUME NEW x \in Pairs(queue), x # done PROVE \E k \in queue' : x \in {k.packet} \X k.left
    BY PairsOfItem
  <2>2. PICK k \in queue : x \in {k.packet} \X k.left
    BY PairsOfItem
  <2>3. CASE k = i
    <3>1. x[1] = i.packet /\ x[2] \in i.left \ {t} /\ x = <<x[1], x[2]>>
      BY <2>1, <2>2, <2>3
    <3>2. x \in {j.packet} \X j.left
      BY <1>5, <3>1
    <3> HIDE DEF j
    <3> QED BY <1>1, <3>2
  <2>4. CASE k # i
    BY <1>1, <2>2, <2>4
  <2> QED BY <2>3, <2>4
<1>9. Promises'
  <2>1. \A x : InDump(x)' <=> InDump(x)
    BY <1>3, DumpFrame
  <2>2. \A x \in owed' : x \in Pairs(queue') \/ InDump(x)
    BY <1>1, <1>8 DEF IInv, Promises
  <2>3. \A x \in owed' : Has(dumps[Here], x) => x \in Pairs(queue')
    BY <1>1, <1>8 DEF IInv, Promises
  <2>4. (\A x \in owed : Has(dumps[Here], x) => x \in Pairs(queue))'
    BY <1>1, <1>3, <2>3 DEF Here, Has
  <2>5. (\A x \in owed : (up /\ x \in Pairs(queue)) \/ InDump(x))'
    BY <1>1, <2>1, <2>2
  <2>6. (\A x \in saved : InDump(x))'
    BY <1>1, <2>1 DEF IInv, Promises
  <2> QED BY <2>4, <2>5, <2>6 DEF Promises
<1>10. Undamaged'
  <2>1. spoiled' = spoiled /\ Here' = Here
    BY <1>1 DEF Deliver, Here
  <2> QED BY <1>1, <1>3, <2>1, UndamagedFrame DEF IInv
<1> QED BY <1>4, <1>7, <1>9, <1>10 DEF IInv

\* An item that waits for nobody has no deliveries.
LEMMA Pending ==
    Pairs({i \in queue : i.left # {}}) = Pairs(queue)
<1>1. \A x : x \in Pairs(queue) => \E i \in {k \in queue : k.left # {}} : x \in {i.packet} \X i.left
  BY PairsOfItem
<1>2. \A x : x \in Pairs({i \in queue : i.left # {}}) => \E i \in queue : x \in {i.packet} \X i.left
  BY PairsOfItem
<1>3. \A x : x \in Pairs(queue) <=> x \in Pairs({i \in queue : i.left # {}})
  BY <1>1, <1>2, PairsOfItem
<1> QED BY <1>3

LEMMA CompactStep ==
    ASSUME IInv, Compact
    PROVE  IInv'
<1>1. /\ UNCHANGED <<cfg, layout, up, dumps, sent, owed, saved, spoiled>>
      /\ queue' = {i \in queue : i.left # {}}
  BY DEF Compact, history
<1>2. Pairs(queue') = Pairs(queue)
  BY <1>1, Pending
<1>3. World'
  BY <1>1 DEF IInv, World
<1>4. Contents'
  BY <1>1 DEF IInv, Contents, Validate
<1>5. Promises'
  <2>1. \A x : InDump(x)' <=> InDump(x)
    BY <1>1, DumpFrame
  <2>2. (\A x \in owed : Has(dumps[Here], x) => x \in Pairs(queue))' <=> (\A x \in owed : Has(dumps[Here], x) => x \in Pairs(queue))
    BY <1>1, <1>2 DEF Here, Has
  <2>3. (\A x \in owed : (up /\ x \in Pairs(queue)) \/ InDump(x))'
    BY <1>1, <1>2, <2>1 DEF IInv, Promises
  <2> QED BY <1>1, <2>1, <2>2, <2>3 DEF IInv, Promises
<1>6. Undamaged'
  BY <1>1, UndamagedFrame DEF IInv, Here
<1> QED BY <1>3, <1>4, <1>5, <1>6 DEF IInv

\* A save writes what is pending, in a version that has a word for all of it, and
\* takes the dump away from any output that it was linked to.
LEMMA SaveKeeps ==
    ASSUME IInv, up, Save, UNCHANGED <<cfg, sent, owed, spoiled>>, up' \in BOOLEAN
    PROVE  /\ World' /\ Undamaged' /\ Validate'
           /\ \A d \in DumpPlaces : \A i \in dumps'[d].items : Sound(dumps'[d], i)
           /\ \A x \in owed : InDump(x)'
           /\ queue' = queue => (\A x \in owed : Has(dumps[Here], x) => x \in Pairs(queue))'
<1>1. PICK items, dump :
        /\ items = {i \in queue : i.left # {}}
        /\ dump = [exists |-> TRUE, intact |-> TRUE, version |-> Version, items |-> items]
        /\ dumps' = [dumps EXCEPT ![Here] = dump]
        /\ layout' = [layout EXCEPT !.linked = {x \in @ : "dump" \notin x}]
        /\ saved' = saved \union (owed \intersect Pairs(items))
  BY DEF Save
<1>2. Validate /\ (\A i \in queue : Fits(cfg, i)) /\ cfg \in Configs
  BY DEF IInv, Contents, World
<1>3. Here \in DumpPlaces
  BY HerePlace DEF IInv
<1>4. dump \in Dumps /\ dump.items = items /\ dump.intact
  <2>1. items \in SUBSET Items
    BY <1>1, <1>2 DEF Fits
  <2> QED BY <1>1, <2>1, VersionInt DEF IInv, Dumps
<1>5. dumps'[Here] = dump /\ \A d \in DumpPlaces : d # Here => dumps'[d] = dumps[d]
  BY <1>1, <1>3 DEF IInv, World
<1>6. /\ layout'.path = layout.path /\ layout'.odd = layout.odd
      /\ layout'.linked \subseteq layout.linked
      /\ layout' = [path |-> layout'.path, odd |-> layout'.odd, linked |-> layout'.linked]
  <2>1. layout = [path |-> layout.path, odd |-> layout.odd, linked |-> layout.linked]
    BY DEF IInv, World
  <2>2. PICK rest : rest = {x \in layout.linked : "dump" \notin x}
    OBVIOUS
  <2>3. layout' = [layout EXCEPT !.linked = rest]
    BY <1>1, <2>2
  <2>4. layout' = [path |-> layout.path, odd |-> layout.odd, linked |-> rest]
    BY <2>1, <2>3
  <2> QED BY <2>2, <2>4
<1>7. World'
  <2>1. dumps' \in [DumpPlaces -> Dumps]
    BY <1>1, <1>3, <1>4 DEF IInv, World
  <2>2. \E l \in Layouts : /\ l.path = layout'.path /\ l.odd = layout'.odd
                           /\ layout'.linked \subseteq l.linked
    BY <1>6 DEF IInv, World
  <2> QED BY <1>1, <1>2, <1>6, <2>1, <2>2 DEF IInv, World
<1>8. Validate'
  <2>1. Readable(cfg, layout)' /\ ~Overlap(cfg, layout)'
    BY <1>2, <1>6 DEF Validate, ValidateOutputs, Readable, Overlap, Place
  <2>2. Shared(cfg, layout)' = {}
    BY <1>2, <1>6 DEF Validate, ValidateOutputs, Shared
  <2> QED BY <1>2, <2>1, <2>2 DEF Validate, ValidateOutputs
<1>9. \A i \in items : Sound(dump, i)
  <2>1. SUFFICES ASSUME NEW i \in items PROVE Sound(dump, i)
    OBVIOUS
  <2>2. i.left # {} /\ i.left \subseteq Targets(cfg) /\ (OfKind(i.left, "egts") # {} => i.packet \in Data)
    BY <1>1, <1>2 DEF Fits
  <2>3. ASSUME NEW k \in Kinds, OfKind(i.left, k) # {}
        PROVE  dump.version >= Since[k]
    <3>1. PICK t \in i.left : t[1] = k
      BY <2>3 DEF OfKind
    <3>2. cfg[k] # {}
      BY <2>2, <3>1 DEF Targets, Kinds
    <3> QED BY <1>1, <3>2, SinceVersion DEF IInv
  <2> QED BY <2>2, <2>3 DEF Sound
<1>10. \A d \in DumpPlaces : \A i \in dumps'[d].items : Sound(dumps'[d], i)
  BY <1>4, <1>5, <1>9 DEF IInv, Contents
<1>11. Pairs(items) = Pairs(queue)
  BY <1>1, Pending
<1>12. \A x \in owed : Has(dump, x) <=> x \in Pairs(queue)
  <2>1. SUFFICES ASSUME NEW x \in owed PROVE Has(dump, x) <=> x \in Pairs(items)
    BY <1>11
  <2>2. x = <<x[1], x[2]>>
    BY DEF IInv, World
  <2>3. \A i \in items : ~i.legacy
    BY <1>1, <1>2 DEF Fits
  <2>4. x \in Pairs(items) <=> \E i \in items : x \in {i.packet} \X i.left
    BY PairsOfItem
  <2>5. Has(dump, x) <=> \E i \in items : i.packet = x[1] /\ x[2] \in i.left
    BY <1>4, <2>3 DEF Has
  <2> QED BY <2>2, <2>4, <2>5
<1>13. ASSUME NEW x \in owed
       PROVE  InDump(x)'
  <2>1. CASE x \in Pairs(queue)
    BY <1>3, <1>5, <1>12, <2>1 DEF InDump
  <2>2. CASE x \notin Pairs(queue)
    <3>1. PICK d \in DumpPlaces : Has(dumps[d], x)
      BY <2>2 DEF IInv, Promises, InDump
    <3>2. d # Here
      BY <2>2, <3>1 DEF IInv, Promises
    <3>3. Has(dumps'[d], x)
      BY <1>5, <3>1, <3>2
    <3> QED BY <3>3 DEF InDump
  <2> QED BY <2>1, <2>2
<1>14. queue' = queue => (\A x \in owed : Has(dumps[Here], x) => x \in Pairs(queue))'
  <2>1. Here' = Here
    BY <1>6 DEF Here, Place
  <2>2. \A x \in owed : Has(dumps'[Here], x) => x \in Pairs(queue)
    BY <1>5, <1>12
  <2> QED BY <2>1, <2>2
<1>15. Undamaged'
  <2>1. Here' = Here
    BY <1>6 DEF Here, Place
  <2>2. Here \notin spoiled
    BY <1>3 DEF IInv, Undamaged, OnlyEarlyErrors
  <2> QED BY <1>3, <1>4, <1>5, <2>1, <2>2 DEF IInv, Undamaged, OnlyEarlyErrors
<1> QED BY <1>7, <1>8, <1>10, <1>13, <1>14, <1>15

LEMMA LoopSaveStep ==
    ASSUME IInv, LoopSave
    PROVE  IInv'
<1>1. up /\ up' = up /\ Save /\ UNCHANGED <<cfg, queue, sent, owed, spoiled>>
  BY DEF LoopSave
<1>2. up' \in BOOLEAN
  BY <1>1 DEF IInv, World
<1>3. /\ World' /\ Undamaged' /\ Validate'
      /\ \A d \in DumpPlaces : \A i \in dumps'[d].items : Sound(dumps'[d], i)
      /\ \A x \in owed : InDump(x)'
      /\ (\A x \in owed : Has(dumps[Here], x) => x \in Pairs(queue))'
  BY <1>1, <1>2, SaveKeeps
<1>4. Contents'
  BY <1>1, <1>3 DEF IInv, Contents
<1>5. saved' \subseteq owed
  BY <1>1 DEF Save, IInv, World
<1>6. Promises'
  BY <1>1, <1>3, <1>5 DEF Promises
<1> QED BY <1>3, <1>4, <1>6 DEF IInv

LEMMA StopStep ==
    ASSUME IInv, Stop
    PROVE  IInv'
<1>1. up /\ up' = FALSE /\ UNCHANGED <<cfg, sent, owed, spoiled>>
  BY DEF Stop
<1>2. CASE Save
  <2>1. /\ World' /\ Undamaged'
        /\ \A d \in DumpPlaces : \A i \in dumps'[d].items : Sound(dumps'[d], i)
        /\ \A x \in owed : InDump(x)'
    BY <1>1, <1>2, SaveKeeps
  <2>2. saved' \subseteq owed
    BY <1>2 DEF Save, IInv, World
  <2>3. Contents'
    BY <1>1, <2>1 DEF Contents
  <2>4. Promises'
    BY <1>1, <2>1, <2>2 DEF Promises
  <2> QED BY <2>1, <2>3, <2>4 DEF IInv
<1>3. CASE queue = {} /\ UNCHANGED <<layout, dumps, saved>>
  <2>1. World'
    BY <1>1, <1>3 DEF IInv, World
  <2>2. Contents'
    BY <1>1, <1>3 DEF IInv, Contents
  <2>3. Pairs(queue) = {}
    BY <1>3 DEF Pairs
  <2>4. \A x : InDump(x)' <=> InDump(x)
    BY <1>3, DumpFrame
  <2>5. Promises'
    BY <1>1, <1>3, <2>3, <2>4 DEF IInv, Promises
  <2>6. Undamaged'
    BY <1>1, <1>3 DEF IInv, Undamaged, OnlyEarlyErrors
  <2> QED BY <2>1, <2>2, <2>5, <2>6 DEF IInv
<1> QED BY <1>2, <1>3 DEF Stop

\* What was lost is no longer owed, and the dumps are as they were.
LEMMA CrashStep ==
    ASSUME IInv, Crash
    PROVE  IInv'
<1>1. /\ up' = FALSE /\ owed' = owed \intersect saved
      /\ UNCHANGED <<cfg, layout, dumps, sent, saved, spoiled>>
  BY DEF Crash
<1>2. World'
  BY <1>1 DEF IInv, World
<1>3. Contents'
  BY <1>1 DEF IInv, Contents
<1>4. \A x : InDump(x)' <=> InDump(x)
  BY <1>1, DumpFrame
<1>5. Promises'
  BY <1>1, <1>4 DEF IInv, Promises
<1>6. Undamaged'
  BY <1>1 DEF IInv, Undamaged, OnlyEarlyErrors
<1> QED BY <1>2, <1>3, <1>5, <1>6 DEF IInv

LEMMA StutterStep ==
    ASSUME IInv, UNCHANGED vars
    PROVE  IInv'
<1>1. UNCHANGED <<cfg, layout, up, queue, dumps, sent, owed, saved, spoiled>>
  BY DEF vars, memory, history
<1>2. World'
  BY <1>1 DEF IInv, World
<1>3. Contents'
  BY <1>1 DEF IInv, Contents, Validate
<1>4. \A x : InDump(x)' <=> InDump(x)
  BY <1>1, DumpFrame
<1>5. (\A x \in owed : Has(dumps[Here], x) => x \in Pairs(queue))' <=> (\A x \in owed : Has(dumps[Here], x) => x \in Pairs(queue))
  BY <1>1 DEF Here, Has
<1>6. Promises'
  BY <1>1, <1>4, <1>5 DEF IInv, Promises
<1>7. Undamaged'
  BY <1>1, UndamagedFrame DEF IInv, Here
<1> QED BY <1>2, <1>3, <1>6, <1>7 DEF IInv

----------------------------------------------------------------------------
\* What the invariant promises.
LEMMA InvServes ==
    IInv => DumpServes
<1> SUFFICES ASSUME IInv PROVE DumpServes
  OBVIOUS
<1>1. OwedKept
  BY DEF IInv, Promises, InDump, OwedKept, Undamaged, OnlyEarlyErrors
<1>2. Restorable
  <2>1. SUFFICES ASSUME NEW d \in DumpPlaces, NEW c \in Configs,
                        dumps[d].intact, Cardinality(dumps[d].items) <= c.capacity,
                        \A i \in dumps[d].items : ~i.legacy /\ i.left \subseteq Targets(c)
                 PROVE  Accepts(c, dumps[d])
    BY DEF Restorable
  <2>2. \A i \in dumps[d].items : Sound(dumps[d], i)
    BY DEF IInv, Contents
  <2>3. \A i \in dumps[d].items : Left(c, i) = i.left
    BY <2>1 DEF Left
  <2> QED BY <2>1, <2>2, <2>3 DEF Accepts, Sound
<1>3. OnlyEarlyErrors
  BY DEF IInv, Undamaged
<1> QED BY <1>1, <1>2, <1>3 DEF DumpServes

LEMMA StepInv ==
    IInv /\ [Next]_vars => IInv'
<1> SUFFICES ASSUME IInv, [Next]_vars PROVE IInv'
  OBVIOUS
<1> QED
  BY ReconfigureStep, RefusedStep, StartStep, EnqueueStep, DeliverStep,
     CompactStep, LoopSaveStep, StopStep, CrashStep, StutterStep DEF Next

\* A delivery that the gateway promised stays in its queue or in a dump; nothing is ever
\* written to a dump but the error of a start that fails before the outputs are compared
\* (main.go, ValidateOutputs of outputs.go), and a dump that has such an error in it is
\* neither restored nor replaced; and a dump that this release wrote is accepted by
\* every configuration that has room for it and its destinations (restoreDump and
\* saveDump of dump.go): whatever the operator changes between two runs.
THEOREM DumpsServe ==
    Spec => []DumpServes
<1> QED BY InitInv, StepInv, InvServes, PTL DEF Spec

=============================================================================
