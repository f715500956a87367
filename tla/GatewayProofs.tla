---------------------------- MODULE GatewayProofs ----------------------------
(***************************************************************************)
(* Proofs about Gateway for all packets, connections, destinations, queue  *)
(* capacities, deadlines and numbers of process lives: types first, then   *)
(* that the gateway keeps its contract with terminals and destinations     *)
(* (DeliveryContract), forgets nothing in its dumps and leaves an exact    *)
(* one; last the relay sessions, the order in which destinations take      *)
(* packets and the end of a process.                                       *)
(***************************************************************************)
EXTENDS Gateway, FiniteSetTheorems, TLAPS

----------------------------------------------------------------------------
\* Type correctness.

\* The place of the next item and the counts of relays are natural numbers.
LEMMA Counts ==
    /\ TypeOK => NextPlace \in Nat
    /\ \A p \in Packets : Cardinality(Wants(p) \intersect Relays) \in Nat
    /\ \A left \in [Packets -> SUBSET Dests] : \A c \in Conns : Cardinality(RelayPairs(left, c)) \in Nat
<1>1. IsFiniteSet(Relays)
  BY FiniteAssumption, RelayAssumption, FS_Subset
<1>2. TypeOK => NextPlace \in Nat
  <2>1. TypeOK => Cardinality(sent) \in Nat
    BY FiniteAssumption, FS_Subset, FS_CardinalityType DEF TypeOK
  <2> QED BY <2>1 DEF NextPlace
<1>3. \A p \in Packets : Cardinality(Wants(p) \intersect Relays) \in Nat
  BY <1>1, FS_Subset, FS_CardinalityType
<1>4. \A left \in [Packets -> SUBSET Dests] : \A c \in Conns : Cardinality(RelayPairs(left, c)) \in Nat
  <2>1. IsFiniteSet(Packets \X Relays)
    BY <1>1, FiniteAssumption, FS_Product
  <2>2. ASSUME NEW left \in [Packets -> SUBSET Dests], NEW c \in Conns
        PROVE  RelayPairs(left, c) \subseteq Packets \X Relays
    BY DEF RelayPairs
  <2> QED BY <2>1, <2>2, FS_Subset, FS_CardinalityType
<1> QED BY <1>2, <1>3, <1>4

LEMMA NoDumpType == NoDump \in DumpType
  BY DEF NoDump, Nothing, DumpType

\* What a process starts with is typed.
LEMMA LoadType ==
    \A dump \in DumpType : \A place \in {"serving", "refused", "down"} :
        Load(dump, place) /\ arrival' \in [Packets -> Nat]
        /\ UNCHANGED <<sent, reply, accepted>> /\ TypeOK
        /\ disk' \in DumpType /\ synced' \in DumpType /\ lives' \in Nat \ {0} /\ owed' \subseteq Pairs
        => TypeOK'
<1> SUFFICES ASSUME NEW dump \in DumpType, NEW place \in {"serving", "refused", "down"},
                    Load(dump, place), arrival' \in [Packets -> Nat],
                    UNCHANGED <<sent, reply, accepted>>, TypeOK,
                    disk' \in DumpType, synced' \in DumpType, lives' \in Nat \ {0}, owed' \subseteq Pairs
             PROVE  TypeOK'
  OBVIOUS
<1>1. dump.items \subseteq Packets /\ dump.left \in [Packets -> SUBSET Dests] /\ dump.exists \in BOOLEAN
  BY DEF DumpType
<1>2. queue' \subseteq Packets /\ pending' \in [Packets -> SUBSET Dests] /\ done' \subseteq Packets /\ wake' \in BOOLEAN
  BY <1>1 DEF Load
<1>3. refs' \in [Conns -> Int]
  <2>1. \A c \in Conns : Cardinality(RelayPairs(dump.left, c)) \in Int
    BY <1>1, Counts
  <2> QED BY <2>1 DEF Load
<1>4. relays' \subseteq Conns /\ ended' \in [Conns -> BOOLEAN] /\ shut' \in [Conns -> BOOLEAN]
  BY DEF Load
<1>5. /\ handler' \in [Conns -> {"new", "accepted", "reading", "waiting", "confirming", "refusing", "ended"}]
      /\ current' \in [Conns -> Packets \union {None}]
  BY DEF Load
<1>6. /\ busy' \in [Dests -> Packets \union {None}]
      /\ attempt' \in [Dests -> {"idle", "running", "ok", "err"}]
      /\ \A d \in Dests : busy'[d] = None <=> attempt'[d] = "idle"
      /\ failing' \in [Dests -> BOOLEAN] /\ waiting' \in [Dests -> BOOLEAN]
      /\ age' \in [Dests -> 0 .. DumpAfter]
  BY LimitAssumption DEF Load
<1>7. snap' \in DumpType /\ hasDump' \in BOOLEAN
  BY <1>1, NoDumpType DEF Load
<1>8. /\ listener' \in {"open", "closed", "returned"}
      /\ loop' \in {"top", "visit", "saving", "finish", "returned"}
      /\ stopping' \in BOOLEAN /\ halted' \in BOOLEAN /\ stop' \in BOOLEAN
      /\ todo' \subseteq Dests /\ timer' \subseteq Dests /\ finished' \in Conns \union {None}
      /\ main' \in {"serving", "stopping", "drain", "delivery", "saving", "closing", "exited", "down", "refused"}
      /\ saving' \in {"no", "snapshot", "replace", "sync", "saved", "failed"}
  BY DEF Load
<1>9. sent' \subseteq Packets /\ reply' \in [Packets -> {"none", "ok", "refused"}] /\ accepted' \in [Dests -> SUBSET Packets]
  BY DEF TypeOK
<1> QED BY <1>2, <1>3, <1>4, <1>5, <1>6, <1>7, <1>8, <1>9 DEF TypeOK

\* Connections keep the types.
LEMMA ConnectionType == TypeOK /\ Connection => TypeOK'
<1> SUFFICES ASSUME TypeOK, Connection PROVE TypeOK'
  OBVIOUS
<1> USE DEF TypeOK, itemVars, relayVars, connVars, loopVars, targetVars, serveVars, dumpVars, worldVars
<1>1. ASSUME NEW c \in Conns, Accept(c) PROVE TypeOK'
  BY <1>1 DEF Accept
<1>2. ASSUME NEW c \in Conns, Register(c) PROVE TypeOK'
  BY <1>2 DEF Register
<1>3. ASSUME NEW c \in Conns, SessionFails(c) PROVE TypeOK'
  BY <1>3 DEF SessionFails
<1>4. ASSUME NEW c \in Conns, NEW p \in Packets, Enqueue(c, p) PROVE TypeOK'
  <2>1. Wants(p) \subseteq Dests
    BY RelayAssumption DEF Wants
  <2>2. refs' \in [Conns -> Int] /\ arrival' \in [Packets -> Nat]
    BY <1>4, Counts DEF Enqueue
  <2>3. pending' \in [Packets -> SUBSET Dests] /\ owed' \subseteq Pairs
    BY <1>4, <2>1 DEF Enqueue, Pairs
  <2>4. /\ queue' \subseteq Packets /\ sent' \subseteq Packets /\ wake' \in BOOLEAN
        /\ current' \in [Conns -> Packets \union {None}]
        /\ handler' \in [Conns -> {"new", "accepted", "reading", "waiting", "confirming", "refusing", "ended"}]
    BY <1>4 DEF Enqueue, Wake
  <2> QED BY <1>4, <2>2, <2>3, <2>4 DEF Enqueue
<1>5. ASSUME NEW c \in Conns, NEW p \in Packets, Refuse(c, p) PROVE TypeOK'
  BY <1>5 DEF Refuse
<1>6. ASSUME NEW c \in Conns, Delivered(c) PROVE TypeOK'
  BY <1>6 DEF Delivered
<1>7. ASSUME NEW c \in Conns, Answer(c) PROVE TypeOK'
  <2>1. reply' \in [Packets -> {"none", "ok", "refused"}]
    BY <1>7 DEF Answer
  <2>2. /\ current' \in [Conns -> Packets \union {None}]
        /\ handler' \in [Conns -> {"new", "accepted", "reading", "waiting", "confirming", "refusing", "ended"}]
    BY <1>7 DEF Answer
  <2> QED BY <1>7, <2>1, <2>2 DEF Answer
<1>8. ASSUME NEW c \in Conns, HandlerEnds(c) PROVE TypeOK'
  <2>1. /\ current' \in [Conns -> Packets \union {None}]
        /\ handler' \in [Conns -> {"new", "accepted", "reading", "waiting", "confirming", "refusing", "ended"}]
    BY <1>8 DEF HandlerEnds
  <2>2. ended' \in [Conns -> BOOLEAN] /\ relays' \subseteq Conns
    BY <1>8 DEF HandlerEnds
  <2>3. shut' \in [Conns -> BOOLEAN]
    <3>1. (shut[c] \/ refs[c] = 0) \in BOOLEAN
      OBVIOUS
    <3> QED BY <1>8, <3>1 DEF HandlerEnds
  <2> QED BY <1>8, <2>1, <2>2, <2>3 DEF HandlerEnds
<1> QED BY <1>1, <1>2, <1>3, <1>4, <1>5, <1>6, <1>7, <1>8 DEF Connection

\* The delivery loop keeps the types.
LEMMA DeliveryType == TypeOK /\ Delivery => TypeOK'
<1> SUFFICES ASSUME TypeOK, Delivery PROVE TypeOK'
  OBVIOUS
<1> USE DEF TypeOK, itemVars, relayVars, connVars, loopVars, targetVars, serveVars, dumpVars, worldVars
<1>1. CASE Top
  BY <1>1 DEF Top, Unfinished, CtxDone, Cancelled
<1>2. CASE Return
  BY <1>2 DEF Return
<1>3. CASE Awake
  <2>1. wake' \in BOOLEAN
    BY <1>3 DEF Awake
  <2> QED BY <1>3, <2>1 DEF Awake
<1>4. CASE LoopSaved
  BY <1>4 DEF LoopSaved
<1>5. CASE Finish
  <2>1. halted' \in BOOLEAN
    BY <1>5 DEF Finish
  <2>2. shut' \in [Conns -> BOOLEAN]
    BY <1>5 DEF Finish
  <2> QED BY <1>5, <2>1, <2>2 DEF Finish
<1>6. ASSUME NEW d \in Dests, PassOver(d) PROVE TypeOK'
  BY <1>6 DEF PassOver
<1>7. ASSUME NEW d \in Dests, NEW p \in Packets, Start(d, p) PROVE TypeOK'
  <2>1. /\ busy' \in [Dests -> Packets \union {None}]
        /\ attempt' \in [Dests -> {"idle", "running", "ok", "err"}]
        /\ \A e \in Dests : busy'[e] = None <=> attempt'[e] = "idle"
    BY <1>7, NoneAssumption DEF Start
  <2>2. age' \in [Dests -> 0 .. DumpAfter]
    BY <1>7, LimitAssumption DEF Start, Elapsed
  <2> QED BY <1>7, <2>1, <2>2 DEF Start
<1>8. ASSUME NEW d \in Dests, Failure(d) PROVE TypeOK'
  <2>1. /\ busy' \in [Dests -> Packets \union {None}]
        /\ attempt' \in [Dests -> {"idle", "running", "ok", "err"}]
        /\ \A e \in Dests : busy'[e] = None <=> attempt'[e] = "idle"
    BY <1>8 DEF Failure, Idle
  <2>2. failing' \in [Dests -> BOOLEAN] /\ waiting' \in [Dests -> BOOLEAN] /\ halted' \in BOOLEAN
    BY <1>8 DEF Failure
  <2> QED BY <1>8, <2>1, <2>2 DEF Failure
<1>9. ASSUME NEW d \in Dests, Success(d) PROVE TypeOK'
  <2>1. /\ busy' \in [Dests -> Packets \union {None}]
        /\ attempt' \in [Dests -> {"idle", "running", "ok", "err"}]
        /\ \A e \in Dests : busy'[e] = None <=> attempt'[e] = "idle"
    BY <1>9 DEF Success, Idle
  <2>2. busy[d] \in Packets /\ ConnOf[busy[d]] \in Conns
    BY <1>9, ConnAssumption DEF Success
  <2>3. /\ failing' \in [Dests -> BOOLEAN] /\ waiting' \in [Dests -> BOOLEAN]
        /\ age' \in [Dests -> 0 .. DumpAfter]
    BY <1>9, LimitAssumption DEF Success
  <2>4. pending' \in [Packets -> SUBSET Dests]
    BY <1>9, <2>2 DEF Success
  <2>5. refs' \in [Conns -> Int]
    BY <1>9, <2>2 DEF Success
  <2>6. relays' \subseteq Conns /\ finished' \in Conns \union {None}
    BY <1>9, <2>2 DEF Success
  <2>7. /\ saving' \in {"no", "snapshot", "replace", "sync", "saved", "failed"}
        /\ loop' \in {"top", "visit", "saving", "finish", "returned"}
    BY <1>9 DEF Success
  <2> QED BY <1>9, <2>1, <2>3, <2>4, <2>5, <2>6, <2>7 DEF Success
<1> QED BY <1>1, <1>2, <1>3, <1>4, <1>5, <1>6, <1>7, <1>8, <1>9 DEF Delivery

\* The workers keep the types.
LEMMA WorkerType == TypeOK /\ Worker => TypeOK'
<1> SUFFICES ASSUME TypeOK, Worker PROVE TypeOK'
  OBVIOUS
<1> USE DEF TypeOK, itemVars, relayVars, connVars, loopVars, targetVars, serveVars, dumpVars, worldVars
<1>1. ASSUME NEW d \in Dests, AttemptOk(d) PROVE TypeOK'
  <2>1. busy[d] \in Packets
    BY <1>1 DEF AttemptOk
  <2>2. accepted' \in [Dests -> SUBSET Packets] /\ owed' \subseteq Pairs
    BY <1>1, <2>1 DEF AttemptOk
  <2>3. attempt' \in [Dests -> {"idle", "running", "ok", "err"}]
    BY <1>1 DEF AttemptOk
  <2>4. \A e \in Dests : busy'[e] = None <=> attempt'[e] = "idle"
    BY <1>1 DEF AttemptOk
  <2> QED BY <1>1, <2>2, <2>3, <2>4 DEF AttemptOk
<1>2. ASSUME NEW d \in Dests, AttemptErr(d, FALSE) PROVE TypeOK'
  <2>1. busy[d] \in Packets
    BY <1>2 DEF AttemptErr
  <2>2. accepted' \in [Dests -> SUBSET Packets] /\ owed' \subseteq Pairs
    BY <1>2, <2>1 DEF AttemptErr
  <2>3. attempt' \in [Dests -> {"idle", "running", "ok", "err"}]
    BY <1>2 DEF AttemptErr
  <2>4. \A e \in Dests : busy'[e] = None <=> attempt'[e] = "idle"
    BY <1>2 DEF AttemptErr
  <2> QED BY <1>2, <2>2, <2>3, <2>4 DEF AttemptErr
<1>3. ASSUME NEW d \in Dests, AttemptErr(d, TRUE) PROVE TypeOK'
  <2>1. busy[d] \in Packets
    BY <1>3 DEF AttemptErr
  <2>2. accepted' \in [Dests -> SUBSET Packets] /\ owed' \subseteq Pairs
    BY <1>3, <2>1 DEF AttemptErr
  <2>3. attempt' \in [Dests -> {"idle", "running", "ok", "err"}]
    BY <1>3 DEF AttemptErr
  <2>4. \A e \in Dests : busy'[e] = None <=> attempt'[e] = "idle"
    BY <1>3 DEF AttemptErr
  <2> QED BY <1>3, <2>2, <2>3, <2>4 DEF AttemptErr
<1> QED BY <1>1, <1>2, <1>3 DEF Worker

\* Saving the dump keeps the types.
LEMMA SavingType == TypeOK /\ Saving => TypeOK'
<1> SUFFICES ASSUME TypeOK, Saving PROVE TypeOK'
  OBVIOUS
<1> USE DEF TypeOK, itemVars, relayVars, connVars, loopVars, targetVars, serveVars, dumpVars, worldVars
<1>1. CASE Snapshot
  BY <1>1 DEF Snapshot, ToSave, DumpType
<1>2. CASE Replace
  BY <1>2, NoDumpType DEF Replace
<1>3. CASE SyncDirectory
  BY <1>3 DEF SyncDirectory
<1>4. CASE SaveFails
  BY <1>4, NoDumpType DEF SaveFails
<1> QED BY <1>1, <1>2, <1>3, <1>4 DEF Saving

\* The shutdown keeps the types.
LEMMA ServingType == TypeOK /\ Serving => TypeOK'
<1> SUFFICES ASSUME TypeOK, Serving PROVE TypeOK'
  OBVIOUS
<1> USE DEF TypeOK, itemVars, relayVars, connVars, loopVars, targetVars, serveVars, dumpVars, worldVars
<1>1. CASE BeginStop
  BY <1>1 DEF BeginStop
<1>2. CASE CloseConnections
  BY <1>2 DEF CloseConnections
<1>3. CASE HandlersDone
  BY <1>3 DEF HandlersDone
<1>4. CASE DeliveryDone
  BY <1>4 DEF DeliveryDone
<1>5. CASE ServerSaved
  BY <1>5 DEF ServerSaved
<1>6. CASE Exit
  BY <1>6 DEF Exit
<1> QED BY <1>1, <1>2, <1>3, <1>4, <1>5, <1>6 DEF Serving

\* Every step keeps the types.
LEMMA NextType == TypeOK /\ [Next]_vars => TypeOK'
<1> SUFFICES ASSUME TypeOK, [Next]_vars PROVE TypeOK'
  OBVIOUS
<1> USE DEF itemVars, relayVars, connVars, loopVars, targetVars, serveVars, dumpVars, worldVars
<1>1. CASE AcceptFails
  BY <1>1 DEF AcceptFails, TypeOK
<1>2. CASE Tick
  <2>1. age' \in [Dests -> 0 .. DumpAfter] /\ waiting' \in [Dests -> BOOLEAN]
    BY <1>2, LimitAssumption DEF Tick, TypeOK
  <2> QED BY <1>2, <2>1 DEF Tick, TypeOK
<1>3. CASE Stop
  BY <1>3 DEF Stop, TypeOK
<1>4. CASE Crash
  <2>1. disk' \in DumpType /\ synced' \in DumpType
    BY <1>4 DEF Crash, TypeOK
  <2>2. owed' \subseteq Pairs /\ lives' \in Nat \ {0}
    BY <1>4 DEF Crash, TypeOK
  <2>3. arrival' \in [Packets -> Nat]
    BY <1>4 DEF Crash, Remember, TypeOK
  <2> QED BY <1>4, <2>1, <2>2, <2>3, LoadType, NoDumpType DEF Crash
<1>5. CASE Restart
  <2>1. disk \in DumpType /\ disk' \in DumpType /\ synced' \in DumpType /\ owed' \subseteq Pairs
    BY <1>5 DEF Restart, TypeOK
  <2>2. lives' \in Nat \ {0}
    BY <1>5 DEF Restart, TypeOK
  <2>3. arrival' \in [Packets -> Nat]
    BY <1>5 DEF Restart, Remember, TypeOK
  <2>4. \E place \in {"serving", "refused", "down"} : Load(disk, place)
    BY <1>5 DEF Restart
  <2> QED BY <1>5, <2>1, <2>2, <2>3, <2>4, LoadType DEF Restart
<1>6. CASE Terminated \/ UNCHANGED vars
  BY <1>6 DEF Terminated, vars, TypeOK
<1> QED
  BY <1>1, <1>2, <1>3, <1>4, <1>5, <1>6, ConnectionType, DeliveryType, WorkerType, SavingType, ServingType DEF Next

LEMMA InitType == Init => TypeOK
<1> SUFFICES ASSUME Init PROVE TypeOK
  OBVIOUS
<1>1. pending \in [Packets -> SUBSET Dests]
  BY DEF Init, Nothing
<1>2. age \in [Dests -> 0 .. DumpAfter]
  BY LimitAssumption DEF Init
<1>3. /\ arrival \in [Packets -> Nat] /\ refs \in [Conns -> Int]
      /\ ended \in [Conns -> BOOLEAN] /\ shut \in [Conns -> BOOLEAN]
      /\ current \in [Conns -> Packets \union {None}]
      /\ handler \in [Conns -> {"new", "accepted", "reading", "waiting", "confirming", "refusing", "ended"}]
      /\ reply \in [Packets -> {"none", "ok", "refused"}]
      /\ accepted \in [Dests -> SUBSET Packets] /\ owed \subseteq Pairs
  BY DEF Init
<1>4. /\ busy \in [Dests -> Packets \union {None}]
      /\ attempt \in [Dests -> {"idle", "running", "ok", "err"}]
      /\ \A d \in Dests : busy[d] = None <=> attempt[d] = "idle"
      /\ failing \in [Dests -> BOOLEAN] /\ waiting \in [Dests -> BOOLEAN]
  BY DEF Init
<1>5. snap \in DumpType /\ disk \in DumpType /\ synced \in DumpType
  BY NoDumpType DEF Init
<1>6. /\ queue \subseteq Packets /\ done \subseteq Packets /\ relays \subseteq Conns
      /\ todo \subseteq Dests /\ timer \subseteq Dests /\ finished \in Conns \union {None}
      /\ sent \subseteq Packets /\ lives \in Nat \ {0}
  BY DEF Init
<1>7. /\ wake \in BOOLEAN /\ stopping \in BOOLEAN /\ halted \in BOOLEAN
      /\ stop \in BOOLEAN /\ hasDump \in BOOLEAN
  BY DEF Init
<1>8. /\ listener \in {"open", "closed", "returned"}
      /\ loop \in {"top", "visit", "saving", "finish", "returned"}
      /\ main \in {"serving", "stopping", "drain", "delivery", "saving", "closing", "exited", "down", "refused"}
      /\ saving \in {"no", "snapshot", "replace", "sync", "saved", "failed"}
  BY DEF Init
<1> QED BY <1>1, <1>2, <1>3, <1>4, <1>5, <1>6, <1>7, <1>8 DEF TypeOK

\* The variables always have their types, and a target is busy exactly while it
\* has a worker or the result of one (queue.go:179,239).
THEOREM TypeCorrect == Spec => []TypeOK
BY InitType, NextType, PTL DEF Spec

----------------------------------------------------------------------------
\* The inductive invariant.

\* Where serve and the loop are while a dump is saved, and when no process runs.
Places ==
    /\ main \in {"saving", "closing", "exited"} => loop = "returned"
    /\ saving \in {"snapshot", "replace", "sync"} => loop = "saving" \/ main = "saving"
    /\ main \in {"down", "refused"} => loop = "top" /\ saving = "no"

\* The packets the process and its dumps know were sent.
Known ==
    /\ queue \subseteq sent /\ done \subseteq sent
    /\ snap.items \subseteq sent /\ disk.items \subseteq sent /\ synced.items \subseteq sent
    /\ \A d \in Dests : busy[d] # None => busy[d] \in sent

\* A destination that is no longer recorded for a packet has taken it.
TakenUnless(items, left) == \A p \in items : \A d \in Wants(p) : d \in left[p] \/ p \in accepted[d]
Recorded ==
    /\ TakenUnless(queue \union done, pending)
    /\ TakenUnless(snap.items, snap.left) /\ TakenUnless(disk.items, disk.left) /\ TakenUnless(synced.items, synced.left)
    /\ \A p \in done : pending[p] = {}
    /\ \A d \in Dests : attempt[d] = "ok" => busy[d] \in accepted[d] /\ <<busy[d], d>> \notin owed

\* The last dump of a process holds what is owed.
LastDump ==
    /\ main = "saving" /\ saving = "replace" => owed \subseteq DumpPairs(snap)
    /\ main = "saving" /\ saving \in {"sync", "saved"} => owed \subseteq DumpPairs(disk)
    /\ main = "closing" => owed \subseteq DumpPairs(disk)

\* A handler confirms, in mode "delivered", a packet whose done channel is closed.
Confirmed ==
    \A c \in Conns : AckMode = "delivered" /\ handler[c] = "confirming" => current[c] \in done

IInv == TypeOK /\ Places /\ Known /\ Recorded /\ LastDump /\ Confirmed /\ NothingLost /\ AckedDelivered

----------------------------------------------------------------------------
\* The steps preserve it, one lemma for the actions of each part.

\* Steps that leave queue, dump, workers and answers alone.
LEMMA Frame ==
    IInv /\ TypeOK' /\ UNCHANGED <<queue, pending, done, busy, attempt, main, loop, dumpVars, sent, reply, accepted, owed>>
    /\ (\A c \in Conns : handler'[c] = "confirming" => handler[c] = "confirming" /\ current'[c] = current[c])
    => IInv'
BY DEF IInv, Places, Known, Recorded, TakenUnless, LastDump, Confirmed, NothingLost, AckedDelivered,
       dumpVars, Up, QueuePairs, DumpPairs, PairsOf, Wants

LEMMA ConnectionInv == IInv /\ TypeOK' /\ Connection => IInv'
<1> SUFFICES ASSUME IInv, TypeOK', Connection PROVE IInv'
  OBVIOUS
<1> USE DEF itemVars, relayVars, connVars, loopVars, targetVars, serveVars, dumpVars, worldVars
<1>t. TypeOK
  BY DEF IInv
<1>1. ASSUME NEW c \in Conns, Accept(c) PROVE IInv'
  BY <1>1, <1>t, Frame DEF Accept, TypeOK
<1>2. ASSUME NEW c \in Conns, Register(c) PROVE IInv'
  BY <1>2, <1>t, Frame DEF Register, TypeOK
<1>3. ASSUME NEW c \in Conns, SessionFails(c) PROVE IInv'
  BY <1>3, <1>t, Frame DEF SessionFails, TypeOK
<1>4. ASSUME NEW c \in Conns, NEW p \in Packets, Enqueue(c, p) PROVE IInv'
  <2>1. /\ p \notin queue /\ p \notin done /\ main = "serving"
        /\ sent' = sent \union {p} /\ queue' = queue \union {p}
        /\ pending' = [pending EXCEPT ![p] = Wants(p)]
        /\ owed' = owed \union ({p} \X Wants(p))
        /\ UNCHANGED <<done, loop, main, busy, attempt, dumpVars, accepted, reply>>
    BY <1>4 DEF Enqueue, Refusal, IInv, Known
  <2>2. Places' /\ LastDump' /\ AckedDelivered'
    BY <2>1 DEF IInv, Places, LastDump, AckedDelivered, Wants
  <2>3. Known'
    BY <2>1 DEF IInv, Known
  <2>4. Recorded'
    <3>1. \A q \in Packets : q # p => pending'[q] = pending[q]
      BY <2>1, <1>t DEF TypeOK
    <3>2. pending'[p] = Wants(p)
      BY <2>1, <1>t DEF TypeOK
    <3>3. TakenUnless(queue \union done, pending)'
      BY <2>1, <3>1, <3>2, <1>t DEF IInv, Recorded, TakenUnless, TypeOK, Wants
    <3>4. \A q \in done' : pending'[q] = {}
      BY <2>1, <3>1, <1>t DEF IInv, Recorded, TypeOK
    <3>5. \A d \in Dests : attempt[d] = "ok" => <<busy[d], d>> \notin owed'
      <4>1. \A d \in Dests : attempt[d] = "ok" => busy[d] # p
        BY <1>4, <1>t DEF Enqueue, IInv, Known, TypeOK
      <4> QED BY <2>1, <4>1 DEF IInv, Recorded
    <3>6. /\ TakenUnless(snap.items, snap.left)' /\ TakenUnless(disk.items, disk.left)'
          /\ TakenUnless(synced.items, synced.left)'
      BY <2>1 DEF IInv, Recorded, TakenUnless, Wants
    <3> QED BY <2>1, <3>3, <3>4, <3>5, <3>6 DEF IInv, Recorded
  <2>5. Confirmed'
    BY <1>4, <1>t DEF Enqueue, IInv, Confirmed, TypeOK
  <2>6. NothingLost'
    <3>1. Up /\ Up'
      BY <2>1 DEF Up
    <3>2. owed \subseteq QueuePairs
      BY <3>1 DEF IInv, NothingLost
    <3>3. Wants(p) \subseteq Dests
      BY RelayAssumption DEF Wants
    <3>4. QueuePairs \subseteq QueuePairs' /\ {p} \X Wants(p) \subseteq QueuePairs'
      BY <2>1, <3>3, <1>t DEF QueuePairs, PairsOf, TypeOK
    <3> QED BY <2>1, <3>1, <3>2, <3>4 DEF NothingLost
  <2> QED BY <2>2, <2>3, <2>4, <2>5, <2>6 DEF IInv
<1>5. ASSUME NEW c \in Conns, NEW p \in Packets, Refuse(c, p) PROVE IInv'
  <2>1. Places' /\ LastDump' /\ AckedDelivered' /\ NothingLost' /\ Recorded'
    BY <1>5 DEF Refuse, IInv, Places, LastDump, AckedDelivered, NothingLost, Recorded, TakenUnless,
                Up, QueuePairs, DumpPairs, PairsOf, Wants
  <2>2. Known' /\ Confirmed'
    BY <1>5, <1>t DEF Refuse, IInv, Known, Confirmed, TypeOK
  <2> QED BY <2>1, <2>2 DEF IInv
<1>6. ASSUME NEW c \in Conns, Delivered(c) PROVE IInv'
  <2>1. Places' /\ LastDump' /\ AckedDelivered' /\ NothingLost' /\ Recorded' /\ Known'
    BY <1>6 DEF Delivered, IInv, Places, LastDump, AckedDelivered, NothingLost, Recorded, TakenUnless, Known,
                Up, QueuePairs, DumpPairs, PairsOf, Wants
  <2>2. Confirmed'
    BY <1>6, <1>t DEF Delivered, IInv, Confirmed, TypeOK
  <2> QED BY <2>1, <2>2 DEF IInv
<1>7. ASSUME NEW c \in Conns, Answer(c) PROVE IInv'
  <2>1. Places' /\ LastDump' /\ NothingLost' /\ Recorded' /\ Known'
    BY <1>7 DEF Answer, IInv, Places, LastDump, NothingLost, Recorded, TakenUnless, Known,
                Up, QueuePairs, DumpPairs, PairsOf, Wants
  <2>2. Confirmed'
    BY <1>7, <1>t DEF Answer, IInv, Confirmed, TypeOK
  <2>3. AckedDelivered'
    <3>1. CASE handler[c] = "confirming" /\ AckMode = "delivered"
      <4>1. current[c] \in done /\ pending[current[c]] = {}
        BY <3>1 DEF IInv, Confirmed, Recorded
      <4>2. \A d \in Wants(current[c]) : current[c] \in accepted[d]
        BY <4>1 DEF IInv, Recorded, TakenUnless
      <4> QED BY <1>7, <4>2, <1>t DEF Answer, IInv, AckedDelivered, TypeOK, Wants
    <3>2. CASE ~(handler[c] = "confirming" /\ AckMode = "delivered")
      BY <1>7, <3>2, <1>t DEF Answer, IInv, AckedDelivered, TypeOK, Wants
    <3> QED BY <3>1, <3>2
  <2> QED BY <2>1, <2>2, <2>3 DEF IInv
<1>8. ASSUME NEW c \in Conns, HandlerEnds(c) PROVE IInv'
  BY <1>8, <1>t, Frame DEF HandlerEnds, TypeOK
<1> QED BY <1>1, <1>2, <1>3, <1>4, <1>5, <1>6, <1>7, <1>8 DEF Connection

LEMMA DeliveryInv == IInv /\ TypeOK' /\ Delivery => IInv'
<1> SUFFICES ASSUME IInv, TypeOK', Delivery PROVE IInv'
  OBVIOUS
<1> USE DEF itemVars, relayVars, connVars, loopVars, targetVars, serveVars, dumpVars, worldVars
<1>t. TypeOK
  BY DEF IInv
<1>1. CASE Top
  <2>1. /\ queue' \subseteq queue /\ queue' \union done' = queue \union done
        /\ \A p \in queue : pending[p] # {} => p \in queue'
        /\ \A p \in done' : p \in done \/ pending[p] = {}
        /\ done \subseteq done' /\ done' \subseteq queue \union done
    BY <1>1 DEF Top, Unfinished
  <2>2. /\ loop = "top" /\ Up
        /\ loop' = "visit"
        /\ UNCHANGED <<pending, busy, attempt, main, dumpVars, connVars, sent, reply, accepted, owed>>
    BY <1>1 DEF Top
  <2>3. Places' /\ LastDump' /\ AckedDelivered'
    BY <2>2 DEF IInv, Places, LastDump, AckedDelivered, Wants, Up, DumpPairs, PairsOf
  <2>4. Known' /\ Confirmed'
    BY <2>1, <2>2 DEF IInv, Known, Confirmed
  <2>5. Recorded'
    BY <2>1, <2>2 DEF IInv, Recorded, TakenUnless, Wants
  <2>6. NothingLost'
    <3>1. QueuePairs' = QueuePairs
      BY <2>1, <2>2 DEF QueuePairs, PairsOf
    <3> QED BY <2>2, <3>1 DEF IInv, NothingLost, Up
  <2> QED BY <2>3, <2>4, <2>5, <2>6 DEF IInv
<1>2. CASE Return \/ Awake \/ LoopSaved \/ Finish
  <2>1. /\ UNCHANGED <<queue, pending, done, busy, attempt, main, snap, disk, synced, handler, current, sent, reply, accepted, owed>>
        /\ main \notin {"saving", "closing", "exited", "down", "refused"}
        /\ saving' \in {"no", saving}
    BY <1>2 DEF Return, Awake, LoopSaved, Finish, AllSeen, Selecting, IInv, Places
  <2>2. saving' \in {"snapshot", "replace", "sync"} => FALSE
    BY <1>2, <2>1 DEF Return, Awake, LoopSaved, Finish, AllSeen, Selecting, IInv, Places
  <2>3. Places' /\ LastDump'
    BY <2>1, <2>2 DEF Places, LastDump
  <2>4. Known' /\ Recorded' /\ Confirmed' /\ AckedDelivered' /\ NothingLost'
    BY <2>1 DEF IInv, Known, Recorded, TakenUnless, Confirmed, AckedDelivered, NothingLost,
                Up, QueuePairs, DumpPairs, PairsOf, Wants
  <2> QED BY <2>3, <2>4 DEF IInv
<1>3. ASSUME NEW d \in Dests, PassOver(d) PROVE IInv'
  BY <1>3, Frame DEF PassOver
<1>4. ASSUME NEW d \in Dests, NEW p \in Packets, Start(d, p) PROVE IInv'
  <2>1. Places' /\ LastDump' /\ Confirmed' /\ AckedDelivered' /\ NothingLost'
    BY <1>4 DEF Start, IInv, Places, LastDump, Confirmed, AckedDelivered, NothingLost,
                Up, QueuePairs, DumpPairs, PairsOf, Wants
  <2>2. Known'
    BY <1>4, <1>t DEF Start, First, Candidates, IInv, Known, TypeOK
  <2>3. Recorded'
    BY <1>4, <1>t DEF Start, IInv, Recorded, TakenUnless, Wants, TypeOK
  <2> QED BY <2>1, <2>2, <2>3 DEF IInv
<1>5. ASSUME NEW d \in Dests, Failure(d) PROVE IInv'
  <2>1. Places' /\ LastDump' /\ Confirmed' /\ AckedDelivered' /\ NothingLost'
    BY <1>5 DEF Failure, Selecting, AllSeen, IInv, Places, LastDump, Confirmed, AckedDelivered, NothingLost,
                Up, QueuePairs, DumpPairs, PairsOf, Wants
  <2>2. Known' /\ Recorded'
    BY <1>5, <1>t DEF Failure, Idle, IInv, Known, Recorded, TakenUnless, Wants, TypeOK
  <2> QED BY <2>1, <2>2 DEF IInv
<1>6. ASSUME NEW d \in Dests, Success(d) PROVE IInv'
  <2> DEFINE p == busy[d]
  <2>1. /\ p \in Packets /\ p \in accepted[d] /\ <<p, d>> \notin owed
        /\ loop = "visit" /\ main \notin {"saving", "closing", "exited", "down", "refused"}
        /\ pending' = [pending EXCEPT ![p] = @ \ {d}]
        /\ UNCHANGED <<queue, done, main, connVars, snap, disk, synced, sent, reply, accepted, owed>>
    BY <1>6, <1>t DEF Success, Selecting, AllSeen, IInv, Recorded, Places, TypeOK
  <2>2. \A q \in Packets : \A e \in Dests : e \in pending[q] => e \in pending'[q] \/ (q = p /\ e = d)
    BY <2>1, <1>t DEF TypeOK
  <2>3. \A q \in Packets : pending'[q] \subseteq pending[q]
    BY <2>1, <1>t DEF TypeOK
  <2>4. Places' /\ LastDump'
    BY <1>6, <2>1 DEF Success, Places, LastDump
  <2>5. Confirmed' /\ AckedDelivered' /\ Known'
    BY <1>6, <2>1, <1>t DEF Success, Idle, IInv, Confirmed, AckedDelivered, Known, Wants, TypeOK
  <2>6. Recorded'
    <3>1. TakenUnless(queue \union done, pending)'
      BY <2>1, <2>2, <1>t, RelayAssumption DEF IInv, Recorded, TakenUnless, Wants, TypeOK
    <3>2. /\ TakenUnless(snap.items, snap.left)' /\ TakenUnless(disk.items, disk.left)'
          /\ TakenUnless(synced.items, synced.left)'
      BY <2>1 DEF IInv, Recorded, TakenUnless, Wants
    <3>3. \A q \in done' : pending'[q] = {}
      BY <2>1, <2>3, <1>t DEF IInv, Recorded, TypeOK
    <3>4. \A e \in Dests : attempt'[e] = "ok" => busy'[e] \in accepted[e] /\ <<busy'[e], e>> \notin owed
      BY <1>6, <1>t DEF Success, Idle, IInv, Recorded, TypeOK
    <3> QED BY <2>1, <3>1, <3>2, <3>3, <3>4 DEF Recorded
  <2>7. NothingLost'
    <3>1. Up /\ Up'
      BY <2>1 DEF Up
    <3>2. ASSUME NEW x \in owed, x \in QueuePairs PROVE x \in QueuePairs'
      <4>1. x \in Packets \X Dests /\ x[1] \in queue /\ x[2] \in pending[x[1]]
        BY <3>2 DEF QueuePairs, PairsOf
      <4>2. x = <<x[1], x[2]>> /\ x[1] \in Packets /\ x[2] \in Dests
        BY <4>1
      <4>3. ~(x[1] = p /\ x[2] = d)
        BY <2>1, <4>2
      <4> QED BY <2>1, <2>2, <4>1, <4>2, <4>3 DEF QueuePairs, PairsOf
    <3> QED BY <2>1, <3>1, <3>2 DEF IInv, NothingLost
  <2> QED BY <2>4, <2>5, <2>6, <2>7 DEF IInv
<1> QED BY <1>1, <1>2, <1>3, <1>4, <1>5, <1>6 DEF Delivery

LEMMA WorkerInv == IInv /\ TypeOK' /\ Worker => IInv'
<1> SUFFICES ASSUME IInv, TypeOK', NEW d \in Dests, NEW taken \in BOOLEAN,
                    AttemptOk(d) \/ AttemptErr(d, taken)
             PROVE IInv'
  BY DEF Worker
<1> USE DEF itemVars, relayVars, connVars, loopVars, targetVars, serveVars, dumpVars, worldVars
<1>t. TypeOK
  BY DEF IInv
<1>1. /\ owed' \subseteq owed
      /\ \A e \in Dests : accepted[e] \subseteq accepted'[e]
      /\ UNCHANGED <<queue, pending, done, busy, main, loop, saving, snap, disk, synced, handler, current, sent, reply>>
  BY <1>t DEF AttemptOk, AttemptErr, TypeOK
<1>2. Places' /\ LastDump' /\ Confirmed' /\ Known' /\ NothingLost'
  BY <1>1 DEF IInv, Places, LastDump, Confirmed, Known, NothingLost, Up, QueuePairs, DumpPairs, PairsOf
<1>3. AckedDelivered'
  BY <1>1, RelayAssumption DEF IInv, AckedDelivered, Wants
<1>4. Recorded'
  <2>1. /\ TakenUnless(queue \union done, pending)' /\ TakenUnless(snap.items, snap.left)'
        /\ TakenUnless(disk.items, disk.left)' /\ TakenUnless(synced.items, synced.left)'
    BY <1>1, RelayAssumption DEF IInv, Recorded, TakenUnless, Wants
  <2>2. \A e \in Dests : attempt'[e] = "ok" => busy'[e] \in accepted'[e] /\ <<busy'[e], e>> \notin owed'
    <3>1. attempt'[d] = "ok" => busy'[d] \in accepted'[d] /\ <<busy'[d], d>> \notin owed'
      BY <1>t DEF AttemptOk, AttemptErr, TypeOK
    <3>2. \A e \in Dests : e # d => attempt'[e] = attempt[e]
      BY <1>t DEF AttemptOk, AttemptErr, TypeOK
    <3> QED BY <1>1, <3>1, <3>2 DEF IInv, Recorded
  <2> QED BY <1>1, <2>1, <2>2 DEF IInv, Recorded
<1> QED BY <1>2, <1>3, <1>4 DEF IInv

\* Whatever is pending is in the snapshot.
LEMMA SnapshotPairs == TypeOK /\ Snapshot => DumpPairs(snap)' = QueuePairs
<1> SUFFICES ASSUME TypeOK, Snapshot PROVE DumpPairs(snap)' = QueuePairs
  OBVIOUS
<1>1. snap'.items = ToSave /\ \A p \in ToSave : p \in Packets /\ snap'.left[p] = pending[p]
  BY DEF Snapshot, ToSave, TypeOK
<1> QED BY <1>1 DEF DumpPairs, QueuePairs, PairsOf, ToSave

LEMMA SavingInv == IInv /\ TypeOK' /\ Saving => IInv'
<1> SUFFICES ASSUME IInv, TypeOK', Saving PROVE IInv'
  OBVIOUS
<1> USE DEF itemVars, relayVars, connVars, loopVars, targetVars, serveVars, worldVars
<1>t. TypeOK
  BY DEF IInv
<1>1. /\ UNCHANGED <<queue, pending, done, busy, attempt, main, loop, handler, current, sent, reply, accepted, owed>>
      /\ loop = "saving" \/ main = "saving"
      /\ Up
  BY DEF Saving, Snapshot, Replace, SyncDirectory, SaveFails, IInv, Places, Up
<1>2. Places' /\ Confirmed' /\ AckedDelivered' /\ NothingLost'
  BY <1>1 DEF IInv, Places, Confirmed, AckedDelivered, NothingLost, Up, QueuePairs, PairsOf, Wants
<1>3. main # "closing"
  BY DEF Saving, Snapshot, Replace, SyncDirectory, SaveFails, IInv, Places
<1>4. CASE Snapshot
  <2>1. LastDump'
    BY <1>1, <1>3, <1>4, <1>t, SnapshotPairs DEF Snapshot, IInv, NothingLost, LastDump
  <2>2. snap'.items = ToSave /\ \A p \in ToSave : p \in Packets /\ snap'.left[p] = pending[p]
    BY <1>4, <1>t DEF Snapshot, ToSave, TypeOK
  <2>3. Known' /\ Recorded'
    BY <1>1, <1>4, <2>2 DEF Snapshot, IInv, Known, Recorded, TakenUnless, ToSave, Wants
  <2> QED BY <1>2, <2>1, <2>3 DEF IInv
<1>5. CASE Replace \/ SyncDirectory \/ SaveFails
  <2>1. /\ snap' \in {snap, NoDump} /\ disk' \in {disk, snap} /\ synced' \in {synced, disk}
    BY <1>5 DEF Replace, SyncDirectory, SaveFails
  <2>2. LastDump'
    BY <1>1, <1>3, <1>5 DEF Replace, SyncDirectory, SaveFails, IInv, LastDump, DumpPairs, PairsOf
  <2>3. Known' /\ Recorded'
    BY <1>1, <2>1 DEF IInv, Known, Recorded, TakenUnless, NoDump, Wants
  <2> QED BY <1>2, <2>2, <2>3 DEF IInv
<1> QED BY <1>4, <1>5 DEF Saving

LEMMA ServingInv == IInv /\ TypeOK' /\ Serving => IInv'
<1> SUFFICES ASSUME IInv, TypeOK', Serving PROVE IInv'
  OBVIOUS
<1> USE DEF itemVars, relayVars, connVars, loopVars, targetVars, dumpVars, worldVars
<1>1. /\ UNCHANGED <<queue, pending, done, busy, attempt, loop, snap, disk, synced, handler, current, sent, reply, accepted>>
      /\ owed' \subseteq owed
      /\ Up
  BY DEF Serving, BeginStop, CloseConnections, HandlersDone, DeliveryDone, ServerSaved, Exit, Up
<1>2. Known' /\ Recorded' /\ Confirmed' /\ AckedDelivered'
  BY <1>1 DEF IInv, Known, Recorded, TakenUnless, Confirmed, AckedDelivered, Wants
<1>3. owed \subseteq QueuePairs
  BY <1>1 DEF IInv, NothingLost
<1>4. CASE BeginStop \/ CloseConnections \/ HandlersDone \/ DeliveryDone \/ ServerSaved
  <2>1. Places'
    BY <1>4 DEF BeginStop, CloseConnections, HandlersDone, DeliveryDone, ServerSaved, IInv, Places
  <2>2. LastDump'
    <3>1. queue = {} => QueuePairs = {}
      BY DEF QueuePairs, PairsOf
    <3> QED BY <1>1, <1>3, <1>4, <3>1 DEF BeginStop, CloseConnections, HandlersDone, DeliveryDone, DumpDue, ServerSaved,
                                          IInv, LastDump, DumpPairs, PairsOf
  <2>3. NothingLost'
    <3>1. Up'
      BY <1>4 DEF BeginStop, CloseConnections, HandlersDone, DeliveryDone, ServerSaved, Up
    <3> QED BY <1>1, <1>3, <3>1 DEF NothingLost, QueuePairs, PairsOf
  <2> QED BY <1>2, <2>1, <2>2, <2>3 DEF IInv
<1>5. CASE Exit
  <2>1. Places' /\ LastDump'
    BY <1>5 DEF Exit, IInv, Places, LastDump
  <2>2. NothingLost'
    BY <1>1, <1>5 DEF Exit, IInv, LastDump, NothingLost, Up, DumpPairs, PairsOf
  <2> QED BY <1>2, <2>1, <2>2 DEF IInv
<1> QED BY <1>4, <1>5 DEF Serving

LEMMA CrashInv == IInv /\ TypeOK' /\ Crash => IInv'
<1> SUFFICES ASSUME IInv, TypeOK', Crash PROVE IInv'
  OBVIOUS
<1>1. /\ queue' = {} /\ done' = {} /\ main' = "down" /\ saving' = "no" /\ loop' = "top" /\ snap' = NoDump
      /\ disk' \in {disk, synced} /\ synced' \in {disk, synced}
      /\ owed' \subseteq DumpPairs(disk')
      /\ \A c \in Conns : handler'[c] # "confirming"
      /\ \A d \in Dests : busy'[d] = None /\ attempt'[d] = "idle"
      /\ UNCHANGED <<sent, reply, accepted>>
  BY DEF Crash, Load, NoDump
<1>2. Places' /\ LastDump' /\ Confirmed' /\ AckedDelivered'
  BY <1>1 DEF IInv, Places, LastDump, Confirmed, AckedDelivered, Wants
<1>3. Known' /\ Recorded'
  BY <1>1 DEF IInv, Known, Recorded, TakenUnless, NoDump, Wants
<1>4. NothingLost'
  BY <1>1 DEF NothingLost, Up, DumpPairs, PairsOf
<1> QED BY <1>2, <1>3, <1>4 DEF IInv

LEMMA RestartInv == IInv /\ TypeOK' /\ Restart => IInv'
<1> SUFFICES ASSUME IInv, TypeOK', Restart PROVE IInv'
  OBVIOUS
<1>1. /\ queue' = disk.items /\ pending' = disk.left /\ done' = {} /\ snap' = NoDump
      /\ main' \in {"serving", "refused"} /\ saving' = "no" /\ loop' = "top"
      /\ \A c \in Conns : handler'[c] # "confirming"
      /\ \A d \in Dests : busy'[d] = None /\ attempt'[d] = "idle"
      /\ UNCHANGED <<disk, synced, sent, reply, accepted, owed>>
      /\ ~Up
  BY DEF Restart, Load, Up
<1>2. Places' /\ LastDump' /\ Confirmed' /\ AckedDelivered'
  BY <1>1 DEF IInv, Places, LastDump, Confirmed, AckedDelivered, Wants
<1>3. Known' /\ Recorded'
  BY <1>1 DEF IInv, Known, Recorded, TakenUnless, NoDump, Wants
<1>4. NothingLost'
  BY <1>1 DEF IInv, NothingLost, Up, QueuePairs, DumpPairs, PairsOf
<1> QED BY <1>2, <1>3, <1>4 DEF IInv

LEMMA NextInv == IInv /\ [Next]_vars => IInv'
<1> SUFFICES ASSUME IInv, [Next]_vars PROVE IInv'
  OBVIOUS
<1>t. TypeOK /\ TypeOK'
  BY NextType DEF IInv
<1> USE DEF itemVars, relayVars, connVars, loopVars, targetVars, serveVars, dumpVars, worldVars
<1>1. CASE AcceptFails \/ Tick \/ Terminated \/ UNCHANGED vars
  BY <1>1, <1>t, Frame DEF AcceptFails, Tick, Terminated, vars
<1>2. CASE Stop
  BY <1>2, <1>t, Frame DEF Stop
<1> QED
  BY <1>1, <1>2, <1>t, ConnectionInv, DeliveryInv, WorkerInv, SavingInv, ServingInv, CrashInv, RestartInv DEF Next

LEMMA InitInv == Init => IInv
<1> SUFFICES ASSUME Init PROVE IInv
  OBVIOUS
<1>1. TypeOK
  BY InitType
<1>2. Places /\ Known /\ Recorded /\ LastDump /\ Confirmed /\ NothingLost /\ AckedDelivered
  BY DEF Init, Places, Known, Recorded, TakenUnless, LastDump, Confirmed, NothingLost, AckedDelivered, NoDump
<1> QED BY <1>1, <1>2 DEF IInv

THEOREM Inductive == Spec => []IInv
BY InitInv, NextInv, PTL DEF Spec

\* A promised delivery is in the queue of the running process or in the dump of
\* one that has ended, until its destination takes the packet (queue.go:138,
\* server.go:176, dump.go:201).
THEOREM NeverLost == Spec => []NothingLost
<1>1. IInv => NothingLost
  BY DEF IInv
<1> QED BY <1>1, Inductive, PTL

\* In mode "delivered" a terminal that reads a positive answer has its packet at
\* every destination the packet is for (connection.go:128, queue.go:140).
THEOREM AckMeansDelivered == Spec => []AckedDelivered
<1>1. IInv => AckedDelivered
  BY DEF IInv
<1> QED BY <1>1, Inductive, PTL

----------------------------------------------------------------------------
\* The inductive invariant.

\* Deliveries that are still owed or were made.
Accounted == owed \union Taken

\* A stopping server has neither handlers nor workers when it needs them gone.
Gone ==
    /\ main \in {"drain", "delivery", "saving", "closing", "exited"} => listener = "returned"
    /\ main \in {"delivery", "saving", "closing", "exited"} => \A c \in Conns : handler[c] \in {"new", "ended"}
    /\ loop = "returned" => \A d \in Dests : busy[d] = None

\* A delivery is owed until it is made, of packets that were sent.
OwedOnce ==
    /\ owed \intersect Taken = {}
    /\ \A x \in Accounted : x[1] \in sent

\* What a dump, the queue or a worker holds is accounted for, and a newer dump
\* lacks only deliveries that were made.
Covered ==
    /\ DumpPairs(synced) \subseteq DumpPairs(disk) \union Taken
    /\ saving = "replace" => DumpPairs(synced) \subseteq DumpPairs(snap) \union Taken
    /\ saving # "replace" => DumpPairs(snap) = {}
    /\ DumpPairs(snap) \subseteq Accounted
    /\ DumpPairs(disk) \subseteq Accounted
    /\ DumpPairs(synced) \subseteq Accounted
    /\ main \notin {"closing", "exited"} => QueuePairs \subseteq Accounted
    /\ \A d \in Dests : busy[d] # None => <<busy[d], d>> \in Accounted

\* Only packets that were sent are answered; one that is handled is not answered
\* yet and, if it was refused, nobody's.
Handled ==
    /\ \A p \in Packets : reply[p] # "none" => p \in sent
    /\ \A c \in Conns : handler[c] \in {"waiting", "confirming", "refusing"} =>
        /\ current[c] \in sent /\ ConnOf[current[c]] = c /\ reply[current[c]] = "none"
        /\ handler[c] # "refusing" => \A d \in Wants(current[c]) : <<current[c], d>> \in Accounted
        /\ handler[c] = "refusing" => \A d \in Dests : <<current[c], d>> \notin Accounted

ContractInv == Gone /\ OwedOnce /\ Covered /\ Handled

----------------------------------------------------------------------------
\* Steps, seen from the accounts.

\* The queue, the dumps and the workers stay as they are.
Still == UNCHANGED <<queue, pending, busy, disk, synced, snap, saving>>

\* Deliveries are neither promised nor made nor lost.
Settled == UNCHANGED <<owed, accepted>>

LEMMA Unaccounted ==
    /\ Settled => Taken' = Taken /\ Accounted' = Accounted
    /\ Still => /\ QueuePairs' = QueuePairs /\ DumpPairs(disk)' = DumpPairs(disk)
                /\ DumpPairs(snap)' = DumpPairs(snap) /\ DumpPairs(synced)' = DumpPairs(synced)
  BY DEF Settled, Still, Taken, Accounted, Pairs, QueuePairs, DumpPairs, PairsOf

LEMMA GoneKept == IInv /\ Gone /\ [Next]_vars => Gone'
<1> SUFFICES ASSUME IInv, Gone, [Next]_vars PROVE Gone'
  OBVIOUS
<1> USE DEF itemVars, relayVars, connVars, loopVars, targetVars, serveVars, dumpVars, worldVars
<1>t. TypeOK
  BY DEF IInv
<1>1. CASE Connection
  <2>1. PICK c \in Conns : \/ Accept(c) \/ Register(c) \/ SessionFails(c)
                         \/ (\E p \in Packets : Enqueue(c, p) \/ Refuse(c, p))
                         \/ Delivered(c) \/ Answer(c) \/ HandlerEnds(c)
    BY <1>1 DEF Connection
  <2>2. CASE Accept(c) \/ SessionFails(c)
    BY <2>2 DEF Gone, Accept, SessionFails
  <2>3. CASE Register(c)
    <3>1. main \notin {"delivery", "saving", "closing", "exited"}
      BY <2>3 DEF Gone, Register
    <3>2. UNCHANGED <<main, loop, busy>> /\ (main # "serving" => listener' = "returned")
      BY <2>3 DEF Register
    <3> QED BY <3>1, <3>2 DEF Gone
  <2>4. CASE \/ \E p \in Packets : Enqueue(c, p) \/ Refuse(c, p)
             \/ Delivered(c) \/ Answer(c) \/ HandlerEnds(c)
    <3>1. handler[c] \notin {"new", "ended"}
      BY <2>4 DEF Enqueue, Refuse, Delivered, Answer, HandlerEnds
    <3>2. UNCHANGED <<main, loop, busy, listener>>
      BY <2>4 DEF Enqueue, Refuse, Delivered, Answer, HandlerEnds
    <3> QED BY <3>1, <3>2 DEF Gone
  <2> QED BY <2>1, <2>2, <2>3, <2>4
<1>2. CASE Delivery
  <2>1. UNCHANGED <<main, listener, handler>> /\ loop # "returned"
    BY <1>2 DEF Delivery, Top, Return, Awake, LoopSaved, Finish, PassOver, Start, Failure, Success, Selecting, AllSeen
  <2>2. loop' = "returned" => Return
    BY <1>2 DEF Delivery, Top, Return, Awake, LoopSaved, Finish, PassOver, Start, Failure, Success, Selecting, AllSeen
  <2> QED BY <2>1, <2>2 DEF Gone, Return, Drained, Active
<1>3. CASE Worker \/ Tick \/ Saving \/ Stop
  BY <1>3 DEF Gone, Worker, AttemptOk, AttemptErr, Tick, Saving, Snapshot, Replace, SyncDirectory, SaveFails, Stop
<1>4. CASE Serving
  BY <1>4 DEF Gone, Serving, BeginStop, CloseConnections, HandlersDone, DeliveryDone, ServerSaved, Exit
<1>5. CASE AcceptFails
  BY <1>5 DEF Gone, AcceptFails
<1>6. CASE Crash \/ Restart
  <2>1. main' \in {"down", "serving", "refused"} /\ loop' = "top"
    BY <1>6 DEF Crash, Restart, Load
  <2> QED BY <2>1 DEF Gone
<1>7. CASE Terminated \/ UNCHANGED vars
  BY <1>7 DEF Gone, Terminated, vars
<1> QED BY <1>1, <1>2, <1>3, <1>4, <1>5, <1>6, <1>7 DEF Next

\* Packets that are handled stay as they are.
Handling ==
    \A c \in Conns : handler'[c] \in {"waiting", "confirming", "refusing"} =>
        /\ handler[c] \in {"waiting", "confirming", "refusing"} /\ current'[c] = current[c]
        /\ handler'[c] = "refusing" <=> handler[c] = "refusing"

\* A step of the contract, or none.
ContractStep == [Contract!Next]_(Contract!vars)

LEMMA SafeStays ==
    UNCHANGED <<sent, owed, accepted, reply>> /\ synced' = synced => ContractStep
  BY DEF ContractStep, Contract!vars, DumpPairs, PairsOf

\* Steps that change neither what is held nor the accounts.
LEMMA QuietStep ==
    ContractInv /\ Still /\ Settled /\ UNCHANGED <<sent, reply>> /\ Handling
    /\ (main' \notin {"closing", "exited"} => main \notin {"closing", "exited"})
    => OwedOnce' /\ Covered' /\ Handled' /\ ContractStep
<1> SUFFICES ASSUME ContractInv, Still, Settled, UNCHANGED <<sent, reply>>, Handling,
                    main' \notin {"closing", "exited"} => main \notin {"closing", "exited"}
             PROVE  OwedOnce' /\ Covered' /\ Handled' /\ ContractStep
  OBVIOUS
<1>1. OwedOnce'
  BY Unaccounted DEF ContractInv, OwedOnce, Settled
<1>2. Covered'
  BY Unaccounted DEF ContractInv, Covered, Still
<1>3. Handled'
  BY Unaccounted DEF ContractInv, Handled, Handling, Wants
<1>4. ContractStep
  BY SafeStays DEF Settled, Still
<1> QED BY <1>1, <1>2, <1>3, <1>4

\* Connections: a packet is promised, rejected or answered.
LEMMA ConnectionContract ==
    IInv /\ ContractInv /\ Connection => OwedOnce' /\ Covered' /\ Handled' /\ ContractStep
<1> SUFFICES ASSUME IInv, ContractInv, Connection
             PROVE  OwedOnce' /\ Covered' /\ Handled' /\ ContractStep
  OBVIOUS
<1> USE DEF itemVars, relayVars, connVars, loopVars, targetVars, serveVars, dumpVars, worldVars
<1>t. TypeOK
  BY DEF IInv
<1>1. ASSUME NEW c \in Conns, Accept(c) \/ Register(c) \/ SessionFails(c) \/ Delivered(c) \/ HandlerEnds(c)
      PROVE  OwedOnce' /\ Covered' /\ Handled' /\ ContractStep
  <2>1. Still /\ Settled /\ UNCHANGED <<sent, reply, main>>
    BY <1>1 DEF Accept, Register, SessionFails, Delivered, HandlerEnds, Still, Settled
  <2>2. Handling
    BY <1>1, <1>t DEF Accept, Register, SessionFails, Delivered, HandlerEnds, Handling, TypeOK
  <2> QED BY <2>1, <2>2, QuietStep
<1>2. ASSUME NEW c \in Conns, NEW p \in Packets, Enqueue(c, p)
      PROVE  OwedOnce' /\ Covered' /\ Handled' /\ ContractStep
  <2> DEFINE new == {p} \X Wants(p)
  <2>1. /\ p \notin sent /\ sent' = sent \union {p} /\ queue' = queue \union {p} /\ owed' = owed \union new
        /\ ConnOf[p] = c /\ pending' = [pending EXCEPT ![p] = Wants(p)]
        /\ UNCHANGED <<busy, disk, synced, snap, saving, accepted, main, reply>>
    BY <1>2 DEF Enqueue
  <2>2. Wants(p) \subseteq Dests /\ new \subseteq Pairs
    BY RelayAssumption DEF Wants, Pairs
  <2>3. Taken' = Taken /\ Accounted' = Accounted \union new
    BY <2>1 DEF Taken, Accounted, Pairs
  <2>4. OwedOnce'
    BY <2>1, <2>3 DEF ContractInv, OwedOnce, Accounted
  <2>5. QueuePairs' \subseteq QueuePairs \union new
    <3>1. ASSUME NEW q \in Packets, NEW d \in Dests, q \in queue', d \in pending'[q], <<q, d>> \notin new
          PROVE  q \in queue /\ d \in pending[q]
      BY <2>1, <3>1, <1>t DEF TypeOK
    <3> QED BY <3>1 DEF QueuePairs, PairsOf
  <2>6. /\ DumpPairs(disk)' = DumpPairs(disk) /\ DumpPairs(snap)' = DumpPairs(snap)
        /\ DumpPairs(synced)' = DumpPairs(synced)
    BY <2>1 DEF DumpPairs, PairsOf
  <2>7. Covered'
    BY <2>1, <2>3, <2>5, <2>6 DEF ContractInv, Covered
  <2>8. Handled'
    <3>1. /\ current' = [current EXCEPT ![c] = p]
          /\ handler' = [handler EXCEPT ![c] = IF AckMode = "delivered" THEN "waiting" ELSE "confirming"]
      BY <1>2 DEF Enqueue
    <3>2. reply[p] = "none"
      BY <2>1 DEF ContractInv, Handled
    <3> QED BY <2>1, <2>3, <3>1, <3>2, <1>t DEF ContractInv, Handled, TypeOK, Wants
  <2>9. ContractStep
    <3>1. (DumpPairs(synced) \intersect owed)' = DumpPairs(synced) \intersect owed
      BY <2>1, <2>6 DEF IInv, Known, DumpPairs, PairsOf
    <3>2. Contract!Promise(p)
      BY <2>1, <3>1 DEF Contract!Promise
    <3> QED BY <3>2 DEF ContractStep, Contract!Next
  <2> QED BY <2>4, <2>7, <2>8, <2>9
<1>3. ASSUME NEW c \in Conns, NEW p \in Packets, Refuse(c, p)
      PROVE  OwedOnce' /\ Covered' /\ Handled' /\ ContractStep
  <2>1. /\ p \notin sent /\ sent' = sent \union {p} /\ ConnOf[p] = c
        /\ current' = [current EXCEPT ![c] = p] /\ handler' = [handler EXCEPT ![c] = "refusing"]
        /\ Still /\ Settled /\ UNCHANGED <<main, reply>>
    BY <1>3 DEF Refuse, Still, Settled
  <2>2. OwedOnce' /\ Covered'
    BY <2>1, Unaccounted DEF ContractInv, OwedOnce, Covered, Still, Settled
  <2>3. \A d \in Dests : <<p, d>> \notin Accounted
    BY <2>1 DEF ContractInv, OwedOnce
  <2>4. Handled'
    <3>1. reply[p] = "none"
      BY <2>1 DEF ContractInv, Handled
    <3> QED BY <2>1, <2>3, <3>1, Unaccounted, <1>t DEF ContractInv, Handled, TypeOK, Wants
  <2>5. Contract!Reject(p)
    BY <2>1 DEF Contract!Reject, Still, Settled, DumpPairs, PairsOf
  <2> QED BY <2>2, <2>4, <2>5 DEF ContractStep, Contract!Next
<1>4. ASSUME NEW c \in Conns, Answer(c)
      PROVE  OwedOnce' /\ Covered' /\ Handled' /\ ContractStep
  <2> DEFINE p == current[c]
  <2>1. /\ handler[c] \in {"confirming", "refusing"}
        /\ reply' = [reply EXCEPT ![p] = IF handler[c] = "confirming" THEN "ok" ELSE "refused"]
        /\ handler' = [handler EXCEPT ![c] = "reading"]
        /\ current' = [current EXCEPT ![c] = None]
        /\ Still /\ Settled /\ UNCHANGED <<main, sent>>
    BY <1>4 DEF Answer, Still, Settled
  <2>2. p \in sent /\ p \in Packets /\ ConnOf[p] = c /\ reply[p] = "none"
    BY <2>1, <1>t DEF ContractInv, Handled, TypeOK
  <2>3. OwedOnce' /\ Covered'
    BY <2>1, Unaccounted DEF ContractInv, OwedOnce, Covered, Still, Settled
  <2>4. Handled'
    <3>1. \A e \in Conns : e # c => current'[e] = current[e] /\ handler'[e] = handler[e]
      BY <2>1, <1>t DEF TypeOK
    <3>2. \A q \in Packets : q # p => reply'[q] = reply[q]
      BY <2>1, <1>t DEF TypeOK
    <3>3. handler'[c] = "reading"
      BY <2>1, <1>t DEF TypeOK
    <3> QED BY <2>1, <2>2, <3>1, <3>2, <3>3, Unaccounted DEF ContractInv, Handled, Wants
  <2>5. Contract!Answer(p)
    <3>1. UNCHANGED <<sent, owed, accepted>> /\ (DumpPairs(synced) \intersect owed)' = DumpPairs(synced) \intersect owed
      BY <2>1 DEF Still, Settled, DumpPairs, PairsOf
    <3>2. CASE handler[c] = "confirming"
      <4>1. \A d \in Wants(p) : <<p, d>> \in owed \/ p \in accepted[d]
        BY <3>2, <2>2 DEF ContractInv, Handled, Accounted, Taken
      <4>2. AckMode = "delivered" => \A d \in Wants(p) : p \in accepted[d]
        BY <3>2, <2>2 DEF IInv, Confirmed, Recorded, TakenUnless
      <4> QED BY <2>1, <2>2, <3>1, <3>2, <4>1, <4>2 DEF Contract!Answer, Contract!Accounted
    <3>3. CASE handler[c] = "refusing"
      <4>1. \A d \in Dests : <<p, d>> \notin owed /\ p \notin accepted[d]
        BY <3>3, <2>2 DEF ContractInv, Handled, Accounted, Taken, Pairs
      <4> QED BY <2>1, <2>2, <3>1, <3>3, <4>1 DEF Contract!Answer, Contract!Accounted
    <3> QED BY <2>1, <3>2, <3>3
  <2> QED BY <2>2, <2>3, <2>4, <2>5 DEF ContractStep, Contract!Next
<1> QED BY <1>1, <1>2, <1>3, <1>4 DEF Connection

\* The delivery loop only moves deliveries that are accounted for.
LEMMA DeliveryContract ==
    IInv /\ ContractInv /\ Delivery => OwedOnce' /\ Covered' /\ Handled' /\ ContractStep
<1> SUFFICES ASSUME IInv, ContractInv, Delivery
             PROVE  OwedOnce' /\ Covered' /\ Handled' /\ ContractStep
  OBVIOUS
<1> USE DEF itemVars, relayVars, connVars, loopVars, targetVars, serveVars, dumpVars, worldVars
<1>t. TypeOK
  BY DEF IInv
<1>1. /\ Settled /\ UNCHANGED <<sent, reply, main, synced, disk, snap, handler, current>>
      /\ saving' = "replace" <=> saving = "replace"
  BY DEF Delivery, Top, Return, Awake, LoopSaved, Finish, PassOver, Start, Failure, Success, Selecting, AllSeen, Settled,
         IInv, Places
<1>2. OwedOnce' /\ Handled'
  BY <1>1, Unaccounted DEF ContractInv, OwedOnce, Handled, Settled, Wants
<1>3. QueuePairs' \subseteq QueuePairs
  <2>1. queue' \subseteq queue /\ \A p \in Packets : pending'[p] \subseteq pending[p]
    <3>1. CASE Top
      BY <3>1 DEF Top, Unfinished
    <3>2. ASSUME NEW d \in Dests, Success(d) PROVE queue' \subseteq queue /\ \A p \in Packets : pending'[p] \subseteq pending[p]
      BY <3>2, <1>t DEF Success, TypeOK
    <3>3. CASE ~Top /\ ~\E d \in Dests : Success(d)
      BY <3>3 DEF Delivery, Return, Awake, LoopSaved, Finish, PassOver, Start, Failure
    <3> QED BY <3>1, <3>2, <3>3
  <2> QED BY <2>1 DEF QueuePairs, PairsOf
<1>4. \A d \in Dests : busy'[d] # None => <<busy'[d], d>> \in Accounted
  <2>1. ASSUME NEW d \in Dests, NEW p \in Packets, Start(d, p) PROVE <<p, d>> \in Accounted
    <3>1. p \in queue /\ d \in pending[p] /\ main \notin {"closing", "exited"}
      BY <2>1 DEF Start, First, Candidates, IInv, Places
    <3> QED BY <3>1 DEF ContractInv, Covered, QueuePairs, PairsOf
  <2>2. CASE \E d \in Dests, p \in Packets : Start(d, p)
    <3>1. PICK d \in Dests, p \in Packets : Start(d, p)
      BY <2>2
    <3>2. busy' = [busy EXCEPT ![d] = p] /\ <<p, d>> \in Accounted
      BY <2>1, <3>1 DEF Start
    <3> QED BY <3>2, <1>t DEF ContractInv, Covered, TypeOK
  <2>3. CASE ~\E d \in Dests, p \in Packets : Start(d, p)
    <3>1. \A d \in Dests : busy'[d] \in {None, busy[d]}
      <4>1. ASSUME NEW d \in Dests, Failure(d) \/ Success(d) PROVE \A e \in Dests : busy'[e] \in {None, busy[e]}
        <5>1. busy' = [busy EXCEPT ![d] = None]
          BY <4>1 DEF Failure, Success, Idle
        <5> QED BY <5>1, <1>t DEF TypeOK
      <4>2. CASE ~\E d \in Dests : Failure(d) \/ Success(d)
        BY <2>3, <4>2 DEF Delivery, Top, Return, Awake, LoopSaved, Finish, PassOver
      <4> QED BY <4>1, <4>2
    <3> QED BY <3>1 DEF ContractInv, Covered
  <2> QED BY <2>2, <2>3
<1>5. Covered'
  BY <1>1, <1>3, <1>4, Unaccounted DEF ContractInv, Covered, DumpPairs, PairsOf
<1>6. ContractStep
  BY <1>1, SafeStays DEF Settled
<1> QED BY <1>2, <1>5, <1>6

\* A destination that takes a packet makes a delivery that is owed, or makes one
\* again.
LEMMA WorkerContract ==
    IInv /\ ContractInv /\ Worker => OwedOnce' /\ Covered' /\ Handled' /\ ContractStep
<1> SUFFICES ASSUME IInv, ContractInv, NEW d \in Dests, NEW taken \in BOOLEAN,
                    AttemptOk(d) \/ AttemptErr(d, taken)
             PROVE  OwedOnce' /\ Covered' /\ Handled' /\ ContractStep
  BY DEF Worker
<1> USE DEF itemVars, relayVars, connVars, loopVars, targetVars, serveVars, dumpVars, worldVars
<1>t. TypeOK
  BY DEF IInv
<1> DEFINE p == busy[d]
           x == <<p, d>>
<1>1. /\ Still /\ UNCHANGED <<sent, reply, main, handler, current>>
  BY DEF AttemptOk, AttemptErr, Still
<1>2. p \in Packets /\ x \in Accounted /\ x \in Pairs
  <2>1. p # None /\ p \in Packets
    BY <1>t DEF AttemptOk, AttemptErr, TypeOK
  <2> QED BY <2>1 DEF ContractInv, Covered, Pairs
<1>3. CASE Settled
  BY <1>1, <1>3, QuietStep DEF Handling
<1>4. CASE ~Settled
  <2>1. accepted' = [accepted EXCEPT ![d] = @ \union {p}] /\ owed' = owed \ {x}
    BY <1>4 DEF AttemptOk, AttemptErr, Settled
  <2>2. Taken' = Taken \union {x}
    <3>1. ASSUME NEW q \in Packets, NEW e \in Dests PROVE q \in accepted'[e] <=> q \in accepted[e] \/ <<q, e>> = x
      BY <2>1, <1>t DEF TypeOK
    <3> QED BY <1>2, <3>1 DEF Taken, Pairs
  <2>3. Accounted' = Accounted
    BY <2>1, <2>2, <1>2 DEF Accounted
  <2>4. OwedOnce'
    BY <1>1, <2>1, <2>2, <2>3 DEF ContractInv, OwedOnce
  <2>5. Covered'
    BY <1>1, <2>2, <2>3, Unaccounted DEF ContractInv, Covered, Still
  <2>6. Handled'
    BY <1>1, <2>3 DEF ContractInv, Handled, Wants
  <2>7. x \in owed
    <3>1. x \notin Taken
      <4>1. SUFFICES ASSUME x \in Taken PROVE FALSE
        OBVIOUS
      <4>2. p \in accepted[d] /\ x \notin owed
        BY <4>1 DEF Taken, ContractInv, OwedOnce
      <4> QED BY <1>4, <2>1, <4>2, <1>t DEF Settled, TypeOK
    <3> QED BY <1>2, <3>1 DEF Accounted
  <2>8. Contract!Take(p, d)
    <3>1. (DumpPairs(synced) \intersect owed)' = (DumpPairs(synced) \intersect owed) \ {x}
      BY <1>1, <2>1, Unaccounted
    <3> QED BY <1>1, <2>1, <2>7, <3>1 DEF Contract!Take
  <2> QED BY <1>2, <2>4, <2>5, <2>6, <2>8 DEF ContractStep, Contract!Next
<1> QED BY <1>3, <1>4

\* Saving a dump makes deliveries safe.
LEMMA SavingContract ==
    IInv /\ ContractInv /\ Saving => OwedOnce' /\ Covered' /\ Handled' /\ ContractStep
<1> SUFFICES ASSUME IInv, ContractInv, Saving
             PROVE  OwedOnce' /\ Covered' /\ Handled' /\ ContractStep
  OBVIOUS
<1> USE DEF itemVars, relayVars, connVars, loopVars, targetVars, serveVars, worldVars
<1>t. TypeOK
  BY DEF IInv
<1>1. /\ Settled /\ UNCHANGED <<sent, reply, main, queue, pending, busy, handler, current>>
      /\ Up /\ main \notin {"closing", "exited"}
  BY DEF Saving, Snapshot, Replace, SyncDirectory, SaveFails, Settled, IInv, Places, Up
<1>2. OwedOnce' /\ Handled'
  BY <1>1, Unaccounted DEF ContractInv, OwedOnce, Handled, Settled, Wants
<1>3. QueuePairs' = QueuePairs
  BY <1>1 DEF QueuePairs, PairsOf
<1>4. DumpPairs(NoDump) = {}
  BY DEF NoDump, DumpPairs, PairsOf
<1>5. DumpPairs(synced) \subseteq QueuePairs \union Taken
  BY <1>1 DEF ContractInv, Covered, IInv, NothingLost, Accounted
<1>6. Covered'
  <2>1. CASE Snapshot
    <3>1. DumpPairs(snap)' = QueuePairs /\ UNCHANGED <<disk, synced>> /\ saving' = "replace"
      BY <2>1, <1>t, SnapshotPairs DEF Snapshot
    <3>2. DumpPairs(disk)' = DumpPairs(disk) /\ DumpPairs(synced)' = DumpPairs(synced)
      BY <3>1 DEF DumpPairs, PairsOf
    <3> QED BY <1>1, <1>3, <1>5, <3>1, <3>2, Unaccounted DEF ContractInv, Covered
  <2>2. CASE Replace
    <3>1. disk' = snap /\ snap' = NoDump /\ synced' = synced /\ saving = "replace" /\ saving' = "sync"
      BY <2>2 DEF Replace
    <3>2. DumpPairs(disk)' = DumpPairs(snap) /\ DumpPairs(snap)' = {} /\ DumpPairs(synced)' = DumpPairs(synced)
      BY <3>1, <1>4 DEF DumpPairs, PairsOf
    <3> QED BY <1>1, <1>3, <3>1, <3>2, Unaccounted DEF ContractInv, Covered
  <2>3. CASE SyncDirectory
    <3>1. disk' = disk /\ snap' = snap /\ synced' = disk /\ saving = "sync" /\ saving' = "saved"
      BY <2>3 DEF SyncDirectory
    <3>2. DumpPairs(disk)' = DumpPairs(disk) /\ DumpPairs(snap)' = DumpPairs(snap) /\ DumpPairs(synced)' = DumpPairs(disk)
      BY <3>1 DEF DumpPairs, PairsOf
    <3> QED BY <1>1, <1>3, <3>1, <3>2, Unaccounted DEF ContractInv, Covered
  <2>4. CASE SaveFails
    <3>1. disk' = disk /\ snap' = NoDump /\ synced' = synced /\ saving' = "failed"
      BY <2>4 DEF SaveFails
    <3>2. DumpPairs(disk)' = DumpPairs(disk) /\ DumpPairs(snap)' = {} /\ DumpPairs(synced)' = DumpPairs(synced)
      BY <3>1, <1>4 DEF DumpPairs, PairsOf
    <3> QED BY <1>1, <1>3, <3>1, <3>2, Unaccounted DEF ContractInv, Covered
  <2> QED BY <2>1, <2>2, <2>3, <2>4 DEF Saving
<1>7. ContractStep
  <2>1. CASE SyncDirectory
    <3>1. DumpPairs(synced)' = DumpPairs(disk)
      BY <2>1 DEF SyncDirectory, DumpPairs, PairsOf
    <3>2. DumpPairs(synced) \intersect owed \subseteq (DumpPairs(synced) \intersect owed)'
      BY <1>1, <3>1 DEF ContractInv, Covered, OwedOnce, Settled
    <3>3. (DumpPairs(synced) \intersect owed)' \subseteq owed
      BY <1>1 DEF Settled
    <3>4. Contract!Secure
      BY <1>1, <3>2, <3>3 DEF Contract!Secure, Settled
    <3> QED BY <3>4 DEF ContractStep, Contract!Next
  <2>2. CASE ~SyncDirectory
    BY <1>1, <2>2, SafeStays DEF Saving, Snapshot, Replace, SaveFails, Settled
  <2> QED BY <2>1, <2>2
<1> QED BY <1>2, <1>6, <1>7

\* A last dump that cannot be saved loses only deliveries that were not safe.
LEMMA ServingContract ==
    IInv /\ ContractInv /\ Serving => OwedOnce' /\ Covered' /\ Handled' /\ ContractStep
<1> SUFFICES ASSUME IInv, ContractInv, Serving
             PROVE  OwedOnce' /\ Covered' /\ Handled' /\ ContractStep
  OBVIOUS
<1> USE DEF itemVars, relayVars, connVars, loopVars, targetVars, serveVars, dumpVars, worldVars
<1>1. CASE BeginStop \/ CloseConnections \/ HandlersDone \/ Exit
  <2>1. Still /\ Settled /\ UNCHANGED <<sent, reply, handler, current>>
    BY <1>1 DEF BeginStop, CloseConnections, HandlersDone, Exit, Still, Settled
  <2>2. main' \notin {"closing", "exited"} => main \notin {"closing", "exited"}
    BY <1>1 DEF BeginStop, CloseConnections, HandlersDone, Exit
  <2> QED BY <2>1, <2>2, QuietStep DEF Handling
<1>2. CASE DeliveryDone
  <2>1. /\ Settled /\ UNCHANGED <<sent, reply, handler, current, queue, pending, busy, disk, synced, snap>>
        /\ main = "delivery" /\ (saving' = "replace" <=> saving = "replace")
    BY <1>2 DEF DeliveryDone, Settled, IInv, Places
  <2>2. OwedOnce' /\ Handled'
    BY <2>1, Unaccounted DEF ContractInv, OwedOnce, Handled, Settled, Wants
  <2>3. Covered'
    BY <2>1, Unaccounted DEF ContractInv, Covered, QueuePairs, DumpPairs, PairsOf
  <2>4. ContractStep
    BY <2>1, SafeStays DEF Settled
  <2> QED BY <2>2, <2>3, <2>4
<1>3. CASE ServerSaved
  <2>1. /\ Still /\ UNCHANGED <<accepted, sent, reply, handler, current>>
        /\ main = "saving" /\ main' = "closing" /\ saving # "replace" /\ loop = "returned"
        /\ owed' = owed \/ owed' = owed \intersect DumpPairs(disk)
    BY <1>3 DEF ServerSaved, Still, IInv, Places
  <2>2. Taken' = Taken /\ Accounted' \subseteq Accounted
    BY <2>1 DEF Taken, Accounted, Pairs
  <2>3. \A d \in Dests : busy'[d] = None
    BY <2>1 DEF ContractInv, Gone, Still
  <2>4. OwedOnce'
    BY <2>1, <2>2 DEF ContractInv, OwedOnce
  <2>5. Covered'
    <3>1. DumpPairs(disk) \subseteq Accounted' /\ DumpPairs(synced) \subseteq Accounted'
      BY <2>1, <2>2 DEF ContractInv, Covered, Accounted
    <3>2. DumpPairs(snap) \subseteq Accounted'
      BY <2>1 DEF ContractInv, Covered
    <3> QED BY <2>1, <2>2, <2>3, <3>1, <3>2, Unaccounted DEF ContractInv, Covered, Still
  <2>6. Handled'
    BY <2>1 DEF ContractInv, Handled, Gone
  <2>7. ContractStep
    <3>1. DumpPairs(synced)' = DumpPairs(synced)
      BY <2>1, Unaccounted
    <3>2. DumpPairs(synced) \intersect owed \subseteq owed'
      BY <2>1 DEF ContractInv, Covered, OwedOnce
    <3>3. Contract!Lose
      BY <2>1, <3>1, <3>2 DEF Contract!Lose
    <3> QED BY <3>3 DEF ContractStep, Contract!Next
  <2> QED BY <2>4, <2>5, <2>6, <2>7
<1> QED BY <1>1, <1>2, <1>3 DEF Serving

\* A crash loses only deliveries that were not safe.
LEMMA CrashContract ==
    IInv /\ ContractInv /\ Crash => OwedOnce' /\ Covered' /\ Handled' /\ ContractStep
<1> SUFFICES ASSUME IInv, ContractInv, Crash
             PROVE  OwedOnce' /\ Covered' /\ Handled' /\ ContractStep
  OBVIOUS
<1>1. /\ disk' \in {disk, synced} /\ synced' \in {synced, disk'}
      /\ owed' = owed \intersect DumpPairs(disk')
      /\ snap' = NoDump /\ queue' = {} /\ saving' = "no"
      /\ \A c \in Conns : handler'[c] \in {"new", "ended"}
      /\ \A d \in Dests : busy'[d] = None
      /\ UNCHANGED <<sent, reply, accepted>>
  BY DEF Crash, Load, NoDump
<1>2. /\ DumpPairs(snap)' = {} /\ QueuePairs' = {}
      /\ DumpPairs(disk)' = DumpPairs(disk') /\ DumpPairs(synced)' = DumpPairs(synced')
  BY <1>1 DEF NoDump, QueuePairs, DumpPairs, PairsOf
<1>3. Taken' = Taken /\ Accounted' = (owed \intersect DumpPairs(disk')) \union Taken
  BY <1>1 DEF Taken, Accounted, Pairs
<1>4. DumpPairs(synced) \subseteq DumpPairs(disk') \union Taken /\ DumpPairs(synced') \subseteq DumpPairs(disk') \union Taken
  BY <1>1 DEF ContractInv, Covered
<1>5. DumpPairs(disk') \subseteq Accounted
  BY <1>1 DEF ContractInv, Covered
<1>6. OwedOnce'
  BY <1>1, <1>3 DEF ContractInv, OwedOnce, Accounted
<1>7. Covered'
  BY <1>1, <1>2, <1>3, <1>4, <1>5 DEF Covered, Accounted
<1>8. Handled'
  BY <1>1 DEF ContractInv, Handled
<1>9. ContractStep
  <2>1. DumpPairs(synced) \intersect owed \subseteq owed'
    BY <1>1, <1>4 DEF ContractInv, OwedOnce
  <2>2. DumpPairs(synced) \intersect owed \subseteq DumpPairs(synced')
    BY <1>1, <1>4 DEF ContractInv, OwedOnce
  <2>3. Contract!Lose
    BY <1>1, <1>2, <2>1, <2>2 DEF Contract!Lose
  <2> QED BY <2>3 DEF ContractStep, Contract!Next
<1> QED BY <1>6, <1>7, <1>8, <1>9

\* A process that starts owes what its dump holds.
LEMMA RestartContract ==
    IInv /\ ContractInv /\ Restart => OwedOnce' /\ Covered' /\ Handled' /\ ContractStep
<1> SUFFICES ASSUME IInv, ContractInv, Restart
             PROVE  OwedOnce' /\ Covered' /\ Handled' /\ ContractStep
  OBVIOUS
<1>1. /\ queue' = disk.items /\ pending' = disk.left /\ snap' = NoDump /\ saving' = "no"
      /\ \A c \in Conns : handler'[c] \in {"new", "ended"}
      /\ \A d \in Dests : busy'[d] = None
      /\ Settled /\ UNCHANGED <<disk, synced, sent, reply>>
  BY DEF Restart, Load, Settled
<1>2. /\ DumpPairs(snap)' = {} /\ QueuePairs' = DumpPairs(disk)
      /\ DumpPairs(disk)' = DumpPairs(disk) /\ DumpPairs(synced)' = DumpPairs(synced)
  BY <1>1 DEF NoDump, QueuePairs, DumpPairs, PairsOf
<1>3. OwedOnce' /\ Handled'
  BY <1>1, Unaccounted DEF ContractInv, OwedOnce, Handled, Settled
<1>4. Covered'
  BY <1>1, <1>2, Unaccounted DEF ContractInv, Covered
<1>5. ContractStep
  BY <1>1, SafeStays DEF Settled
<1> QED BY <1>3, <1>4, <1>5

LEMMA NextContract ==
    IInv /\ ContractInv /\ [Next]_vars => ContractInv' /\ ContractStep
<1> SUFFICES ASSUME IInv, ContractInv, [Next]_vars PROVE ContractInv' /\ ContractStep
  OBVIOUS
<1>1. Gone'
  BY GoneKept DEF ContractInv
<1>2. CASE AcceptFails \/ Tick \/ Stop \/ Terminated \/ UNCHANGED vars
  <2>1. Still /\ Settled /\ UNCHANGED <<sent, reply, handler, current, main>>
    BY <1>2 DEF AcceptFails, Tick, Stop, Terminated, vars, Still, Settled,
                itemVars, relayVars, connVars, loopVars, targetVars, serveVars, dumpVars, worldVars
  <2> QED BY <1>1, <2>1, QuietStep DEF Handling, ContractInv
<1> QED
  BY <1>1, <1>2, ConnectionContract, DeliveryContract, WorkerContract, SavingContract, ServingContract,
     CrashContract, RestartContract DEF Next, ContractInv

LEMMA InitContract == Init => ContractInv /\ Contract!Init
<1> SUFFICES ASSUME Init PROVE ContractInv /\ Contract!Init
  OBVIOUS
<1>1. owed = {} /\ Taken = {} /\ QueuePairs = {} /\ DumpPairs(NoDump) = {}
  BY DEF Init, Taken, Pairs, QueuePairs, DumpPairs, PairsOf, NoDump, Nothing
<1>2. ContractInv
  BY <1>1 DEF Init, ContractInv, Gone, OwedOnce, Covered, Handled, Accounted
<1>3. Contract!Init
  BY <1>1 DEF Init, Contract!Init
<1> QED BY <1>2, <1>3

\* The gateway implements the contract with terminals and destinations: a positive
\* answer stands for deliveries that are owed or made, nothing but a failure loses
\* one, and no failure loses one that a synced dump holds (connection.go:88-134,
\* queue.go:40-169, dump.go:201-306).
THEOREM ContractKept == Spec => Fulfils
<1>1. IInv /\ ContractInv /\ [Next]_vars => [Contract!Next]_(Contract!vars)
  BY NextContract DEF ContractStep
<1>2. ContractInv /\ IInv /\ [Next]_vars => ContractInv'
  BY NextContract
<1> QED BY <1>1, <1>2, InitContract, Inductive, PTL DEF Spec, Fulfils, Contract!Spec

\* What a synced dump records stays recorded until its destination has taken the
\* packet (dump.go:201-306).
THEOREM DumpsForgetNothing == Spec => DumpNeverForgets
<1>1. IInv /\ ContractInv /\ [Next]_vars => [DumpPairs(synced) \ DumpPairs(synced') \subseteq Taken']_vars
  <2> SUFFICES ASSUME IInv, ContractInv, Next
               PROVE  DumpPairs(synced) \ DumpPairs(synced') \subseteq Taken'
    OBVIOUS
  <2>1. CASE Saving \/ Crash
    <3>1. synced' \in {synced, disk} /\ accepted' = accepted
      BY <2>1 DEF Saving, Snapshot, Replace, SyncDirectory, SaveFails, Crash, worldVars
    <3>2. Taken' = Taken
      BY <3>1 DEF Taken, Pairs
    <3> QED BY <3>1, <3>2 DEF ContractInv, Covered
  <2>2. CASE ~(Saving \/ Crash)
    <3>1. synced' = synced
      BY <2>2 DEF Next, Connection, Accept, Register, SessionFails, Enqueue, Refuse, Delivered, Answer, HandlerEnds,
           AcceptFails, Delivery, Top, Return, Awake, LoopSaved, Finish, PassOver, Start, Failure, Success,
           Worker, AttemptOk, AttemptErr, Tick, Serving, BeginStop, CloseConnections, HandlersDone, DeliveryDone,
           ServerSaved, Exit, Stop, Restart, Terminated, vars, dumpVars
    <3> QED BY <3>1
  <2> QED BY <2>1, <2>2
<1>2. ContractInv /\ IInv /\ [Next]_vars => ContractInv'
  BY NextContract
<1>3. Init => ContractInv
  BY InitContract
<1> QED BY <1>1, <1>2, <1>3, Inductive, PTL DEF Spec, DumpNeverForgets

----------------------------------------------------------------------------
\* The dump of a process that has returned.

\* hasDump tells whether there is a dump, and the last save of a process, or the
\* decision that none is due, leaves in it what the queue holds.
ExitInv ==
    /\ ~disk.exists => disk = NoDump /\ synced = NoDump
    /\ ~synced.exists => synced = NoDump
    /\ saving = "replace" => snap.exists
    /\ Up => (hasDump <=> disk.exists)
    /\ main = "saving" /\ saving = "replace" => DumpPairs(snap) = QueuePairs
    /\ main = "saving" /\ saving \in {"sync", "saved"} => DumpPairs(disk) = QueuePairs
    /\ main = "saving" /\ saving = "saved" => synced = disk
    /\ main \in {"closing", "exited"} /\ saving # "failed" => DumpPairs(disk) = QueuePairs /\ synced = disk

\* Steps before the end of a process that do not touch the dump.
LEMMA ExitFrame ==
    ExitInv /\ Up /\ main' = main /\ main \notin {"saving", "closing"}
    /\ (saving' = "replace" => saving = "replace") /\ UNCHANGED <<snap, hasDump, disk, synced>>
    => ExitInv'
  BY DEF ExitInv, Up

LEMMA ExitStep == IInv /\ ExitInv /\ [Next]_vars => ExitInv'
<1> SUFFICES ASSUME IInv, ExitInv, [Next]_vars PROVE ExitInv'
  OBVIOUS
<1> USE DEF itemVars, relayVars, connVars, loopVars, targetVars, serveVars, worldVars
<1>t. TypeOK
  BY DEF IInv
<1>d. DumpPairs(NoDump) = {}
  BY DEF NoDump, DumpPairs, PairsOf
<1>1. CASE Delivery
  <2>1. /\ main \notin {"saving", "closing", "exited", "down", "refused"} /\ main' = main
        /\ (saving' = "replace" => saving = "replace") /\ UNCHANGED <<snap, hasDump, disk, synced>>
    BY <1>1 DEF Delivery, Top, Return, Awake, LoopSaved, Finish, PassOver, Start, Failure, Success, Selecting, AllSeen,
                dumpVars, IInv, Places, Up
  <2> QED BY <2>1, ExitFrame DEF Up
<1>2. CASE \E c \in Conns, p \in Packets : Enqueue(c, p)
  BY <1>2, ExitFrame DEF Enqueue, Refusal, dumpVars, Up
<1>3. CASE \/ Connection /\ ~\E c \in Conns, p \in Packets : Enqueue(c, p)
           \/ AcceptFails \/ Tick \/ Worker \/ Stop \/ Terminated \/ UNCHANGED vars
  <2>1. UNCHANGED <<queue, pending, main, dumpVars>>
    BY <1>3 DEF Connection, Accept, Register, SessionFails, Refuse, Delivered, Answer, HandlerEnds, AcceptFails, Tick,
                Worker, AttemptOk, AttemptErr, Stop, Terminated, vars
  <2> QED BY <2>1 DEF ExitInv, Up, dumpVars, QueuePairs, DumpPairs, PairsOf
<1>4. CASE Saving
  <2>1. UNCHANGED <<queue, pending, main, loop>> /\ (loop = "saving" \/ main = "saving")
    BY <1>4 DEF Saving, Snapshot, Replace, SyncDirectory, SaveFails, IInv, Places
  <2>2. main \notin {"closing", "exited", "down", "refused"} /\ Up /\ Up'
    BY <1>4, <2>1 DEF IInv, Places, Up, Saving, Snapshot, Replace, SyncDirectory, SaveFails
  <2>3. QueuePairs' = QueuePairs
    BY <2>1 DEF QueuePairs, PairsOf
  <2>4. CASE Snapshot
    <3>1. DumpPairs(snap)' = QueuePairs
      BY <2>4, <1>t, SnapshotPairs
    <3>2. snap'.exists /\ saving' = "replace" /\ UNCHANGED <<hasDump, disk, synced>>
      BY <2>4 DEF Snapshot
    <3> QED BY <2>1, <2>2, <2>3, <3>1, <3>2 DEF ExitInv
  <2>5. CASE Replace
    <3>1. /\ saving = "replace" /\ saving' = "sync" /\ disk' = snap /\ hasDump' = TRUE /\ synced' = synced
          /\ DumpPairs(disk)' = DumpPairs(snap)
      BY <2>5 DEF Replace, DumpPairs, PairsOf
    <3> QED BY <2>1, <2>2, <2>3, <3>1 DEF ExitInv
  <2>6. CASE SyncDirectory
    <3>1. /\ saving = "sync" /\ saving' = "saved" /\ synced' = disk /\ UNCHANGED <<hasDump, disk, snap>>
          /\ DumpPairs(disk)' = DumpPairs(disk)
      BY <2>6 DEF SyncDirectory, DumpPairs, PairsOf
    <3> QED BY <2>1, <2>2, <2>3, <3>1 DEF ExitInv
  <2>7. CASE SaveFails
    BY <2>1, <2>2, <2>7 DEF SaveFails, ExitInv
  <2> QED BY <1>4, <2>4, <2>5, <2>6, <2>7 DEF Saving
<1>5. CASE Serving
  <2>1. UNCHANGED <<queue, pending, disk, synced, snap, hasDump>> /\ Up
    BY <1>5 DEF Serving, BeginStop, CloseConnections, HandlersDone, DeliveryDone, ServerSaved, Exit, dumpVars, Up
  <2>2. QueuePairs' = QueuePairs /\ DumpPairs(disk)' = DumpPairs(disk) /\ DumpPairs(snap)' = DumpPairs(snap)
    BY <2>1 DEF QueuePairs, DumpPairs, PairsOf
  <2>3. CASE BeginStop \/ CloseConnections \/ HandlersDone \/ ServerSaved \/ Exit
    BY <2>1, <2>2, <2>3 DEF BeginStop, CloseConnections, HandlersDone, ServerSaved, Exit, dumpVars, ExitInv, Up
  <2>4. CASE DeliveryDone
    <3>1. main = "delivery" /\ loop = "returned" /\ saving \notin {"snapshot", "replace", "sync"}
      BY <2>4 DEF DeliveryDone, IInv, Places
    <3>2. CASE DumpDue
      BY <2>1, <2>2, <2>4, <3>1, <3>2 DEF DeliveryDone, ExitInv, Up
    <3>3. CASE ~DumpDue
      <4>1. QueuePairs = {} /\ ~hasDump /\ main' = "closing" /\ saving' = saving
        BY <2>4, <3>3 DEF DeliveryDone, DumpDue, QueuePairs, PairsOf
      <4>2. disk = NoDump /\ synced = NoDump
        BY <2>1, <4>1 DEF ExitInv
      <4> QED BY <2>1, <2>2, <3>1, <4>1, <4>2, <1>d DEF ExitInv, Up
    <3> QED BY <3>2, <3>3
  <2> QED BY <1>5, <2>3, <2>4 DEF Serving
<1>6. CASE Crash
  <2>1. disk' \in {disk, synced} /\ synced' \in {synced, disk'} /\ main' = "down" /\ saving' = "no"
    BY <1>6 DEF Crash, Load
  <2> QED BY <2>1 DEF ExitInv, Up
<1>7. CASE Restart
  <2>1. UNCHANGED <<disk, synced>> /\ main' \in {"serving", "refused"} /\ saving' = "no" /\ hasDump' = disk.exists
    BY <1>7 DEF Restart, Load
  <2> QED BY <2>1 DEF ExitInv, Up
<1> QED BY <1>1, <1>2, <1>3, <1>4, <1>5, <1>6, <1>7 DEF Next

\* A process that returned after its last save, or had nothing to save, leaves a
\* dump of exactly the deliveries that were not confirmed (server.go:176-190).
THEOREM ExitsWithExactDump == Spec => []ExitDumpExact
<1>1. Init => ExitInv
  BY DEF Init, ExitInv, NoDump, Up
<1>2. ExitInv => ExitDumpExact
  BY DEF ExitInv, ExitDumpExact
<1> QED BY <1>1, <1>2, ExitStep, Inductive, PTL DEF Spec

----------------------------------------------------------------------------
\* What can be restored.

\* The queue of a process that runs fits its capacity and holds deliveries the
\* configuration knows, and so do the dumps made of it.
RestoreInv ==
    /\ Restorable(disk) /\ Restorable(synced) /\ Restorable(snap)
    /\ Up => Cardinality(queue) <= QueueCapacity
    /\ Up => \A p \in queue : pending[p] \intersect Relays # {} => p \in Data

LEMMA NothingRestorable == Restorable(NoDump)
  BY FS_EmptySet, LimitAssumption DEF NoDump, Restorable

\* A queue that loses packets and deliveries still fits.
LEMMA Smaller ==
    TypeOK /\ RestoreInv /\ Up /\ queue' \subseteq queue /\ (\A p \in queue' : pending'[p] \subseteq pending[p])
    => Cardinality(queue') <= QueueCapacity /\ \A p \in queue' : pending'[p] \intersect Relays # {} => p \in Data
<1> SUFFICES ASSUME TypeOK, RestoreInv, Up, queue' \subseteq queue, \A p \in queue' : pending'[p] \subseteq pending[p]
             PROVE  Cardinality(queue') <= QueueCapacity /\ \A p \in queue' : pending'[p] \intersect Relays # {} => p \in Data
  OBVIOUS
<1>1. IsFiniteSet(queue) /\ Cardinality(queue) \in Nat
  BY FiniteAssumption, FS_Subset, FS_CardinalityType DEF TypeOK
<1>2. Cardinality(queue') <= Cardinality(queue) /\ Cardinality(queue') \in Nat
  BY <1>1, FS_Subset, FS_CardinalityType
<1>3. Cardinality(queue') <= QueueCapacity
  BY <1>1, <1>2, LimitAssumption DEF RestoreInv
<1> QED BY <1>3 DEF RestoreInv

LEMMA RestoreStep == IInv /\ RestoreInv /\ [Next]_vars => RestoreInv'
<1> SUFFICES ASSUME IInv, RestoreInv, [Next]_vars PROVE RestoreInv'
  OBVIOUS
<1> USE DEF itemVars, relayVars, connVars, loopVars, targetVars, serveVars, worldVars
<1>t. TypeOK
  BY DEF IInv
<1>1. CASE Delivery
  <2>1. UNCHANGED <<disk, synced, snap, main>> /\ Up
    BY <1>1 DEF Delivery, Top, Return, Awake, LoopSaved, Finish, PassOver, Start, Failure, Success, Selecting, AllSeen,
                dumpVars, IInv, Places, Up
  <2>2. queue' \subseteq queue
    BY <1>1 DEF Delivery, Top, Unfinished, Return, Awake, LoopSaved, Finish, PassOver, Start, Failure, Success
  <2>3. \A p \in queue' : pending'[p] \subseteq pending[p]
    <3>1. ASSUME NEW d \in Dests, Success(d) PROVE \A p \in Packets : pending'[p] \subseteq pending[p]
      BY <3>1, <1>t DEF Success, TypeOK
    <3>2. CASE ~\E d \in Dests : Success(d)
      BY <1>1, <3>2 DEF Delivery, Top, Return, Awake, LoopSaved, Finish, PassOver, Start, Failure
    <3> QED BY <2>2, <3>1, <3>2, <1>t DEF TypeOK
  <2> QED BY <2>1, <2>2, <2>3, Smaller, <1>t DEF RestoreInv, Restorable, Up
<1>2. ASSUME NEW c \in Conns, NEW p \in Packets, Enqueue(c, p) PROVE RestoreInv'
  <2>1. /\ main = "serving" /\ ~(Cardinality(queue) >= QueueCapacity) /\ queue' = queue \union {p}
        /\ pending' = [pending EXCEPT ![p] = Wants(p)] /\ UNCHANGED <<disk, synced, snap, main>>
    BY <1>2 DEF Enqueue, Refusal, dumpVars
  <2>2. IsFiniteSet(queue) /\ Cardinality(queue) \in Nat
    BY <1>t, FiniteAssumption, FS_Subset, FS_CardinalityType DEF TypeOK
  <2>3. Cardinality(queue') <= QueueCapacity
    <3>1. Cardinality(queue') \in {Cardinality(queue), Cardinality(queue) + 1}
      BY <2>1, <2>2, FS_AddElement
    <3> QED BY <2>1, <2>2, <3>1, LimitAssumption
  <2>4. \A q \in queue' : pending'[q] \intersect Relays # {} => q \in Data
    BY <2>1, <1>t, RelayAssumption DEF RestoreInv, Up, TypeOK, Wants
  <2> QED BY <2>1, <2>3, <2>4 DEF RestoreInv, Restorable
<1>3. CASE \/ Connection /\ ~\E c \in Conns, p \in Packets : Enqueue(c, p)
           \/ AcceptFails \/ Tick \/ Worker \/ Stop \/ Terminated \/ UNCHANGED vars
  <2>1. UNCHANGED <<queue, pending, main, dumpVars>>
    BY <1>3 DEF Connection, Accept, Register, SessionFails, Refuse, Delivered, Answer, HandlerEnds, AcceptFails, Tick,
                Worker, AttemptOk, AttemptErr, Stop, Terminated, vars
  <2> QED BY <2>1 DEF RestoreInv, Restorable, Up, dumpVars
<1>4. CASE Saving
  <2>1. UNCHANGED <<queue, pending, main>> /\ Up
    BY <1>4 DEF Saving, Snapshot, Replace, SyncDirectory, SaveFails, IInv, Places, Up
  <2>2. CASE Snapshot
    <3>1. /\ snap'.items = ToSave /\ ToSave \subseteq queue /\ \A p \in ToSave : snap'.left[p] = pending[p] /\ pending[p] # {}
          /\ UNCHANGED <<disk, synced>>
      BY <2>2, <1>t DEF Snapshot, ToSave, TypeOK
    <3>2. Cardinality(ToSave) <= QueueCapacity
      <4>1. IsFiniteSet(queue) /\ Cardinality(queue) \in Nat
        BY <1>t, FiniteAssumption, FS_Subset, FS_CardinalityType DEF TypeOK
      <4>2. Cardinality(ToSave) <= Cardinality(queue) /\ Cardinality(ToSave) \in Nat
        BY <3>1, <4>1, FS_Subset, FS_CardinalityType
      <4> QED BY <2>1, <4>1, <4>2, LimitAssumption DEF RestoreInv
    <3>3. Restorable(snap)'
      BY <2>1, <3>1, <3>2, <1>t DEF Restorable, RestoreInv, TypeOK
    <3> QED BY <2>1, <3>1, <3>3 DEF RestoreInv, Restorable, Up
  <2>3. CASE Replace \/ SyncDirectory \/ SaveFails
    <3>1. snap' \in {snap, NoDump} /\ disk' \in {disk, snap} /\ synced' \in {synced, disk}
      BY <2>3 DEF Replace, SyncDirectory, SaveFails
    <3>2. Restorable(snap') /\ Restorable(disk') /\ Restorable(synced')
      BY <3>1, NothingRestorable DEF RestoreInv
    <3> QED BY <2>1, <3>2 DEF RestoreInv, Restorable, Up
  <2> QED BY <1>4, <2>2, <2>3 DEF Saving
<1>5. CASE Serving
  BY <1>5 DEF Serving, BeginStop, CloseConnections, HandlersDone, DeliveryDone, ServerSaved, Exit, dumpVars, Up,
              RestoreInv, Restorable
<1>6. CASE Crash
  <2>1. disk' \in {disk, synced} /\ synced' \in {synced, disk'} /\ snap' = NoDump /\ ~Up'
    BY <1>6 DEF Crash, Load, Up
  <2>2. Restorable(snap') /\ Restorable(disk') /\ Restorable(synced')
    BY <2>1, NothingRestorable DEF RestoreInv
  <2> QED BY <2>1, <2>2 DEF RestoreInv, Restorable
<1>7. CASE Restart
  <2>1. /\ UNCHANGED <<disk, synced>> /\ snap' = NoDump /\ queue' = disk.items /\ pending' = disk.left
    BY <1>7 DEF Restart, Load
  <2>2. Restorable(snap') /\ Restorable(disk') /\ Restorable(synced')
    BY <2>1, NothingRestorable DEF RestoreInv
  <2>3. Cardinality(queue') <= QueueCapacity /\ \A p \in queue' : pending'[p] \intersect Relays # {} => p \in Data
    BY <2>1 DEF RestoreInv, Restorable
  <2> QED BY <2>2, <2>3 DEF RestoreInv, Restorable
<1> QED BY <1>1, <1>2, <1>3, <1>4, <1>5, <1>6, <1>7 DEF Next

\* Whatever a process leaves behind, by returning, failing or losing its host, the
\* next one with the same configuration can restore (queue.go:52, dump.go:85-205).
THEOREM AlwaysRestorable == Spec => []DumpRestorable
<1>1. Init => RestoreInv
  BY NothingRestorable, FS_EmptySet, LimitAssumption DEF Init, RestoreInv
<1>2. RestoreInv => DumpRestorable
  BY DEF RestoreInv, DumpRestorable
<1> QED BY <1>1, <1>2, RestoreStep, Inductive, PTL DEF Spec


----------------------------------------------------------------------------
\* What the queue holds.

\* The relays of connection c in the queue.
RelaysOf(c) == {x \in QueuePairs : ConnOf[x[1]] = c /\ x[2] \in Relays}

\* A worker has a delivery of the queue, and a dump records deliveries of its items
\* only.
Held ==
    /\ \A d \in Dests : busy[d] # None => busy[d] \in queue /\ d \in pending[busy[d]]
    /\ \A p \in Packets : p \notin disk.items => disk.left[p] = {}
    /\ \A p \in Packets : p \notin synced.items => synced.left[p] = {}
    /\ \A p \in Packets : p \notin snap.items => snap.left[p] = {}

LEMMA HeldStep == IInv /\ Held /\ [Next]_vars => Held'
<1> SUFFICES ASSUME IInv, Held, [Next]_vars PROVE Held'
  OBVIOUS
<1> USE DEF itemVars, relayVars, connVars, loopVars, targetVars, serveVars, worldVars
<1>t. TypeOK
  BY DEF IInv
<1>0. \A p \in Packets : p \notin NoDump.items => NoDump.left[p] = {}
  BY DEF NoDump, Nothing
<1>1. CASE Top
  BY <1>1, <1>t DEF Top, Unfinished, dumpVars, Held, TypeOK
<1>2. ASSUME NEW d \in Dests, NEW p \in Packets, Start(d, p) PROVE Held'
  BY <1>2, <1>t DEF Start, First, Candidates, dumpVars, Held, TypeOK
<1>3. ASSUME NEW d \in Dests, Failure(d) PROVE Held'
  BY <1>3, <1>t DEF Failure, Idle, dumpVars, Held, TypeOK
<1>4. ASSUME NEW d \in Dests, Success(d) PROVE Held'
  <2>1. /\ busy' = [busy EXCEPT ![d] = None] /\ pending' = [pending EXCEPT ![busy[d]] = @ \ {d}]
        /\ UNCHANGED <<queue, disk, synced, snap>>
    BY <1>4 DEF Success, Idle
  <2>2. ASSUME NEW e \in Dests, e # d, busy[e] # None PROVE e \in pending'[busy[e]]
    <3>1. e \in pending[busy[e]] /\ busy[e] \in Packets
      BY <2>2, <1>t DEF Held, TypeOK
    <3> QED BY <2>1, <2>2, <3>1, <1>t DEF TypeOK
  <2> QED BY <2>1, <2>2, <1>t DEF Held, TypeOK
<1>5. CASE Return \/ Awake \/ LoopSaved \/ Finish \/ \E d \in Dests : PassOver(d)
  BY <1>5 DEF Return, Awake, LoopSaved, Finish, PassOver, dumpVars, Held
<1>6. ASSUME NEW c \in Conns, NEW p \in Packets, Enqueue(c, p) PROVE Held'
  <2>1. /\ p \notin sent /\ queue' = queue \union {p} /\ pending' = [pending EXCEPT ![p] = Wants(p)]
        /\ UNCHANGED <<busy, disk, synced, snap>>
    BY <1>6 DEF Enqueue, dumpVars
  <2>2. \A d \in Dests : busy[d] # None => busy[d] # p
    BY <2>1 DEF IInv, Known
  <2> QED BY <2>1, <2>2, <1>t DEF Held, TypeOK
<1>7. CASE \/ Connection /\ ~\E c \in Conns, p \in Packets : Enqueue(c, p)
           \/ AcceptFails \/ Tick \/ Worker \/ Stop \/ Terminated \/ UNCHANGED vars
  BY <1>7 DEF Connection, Accept, Register, SessionFails, Refuse, Delivered, Answer, HandlerEnds, AcceptFails, Tick,
              Worker, AttemptOk, AttemptErr, Stop, Terminated, vars, dumpVars, Held
<1>8. CASE Saving
  <2>1. UNCHANGED <<queue, pending, busy>>
    BY <1>8 DEF Saving, Snapshot, Replace, SyncDirectory, SaveFails
  <2>2. CASE Snapshot
    BY <2>1, <2>2 DEF Snapshot, Held
  <2>3. CASE Replace \/ SyncDirectory \/ SaveFails
    <3>1. snap' \in {snap, NoDump} /\ disk' \in {disk, snap} /\ synced' \in {synced, disk}
      BY <2>3 DEF Replace, SyncDirectory, SaveFails
    <3> QED BY <2>1, <3>1, <1>0 DEF Held
  <2> QED BY <1>8, <2>2, <2>3 DEF Saving
<1>9. CASE Serving
  BY <1>9 DEF Serving, BeginStop, CloseConnections, HandlersDone, DeliveryDone, ServerSaved, Exit, dumpVars, Held
<1>10. CASE Crash \/ Restart
  <2>1. /\ disk' \in {disk, synced} /\ synced' \in {synced, disk'} /\ snap' = NoDump
        /\ \A d \in Dests : busy'[d] = None
    BY <1>10 DEF Crash, Restart, Load
  <2> QED BY <2>1, <1>0 DEF Held
<1> QED
  BY <1>1, <1>2, <1>3, <1>4, <1>5, <1>6, <1>7, <1>8, <1>9, <1>10 DEF Next, Delivery, Connection

----------------------------------------------------------------------------
\* The counts of the sessions.

LEMMA FiniteRelays == TypeOK => \A c \in Conns : IsFiniteSet(RelaysOf(c)) /\ Cardinality(RelaysOf(c)) \in Nat
<1>1. IsFiniteSet(Packets \X Dests)
  BY FiniteAssumption, FS_Product
<1>2. \A c \in Conns : RelaysOf(c) \subseteq Packets \X Dests
  BY DEF RelaysOf, QueuePairs, PairsOf
<1> QED BY <1>1, <1>2, FS_Subset, FS_CardinalityType

LEMMA RefsStep == IInv /\ Held /\ Held' /\ RefsCounted /\ [Next]_vars => RefsCounted'
<1> SUFFICES ASSUME IInv, Held, Held', RefsCounted, [Next]_vars PROVE RefsCounted'
  OBVIOUS
<1> USE DEF itemVars, relayVars, connVars, loopVars, targetVars, serveVars, worldVars
<1>t. TypeOK
  BY DEF IInv
<1>c. RefsCounted <=> (Up => \A c \in Conns : refs[c] = Cardinality(RelaysOf(c)))
  BY DEF RefsCounted, RelaysOf
<1>d. RefsCounted' <=> (Up' => \A c \in Conns : refs'[c] = Cardinality(RelaysOf(c)'))
  BY DEF RefsCounted, RelaysOf
\* Steps that change neither counts nor the relays in the queue.
<1>f. ASSUME refs' = refs, QueuePairs' = QueuePairs, Up' => Up PROVE RefsCounted'
  BY <1>f DEF RefsCounted
<1>1. ASSUME NEW c \in Conns, NEW p \in Packets, Enqueue(c, p) PROVE RefsCounted'
  <2> DEFINE new == {p} \X (Wants(p) \intersect Relays)
  <2>1. /\ p \notin queue /\ queue' = queue \union {p} /\ pending' = [pending EXCEPT ![p] = Wants(p)]
        /\ ConnOf[p] = c /\ refs' = [refs EXCEPT ![c] = @ + Cardinality(Wants(p) \intersect Relays)] /\ Up
    BY <1>1 DEF Enqueue, Refusal, Up, IInv, Known
  <2>2. RelaysOf(c)' = RelaysOf(c) \union new /\ RelaysOf(c) \intersect new = {}
    <3>1. ASSUME NEW q \in Packets, NEW d \in Dests
          PROVE  <<q, d>> \in QueuePairs' <=> <<q, d>> \in QueuePairs \/ (q = p /\ d \in Wants(p))
      BY <2>1, <1>t DEF QueuePairs, PairsOf, TypeOK
    <3>2. new \subseteq Packets \X Dests
      BY RelayAssumption
    <3>3. QueuePairs \subseteq Packets \X Dests /\ QueuePairs' \subseteq Packets \X Dests
      BY DEF QueuePairs, PairsOf
    <3>4. \A x \in QueuePairs : x[1] # p
      BY <2>1 DEF QueuePairs, PairsOf
    <3> QED BY <2>1, <3>1, <3>2, <3>3, <3>4 DEF RelaysOf
  <2>3. \A e \in Conns : e # c => RelaysOf(e)' = RelaysOf(e)
    <3>1. ASSUME NEW q \in Packets, NEW d \in Dests, q # p
          PROVE  <<q, d>> \in QueuePairs' <=> <<q, d>> \in QueuePairs
      BY <2>1, <3>1, <1>t DEF QueuePairs, PairsOf, TypeOK
    <3>2. QueuePairs \subseteq Packets \X Dests /\ QueuePairs' \subseteq Packets \X Dests
      BY DEF QueuePairs, PairsOf
    <3> QED BY <2>1, <3>1, <3>2 DEF RelaysOf
  <2>4. IsFiniteSet(new) /\ Cardinality(new) = Cardinality(Wants(p) \intersect Relays)
    <3>1. IsFiniteSet(Wants(p) \intersect Relays) /\ Cardinality(Wants(p) \intersect Relays) \in Nat
      BY FiniteAssumption, RelayAssumption, FS_Subset, FS_CardinalityType
    <3>2. IsFiniteSet({p}) /\ Cardinality({p}) = 1
      BY FS_Singleton
    <3> QED BY <3>1, <3>2, FS_Product
  <2>5. Cardinality(RelaysOf(c)') = Cardinality(RelaysOf(c)) + Cardinality(Wants(p) \intersect Relays)
    <3>1. IsFiniteSet(RelaysOf(c)) /\ Cardinality(RelaysOf(c)) \in Nat
      BY FiniteRelays, <1>t
    <3>2. Cardinality(RelaysOf(c) \union new) = Cardinality(RelaysOf(c)) + Cardinality(new) - Cardinality({})
      BY <2>2, <2>4, <3>1, FS_Union
    <3>3. Cardinality(Wants(p) \intersect Relays) \in Nat
      BY Counts
    <3> QED BY <2>2, <2>4, <3>1, <3>2, <3>3, FS_EmptySet
  <2> QED BY <2>1, <2>3, <2>5, <1>c, <1>d, <1>t DEF TypeOK
<1>2. ASSUME NEW d \in Dests, Success(d) PROVE RefsCounted'
  <2>p. PICK p \in Packets, c \in Conns : p = busy[d] /\ c = ConnOf[p]
    BY <1>2, <1>t, ConnAssumption DEF Success, TypeOK
  <2>1. /\ <<p, d>> \in QueuePairs /\ Up
        /\ queue' = queue /\ pending' = [pending EXCEPT ![p] = @ \ {d}]
        /\ refs' = IF d \in Relays THEN [refs EXCEPT ![c] = @ - 1] ELSE refs
    BY <1>2, <1>t, <2>p
    DEF Success, Selecting, AllSeen, Held, IInv, Places, Up, QueuePairs, PairsOf, TypeOK
  <2>2. QueuePairs' = QueuePairs \ {<<p, d>>}
    <3>1. ASSUME NEW q \in Packets, NEW e \in Dests
          PROVE  <<q, e>> \in QueuePairs' <=> <<q, e>> \in QueuePairs /\ ~(q = p /\ e = d)
      BY <2>1, <1>t DEF QueuePairs, PairsOf, TypeOK
    <3>2. QueuePairs \subseteq Packets \X Dests /\ QueuePairs' \subseteq Packets \X Dests
      BY DEF QueuePairs, PairsOf
    <3> QED BY <3>1, <3>2
  <2>3. CASE d \in Relays
    <3>1. RelaysOf(c)' = RelaysOf(c) \ {<<p, d>>} /\ <<p, d>> \in RelaysOf(c)
      <4>1. <<p, d>>[1] = p /\ <<p, d>>[2] = d
        OBVIOUS
      <4>2. <<p, d>> \in RelaysOf(c)
        BY <2>p, <2>1, <2>3, <4>1 DEF RelaysOf
      <4>3. RelaysOf(c)' = RelaysOf(c) \ {<<p, d>>}
        BY <2>2 DEF RelaysOf
      <4> QED BY <4>2, <4>3
    <3>2. \A e \in Conns : e # c => RelaysOf(e)' = RelaysOf(e)
      BY <2>p, <2>1, <2>2 DEF RelaysOf
    <3>3. Cardinality(RelaysOf(c)') = Cardinality(RelaysOf(c)) - 1
      BY <3>1, <2>1, FiniteRelays, FS_RemoveElement, <1>t
    <3>4. refs'[c] = refs[c] - 1 /\ \A e \in Conns : e # c => refs'[e] = refs[e]
      BY <2>1, <2>3, <1>t DEF TypeOK
    <3>5. \A e \in Conns : refs[e] = Cardinality(RelaysOf(e))
      BY <2>1, <1>c
    <3>6. refs'[c] = Cardinality(RelaysOf(c)')
      BY <2>1, <3>3, <3>4, <3>5
    <3> QED BY <3>2, <3>4, <3>5, <3>6, <1>d
  <2>4. CASE d \notin Relays
    <3>1. \A e \in Conns : RelaysOf(e)' = RelaysOf(e)
      BY <2>2, <2>4 DEF RelaysOf
    <3> QED BY <2>1, <2>4, <3>1, <1>c, <1>d
  <2> QED BY <2>3, <2>4
<1>3. CASE Top
  <2>1. QueuePairs' = QueuePairs
    BY <1>3 DEF Top, Unfinished, QueuePairs, PairsOf
  <2> QED BY <1>3, <2>1, <1>f DEF Top, Up
<1>4. CASE Return \/ Awake \/ LoopSaved \/ Finish
  BY <1>4, <1>f DEF Return, Awake, LoopSaved, Finish, Up, QueuePairs, PairsOf
<1>5. ASSUME NEW d \in Dests, PassOver(d) \/ Failure(d) \/ \E p \in Packets : Start(d, p) PROVE RefsCounted'
  BY <1>5, <1>f DEF PassOver, Failure, Start, Up, QueuePairs, PairsOf
<1>6. CASE \/ Connection /\ ~\E c \in Conns, p \in Packets : Enqueue(c, p)
           \/ AcceptFails \/ Tick \/ Worker \/ Stop \/ Terminated \/ UNCHANGED vars
  <2>1. UNCHANGED <<queue, pending, refs, main>>
    BY <1>6 DEF Connection, Accept, Register, SessionFails, Refuse, Delivered, Answer, HandlerEnds, AcceptFails, Tick,
                Worker, AttemptOk, AttemptErr, Stop, Terminated, vars
  <2> QED BY <2>1, <1>f DEF Up, QueuePairs, PairsOf
<1>7. CASE Saving \/ Serving
  <2>1. UNCHANGED <<queue, pending, refs>> /\ (Up' => Up)
    BY <1>7 DEF Saving, Snapshot, Replace, SyncDirectory, SaveFails, Serving, BeginStop, CloseConnections, HandlersDone,
                DeliveryDone, ServerSaved, Exit, Up
  <2> QED BY <2>1, <1>f DEF QueuePairs, PairsOf
<1>8. CASE Crash
  BY <1>8 DEF Crash, Load, Up, RefsCounted
<1>9. CASE Restart
  <2>1. queue' = disk.items /\ pending' = disk.left /\ refs' = [c \in Conns |-> Cardinality(RelayPairs(disk.left, c))]
    BY <1>9 DEF Restart, Load
  <2>2. \A c \in Conns : RelaysOf(c)' = RelayPairs(disk.left, c)
    BY <2>1, RelayAssumption DEF RelaysOf, RelayPairs, QueuePairs, PairsOf, Held
  <2> QED BY <2>1, <2>2, <1>d
<1> QED BY <1>1, <1>2, <1>3, <1>4, <1>5, <1>6, <1>7, <1>8, <1>9 DEF Next, Delivery, Connection

LEMMA InitHeld == Init => Held /\ RefsCounted
<1> SUFFICES ASSUME Init PROVE Held /\ RefsCounted
  OBVIOUS
<1>1. Held
  BY DEF Init, Held, NoDump, Nothing
<1>2. QueuePairs = {}
  BY DEF Init, QueuePairs, PairsOf
<1> QED BY <1>1, <1>2, FS_EmptySet DEF Init, RefsCounted

\* The count of a session is that of its relays in the queue, through every end of a
\* connection, result and restart (queue.go:77,278, dump.go:187).
THEOREM CountsRight == Spec => []RefsCounted
<1>1. IInv /\ Held /\ [Next]_vars => Held'
  BY HeldStep
<1>2. IInv /\ Held /\ Held' /\ RefsCounted /\ [Next]_vars => RefsCounted'
  BY RefsStep
<1>3. Init => Held /\ RefsCounted
  BY InitHeld
<1> QED BY <1>1, <1>2, <1>3, Inductive, PTL DEF Spec

----------------------------------------------------------------------------
\* The life of a session.

Open == {"reading", "waiting", "confirming", "refusing"}

\* A connection that has not been registered has no session and sent nothing, one
\* that is open has an open session, and a session that is finished is no longer
\* known when the loop closes it.
Sessions ==
    /\ \A c \in Conns : handler[c] \in {"new", "accepted"} =>
        /\ \A p \in sent : ConnOf[p] # c
        /\ ~ended[c] /\ ~shut[c] /\ c \notin relays /\ refs[c] = 0
    /\ \A c \in Conns : handler[c] \in Open => ~ended[c] /\ ~shut[c] /\ (Relays # {} => c \in relays)
    /\ finished # None => loop \in {"saving", "finish"} /\ ended[finished] /\ refs[finished] = 0 /\ finished \notin relays
    /\ main \in {"down", "refused"} => \A c \in Conns : handler[c] \in {"new", "ended"}

SessionInv == Sessions /\ SessionOpen /\ SessionForgotten

\* Steps that leave the sessions and what they are for alone.
LEMMA SessionFrame ==
    SessionInv /\ UNCHANGED <<relays, refs, ended, shut, finished>> /\ QueuePairs' \subseteq QueuePairs
    /\ (\A p \in sent' : p \in sent \/ handler'[ConnOf[p]] \in Open)
    /\ (\A c \in Conns : handler'[c] \in {"new", "accepted"} => handler[c] \in {"new", "accepted"})
    /\ (\A c \in Conns : handler'[c] \in Open => handler[c] \in Open)
    /\ (finished # None /\ loop \in {"saving", "finish"} => loop' \in {"saving", "finish"})
    /\ (main' \in {"down", "refused"} => main' = main /\ \A c \in Conns : handler'[c] \in {handler[c], "ended"})
    /\ (Up' => Up) /\ (main' \notin {"exited", "down", "refused"} => main \notin {"exited", "down", "refused"})
    => SessionInv'
  BY DEF SessionInv, Sessions, SessionOpen, SessionForgotten, Open

\* Relays in the queue belong to packets that were sent on connections.
LEMMA RelaysSent ==
    IInv => /\ \A x \in QueuePairs : x[1] \in sent /\ x[1] \in Packets /\ x[2] \in Dests /\ ConnOf[x[1]] \in Conns
            /\ IsFiniteSet(QueuePairs)
<1>1. ASSUME IInv PROVE \A x \in QueuePairs : x[1] \in sent /\ x[1] \in Packets /\ x[2] \in Dests /\ ConnOf[x[1]] \in Conns
  BY <1>1, ConnAssumption DEF QueuePairs, PairsOf, IInv, Known
<1>2. QueuePairs \subseteq Packets \X Dests /\ IsFiniteSet(Packets \X Dests)
  BY FiniteAssumption, FS_Product DEF QueuePairs, PairsOf
<1> QED BY <1>1, <1>2, FS_Subset

\* A session is without relays exactly if its count is zero.
LEMMA ZeroRefs ==
    IInv /\ RefsCounted /\ Up => \A c \in Conns : refs[c] = 0 <=> \A x \in QueuePairs : x[2] \in Relays => ConnOf[x[1]] # c
<1> SUFFICES ASSUME IInv, RefsCounted, Up, NEW c \in Conns
             PROVE  refs[c] = 0 <=> \A x \in QueuePairs : x[2] \in Relays => ConnOf[x[1]] # c
  OBVIOUS
<1>1. IsFiniteSet(RelaysOf(c)) /\ refs[c] = Cardinality(RelaysOf(c))
  BY FiniteRelays DEF IInv, RefsCounted, RelaysOf
<1>2. refs[c] = 0 <=> RelaysOf(c) = {}
  BY <1>1, FS_EmptySet
<1> QED BY <1>2 DEF RelaysOf

LEMMA SessionConnection ==
    IInv /\ ContractInv /\ RefsCounted /\ SessionInv /\ Connection => SessionInv'
<1> SUFFICES ASSUME IInv, ContractInv, RefsCounted, SessionInv, Connection PROVE SessionInv'
  OBVIOUS
<1> USE DEF itemVars, relayVars, connVars, loopVars, targetVars, serveVars, dumpVars, worldVars
<1>t. TypeOK
  BY DEF IInv
<1>1. ASSUME NEW c \in Conns, Accept(c) \/ SessionFails(c) \/ Delivered(c) \/ Answer(c) PROVE SessionInv'
  <2>1. UNCHANGED <<relays, refs, ended, shut, finished, queue, pending, sent, loop, main>>
    BY <1>1 DEF Accept, SessionFails, Delivered, Answer
  <2>2. \A e \in Conns : /\ handler'[e] \in {"new", "accepted"} => handler[e] \in {"new", "accepted"}
                         /\ handler'[e] \in Open => handler[e] \in Open
    BY <1>1, <1>t DEF Accept, SessionFails, Delivered, Answer, TypeOK, Open
  <2>3. main \in {"down", "refused"} => \A e \in Conns : handler'[e] \in {handler[e], "ended"}
    BY <1>1, <1>t DEF SessionInv, Sessions, Accept, SessionFails, Delivered, Answer, Up
  <2> QED BY <2>1, <2>2, <2>3, SessionFrame DEF Up, QueuePairs, PairsOf
<1>2. ASSUME NEW c \in Conns, NEW p \in Packets, Refuse(c, p) PROVE SessionInv'
  <2>1. /\ UNCHANGED <<relays, refs, ended, shut, finished, queue, pending, loop, main>>
        /\ ConnOf[p] = c /\ handler[c] = "reading" /\ handler' = [handler EXCEPT ![c] = "refusing"] /\ sent' = sent \union {p}
    BY <1>2 DEF Refuse
  <2>2. \A e \in Conns : /\ handler'[e] \in {"new", "accepted"} => handler[e] \in {"new", "accepted"}
                         /\ handler'[e] \in Open => handler[e] \in Open
    BY <2>1, <1>t DEF TypeOK, Open
  <2>3. \A q \in sent' : q \in sent \/ handler'[ConnOf[q]] \in Open
    BY <2>1, <1>t DEF TypeOK, Open
  <2>4. main \notin {"down", "refused"}
    BY <2>1 DEF SessionInv, Sessions
  <2> QED BY <2>1, <2>2, <2>3, <2>4, SessionFrame DEF Up, QueuePairs, PairsOf
<1>3. ASSUME NEW c \in Conns, NEW p \in Packets, Enqueue(c, p) PROVE SessionInv'
  <2> DEFINE k == Cardinality(Wants(p) \intersect Relays)
  <2>1. /\ UNCHANGED <<relays, ended, shut, finished, loop, main>> /\ main = "serving"
        /\ ConnOf[p] = c /\ handler[c] = "reading" /\ sent' = sent \union {p}
        /\ handler' = [handler EXCEPT ![c] = IF AckMode = "delivered" THEN "waiting" ELSE "confirming"]
        /\ queue' = queue \union {p} /\ pending' = [pending EXCEPT ![p] = Wants(p)]
        /\ refs' = [refs EXCEPT ![c] = @ + k]
    BY <1>3 DEF Enqueue, Refusal
  <2>2. /\ \A e \in Conns : e # c => handler'[e] = handler[e] /\ refs'[e] = refs[e]
        /\ handler'[c] \in Open /\ handler[c] \in Open
    BY <2>1, <1>t DEF TypeOK, Open
  <2>3. ~ended[c] /\ ~shut[c] /\ (Relays # {} => c \in relays) /\ finished # c
    BY <2>2, NoneAssumption DEF SessionInv, Sessions
  <2>4. Sessions'
    <3>1. \A e \in Conns : handler'[e] \in {"new", "accepted"} => e # c
      BY <2>2 DEF Open
    <3>2. finished \in Conns \union {None}
      BY <1>t DEF TypeOK
    <3> QED BY <2>1, <2>2, <2>3, <3>1, <3>2 DEF SessionInv, Sessions, Open
  <2>5. SessionOpen'
    <3>1. ASSUME NEW x \in QueuePairs', x[2] \in Relays PROVE ConnOf[x[1]] \in relays /\ ~shut[ConnOf[x[1]]]
      <4>1. x[1] = p \/ x \in QueuePairs
        BY <2>1, <1>t DEF QueuePairs, PairsOf, TypeOK
      <4> QED BY <2>1, <2>3, <3>1, <4>1 DEF SessionInv, SessionOpen
    <3> QED BY <2>1, <3>1 DEF SessionOpen
  <2>6. SessionForgotten'
    BY <2>1, <2>2, <2>3 DEF SessionInv, SessionForgotten, Up
  <2> QED BY <2>4, <2>5, <2>6 DEF SessionInv
<1>4. ASSUME NEW c \in Conns, Register(c) PROVE SessionInv'
  <2>1. /\ UNCHANGED <<refs, ended, shut, finished, queue, pending, loop, main, sent>>
        /\ handler[c] = "accepted"
        /\ \/ /\ main = "serving" /\ handler' = [handler EXCEPT ![c] = "reading"]
              /\ relays' = IF Relays = {} THEN relays ELSE relays \union {c}
           \/ handler' = [handler EXCEPT ![c] = "ended"] /\ relays' = relays
    BY <1>4 DEF Register
  <2>2. /\ \A e \in Conns : e # c => handler'[e] = handler[e]
        /\ handler'[c] \notin {"new", "accepted"} /\ relays \subseteq relays' /\ relays' \subseteq relays \union {c}
        /\ handler'[c] \in Open => (Relays # {} => c \in relays')
    BY <2>1, <1>t DEF TypeOK, Open
  <2>3. ~ended[c] /\ ~shut[c] /\ QueuePairs' = QueuePairs
    BY <2>1 DEF SessionInv, Sessions, QueuePairs, PairsOf
  <2>4. finished # None => finished \in Conns /\ finished # c
    BY <2>3, <1>t DEF SessionInv, Sessions, TypeOK
  <2>5. Sessions'
    BY <2>1, <2>2, <2>3, <2>4 DEF SessionInv, Sessions
  <2>6. SessionOpen' /\ SessionForgotten'
    BY <2>1, <2>2, <2>3 DEF SessionInv, SessionOpen, SessionForgotten, Up
  <2> QED BY <2>5, <2>6 DEF SessionInv
<1>5. ASSUME NEW c \in Conns, HandlerEnds(c) PROVE SessionInv'
  <2>1. /\ UNCHANGED <<refs, finished, queue, pending, loop, main, sent>>
        /\ handler[c] \in Open /\ handler' = [handler EXCEPT ![c] = "ended"]
        /\ QueuePairs' = QueuePairs
    BY <1>5 DEF HandlerEnds, Open, QueuePairs, PairsOf
  <2>2. /\ \A e \in Conns : e # c => handler'[e] = handler[e]
        /\ handler'[c] = "ended"
    BY <2>1, <1>t DEF TypeOK
  <2>3. main \notin {"exited", "down", "refused"}
    BY <2>1 DEF ContractInv, Gone, SessionInv, Sessions, Open
  <2>4. CASE Relays = {}
    BY <1>5, <2>1, <2>2, <2>4 DEF HandlerEnds, SessionInv, Sessions, SessionOpen, SessionForgotten, Open, Up
  <2>5. CASE Relays # {}
    <3>1. /\ ended' = [ended EXCEPT ![c] = TRUE]
          /\ relays' = IF refs[c] = 0 THEN relays \ {c} ELSE relays
          /\ shut' = [shut EXCEPT ![c] = @ \/ refs[c] = 0]
      BY <1>5, <2>5 DEF HandlerEnds
    <3>2. /\ \A e \in Conns : e # c => ended'[e] = ended[e] /\ shut'[e] = shut[e] /\ (e \in relays' <=> e \in relays)
          /\ ended'[c] /\ (shut'[c] <=> shut[c] \/ refs[c] = 0)
      BY <3>1, <1>t DEF TypeOK
    <3>3. finished # None => finished \in Conns /\ finished # c
      BY <2>1, <1>t DEF SessionInv, Sessions, TypeOK
    <3>4. Sessions'
      BY <2>1, <2>2, <3>2, <3>3 DEF SessionInv, Sessions, Open
    <3>5. SessionOpen'
      <4>1. CASE Up
        <5>1. refs[c] = 0 => \A x \in QueuePairs : x[2] \in Relays => ConnOf[x[1]] # c
          BY <4>1, ZeroRefs
        <5>2. ~shut[c] /\ (refs[c] # 0 => ~shut'[c] /\ relays' = relays)
          BY <2>1, <3>1, <3>2 DEF SessionInv, Sessions
        <5> QED BY <2>1, <3>2, <5>1, <5>2, RelaysSent DEF SessionInv, SessionOpen
      <4>2. CASE ~Up
        BY <2>3, <4>2 DEF Up
      <4> QED BY <4>1, <4>2
    <3>6. SessionForgotten'
      BY <2>1, <3>1, <3>2, <1>t DEF SessionInv, SessionForgotten, Up
    <3> QED BY <3>4, <3>5, <3>6 DEF SessionInv
  <2> QED BY <2>4, <2>5
<1> QED BY <1>1, <1>2, <1>3, <1>4, <1>5 DEF Connection

LEMMA SessionDelivery ==
    IInv /\ Held /\ RefsCounted /\ RefsCounted' /\ SessionInv /\ Delivery => SessionInv'
<1> SUFFICES ASSUME IInv, Held, RefsCounted, RefsCounted', SessionInv, Delivery PROVE SessionInv'
  OBVIOUS
<1> USE DEF itemVars, relayVars, connVars, loopVars, targetVars, serveVars, dumpVars, worldVars
<1>t. TypeOK
  BY DEF IInv
<1>u. main' = main /\ handler' = handler /\ sent' = sent /\ main \notin {"exited", "down", "refused"}
  BY DEF Delivery, Top, Return, Awake, LoopSaved, Finish, PassOver, Start, Failure, Success, Selecting, AllSeen,
         IInv, Places, Up
<1>1. CASE Top \/ Return \/ Awake \/ LoopSaved \/ \E d \in Dests : PassOver(d) \/ Failure(d) \/ \E p \in Packets : Start(d, p)
  <2>1. UNCHANGED <<relays, refs, ended, shut, finished>> /\ queue' \subseteq queue /\ pending' = pending
    BY <1>1 DEF Top, Unfinished, Return, Awake, LoopSaved, PassOver, Failure, Start
  <2>2. loop \in {"saving", "finish"} => loop' \in {"saving", "finish"}
    BY <1>1 DEF Top, Return, Awake, LoopSaved, PassOver, Failure, Start, Selecting, AllSeen
  <2>3. QueuePairs' \subseteq QueuePairs
    BY <2>1 DEF QueuePairs, PairsOf
  <2> QED BY <1>u, <2>1, <2>2, <2>3, SessionFrame DEF Up
<1>2. CASE Finish
  <2>1. /\ UNCHANGED <<relays, refs, ended, queue, pending>> /\ finished' = None
        /\ shut' = (IF finished = None THEN shut ELSE [shut EXCEPT ![finished] = TRUE])
    BY <1>2 DEF Finish
  <2>2. \A c \in Conns : shut'[c] <=> shut[c] \/ finished = c
    BY <2>1, <1>t, NoneAssumption DEF TypeOK
  <2>3. finished # None => ended[finished] /\ refs[finished] = 0 /\ finished \notin relays
    BY DEF SessionInv, Sessions
  <2>4. QueuePairs' = QueuePairs
    BY <2>1 DEF QueuePairs, PairsOf
  <2>5. Sessions'
    BY <1>u, <2>1, <2>2, <2>3, NoneAssumption DEF SessionInv, Sessions
  <2>6. SessionOpen' /\ SessionForgotten'
    BY <1>u, <2>1, <2>2, <2>3, <2>4, RelaysSent DEF SessionInv, SessionOpen, SessionForgotten, Up
  <2> QED BY <2>5, <2>6 DEF SessionInv
<1>3. ASSUME NEW d \in Dests, Success(d) PROVE SessionInv'
  <2>p. PICK p \in Packets, c \in Conns : p = busy[d] /\ c = ConnOf[p]
    BY <1>3, <1>t, ConnAssumption DEF Success, TypeOK
  <2>1. /\ queue' = queue /\ pending' = [pending EXCEPT ![p] = @ \ {d}] /\ UNCHANGED <<ended, shut>>
        /\ refs' = (IF d \in Relays THEN [refs EXCEPT ![c] = @ - 1] ELSE refs)
        /\ relays' = (IF d \in Relays /\ LastRelay(c) THEN relays \ {c} ELSE relays)
        /\ finished' = (IF d \in Relays /\ LastRelay(c) THEN c ELSE None)
        /\ loop = "visit" /\ loop' \in {"saving", "finish"} /\ Up
    BY <1>3, <2>p, <1>u DEF Success, Selecting, AllSeen, Up
  <2>2. finished = None
    BY <2>1 DEF SessionInv, Sessions
  <2>3. QueuePairs' \subseteq QueuePairs
    <3>1. \A q \in Packets : pending'[q] \subseteq pending[q]
      BY <2>1, <1>t DEF TypeOK
    <3> QED BY <2>1, <3>1 DEF QueuePairs, PairsOf
  <2>4. \A e \in Conns : e # c => refs'[e] = refs[e]
    BY <2>1, <1>t DEF TypeOK
  <2>5. p \in sent
    BY <2>p, <1>3, <1>t DEF Success, IInv, Known, TypeOK
  <2>6. handler[c] \notin {"new", "accepted"}
    BY <2>p, <2>5 DEF SessionInv, Sessions
  <2>7. CASE d \in Relays /\ LastRelay(c)
    <3>1. refs'[c] = 0 /\ refs[c] = 1 /\ ended[c] /\ finished' = c /\ relays' = relays \ {c}
      BY <2>1, <2>7, <1>t DEF LastRelay, TypeOK
    <3>2. Sessions'
      BY <1>u, <2>1, <2>4, <2>6, <3>1 DEF SessionInv, Sessions
    <3>3. SessionOpen'
      <4>1. Up'
        BY <1>u, <2>1 DEF Up
      <4>2. \A x \in QueuePairs' : x[2] \in Relays => ConnOf[x[1]] # c
        <5>1. IsFiniteSet(RelaysOf(c)') /\ refs'[c] = Cardinality(RelaysOf(c)')
          <6>1. IsFiniteSet(RelaysOf(c)')
            BY <2>3, RelaysSent, FS_Subset DEF RelaysOf
          <6> QED BY <4>1, <6>1 DEF RefsCounted, RelaysOf
        <5>2. RelaysOf(c)' = {}
          BY <3>1, <5>1, FS_EmptySet
        <5> QED BY <5>2 DEF RelaysOf
      <4> QED BY <1>u, <2>1, <2>3, <3>1, <4>2 DEF SessionInv, SessionOpen
    <3>4. SessionForgotten'
      BY <1>u, <2>1, <2>2, <2>4, <3>1, NoneAssumption DEF SessionInv, SessionForgotten, Up
    <3> QED BY <3>2, <3>3, <3>4 DEF SessionInv
  <2>8. CASE ~(d \in Relays /\ LastRelay(c))
    <3>1. relays' = relays /\ finished' = None
      BY <2>1, <2>8
    <3>2. refs'[c] = refs[c] \/ (refs'[c] = 0 /\ ~ended[c]) \/ (refs'[c] # 0 /\ d \in Relays)
      BY <2>1, <2>8, <1>t DEF LastRelay, TypeOK
    <3>3. Sessions'
      BY <1>u, <2>1, <2>4, <2>6, <3>1 DEF SessionInv, Sessions
    <3>4. SessionOpen'
      BY <1>u, <2>1, <2>3, <3>1 DEF SessionInv, SessionOpen
    <3>5. SessionForgotten'
      BY <1>u, <2>1, <2>2, <2>4, <3>1, <3>2, NoneAssumption DEF SessionInv, SessionForgotten, Up
    <3> QED BY <3>3, <3>4, <3>5 DEF SessionInv
  <2> QED BY <2>7, <2>8
<1> QED BY <1>1, <1>2, <1>3 DEF Delivery

LEMMA SessionStep ==
    IInv /\ ContractInv /\ Held /\ RefsCounted /\ RefsCounted' /\ SessionInv /\ [Next]_vars => SessionInv'
<1> SUFFICES ASSUME IInv, ContractInv, Held, RefsCounted, RefsCounted', SessionInv, [Next]_vars PROVE SessionInv'
  OBVIOUS
<1> USE DEF itemVars, relayVars, connVars, loopVars, targetVars, serveVars, dumpVars, worldVars
<1>t. TypeOK
  BY DEF IInv
<1>1. CASE AcceptFails \/ Tick \/ Worker \/ Saving \/ Stop \/ Terminated \/ UNCHANGED vars
  <2>1. UNCHANGED <<relays, refs, ended, shut, finished, queue, pending, loop, main, handler, sent>>
    BY <1>1 DEF AcceptFails, Tick, Worker, AttemptOk, AttemptErr, Saving, Snapshot, Replace, SyncDirectory, SaveFails,
                Stop, Terminated, vars
  <2> QED BY <2>1, SessionFrame DEF Up, QueuePairs, PairsOf
<1>2. CASE Serving
  <2>1. CASE BeginStop \/ CloseConnections \/ HandlersDone \/ DeliveryDone \/ ServerSaved
    <3>1. /\ UNCHANGED <<relays, refs, ended, shut, finished, queue, pending, loop, handler, sent>>
          /\ main \notin {"exited", "down", "refused"} /\ main' \notin {"exited", "down", "refused"}
      BY <2>1 DEF BeginStop, CloseConnections, HandlersDone, DeliveryDone, ServerSaved
    <3> QED BY <3>1, SessionFrame DEF Up, QueuePairs, PairsOf
  <2>2. CASE Exit
    <3>1. /\ UNCHANGED <<relays, refs, ended, finished, loop, handler, sent>> /\ main = "closing" /\ main' = "exited"
          /\ \A c \in Conns : shut'[c] <=> shut[c] \/ c \in relays
      BY <2>2 DEF Exit
    <3>2. \A c \in Conns : handler[c] \notin Open
      BY <3>1 DEF ContractInv, Gone, Open
    <3> QED BY <3>1, <3>2 DEF SessionInv, Sessions, SessionOpen, SessionForgotten, Up
  <2> QED BY <1>2, <2>1, <2>2 DEF Serving
<1>3. CASE Crash
  <2>1. /\ main' = "down" /\ finished' = None /\ sent' = sent
        /\ \A c \in Conns : /\ handler'[c] = (IF handler[c] = "new" THEN "new" ELSE "ended")
                            /\ ~shut'[c] /\ refs'[c] = Cardinality(RelayPairs(NoDump.left, c))
                            /\ ended'[c] = (RelayPairs(NoDump.left, c) # {})
        /\ relays' = {c \in Conns : RelayPairs(NoDump.left, c) # {}}
    BY <1>3 DEF Crash, Load
  <2>2. \A c \in Conns : RelayPairs(NoDump.left, c) = {}
    BY DEF RelayPairs, NoDump, Nothing
  <2> QED BY <2>1, <2>2, FS_EmptySet DEF SessionInv, Sessions, SessionOpen, SessionForgotten, Open, Up
<1>4. CASE Restart
  <2>1. /\ finished' = None /\ sent' = sent
        /\ \A c \in Conns : /\ handler'[c] = (IF handler[c] = "new" THEN "new" ELSE "ended")
                            /\ shut'[c] = FALSE /\ refs'[c] = Cardinality(RelayPairs(disk.left, c))
                            /\ ended'[c] = (RelayPairs(disk.left, c) # {})
        /\ relays' = {c \in Conns : RelayPairs(disk.left, c) # {}}
        /\ queue' = disk.items /\ pending' = disk.left
    BY <1>4 DEF Restart, Load
  <2>2. ASSUME NEW c \in Conns, handler[c] = "new" PROVE RelayPairs(disk.left, c) = {}
    <3>1. \A p \in sent : ConnOf[p] # c
      BY <2>2 DEF SessionInv, Sessions
    <3> QED BY <3>1, RelayAssumption DEF RelayPairs, Held, IInv, Known
  <2>3. \A c \in Conns : refs'[c] = 0 <=> RelayPairs(disk.left, c) = {}
    <3>1. \A c \in Conns : IsFiniteSet(RelayPairs(disk.left, c))
      <4>1. IsFiniteSet(Packets \X Dests)
        BY FiniteAssumption, FS_Product
      <4>2. \A c \in Conns : RelayPairs(disk.left, c) \subseteq Packets \X Dests
        BY RelayAssumption DEF RelayPairs
      <4> QED BY <4>1, <4>2, FS_Subset
    <3> QED BY <2>1, <3>1, FS_EmptySet
  <2>4. Sessions'
    <3>1. \A c \in Conns : handler'[c] \notin Open /\ (handler'[c] \in {"new", "accepted"} => handler[c] = "new")
      BY <2>1 DEF Open
    <3>2. \A c \in Conns : handler'[c] \in {"new", "ended"}
      BY <2>1
    <3> QED BY <2>1, <2>2, <2>3, <3>1, <3>2 DEF SessionInv, Sessions
  <2>5. SessionOpen'
    <3>1. ASSUME NEW x \in QueuePairs', x[2] \in Relays PROVE ConnOf[x[1]] \in relays' /\ ~shut'[ConnOf[x[1]]]
      <4>1. x \in RelayPairs(disk.left, ConnOf[x[1]]) /\ ConnOf[x[1]] \in Conns
        BY <2>1, <3>1, ConnAssumption DEF QueuePairs, PairsOf, RelayPairs
      <4> QED BY <2>1, <4>1
    <3> QED BY <3>1 DEF SessionOpen
  <2>6. SessionForgotten'
    BY <2>1, <2>3 DEF SessionForgotten
  <2> QED BY <2>4, <2>5, <2>6 DEF SessionInv
<1> QED BY <1>1, <1>2, <1>3, <1>4, SessionConnection, SessionDelivery DEF Next

LEMMA InitSessions == Init => SessionInv
<1> SUFFICES ASSUME Init PROVE SessionInv
  OBVIOUS
<1>1. QueuePairs = {}
  BY DEF Init, QueuePairs, PairsOf
<1> QED BY <1>1 DEF Init, SessionInv, Sessions, SessionOpen, SessionForgotten, Open

LEMMA SessionsInvariant == Spec => [](IInv /\ ContractInv /\ Held /\ RefsCounted /\ SessionInv)
<1>1. Init => ContractInv /\ Held /\ RefsCounted /\ SessionInv
  BY InitContract, InitHeld, InitSessions
<1>2. IInv /\ ContractInv /\ [Next]_vars => ContractInv'
  BY NextContract
<1>3. IInv /\ Held /\ [Next]_vars => Held'
  BY HeldStep
<1>4. IInv /\ Held /\ Held' /\ RefsCounted /\ [Next]_vars => RefsCounted'
  BY RefsStep
<1>5. IInv /\ ContractInv /\ Held /\ RefsCounted /\ RefsCounted' /\ SessionInv /\ [Next]_vars => SessionInv'
  BY SessionStep
<1> QED BY <1>1, <1>2, <1>3, <1>4, <1>5, Inductive, PTL DEF Spec

\* A session with relays to make stays known and open, and one without is closed
\* when its terminal is gone, whoever comes last (relay.go:53-64, queue.go:274-283).
THEOREM SessionsKept == Spec => []SessionLife
<1>1. SessionInv => SessionLife
  BY DEF SessionInv, SessionLife
<1> QED BY <1>1, SessionsInvariant, PTL

\* A process that has returned leaves no worker, no handler and no session behind
\* (server.go:155-218, queue.go:106).
THEOREM ExitsClean == Spec => []CleanExit
<1> DEFINE Inv == IInv /\ ContractInv /\ Held /\ RefsCounted /\ SessionInv
<1>1. Inv /\ CleanExit /\ [Next]_vars => CleanExit'
  <2> SUFFICES ASSUME Inv, CleanExit, [Next]_vars, main' = "exited" PROVE CleanExit'
    BY DEF CleanExit
  <2>t. TypeOK
    BY DEF IInv
  <2>1. CASE Exit
    <3>1. /\ main = "closing" /\ Up /\ UNCHANGED <<attempt, handler, ended>>
          /\ \A c \in Conns : shut'[c] <=> shut[c] \/ c \in relays
      BY <2>1 DEF Exit, Up, targetVars, connVars
    <3>2. loop = "returned"
      BY <3>1 DEF IInv, Places
    <3>3. \A d \in Dests : attempt[d] = "idle"
      BY <3>2, <2>t DEF ContractInv, Gone, TypeOK
    <3>4. \A c \in Conns : handler[c] \in {"new", "ended"}
      BY <3>1 DEF ContractInv, Gone
    <3>5. ASSUME NEW c \in Conns, ended[c] PROVE shut[c] \/ c \in relays
      <4>1. finished = None
        BY <3>2 DEF SessionInv, Sessions
      <4>2. CASE refs[c] = 0
        BY <3>1, <3>5, <4>1, <4>2, NoneAssumption DEF SessionInv, SessionForgotten
      <4>3. CASE refs[c] # 0
        <5>1. PICK x \in QueuePairs : x[2] \in Relays /\ ConnOf[x[1]] = c
          BY <3>1, <4>3, ZeroRefs
        <5> QED BY <3>1, <5>1 DEF SessionInv, SessionOpen
      <4> QED BY <4>2, <4>3
    <3> QED BY <3>1, <3>3, <3>4, <3>5 DEF CleanExit
  <2>2. CASE ~Exit
    <3>1. main = "exited"
      BY <2>2 DEF Next, vars, Connection, Accept, Register, SessionFails, Enqueue, Refuse, Delivered, Answer, HandlerEnds,
           AcceptFails, Delivery, Top, Return, Awake, LoopSaved, Finish, PassOver, Start, Failure, Success,
           Worker, AttemptOk, AttemptErr, Tick, Saving, Snapshot, Replace, SyncDirectory, SaveFails,
           Serving, BeginStop, CloseConnections, HandlersDone, DeliveryDone,
           ServerSaved, Stop, Crash, Restart, Load, Terminated, serveVars
    <3>2. /\ loop = "returned" /\ ~Up /\ saving \notin {"snapshot", "replace", "sync"}
          /\ \A d \in Dests : attempt[d] = "idle"
          /\ \A c \in Conns : handler[c] \in {"new", "ended"}
      BY <3>1 DEF IInv, Places, Up, CleanExit
    <3>3. UNCHANGED <<attempt, handler, ended, shut>>
      <4>1. CASE Connection
        BY <3>1, <3>2, <4>1 DEF Connection, Accept, Register, SessionFails, Enqueue, Refuse, Delivered, Answer, HandlerEnds
      <4>2. CASE Delivery
        BY <3>2, <4>2 DEF Delivery, Top, Return, Awake, LoopSaved, Finish, PassOver, Start, Failure, Success, Selecting, AllSeen
      <4>3. CASE AcceptFails \/ Worker \/ Tick \/ Saving \/ Serving \/ Stop
        BY <3>1, <3>2, <4>3 DEF AcceptFails, Worker, AttemptOk, AttemptErr, Tick, Saving, Snapshot, Replace, SyncDirectory, SaveFails,
           Serving, BeginStop, CloseConnections, HandlersDone, DeliveryDone, ServerSaved, Exit, Stop,
           targetVars, connVars, relayVars
      <4>4. CASE Crash \/ Restart
        BY <3>1, <4>4 DEF Crash, Restart, Load, Up
      <4>5. CASE Terminated \/ UNCHANGED vars
        BY <4>5 DEF Terminated, vars, targetVars, connVars, relayVars
      <4> QED BY <4>1, <4>2, <4>3, <4>4, <4>5 DEF Next
    <3> QED BY <3>1, <3>3 DEF CleanExit
  <2> QED BY <2>1, <2>2
<1>2. Init => CleanExit
  BY DEF Init, CleanExit
<1> QED BY <1>1, <1>2, SessionsInvariant, PTL DEF Spec

----------------------------------------------------------------------------
\* The order of the queue.

\* A place is behind every earlier one, a packet with a place is known to the process
\* that runs, and a worker has the first packet its destination has not taken.
OrderInv ==
    /\ \A p \in Packets : arrival[p] <= Cardinality(sent) /\ (arrival[p] > 0 => p \in sent)
    /\ Up => \A p \in Packets : arrival[p] > 0 => p \in queue \union done
    /\ \A d \in Dests : busy[d] # None =>
          \A q \in Packets : 0 < arrival[q] /\ arrival[q] < arrival[busy[d]] /\ d \in Wants(q) => q \in accepted[d]
    /\ OrderKept

\* Steps that only forget places, and add neither packets nor work.
LEMMA OrderFrame ==
    IInv /\ OrderInv /\ sent' = sent /\ accepted' = accepted
    /\ (\A p \in Packets : arrival'[p] \in {arrival[p], 0})
    /\ (\A d \in Dests : busy'[d] = None \/ busy'[d] = busy[d])
    /\ (Up' => \A p \in Packets : arrival'[p] > 0 => p \in queue' \union done')
    => OrderInv'
<1> SUFFICES ASSUME IInv, OrderInv, sent' = sent, accepted' = accepted,
                    \A p \in Packets : arrival'[p] \in {arrival[p], 0},
                    \A d \in Dests : busy'[d] = None \/ busy'[d] = busy[d],
                    Up' => \A p \in Packets : arrival'[p] > 0 => p \in queue' \union done'
             PROVE  OrderInv'
  OBVIOUS
<1>1. \A p \in Packets : arrival[p] \in Nat /\ arrival'[p] \in Nat /\ arrival'[p] <= arrival[p]
  BY DEF IInv, TypeOK
<1>2. Cardinality(sent) \in Nat
  BY FiniteAssumption, FS_Subset, FS_CardinalityType DEF IInv, TypeOK
<1>3. \A p \in Packets : arrival'[p] <= Cardinality(sent') /\ (arrival'[p] > 0 => p \in sent')
  BY <1>1, <1>2 DEF OrderInv
<1>4. OrderKept'
  <2>1. ASSUME NEW d \in Dests, NEW p \in Packets, NEW q \in Packets,
               0 < arrival'[q], arrival'[q] < arrival'[p], d \in Wants(q), p \in accepted[d]
        PROVE  q \in accepted[d]
    <3>1. arrival'[q] = arrival[q] /\ arrival'[p] = arrival[p]
      BY <1>1, <2>1
    <3> QED BY <2>1, <3>1 DEF OrderInv, OrderKept
  <2> QED BY <2>1 DEF OrderKept, Wants
<1>5. ASSUME NEW d \in Dests, busy'[d] # None, NEW q \in Packets,
             0 < arrival'[q], arrival'[q] < arrival'[busy'[d]], d \in Wants(q)
      PROVE  q \in accepted[d]
  <2>1. busy'[d] = busy[d] /\ busy[d] \in Packets
    BY <1>5 DEF IInv, TypeOK
  <2>2. arrival'[q] = arrival[q] /\ arrival'[busy'[d]] = arrival[busy[d]]
    BY <1>1, <1>5, <2>1
  <2> QED BY <1>5, <2>1, <2>2 DEF OrderInv
<1> QED BY <1>3, <1>4, <1>5 DEF OrderInv, Wants

LEMMA OrderStep == IInv /\ ContractInv /\ OrderInv /\ [Next]_vars => OrderInv'
<1> SUFFICES ASSUME IInv, ContractInv, OrderInv, [Next]_vars PROVE OrderInv'
  OBVIOUS
<1> USE DEF itemVars, relayVars, connVars, loopVars, targetVars, serveVars, dumpVars, worldVars
<1>t. TypeOK
  BY DEF IInv
<1>n. /\ Cardinality(sent) \in Nat /\ IsFiniteSet(sent)
      /\ \A p \in Packets : arrival[p] \in Nat
  BY <1>t, FiniteAssumption, FS_Subset, FS_CardinalityType DEF TypeOK
<1>a. \A d \in Dests : \A p \in accepted[d] : p \in Packets /\ p \in sent
  <2>1. ASSUME NEW d \in Dests, NEW p \in accepted[d] PROVE p \in Packets /\ p \in sent
    <3>1. p \in Packets
      BY <1>t DEF TypeOK
    <3>2. <<p, d>> \in Taken
      BY <3>1 DEF Taken, Pairs
    <3> QED BY <3>1, <3>2 DEF ContractInv, OwedOnce, Accounted
  <2> QED BY <2>1
<1>1. ASSUME NEW c \in Conns, NEW p \in Packets, Enqueue(c, p) PROVE OrderInv'
  <2>1. /\ p \notin sent /\ sent' = sent \union {p} /\ queue' = queue \union {p} /\ main = "serving"
        /\ UNCHANGED <<done, main, busy, accepted>>
        /\ \A q \in Packets : arrival'[q] = IF q = p THEN Cardinality(sent) + 1 ELSE arrival[q]
    BY <1>1, <1>t DEF Enqueue, Refusal, NextPlace, TypeOK
  <2>2. Cardinality(sent') = Cardinality(sent) + 1
    BY <1>n, <2>1, FS_AddElement
  <2>3. \A q \in Packets : arrival'[q] <= Cardinality(sent') /\ (arrival'[q] > 0 => q \in sent')
    BY <1>n, <2>1, <2>2 DEF OrderInv
  <2>4. \A q \in Packets : arrival'[q] > 0 => q \in queue' \union done'
    BY <2>1 DEF OrderInv, Up
  <2>5. \A d \in Dests : p \notin accepted[d] /\ busy[d] # p
    BY <1>a, <2>1, NoneAssumption DEF IInv, Known, TypeOK
  <2>6. \A q, r \in Packets : arrival'[q] < arrival'[r] /\ r # p => q # p /\ arrival[q] < arrival[r]
    BY <1>n, <2>1 DEF OrderInv
  <2>7. OrderKept'
    BY <2>1, <2>5, <2>6 DEF OrderInv, OrderKept, Wants
  <2>8. \A d \in Dests : busy[d] # None =>
          \A q \in Packets : 0 < arrival'[q] /\ arrival'[q] < arrival'[busy[d]] /\ d \in Wants(q) => q \in accepted[d]
    BY <2>1, <2>5, <2>6, <1>t DEF OrderInv, TypeOK
  <2> QED BY <2>1, <2>3, <2>4, <2>7, <2>8 DEF OrderInv, Wants
<1>2. ASSUME NEW c \in Conns, NEW p \in Packets, Refuse(c, p) PROVE OrderInv'
  <2>1. p \notin sent /\ sent' = sent \union {p} /\ UNCHANGED <<queue, done, main, busy, accepted, arrival>>
    BY <1>2 DEF Refuse
  <2>2. Cardinality(sent') = Cardinality(sent) + 1
    BY <1>n, <2>1, FS_AddElement
  <2>3. \A q \in Packets : arrival[q] <= Cardinality(sent')
    BY <1>n, <2>2 DEF OrderInv
  <2> QED BY <2>1, <2>3 DEF OrderInv, OrderKept, Up, Wants
<1>3. ASSUME NEW d \in Dests, NEW p \in Packets, Start(d, p) PROVE OrderInv'
  <2>1. /\ First(d, p) /\ busy' = [busy EXCEPT ![d] = p] /\ Up
        /\ UNCHANGED <<sent, queue, done, main, accepted, arrival>>
    BY <1>3 DEF Start, IInv, Places, Up
  <2>2. ASSUME NEW q \in Packets, 0 < arrival[q], arrival[q] < arrival[p], d \in Wants(q) PROVE q \in accepted[d]
    <3>1. q \in queue \union done
      BY <1>n, <2>1, <2>2 DEF OrderInv
    <3>2. q \in done \/ d \notin pending[q]
      BY <1>n, <2>1, <2>2, <3>1 DEF First, Candidates
    <3> QED BY <2>2, <3>1, <3>2 DEF IInv, Recorded, TakenUnless
  <2>3. \A e \in Dests : e # d => busy'[e] = busy[e]
    BY <2>1, <1>t DEF TypeOK
  <2>4. busy'[d] = p
    BY <2>1, <1>t DEF TypeOK
  <2> QED BY <2>1, <2>2, <2>3, <2>4 DEF OrderInv, OrderKept, Up, Wants
<1>4. CASE Worker
  <2>1. PICK d \in Dests, taken \in BOOLEAN : AttemptOk(d) \/ AttemptErr(d, taken)
    BY <1>4 DEF Worker
  <2>2. /\ UNCHANGED <<sent, queue, done, main, busy, arrival>> /\ busy[d] # None /\ busy[d] \in Packets
        /\ \A e \in Dests : accepted[e] \subseteq accepted'[e] /\ (e # d => accepted'[e] = accepted[e])
        /\ accepted'[d] \subseteq accepted[d] \union {busy[d]}
    BY <2>1, <1>t DEF AttemptOk, AttemptErr, TypeOK
  <2>3. OrderKept'
    <3>1. ASSUME NEW e \in Dests, NEW p \in Packets, NEW q \in Packets,
                 0 < arrival[q], arrival[q] < arrival[p], e \in Wants(q), p \in accepted'[e]
          PROVE  q \in accepted'[e]
      <4>1. CASE p \in accepted[e]
        BY <2>2, <3>1, <4>1 DEF OrderInv, OrderKept
      <4>2. CASE p \notin accepted[e]
        <5>1. e = d /\ p = busy[d]
          BY <2>2, <3>1, <4>2
        <5> QED BY <2>2, <3>1, <5>1 DEF OrderInv
      <4> QED BY <4>1, <4>2
    <3> QED BY <2>2, <3>1 DEF OrderKept, Wants
  <2> QED BY <2>2, <2>3 DEF OrderInv, Up, Wants
<1>5. CASE Connection /\ ~\E c \in Conns, p \in Packets : Enqueue(c, p) \/ Refuse(c, p)
  BY <1>5, OrderFrame DEF Connection, Accept, Register, SessionFails, Delivered, Answer, HandlerEnds, OrderInv, Up
<1>6. CASE Delivery /\ ~\E d \in Dests, p \in Packets : Start(d, p)
  <2>1. UNCHANGED <<sent, accepted, arrival, main>> /\ queue' \union done' = queue \union done
    BY <1>6 DEF Delivery, Top, Unfinished, Return, Awake, LoopSaved, Finish, PassOver, Failure, Success
  <2>2. \A d \in Dests : busy'[d] = None \/ busy'[d] = busy[d]
    <3>1. ASSUME NEW d \in Dests, Failure(d) \/ Success(d) PROVE \A e \in Dests : busy'[e] = None \/ busy'[e] = busy[e]
      <4>1. busy' = [busy EXCEPT ![d] = None]
        BY <3>1 DEF Failure, Success, Idle
      <4> QED BY <4>1, <1>t DEF TypeOK
    <3> QED BY <1>6, <3>1 DEF Delivery, Top, Return, Awake, LoopSaved, Finish, PassOver
  <2> QED BY <2>1, <2>2, OrderFrame DEF OrderInv, Up
<1>7. CASE AcceptFails \/ Tick \/ Saving \/ Serving \/ Stop \/ Terminated \/ UNCHANGED vars
  <2>1. UNCHANGED <<sent, accepted, arrival, queue, done, busy>> /\ (Up' => Up)
    BY <1>7 DEF AcceptFails, Tick, Saving, Snapshot, Replace, SyncDirectory, SaveFails, Serving, BeginStop,
       CloseConnections, HandlersDone, DeliveryDone, ServerSaved, Exit, Stop, Terminated, vars, Up
  <2> QED BY <2>1, OrderFrame DEF OrderInv
<1>8. CASE Crash \/ Restart
  <2>1. /\ UNCHANGED <<sent, accepted>> /\ (\A d \in Dests : busy'[d] = None)
        /\ \A p \in Packets : arrival'[p] \in {arrival[p], 0}
    BY <1>8 DEF Crash, Restart, Load, Remember
  <2>2. Up' => \A p \in Packets : arrival'[p] > 0 => p \in queue' \union done'
    BY <1>8 DEF Crash, Restart, Load, Remember, Up
  <2> QED BY <2>1, <2>2, OrderFrame
<1> QED BY <1>1, <1>2, <1>3, <1>4, <1>5, <1>6, <1>7, <1>8 DEF Next, Connection, Delivery

\* Every destination takes packets for the first time in the order in which they
\* were enqueued, over retries, results in any order and restarts (queue.go:169,
\* dump.go:84,204).
THEOREM OrderAlways == Spec => []OrderKept
<1>1. Init => OrderInv
  <2> SUFFICES ASSUME Init PROVE OrderInv
    OBVIOUS
  <2>1. Cardinality(sent) = 0
    BY FS_EmptySet DEF Init
  <2> QED BY <2>1 DEF Init, OrderInv, OrderKept
<1>2. OrderInv => OrderKept
  BY DEF OrderInv
<1>3. IInv /\ ContractInv /\ OrderInv /\ [Next]_vars => OrderInv'
  BY OrderStep
<1> QED BY <1>1, <1>2, <1>3, SessionsInvariant, PTL DEF Spec

============================================================================
