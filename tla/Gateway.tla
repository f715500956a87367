------------------------------ MODULE Gateway ------------------------------
(***************************************************************************)
(* The EGTS gateway of gateway/server: terminals hand packets over on      *)
(* their connections (connection.go), every packet waits in one bounded    *)
(* queue with the set of destinations that have not taken it yet           *)
(* (queue.go), one delivery loop hands the oldest waiting packet of each   *)
(* destination to a worker, sessions of relayed terminals are counted and  *)
(* closed (relay.go), and what is pending survives in a dump file          *)
(* (dump.go) when the process stops (server.go).                           *)
(*                                                                         *)
(* The slice s.queue is the set "queue" together with "arrival": an item   *)
(* is only ever appended, compaction keeps the order, and a dump is        *)
(* written and read back in the order of the slice, so the order of the    *)
(* slice is the order in which its packets were enqueued.                  *)
(***************************************************************************)
EXTENDS Integers, FiniteSets

CONSTANTS
    Packets,        \* the packets terminals send, each one sent once
    Conns,          \* the connections terminals open
    ConnOf,         \* the connection a packet arrives on
    Dests,          \* the enabled destinations (targets of the delivery loop)
    Relays,         \* those among them that are EGTS relays
    Data,           \* packets shouldRelay forwards to the EGTS relays
    Mixed,          \* packets that carry data and incoming credentials
    QueueCapacity,  \* delivery_cfg.queue_capacity
    AckMode,        \* delivery_cfg.ack_mode
    DumpAfter,      \* delivery_cfg.dump_after_seconds
    MaxLives,       \* bound: how many times the process is started
    None            \* no packet, no session

ASSUME FiniteAssumption == IsFiniteSet(Packets) /\ IsFiniteSet(Conns) /\ IsFiniteSet(Dests)
ASSUME ConnAssumption == ConnOf \in [Packets -> Conns]
ASSUME RelayAssumption == Relays \subseteq Dests /\ Data \subseteq Packets /\ Mixed \subseteq Packets \ Data
ASSUME LimitAssumption ==
    /\ QueueCapacity \in Nat \ {0}
    /\ DumpAfter \in Nat \ {0}
    /\ MaxLives \in Nat \ {0}
    /\ AckMode \in {"queued", "delivered"}
ASSUME NoneAssumption == None \notin Packets \union Conns

VARIABLES
    \* The pending packets (struct server and pendingPacket).
    queue,      \* the packets in s.queue
    pending,    \* destinations that have not taken a packet (stdout, file, egts, rabbitmq, valkey)
    done,       \* packets whose done channel is closed
    arrival,    \* position of a packet in the order of the queue
    wake,       \* s.wake holds a token
    \* The relay sessions (struct relaySession), named by their connection.
    relays,     \* the keys of s.relays
    refs,       \* session.pending
    ended,      \* session.closed: its terminal is gone
    shut,       \* session.close() has closed its writers
    \* One handler per connection.
    handler,    \* where handleConnection is
    current,    \* the packet it handles
    listener,   \* the accept loop
    \* The delivery loop and its targets.
    loop,       \* where deliver is
    stopping,   \* its local of that name
    todo,       \* targets this pass has still to look at
    timer,      \* targets the retry timer of this pass waits for
    busy,       \* the packet a target's worker has
    attempt,    \* the worker of a target
    failing,    \* target.failedSince is set
    age,        \* seconds since failedSince, or since started, up to DumpAfter
    waiting,    \* target.retryAt is in the future
    finished,   \* the relay session to close after a result
    halted,     \* deliver has called its own cancel
    \* The server and the dump.
    stop,       \* the context given to Run is cancelled
    main,       \* where serve is
    saving,     \* where the saveDump in progress is
    snap,       \* the records it has collected
    hasDump,    \* s.hasDump
    disk,       \* the dump file a reader of the directory finds
    synced,     \* the dump file a host failure leaves behind
    \* The world and the history of the run.
    lives,      \* how many times the process was started
    sent,       \* packets terminals have sent
    reply,      \* what the terminal was told about a packet
    accepted,   \* packets each destination has taken
    owed        \* deliveries promised by enqueue, neither made nor lost with the process

itemVars == <<queue, pending, done, arrival, wake>>
relayVars == <<relays, refs, ended, shut>>
connVars == <<handler, current, listener>>
loopVars == <<loop, stopping, todo, timer, finished, halted>>
targetVars == <<busy, attempt, failing, age, waiting>>
serveVars == <<stop, main>>
dumpVars == <<saving, snap, hasDump, disk, synced>>
worldVars == <<lives, sent, reply, accepted, owed>>
vars == <<itemVars, relayVars, connVars, loopVars, targetVars, serveVars, dumpVars, worldVars>>

----------------------------------------------------------------------------
\* The destinations that must take packet p: every enabled one, an EGTS relay
\* only if shouldRelay forwards the packet.
Wants(p) == (Dests \ Relays) \union (IF p \in Data THEN Relays ELSE {})

\* The deliveries a dump, or the queue, holds: pairs of a packet and a destination.
PairsOf(items, left) == {x \in Packets \X Dests : x[1] \in items /\ x[2] \in left[x[1]]}
DumpPairs(dump) == PairsOf(dump.items, dump.left)
QueuePairs == PairsOf(queue, pending)

Nothing == [p \in Packets |-> {}]
NoDump == [exists |-> FALSE, items |-> {}, left |-> Nothing]

Cancelled == stop \/ main # "serving"           \* the context of serve
CtxDone == Cancelled \/ halted                  \* the context of deliver
Up == main \notin {"down", "exited", "refused"} \* the process runs
ConnsClosed == main \in {"drain", "delivery", "saving", "closing", "exited"}
Active == {d \in Dests : busy[d] # None}

\* The operators named Mutant... are faulty forms of the definition that follows
\* them, no part of the model: each one must make a property fail.

\* The packets target d can be given, and the first of them in the queue.
Candidates(d) == {p \in queue : d \in pending[p]}
MutantAnyOfQueue(d, p) == p \in Candidates(d)
First(d, p) == p \in Candidates(d) /\ \A q \in Candidates(d) : arrival[p] <= arrival[q]

\* What restoreDump checks before it accepts a dump.
Restorable(dump) ==
    /\ Cardinality(dump.items) <= QueueCapacity
    /\ \A p \in dump.items :
        /\ dump.left[p] # {}
        /\ dump.left[p] \subseteq Dests
        /\ dump.left[p] \intersect Relays # {} => p \in Data

\* The items that some destination still has to take, as the loop compacts the
\* queue and as saveDump collects it.
MutantForgetRelays == {p \in queue : pending[p] \ Relays # {}}
Unfinished == {p \in queue : pending[p] # {}}
MutantSaveAll == queue
MutantSaveUntouched == {p \in queue : pending[p] # {} /\ pending[p] = Wants(p)}
ToSave == {p \in queue : pending[p] # {}}

\* The end of the queue.
MutantNoPlace == Cardinality(sent) - 1
NextPlace == Cardinality(sent) + 1

\* A relay made for session c was its last one, and its terminal is gone.
MutantLastEnded(c) == ended[c]
MutantLastStale(c) == refs[c] = 0 /\ ended[c]
LastRelay(c) == refs[c] = 1 /\ ended[c]

\* The relays of session c among the deliveries "left".
MutantAllPairs(left, c) == {x \in Packets \X Dests : ConnOf[x[1]] = c /\ x[2] \in left[x[1]]}
RelayPairs(left, c) == {x \in Packets \X Relays : ConnOf[x[1]] = c /\ x[2] \in left[x[1]]}

----------------------------------------------------------------------------
\* The memory of a process that starts with a dump: newServer and restoreDump.
\* After a failure the memory is that of a process without one.
Load(dump, place) ==
    /\ queue' = dump.items /\ pending' = dump.left /\ done' = {} /\ wake' = FALSE
    /\ relays' = {c \in Conns : RelayPairs(dump.left, c) # {}}
    /\ refs' = [c \in Conns |-> Cardinality(RelayPairs(dump.left, c))]
    /\ ended' = [c \in Conns |-> RelayPairs(dump.left, c) # {}]
    /\ shut' = [c \in Conns |-> FALSE]
    /\ handler' = [c \in Conns |-> IF handler[c] = "new" THEN "new" ELSE "ended"]
    /\ current' = [c \in Conns |-> None]
    /\ listener' = "open" /\ loop' = "top" /\ stopping' = FALSE
    /\ todo' = {} /\ timer' = {} /\ finished' = None /\ halted' = FALSE
    /\ busy' = [d \in Dests |-> None] /\ attempt' = [d \in Dests |-> "idle"]
    /\ failing' = [d \in Dests |-> FALSE] /\ age' = [d \in Dests |-> 0]
    /\ waiting' = [d \in Dests |-> FALSE]
    /\ stop' = FALSE /\ main' = place /\ saving' = "no" /\ snap' = NoDump
    /\ hasDump' = dump.exists

\* Packets that are gone leave no place in the order.
Remember(items) == arrival' = [p \in Packets |-> IF p \in items THEN arrival[p] ELSE 0]

Init ==
    /\ queue = {} /\ pending = Nothing /\ done = {} /\ wake = FALSE
    /\ arrival = [p \in Packets |-> 0]
    /\ relays = {} /\ refs = [c \in Conns |-> 0]
    /\ ended = [c \in Conns |-> FALSE] /\ shut = [c \in Conns |-> FALSE]
    /\ handler = [c \in Conns |-> "new"] /\ current = [c \in Conns |-> None]
    /\ listener = "open" /\ loop = "top" /\ stopping = FALSE
    /\ todo = {} /\ timer = {} /\ finished = None /\ halted = FALSE
    /\ busy = [d \in Dests |-> None] /\ attempt = [d \in Dests |-> "idle"]
    /\ failing = [d \in Dests |-> FALSE] /\ age = [d \in Dests |-> 0]
    /\ waiting = [d \in Dests |-> FALSE]
    /\ stop = FALSE /\ main = "serving" /\ saving = "no" /\ snap = NoDump
    /\ hasDump = FALSE /\ disk = NoDump /\ synced = NoDump
    /\ lives = 1 /\ sent = {} /\ reply = [p \in Packets |-> "none"]
    /\ accepted = [d \in Dests |-> {}] /\ owed = {}

----------------------------------------------------------------------------
\* Connections: accept and handleConnection.

\* listener.Accept hands over a connection ...
Accept(c) ==
    /\ Up /\ listener = "open" /\ handler[c] = "new"
    /\ \A e \in Conns : handler[e] # "accepted"
    /\ handler' = [handler EXCEPT ![c] = "accepted"]
    /\ UNCHANGED <<itemVars, relayVars, current, listener, loopVars, targetVars, serveVars, dumpVars, worldVars>>

\* ... which is registered with a relay session of its own, unless serve has
\* stopped accepting in between: then it is closed and the accept loop returns.
Register(c) ==
    /\ handler[c] = "accepted"
    /\ IF main = "serving"
       THEN /\ handler' = [handler EXCEPT ![c] = "reading"]
            /\ relays' = IF Relays = {} THEN relays ELSE relays \union {c}
            /\ UNCHANGED listener
       ELSE /\ handler' = [handler EXCEPT ![c] = "ended"]
            /\ listener' = "returned"
            /\ UNCHANGED relays
    /\ UNCHANGED <<itemVars, refs, ended, shut, current, loopVars, targetVars, serveVars, dumpVars, worldVars>>

\* newRelaySession fails, and with it the handler.
SessionFails(c) ==
    /\ handler[c] = "accepted" /\ main = "serving" /\ Relays # {}
    /\ handler' = [handler EXCEPT ![c] = "ended"]
    /\ UNCHANGED <<itemVars, relayVars, current, listener, loopVars, targetVars, serveVars, dumpVars, worldVars>>

\* Accept fails: the listener is closed, or broken.
AcceptFails ==
    /\ listener \in {"open", "closed"}
    /\ \A c \in Conns : handler[c] # "accepted"
    /\ listener' = "returned"
    /\ Up
    /\ UNCHANGED <<itemVars, relayVars, handler, current, loopVars, targetVars, serveVars, dumpVars, worldVars>>

\* The gateway is stopping, the queue is full, or the packet mixes data for the
\* relays with incoming credentials.
Refusal(p) ==
    \/ main # "serving"
    \/ Cardinality(queue) >= QueueCapacity
    \/ p \in Mixed /\ Relays # {}

\* A token is put into s.wake, unless it holds one.
MutantNoWake == UNCHANGED wake
Wake == wake' = TRUE

\* A packet is read and enqueued: it waits for every destination that must take
\* it, its relay session counts the relays among them, and the loop is woken.
\* A terminal is answered at once, or once the packet is delivered.
Enqueue(c, p) ==
    /\ handler[c] = "reading" /\ ConnOf[p] = c /\ p \notin sent
    /\ ~Refusal(p)
    /\ sent' = sent \union {p}
    /\ queue' = queue \union {p}
    /\ pending' = [pending EXCEPT ![p] = Wants(p)]
    /\ arrival' = [arrival EXCEPT ![p] = NextPlace]
    /\ refs' = [refs EXCEPT ![c] = @ + Cardinality(Wants(p) \intersect Relays)]
    /\ Wake
    /\ owed' = owed \union ({p} \X Wants(p))
    /\ current' = [current EXCEPT ![c] = p]
    /\ handler' = [handler EXCEPT ![c] = IF AckMode = "delivered" THEN "waiting" ELSE "confirming"]
    /\ UNCHANGED <<done, relays, ended, shut, listener, loopVars, targetVars, serveVars, dumpVars, lives, reply, accepted>>

\* Otherwise nothing is queued.
Refuse(c, p) ==
    /\ handler[c] = "reading" /\ ConnOf[p] = c /\ p \notin sent
    /\ Refusal(p)
    /\ sent' = sent \union {p}
    /\ current' = [current EXCEPT ![c] = p]
    /\ handler' = [handler EXCEPT ![c] = "refusing"]
    /\ UNCHANGED <<itemVars, relayVars, listener, loopVars, targetVars, serveVars, dumpVars, lives, reply, accepted, owed>>

\* In mode "delivered" the handler waits until the item's done channel is closed.
Delivered(c) ==
    /\ handler[c] = "waiting" /\ current[c] \in done
    /\ handler' = [handler EXCEPT ![c] = "confirming"]
    /\ UNCHANGED <<itemVars, relayVars, current, listener, loopVars, targetVars, serveVars, dumpVars, worldVars>>

\* The answer is written to the terminal.
Answer(c) ==
    /\ handler[c] \in {"confirming", "refusing"} /\ ~ConnsClosed
    /\ reply' = [reply EXCEPT ![current[c]] = IF handler[c] = "confirming" THEN "ok" ELSE "refused"]
    /\ handler' = [handler EXCEPT ![c] = "reading"]
    /\ current' = [current EXCEPT ![c] = None]
    /\ UNCHANGED <<itemVars, relayVars, listener, loopVars, targetVars, serveVars, dumpVars, lives, sent, accepted, owed>>

\* handleConnection returns: the terminal is gone, an answer cannot be written,
\* or the context is done while it waits. endRelaySession closes the session
\* unless packets of it are still to be relayed.
HandlerEnds(c) ==
    /\ \/ handler[c] \in {"reading", "confirming", "refusing"}
       \/ handler[c] = "waiting" /\ Cancelled
    /\ handler' = [handler EXCEPT ![c] = "ended"]
    /\ current' = [current EXCEPT ![c] = None]
    /\ IF Relays = {}
       THEN UNCHANGED <<ended, relays, shut>>
       ELSE /\ ended' = [ended EXCEPT ![c] = TRUE]
            /\ relays' = IF refs[c] = 0 THEN relays \ {c} ELSE relays
            /\ shut' = [shut EXCEPT ![c] = @ \/ refs[c] = 0]
    /\ UNCHANGED <<itemVars, refs, listener, loopVars, targetVars, serveVars, dumpVars, worldVars>>

----------------------------------------------------------------------------
\* The delivery loop: deliver.

\* The top of the loop: read the context, drop the items every destination has
\* taken and close their done channels, and look at every target.
Top ==
    /\ loop = "top" /\ Up
    /\ stopping' = CtxDone
    /\ queue' = Unfinished
    /\ done' = done \union (queue \ Unfinished)
    /\ todo' = Dests /\ timer' = {} /\ loop' = "visit"
    /\ UNCHANGED <<pending, arrival, wake, relayVars, connVars, finished, halted, targetVars, serveVars, dumpVars, worldVars>>

\* A target that is busy, waits for its retry or has no packet is passed over
\* (its retry is timed), and so is every idle one when the loop is stopping.
\* The configuration orders the targets; any order is allowed here.
PassOver(d) ==
    /\ loop = "visit" /\ d \in todo
    /\ \/ busy[d] # None
       \/ stopping
       \/ waiting[d]
       \/ Candidates(d) = {}
    /\ todo' = todo \ {d}
    /\ timer' = IF busy[d] = None /\ ~stopping /\ waiting[d] THEN timer \union {d} ELSE timer
    /\ UNCHANGED <<itemVars, relayVars, connVars, loop, stopping, finished, halted, targetVars, serveVars, dumpVars, worldVars>>

\* How long the target has been failing when an attempt starts.
MutantFresh(d) == 0
Elapsed(d) == IF failing[d] THEN age[d] ELSE 0

\* Any other target gets the first packet of the queue that waits for it, and a
\* worker to deliver it within what is left of its dump_after_seconds.
Start(d, p) ==
    /\ loop = "visit" /\ d \in todo
    /\ busy[d] = None /\ ~stopping /\ ~waiting[d]
    /\ First(d, p)
    /\ todo' = todo \ {d}
    /\ busy' = [busy EXCEPT ![d] = p]
    /\ attempt' = [attempt EXCEPT ![d] = "running"]
    /\ age' = [age EXCEPT ![d] = Elapsed(d)]
    /\ UNCHANGED <<itemVars, relayVars, connVars, loop, stopping, timer, finished, halted, failing, waiting, serveVars, dumpVars, worldVars>>

\* Every target has been looked at: a stopping loop returns once no worker is
\* left, any other waits in a select.
AllSeen == loop = "visit" /\ todo = {}
MutantStopping == stopping
Drained == stopping /\ Active = {}
Return ==
    /\ AllSeen /\ Drained
    /\ loop' = "returned"
    /\ UNCHANGED <<itemVars, relayVars, connVars, stopping, todo, timer, finished, halted, targetVars, serveVars, dumpVars, worldVars>>
Selecting == AllSeen /\ ~Drained

\* The context is watched until the loop is stopping.
MutantWatch == CtxDone
Watched == CtxDone /\ ~stopping

\* The select wakes without a result: the context is done, a packet was enqueued,
\* or a retry is due.
Awake ==
    /\ Selecting
    /\ \/ Watched /\ UNCHANGED wake
       \/ wake /\ wake' = FALSE
       \/ (\E d \in timer : ~waiting[d]) /\ UNCHANGED wake
    /\ loop' = "top"
    /\ UNCHANGED <<queue, pending, done, arrival, relayVars, connVars, stopping, todo, timer, finished, halted, targetVars, serveVars, dumpVars, worldVars>>

Idle(d) ==
    /\ busy' = [busy EXCEPT ![d] = None]
    /\ attempt' = [attempt EXCEPT ![d] = "idle"]

\* A worker failed. The error means nothing once the context is done; a target
\* that has been failing for dump_after_seconds halts the delivery; otherwise it
\* is tried again in a second, or at that deadline.
Failure(d) ==
    /\ Selecting /\ attempt[d] = "err"
    /\ Idle(d)
    /\ loop' = "top"
    /\ IF CtxDone
       THEN UNCHANGED <<failing, waiting, halted>>
       ELSE /\ failing' = [failing EXCEPT ![d] = TRUE]
            /\ IF age[d] >= DumpAfter
               THEN halted' = TRUE /\ UNCHANGED waiting
               ELSE waiting' = [waiting EXCEPT ![d] = TRUE] /\ UNCHANGED halted
    /\ UNCHANGED <<itemVars, relayVars, connVars, stopping, todo, timer, finished, age, serveVars, dumpVars, worldVars>>

\* A worker delivered its packet. The last delivery of a session whose terminal
\* is gone takes the session out of s.relays; a dump that exists is written anew.
Success(d) ==
    LET p == busy[d]
        c == ConnOf[p]
        last == d \in Relays /\ LastRelay(c)
    IN
    /\ Selecting /\ attempt[d] = "ok"
    /\ Idle(d)
    /\ failing' = [failing EXCEPT ![d] = FALSE]
    /\ age' = [age EXCEPT ![d] = 0]
    /\ waiting' = [waiting EXCEPT ![d] = FALSE]
    /\ pending' = [pending EXCEPT ![p] = @ \ {d}]
    /\ refs' = IF d \in Relays THEN [refs EXCEPT ![c] = @ - 1] ELSE refs
    /\ relays' = IF last THEN relays \ {c} ELSE relays
    /\ finished' = IF last THEN c ELSE None
    /\ saving' = IF hasDump THEN "snapshot" ELSE "no"
    /\ loop' = IF hasDump THEN "saving" ELSE "finish"
    /\ UNCHANGED <<queue, done, arrival, wake, ended, shut, connVars, stopping, todo, timer, halted, serveVars, snap, hasDump, disk, synced, worldVars>>

\* The dump is saved or its failure ends the delivery.
LoopSaved ==
    /\ loop = "saving" /\ saving \in {"saved", "failed"}
    /\ halted' = (halted \/ saving = "failed")
    /\ saving' = "no" /\ loop' = "finish"
    /\ UNCHANGED <<itemVars, relayVars, connVars, stopping, todo, timer, finished, targetVars, serveVars, snap, hasDump, disk, synced, worldVars>>

\* The finished session is closed; an error of that ends the delivery as well.
Finish ==
    /\ loop = "finish"
    /\ loop' = "top" /\ finished' = None
    /\ IF finished = None
       THEN UNCHANGED <<shut, halted>>
       ELSE /\ shut' = [shut EXCEPT ![finished] = TRUE]
            /\ halted' \in {halted, TRUE}
    /\ UNCHANGED <<itemVars, relays, refs, ended, connVars, stopping, todo, timer, targetVars, serveVars, dumpVars, worldVars>>

----------------------------------------------------------------------------
\* The workers and time.

\* The destination takes the packet and the attempt succeeds, ...
AttemptOk(d) ==
    /\ attempt[d] = "running"
    /\ attempt' = [attempt EXCEPT ![d] = "ok"]
    /\ accepted' = [accepted EXCEPT ![d] = @ \union {busy[d]}]
    /\ owed' = owed \ {<<busy[d], d>>}
    /\ UNCHANGED <<itemVars, relayVars, connVars, loopVars, busy, failing, age, waiting, serveVars, dumpVars, lives, sent, reply>>

\* ... or it fails: refused, cancelled, timed out, or its confirmation lost after
\* the destination took the packet.
AttemptErr(d, taken) ==
    /\ attempt[d] = "running"
    /\ attempt' = [attempt EXCEPT ![d] = "err"]
    /\ accepted' = IF taken THEN [accepted EXCEPT ![d] = @ \union {busy[d]}] ELSE accepted
    /\ owed' = IF taken THEN owed \ {<<busy[d], d>>} ELSE owed
    /\ UNCHANGED <<itemVars, relayVars, connVars, loopVars, busy, failing, age, waiting, serveVars, dumpVars, lives, sent, reply>>

\* A second passes: due retries become possible, attempts and failures grow older.
Tick ==
    /\ age' = [d \in Dests |-> IF (busy[d] # None \/ failing[d]) /\ age[d] < DumpAfter THEN age[d] + 1 ELSE age[d]]
    /\ waiting' = [d \in Dests |-> FALSE]
    /\ <<age, waiting>>' # <<age, waiting>>
    /\ UNCHANGED <<itemVars, relayVars, connVars, loopVars, busy, attempt, failing, serveVars, dumpVars, worldVars>>

----------------------------------------------------------------------------
\* saveDump, called by the delivery loop and at the end of serve.

\* Under the lock, the items that some destination still has to take.
Snapshot ==
    /\ saving = "snapshot"
    /\ snap' = [exists |-> TRUE, items |-> ToSave,
                left |-> [p \in Packets |-> IF p \in ToSave THEN pending[p] ELSE {}]]
    /\ saving' = "replace"
    /\ UNCHANGED <<itemVars, relayVars, connVars, loopVars, targetVars, serveVars, hasDump, disk, synced, worldVars>>

\* They are written and synced to a temporary file that is renamed to the dump.
Replace ==
    /\ saving = "replace"
    /\ disk' = snap /\ hasDump' = TRUE /\ snap' = NoDump
    /\ saving' = "sync"
    /\ UNCHANGED <<itemVars, relayVars, connVars, loopVars, targetVars, serveVars, synced, worldVars>>

\* The directory is synced: the new dump survives a failure of the host.
SyncDirectory ==
    /\ saving = "sync"
    /\ synced' = disk
    /\ saving' = "saved"
    /\ UNCHANGED <<itemVars, relayVars, connVars, loopVars, targetVars, serveVars, snap, hasDump, disk, worldVars>>

\* Outputs in conflict, or an error of the file system, before or after the rename.
SaveFails ==
    /\ saving \in {"replace", "sync"}
    /\ saving' = "failed" /\ snap' = NoDump
    /\ UNCHANGED <<itemVars, relayVars, connVars, loopVars, targetVars, serveVars, hasDump, disk, synced, worldVars>>

----------------------------------------------------------------------------
\* The server: serve.

\* The context given to Run is cancelled.
Stop ==
    /\ Up /\ ~stop
    /\ stop' = TRUE
    /\ UNCHANGED <<itemVars, relayVars, connVars, loopVars, targetVars, main, dumpVars, worldVars>>

\* It is, or one of the two loops has returned: accepting becomes false, the
\* context of both loops and of the handlers is cancelled, the listener closed.
BeginStop ==
    /\ main = "serving"
    /\ stop \/ listener = "returned" \/ loop = "returned"
    /\ main' = "stopping"
    /\ listener' = IF listener = "returned" THEN "returned" ELSE "closed"
    /\ UNCHANGED <<itemVars, relayVars, handler, current, loopVars, targetVars, stop, dumpVars, worldVars>>

\* When the accept loop is gone the connections that are left are closed, ...
CloseConnections ==
    /\ main = "stopping" /\ listener = "returned"
    /\ main' = "drain"
    /\ UNCHANGED <<itemVars, relayVars, connVars, loopVars, targetVars, stop, dumpVars, worldVars>>

\* ... their handlers awaited, ...
HandlersDone ==
    /\ main = "drain"
    /\ \A c \in Conns : handler[c] \in {"new", "ended"}
    /\ main' = "delivery"
    /\ UNCHANGED <<itemVars, relayVars, connVars, loopVars, targetVars, stop, dumpVars, worldVars>>

\* Something is pending, or an older dump must be brought up to date.
MutantPendingOnly == queue # {}
DumpDue == queue # {} \/ hasDump

\* ... and the delivery loop. What it leaves in the queue is saved, and a dump
\* that exists is brought up to date.
DeliveryDone ==
    /\ main = "delivery" /\ loop = "returned"
    /\ IF DumpDue
       THEN main' = "saving" /\ saving' = "snapshot"
       ELSE main' = "closing" /\ UNCHANGED saving
    /\ UNCHANGED <<itemVars, relayVars, connVars, loopVars, targetVars, stop, snap, hasDump, disk, synced, worldVars>>

\* A last save that fails loses what the dump on the disk does not hold.
ServerSaved ==
    /\ main = "saving" /\ saving \in {"saved", "failed"}
    /\ main' = "closing"
    /\ owed' = IF saving = "saved" THEN owed ELSE owed \intersect DumpPairs(disk)
    /\ UNCHANGED <<itemVars, relayVars, connVars, loopVars, targetVars, stop, dumpVars, lives, sent, reply, accepted>>

\* The destinations and the sessions left are closed and serve returns.
Exit ==
    /\ main = "closing"
    /\ main' = "exited"
    /\ shut' = [c \in Conns |-> shut[c] \/ c \in relays]
    /\ UNCHANGED <<itemVars, relays, refs, ended, connVars, loopVars, targetVars, stop, dumpVars, worldVars>>

\* The process is killed, and the host with it or not: a dump renamed and not
\* synced may be lost with the host. What is only in memory is lost.
Crash ==
    /\ Up /\ lives < MaxLives
    /\ disk' \in {disk, synced} /\ synced' \in {synced, disk'}
    /\ owed' = owed \intersect DumpPairs(disk')
    /\ Load(NoDump, "down")
    /\ Remember(disk'.items \union synced'.items)
    /\ UNCHANGED <<lives, sent, reply, accepted>>

\* A new process restores the dump, or refuses to start.
Restart ==
    /\ main \in {"down", "exited"} /\ lives < MaxLives
    /\ lives' = lives + 1
    /\ Load(disk, IF Restorable(disk) THEN "serving" ELSE "refused")
    /\ Remember(disk.items)
    /\ UNCHANGED <<disk, synced, sent, reply, accepted, owed>>

\* Nothing is left to do.
Terminated ==
    /\ main \in {"exited", "refused"} /\ lives = MaxLives
    /\ UNCHANGED vars

----------------------------------------------------------------------------
Connection == \E c \in Conns :
    \/ Accept(c) \/ Register(c) \/ SessionFails(c)
    \/ \E p \in Packets : Enqueue(c, p) \/ Refuse(c, p)
    \/ Delivered(c) \/ Answer(c) \/ HandlerEnds(c)
Delivery ==
    \/ Top \/ Return \/ Awake \/ LoopSaved \/ Finish
    \/ \E d \in Dests :
        \/ PassOver(d) \/ (\E p \in Packets : Start(d, p))
        \/ Failure(d) \/ Success(d)
Worker == \E d \in Dests : AttemptOk(d) \/ AttemptErr(d, FALSE) \/ AttemptErr(d, TRUE)
Saving == Snapshot \/ Replace \/ SyncDirectory \/ SaveFails
Serving == BeginStop \/ CloseConnections \/ HandlersDone \/ DeliveryDone \/ ServerSaved \/ Exit

Next ==
    \/ Connection \/ AcceptFails \/ Delivery \/ Worker \/ Tick \/ Saving
    \/ Serving \/ Stop \/ Crash \/ Restart \/ Terminated

Spec == Init /\ [][Next]_vars

\* Every goroutine that can run does run, writers end their attempts within the
\* context they are given, connections that are closed fail the calls on them and
\* time passes. Terminals, failures and restarts are free.
Fairness ==
    /\ WF_vars(Delivery) /\ WF_vars(Tick) /\ WF_vars(Saving) /\ WF_vars(Serving)
    /\ \A d \in Dests : WF_vars(AttemptOk(d) \/ AttemptErr(d, FALSE) \/ AttemptErr(d, TRUE))
    /\ \A c \in Conns :
        /\ WF_vars(Register(c)) /\ WF_vars(Delivered(c)) /\ WF_vars(Answer(c))
        /\ WF_vars((handler[c] = "waiting" \/ ConnsClosed) /\ HandlerEnds(c))
    /\ WF_vars(listener = "closed" /\ AcceptFails)

FairSpec == Spec /\ Fairness

----------------------------------------------------------------------------
Pairs == Packets \X Dests
DumpType == [exists : BOOLEAN, items : SUBSET Packets, left : [Packets -> SUBSET Dests]]

\* Every variable has its type (server.go, queue.go, relay.go, dump.go).
TypeOK ==
    /\ queue \subseteq Packets /\ pending \in [Packets -> SUBSET Dests]
    /\ done \subseteq Packets /\ arrival \in [Packets -> Nat] /\ wake \in BOOLEAN
    /\ relays \subseteq Conns /\ refs \in [Conns -> Int]
    /\ ended \in [Conns -> BOOLEAN] /\ shut \in [Conns -> BOOLEAN]
    /\ handler \in [Conns -> {"new", "accepted", "reading", "waiting", "confirming", "refusing", "ended"}]
    /\ current \in [Conns -> Packets \union {None}]
    /\ listener \in {"open", "closed", "returned"}
    /\ loop \in {"top", "visit", "saving", "finish", "returned"}
    /\ stopping \in BOOLEAN /\ halted \in BOOLEAN /\ stop \in BOOLEAN
    /\ todo \subseteq Dests /\ timer \subseteq Dests
    /\ finished \in Conns \union {None}
    /\ busy \in [Dests -> Packets \union {None}]
    /\ attempt \in [Dests -> {"idle", "running", "ok", "err"}]
    /\ \A d \in Dests : busy[d] = None <=> attempt[d] = "idle"
    /\ failing \in [Dests -> BOOLEAN] /\ waiting \in [Dests -> BOOLEAN]
    /\ age \in [Dests -> 0 .. DumpAfter]
    /\ main \in {"serving", "stopping", "drain", "delivery", "saving", "closing", "exited", "down", "refused"}
    /\ saving \in {"no", "snapshot", "replace", "sync", "saved", "failed"}
    /\ hasDump \in BOOLEAN
    /\ snap \in DumpType /\ disk \in DumpType /\ synced \in DumpType
    /\ lives \in Nat \ {0} /\ sent \subseteq Packets
    /\ reply \in [Packets -> {"none", "ok", "refused"}]
    /\ accepted \in [Dests -> SUBSET Packets] /\ owed \subseteq Pairs

Taken == {x \in Pairs : x[1] \in accepted[x[2]]}

\* In mode "delivered" a terminal reads a positive answer only once every
\* destination the packet is for has taken it (connection.go:128, queue.go:140).
AckedDelivered ==
    AckMode = "delivered" =>
        \A p \in Packets : reply[p] = "ok" => \A d \in Wants(p) : p \in accepted[d]

\* A promised delivery that was not made is in the queue as long as the process
\* runs, through retries, stalls and the whole shutdown, and in the dump when it
\* does not (queue.go:138, server.go:176, dump.go:201).
NothingLost == owed \subseteq IF Up THEN QueuePairs ELSE DumpPairs(disk)

\* A delivery recorded in a dump that survives host failures stays recorded until
\* its destination has taken the packet: saves race with enqueue, failing saves,
\* crashes between rename and sync and restarts included (dump.go:201-306).
DumpNeverForgets == [][DumpPairs(synced) \ DumpPairs(synced') \subseteq Taken']_vars

\* Each destination takes packets for the first time in the order in which they
\* were enqueued, over retries and restarts (queue.go:169, dump.go:84,204).
OrderKept ==
    \A d \in Dests : \A p, q \in Packets :
        0 < arrival[q] /\ arrival[q] < arrival[p] /\ d \in Wants(q) /\ p \in accepted[d]
            => q \in accepted[d]

\* session.pending counts the relays of the session's packets that are still to
\* be made (queue.go:77,278, dump.go:187).
RefsCounted ==
    Up => \A c \in Conns :
        refs[c] = Cardinality({x \in QueuePairs : ConnOf[x[1]] = c /\ x[2] \in Relays})

\* A session with a relay to make is known and open until the server closes what
\* is left: neither the end of its connection nor a result closes it under a
\* worker (relay.go:53, queue.go:279).
SessionOpen ==
    main \notin {"exited", "down", "refused"} =>
        \A x \in QueuePairs : x[2] \in Relays => ConnOf[x[1]] \in relays /\ ~shut[ConnOf[x[1]]]

\* A session whose terminal is gone and whose relays are made is forgotten, by the
\* handler or the delivery loop, whichever comes last (relay.go:56, queue.go:279).
SessionForgotten ==
    Up => \A c \in Conns : ended[c] /\ refs[c] = 0 => c \notin relays /\ (shut[c] \/ finished = c)

\* The life of a session: both, at every end of a connection and of a relay.
SessionLife == SessionOpen /\ SessionForgotten

\* When serve has returned no worker runs, every handler is gone and every session
\* of the process is closed (server.go:155-218, queue.go:106).
CleanExit ==
    main = "exited" =>
        /\ \A d \in Dests : attempt[d] = "idle"
        /\ \A c \in Conns : handler[c] \in {"new", "ended"} /\ (ended[c] => shut[c])

\* A process that saved its last dump, or had none to save, leaves exactly the
\* deliveries not yet confirmed: nothing is delivered again by the next process
\* (server.go:176).
ExitDumpExact ==
    main = "exited" /\ saving # "failed" => DumpPairs(disk) = QueuePairs /\ synced = disk

\* Whatever a process leaves behind, the next one with the same configuration can
\* restore it (queue.go:52, dump.go:85,104,172,205).
DumpRestorable == Restorable(disk) /\ Restorable(synced)

\* The gateway implements the contract it has with terminals and destinations:
\* what is safe there is in the dump that survives host failures.
Contract == INSTANCE DeliveryContract WITH
    Targets <- [p \in Packets |-> Wants(p)], safe <- DumpPairs(synced) \intersect owed
Fulfils == Contract!Spec

----------------------------------------------------------------------------
\* A process told to stop, or whose delivery has given up, exits (server.go:140).
StopExits == Cancelled \/ halted ~> ~Up

\* A queued delivery is made, or the process exits because its destination failed
\* for too long: no packet is stuck behind another destination or asleep
\* (queue.go:96,161,250).
QueuedMoves == \A p \in Packets : \A d \in Wants(p) : <<p, d>> \in owed ~> <<p, d>> \notin owed \/ ~Up

\* A handler that waits for its packet to be delivered is released (connection.go:129).
WaitEnds == \A c \in Conns : handler[c] = "waiting" ~> handler[c] # "waiting"
============================================================================
