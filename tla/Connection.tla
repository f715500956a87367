----------------------------- MODULE Connection -----------------------------
(***************************************************************************)
(* The handler of one terminal's connection, handleConnection of           *)
(* gateway/server/connection.go: it decodes a packet, decides whether the  *)
(* terminal is authenticated, hands the packet to the queue, answers, and  *)
(* only then remembers what the packet said about the terminal.            *)
(*                                                                         *)
(* A packet is a sequence of services (module Services). The queue (module *)
(* Gateway) takes or refuses a packet at will here.                        *)
(***************************************************************************)
EXTENDS Services

CONSTANTS
    Inputs,       \* the packets a terminal may send
    AuthEnabled,  \* auth_cfg.enabled
    Relaying,     \* an EGTS destination is enabled
    AckMode,      \* delivery_cfg.ack_mode
    Numbers,      \* how many packet and record numbers there are (2^16)
    MaxPackets    \* bound: how many packets a terminal sends

Packets == [type : {"appdata", "other"}, broken : BOOLEAN,
            services : Seq([pair : STRING, items : Seq(Items)])]

ASSUME InputAssumption == Inputs \subseteq Packets /\ IsFiniteSet(Inputs)
ASSUME ModeAssumption == AuthEnabled \in BOOLEAN /\ Relaying \in BOOLEAN /\ AckMode \in {"queued", "delivered"}
ASSUME NumberAssumption == Numbers \in Nat \ {0} /\ MaxPackets \in Nat

VARIABLES
    known,     \* authorized, source.TerminalID and relayIdentity
    pid,       \* the number of the last answer
    rn,        \* the number of the last record in an answer
    at,        \* where the handler is
    packet,    \* the packet it handles
    code,      \* pkg.ErrorCode
    request,   \* requestCredentials
    next,      \* nextAuthorized, nextSource and nextRelayIdentity
    received,  \* how many packets were read
    queued,    \* what the queue has taken
    replies,   \* what was written to the terminal
    accepted   \* the packets answered with EGTS_PC_OK

handlerVars == <<known, pid, rn, at, packet, code, request, next>>
vars == <<handlerVars, received, queued, replies, accepted>>

----------------------------------------------------------------------------
\* What a packet says.

AuthRequest(p) == AuthItems(p) \intersect (Ids \union Logins) # {}
OnlyIdentity(p) == Of(p, FALSE) = {} /\ AuthItems(p) \subseteq Ids

\* shouldRelay: data may not be relayed together with credentials.
HasData(p) ==
    \/ p.services = <<>>
    \/ \E s \in Of(p, FALSE) : s.items = <<>> \/ \E i \in ToSet(s.items) : i # "confirmation"
Mixed(p) == Relaying /\ HasData(p) /\ HasCredentials(p)

\* What the handler will know of the terminal if the packet is accepted.
Said(p, before) == IF Names(p) THEN LastNamed(p) ELSE before
NextOf(p) ==
    [authorized |-> known.authorized \/ "right" \in AuthItems(p),
     source |-> Said(p, known.source),
     identity |-> IF Relaying THEN Said(p, known.identity) ELSE known.identity]

\* A terminal that only introduces itself is asked for its credentials; any other
\* packet of one that is not authorized is denied, and so are wrong credentials.
Asks(p) == ~known.authorized /\ Names(p) /\ OnlyIdentity(p)
MutantOneRight(p) == AuthEnabled /\ ~NextOf(p).authorized /\ ~Asks(p)
Denied(p) ==
    /\ AuthEnabled
    /\ \/ AuthItems(p) \intersect {"wrong", "sequenced"} # {}
       \/ ~NextOf(p).authorized /\ ~Asks(p)

\* Records in the answer: one for each pair of services that brought data.
\* (PrepareAnswer confirms every service of a pair in the same record.)
PairsWithData(p) ==
    {s.pair : s \in {t \in ToSet(p.services) : \E i \in ToSet(t.items) : i # "confirmation"}}
Confirming == IF code = "ok" THEN Cardinality(PairsWithData(packet)) ELSE 0

\* The code of the answer when the queue does not take a packet.
MutantSilent(err) == "ok"
Code(err) == err

MutantWide(n, k) == n + k
Plus(n, k) == (n + k) % Numbers

Stranger == [authorized |-> ~AuthEnabled, source |-> None, identity |-> None]

Init ==
    /\ known = Stranger /\ pid = 0 /\ rn = 0
    /\ at = "reading" /\ packet = None /\ code = "ok" /\ request = FALSE /\ next = Stranger
    /\ received = 0 /\ queued = <<>> /\ replies = <<>> /\ accepted = <<>>

----------------------------------------------------------------------------
Receive(p) == at = "reading" /\ received < MaxPackets /\ received' = received + 1

\* The packet p gets the given code, and the handler goes on at "where".
Decide(p, result, asked, where) ==
    /\ packet' = p /\ code' = result /\ request' = asked /\ at' = where
    /\ next' = IF p.broken THEN known ELSE NextOf(p)
    /\ UNCHANGED <<known, pid, rn, replies, accepted>>

\* Responses, and frames that cannot be decoded as APPDATA, are passed over.
Ignore(p) ==
    /\ Receive(p) /\ p.type # "appdata"
    /\ UNCHANGED <<handlerVars, queued, replies, accepted>>

\* A damaged packet is answered with the code of its decoder.
Damaged(p) ==
    /\ Receive(p) /\ p.type = "appdata" /\ p.broken
    /\ Decide(p, "damaged", FALSE, "answering") /\ UNCHANGED queued

Intact(p) == Receive(p) /\ p.type = "appdata" /\ ~p.broken

Deny(p) ==
    /\ Intact(p) /\ Denied(p)
    /\ Decide(p, "denied", Asks(p), "answering") /\ UNCHANGED queued

Ask(p) ==
    /\ Intact(p) /\ ~Denied(p) /\ Asks(p)
    /\ Decide(p, "ok", TRUE, "answering") /\ UNCHANGED queued

\* The queue takes the packet with what it says of its terminal ...
Enqueue(p) ==
    /\ Intact(p) /\ ~Denied(p) /\ ~Asks(p) /\ ~Mixed(p)
    /\ queued' = Append(queued, [n |-> received', packet |-> p,
                                 source |-> NextOf(p).source, identity |-> NextOf(p).identity])
    /\ Decide(p, "ok", FALSE, IF AckMode = "delivered" THEN "waiting" ELSE "answering")

\* ... or refuses it: it is full or stopped, or the packet cannot be relayed.
Refuse(p, err) ==
    /\ Intact(p) /\ ~Denied(p) /\ ~Asks(p)
    /\ \/ err = "unavailable"
       \/ err = "mixed" /\ Mixed(p)
    /\ Decide(p, Code(err), FALSE, "answering") /\ UNCHANGED queued

Delivered ==
    /\ at = "waiting" /\ at' = "answering"
    /\ UNCHANGED <<known, pid, rn, packet, code, request, next, received, queued, replies, accepted>>

\* What the packet said is remembered if it was accepted, and a connection whose
\* packet was denied is closed.
MutantHasty == next
Learned == IF code = "ok" THEN next ELSE known
Done ==
    /\ known' = Learned
    /\ at' = IF code = "denied" THEN "closed" ELSE "reading"

\* The response, with a number for itself and one for each of its records.
MutantStale == rn
LastNumber == Plus(rn, Confirming)
Respond ==
    /\ at = "answering"
    /\ pid' = Plus(pid, 1) /\ rn' = LastNumber
    /\ replies' = Append(replies, [kind |-> "response", n |-> received, code |-> code, pid |-> pid',
                                   records |-> {Plus(rn, k) : k \in 1..Confirming}])
    /\ accepted' = IF code = "ok" THEN Append(accepted, [n |-> received, packet |-> packet]) ELSE accepted
    /\ IF AuthRequest(packet) /\ code # "damaged"
       THEN at' = "result" /\ UNCHANGED known
       ELSE Done
    /\ UNCHANGED <<packet, code, request, next, received, queued>>

\* The result of the authentication, or the request for credentials.
Result ==
    /\ at = "result"
    /\ pid' = Plus(pid, 1) /\ rn' = Plus(rn, 1)
    /\ replies' = Append(replies, [kind |-> IF request THEN "params" ELSE "result", n |-> received,
                                   code |-> code, pid |-> pid', records |-> {rn'}])
    /\ Done
    /\ UNCHANGED <<packet, code, request, next, received, queued, accepted>>

\* The terminal is gone or cannot be written to, or the gateway stops while the
\* packet is being delivered.
Lost ==
    /\ at # "closed" /\ at' = "closed"
    /\ UNCHANGED <<known, pid, rn, packet, code, request, next, received, queued, replies, accepted>>

Next ==
    \/ \E p \in Inputs : Ignore(p) \/ Damaged(p) \/ Deny(p) \/ Ask(p) \/ Enqueue(p)
    \/ \E p \in Inputs, err \in {"unavailable", "mixed"} : Refuse(p, err)
    \/ Delivered \/ Respond \/ Result \/ Lost

Spec == Init /\ [][Next]_vars

----------------------------------------------------------------------------
Knowledge == [authorized : BOOLEAN, source : Ids \union {None}, identity : Ids \union {None}]

TypeOK ==
    /\ known \in Knowledge /\ next \in Knowledge
    /\ pid \in 0..(Numbers - 1) /\ rn \in 0..(Numbers - 1)
    /\ at \in {"reading", "waiting", "answering", "result", "closed"}
    /\ packet \in Inputs \union {None} /\ request \in BOOLEAN
    /\ code \in {"ok", "damaged", "denied", "unavailable", "mixed"}
    /\ received \in 0..MaxPackets
    /\ Len(queued) <= received /\ Len(accepted) <= received /\ Len(replies) <= 2 * received

\* With authentication enabled (README, auth_cfg) every packet that reaches the
\* queue brought right credentials itself or follows one that did and was itself
\* taken by the queue; credentials in a refused packet count for nothing, and
\* nothing is read after a denial.
OnlyAuthorized ==
    AuthEnabled =>
        /\ \A i \in DOMAIN queued : \E j \in 1..i : "right" \in AuthItems(queued[j].packet)
        /\ \A i \in DOMAIN queued : AuthItems(queued[i].packet) \intersect {"wrong", "sequenced"} = {}
        /\ \A i \in DOMAIN replies : replies[i].code = "denied" => replies[i].n = received

\* The terminal a record is stored and relayed under is the one named last by the
\* packets answered with EGTS_PC_OK and the packet itself, and the relays present
\* the same identity as the record.
NamesLast(source, packets) ==
    /\ packets = {} => source = None
    /\ \A x \in packets : (\A y \in packets : y.n <= x.n) => source = LastNamed(x.packet)
IdentityKnown ==
    \A i \in DOMAIN queued :
        LET q == queued[i]
            before == {x \in ToSet(accepted) : x.n < q.n}
        IN /\ NamesLast(q.source, {x \in before \union {[n |-> q.n, packet |-> q.packet]} : Names(x.packet)})
           /\ Relaying => q.identity = q.source

\* A positive answer means that the queue has the packet, unless it only asks for
\* credentials, and a terminal that is read from again has been told so of every
\* packet the queue has.
AnswersAgree ==
    /\ \A i \in DOMAIN replies : replies[i].code = "ok" =>
         \/ \E j \in DOMAIN queued : queued[j].n = replies[i].n
         \/ replies[i].n = received /\ request
         \/ \E j \in DOMAIN replies : replies[j].n = replies[i].n /\ replies[j].kind = "params"
    /\ \A j \in DOMAIN queued :
         \/ queued[j].n = received /\ at # "reading"
         \/ \E i \in DOMAIN replies :
              replies[i].n = queued[j].n /\ replies[i].kind = "response" /\ replies[i].code = "ok"

\* Packets and records of the gateway are told apart by their numbers: fewer than
\* Numbers of them in a row never share one (the 16 bit counters wrap around).
NumbersDiffer ==
    /\ \A i, j \in DOMAIN replies :
         i < j /\ j - i < Numbers => replies[i].pid # replies[j].pid
    /\ \A i, j \in DOMAIN replies :
         i < j /\ Cardinality(UNION {{<<k, r>> : r \in replies[k].records} : k \in i..j}) < Numbers
            => replies[i].records \intersect replies[j].records = {}

=============================================================================
