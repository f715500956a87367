---------------------------- MODULE GatewayChain -----------------------------
(***************************************************************************)
(* A gateway that relays to another gateway: the EGTS destination of the   *)
(* first (EgtsRelay, destination/egts.go) talks to the connection handler  *)
(* of the second (Connection, server/connection.go). What the one sends    *)
(* the other reads in order, and the other way round; each takes steps of  *)
(* its own in between. A new connection gets a new handler.                *)
(***************************************************************************)
EXTENDS EgtsRelay

CONSTANTS
    Passwords,    \* the credentials the first gateway may be configured with
    RemoteAuth,   \* auth_cfg.enabled of the second
    RemoteRelays, \* the second gateway has EGTS destinations too
    MaxPackets    \* bound: how many packets one connection carries

ASSUME ChainAssumption ==
    /\ Passwords \subseteq Logins /\ RemoteAuth \in BOOLEAN /\ RemoteRelays \in BOOLEAN
    /\ \A r \in Records : r.services \in Seq([number : Nat, pair : STRING, items : Seq(Items)])

VARIABLES
    known, pid, rn, handler, packet, code, request, next, received, queued, replies, accepted,
           \* of the second gateway, as in Connection (its "at" is "handler")
    password, \* what it is configured with
    line,  \* what the first gateway has sent, with the answers to packets
    heard  \* how many replies it has read

handlerVars == <<known, pid, rn, handler, packet, code, request, next, received, queued, replies, accepted>>
linkVars == <<password, line, heard>>
vars == <<clientVars, handlerVars, linkVars>>

\* A message as the second gateway decodes it.
Ack == [kind |-> "ack"]
Wire(m) ==
    IF m = Ack THEN [type |-> "other", broken |-> FALSE, services |-> <<>>]
    ELSE [type |-> "appdata", broken |-> FALSE,
          services |-> [i \in DOMAIN m.services |->
                          [pair |-> m.services[i].pair,
                           items |-> [k \in DOMAIN m.services[i].items |->
                                        IF m.services[i].items[k] \in Logins THEN password
                                        ELSE m.services[i].items[k]]]]]

Remote == INSTANCE Connection WITH
    at <- handler, AuthEnabled <- RemoteAuth, Relaying <- RemoteRelays,
    AckMode <- "delivered", Inputs <- {}

ChainInit == Init /\ Remote!Init /\ password \in Passwords /\ line = <<>> /\ heard = 0

----------------------------------------------------------------------------
\* The frame of a reply, as the first gateway decodes it: PrepareAnswer confirms
\* every record of an accepted packet, PrepareSRResultCode carries its code.
Verdict(q) == IF q.code = "ok" THEN "ok" ELSE "bad"
MutantUnconfirmed(q) == {}
ConfirmedRecords(q) == IF q.code = "ok" THEN Keys(line[q.n].message) ELSE {}
FrameOf(q) ==
    [type |-> IF q.kind = "response" THEN "response" ELSE "appdata",
     pid |-> IF q.kind = "response" THEN line[q.n].message.pid ELSE q.pid,
     says |-> CASE q.kind = "response" -> {[about |-> Whole, code |-> Verdict(q)]}
                                          \union {[about |-> k, code |-> "ok"] : k \in ConfirmedRecords(q)}
                [] q.kind = "result" -> {[about |-> Login, code |-> Verdict(q)]}
                [] q.kind = "params" -> {[about |-> Params, code |-> "ok"]}]

\* A new connection, with a new handler.
Connect ==
    /\ Dial
    /\ known' = Remote!Stranger /\ pid' = 0 /\ rn' = 0 /\ handler' = "reading"
    /\ packet' = None /\ code' = "ok" /\ request' = FALSE /\ next' = Remote!Stranger
    /\ received' = 0 /\ queued' = <<>> /\ replies' = <<>> /\ accepted' = <<>>
    /\ line' = <<>> /\ heard' = 0 /\ UNCHANGED password

ClientSends == Send /\ line' = Append(line, Last(sent')) /\ UNCHANGED <<handlerVars, password, heard>>

ClientHears ==
    /\ conn /\ heard < Len(replies) /\ heard' = heard + 1
    /\ LET f == FrameOf(replies[heard + 1])
       IN /\ Receive(f)
          /\ line' = IF f.type = "appdata" /\ conn'
                     THEN Append(line, [message |-> Ack, for |-> call.identity]) ELSE line
    /\ UNCHANGED <<handlerVars, password>>

ClientElse ==
    /\ \/ \E r \in Records : \E id \in Given(r) : Reject(r, id) \/ Call(r, id)
       \/ Check \/ Broken \/ Expire \/ Cancel \/ Interrupt \/ Close
    /\ UNCHANGED <<handlerVars, linkVars>>

\* The handler reads the next message.
HandlerReads ==
    /\ received < Len(line)
    /\ LET p == Wire(line[received + 1].message)
       IN \/ Remote!Ignore(p) \/ Remote!Deny(p) \/ Remote!Ask(p) \/ Remote!Enqueue(p)
          \/ \E err \in {"unavailable", "mixed"} : Remote!Refuse(p, err)
    /\ UNCHANGED <<clientVars, linkVars>>

HandlerElse ==
    /\ Remote!Delivered \/ Remote!Respond \/ Remote!Result \/ Remote!Lost
    /\ UNCHANGED <<clientVars, linkVars>>

ChainNext == Connect \/ ClientSends \/ ClientHears \/ ClientElse \/ HandlerReads \/ HandlerElse

ChainSpec == ChainInit /\ [][ChainNext]_vars

----------------------------------------------------------------------------
LastData == CHOOSE i \in DOMAIN line :
    line[i].message # Ack /\ line[i].message.kind = "data"
    /\ \A j \in DOMAIN line : j > i => line[j].message = Ack

\* A relayed packet is done with (WriteContext returns no error, the queue of the
\* first gateway drops its delivery) only if the second gateway has that packet in
\* its queue, under the terminal it came from.
Relayed ==
    result = "ok" =>
        \E i \in DOMAIN queued :
            /\ queued[i].n = LastData /\ queued[i].packet = Wire(Data(call.record))
            /\ queued[i].source = call.identity

\* Whatever happens to the confirmation, the second gateway never stores data of
\* one terminal under another one, or under none if the first knew the terminal.
UnderIts ==
    \A i \in DOMAIN queued :
        LET l == line[queued[i].n]
        IN l.message.kind = "data" => queued[i].source = l.for

\* With the right password the second gateway denies nothing the first one sends.
NeverDenied ==
    password = "right" /\ AuthEnabled => \A i \in DOMAIN replies : replies[i].code \notin {"denied", "mixed"}

\* The two ends never wait for each other: while the first waits for a
\* confirmation, something is on its way, or the second is at work or gone.
NoMutualWait ==
    at = "receiving" => received < Len(line) \/ heard < Len(replies) \/ handler # "reading"

=============================================================================
