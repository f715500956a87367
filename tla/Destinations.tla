---------------------------- MODULE Destinations -----------------------------
(***************************************************************************)
(* The destination one worker of the gateway drives, of any kind the       *)
(* configuration knows: a broker, the standard output or another EGTS      *)
(* server. (The file, with its rotation, is the subject of PacketFile.)    *)
(* Workers share nothing but the queue, see Gateway.                       *)
(***************************************************************************)
EXTENDS Naturals, FiniteSets

CONSTANTS
    None, MaxCalls,
    Messages, Room,                    \* for the brokers and stdout
    Records, Ids, AuthEnabled, Numbers \* for the EGTS destination

ASSUME DestinationAssumption == None \notin Messages /\ MaxCalls \in Nat /\ Room \in Nat \ {0}

\* What EgtsRelay assumes.
ASSUME RelayAssumption ==
    /\ IsFiniteSet(Records) /\ AuthEnabled \in BOOLEAN /\ Numbers \in Nat \ {0}
    /\ \A r \in Records : r.pid \in 0..(Numbers - 1) /\ r.type \in {"appdata", "other"}
    /\ \A r \in Records : \A i \in DOMAIN r.services :
          r.services[i].pair \notin {"packet", "authentication", "params", "unknown"}

VARIABLES
    kind,                                                         \* of the destination
    at, closed, calls, result,                                    \* of all
    message,                                                      \* of all but EGTS
    link, cut, done, published, toBroker, signals, confirmations, returned, channelClosed, routed,
    connected, toServer, replies, added,
    writeErr, timed, ctxDone, watchers, faulty, parts, unread, output,
    conn, identity, call, todo, wait, cancelled, fired, sent, owed, said,
    deadline                                                      \* of stdout and EGTS

Rabbit == INSTANCE RabbitMQ
Stream == INSTANCE Valkey
Out == INSTANCE Stdout
Peer == INSTANCE EgtsPeer

rabbitVars == <<link, cut, done, published, toBroker, signals, confirmations, returned, channelClosed, routed>>
valkeyVars == <<connected, toServer, replies, added>>
stdoutVars == <<writeErr, timed, ctxDone, watchers, faulty, parts, unread, output>>
egtsVars == <<conn, identity, call, todo, wait, cancelled, fired, sent, owed, said>>
vars == <<kind, at, closed, calls, result, message, deadline, rabbitVars, valkeyVars, stdoutVars, egtsVars>>

Init ==
    /\ kind \in {"rabbitmq", "valkey", "stdout", "egts"}
    /\ Rabbit!Init /\ Stream!Init /\ Out!Init /\ Peer!PeerInit
    /\ kind # "stdout" => timed

\* A step of the destination and of what is at its other end.
RabbitStep(A) == kind = "rabbitmq" /\ A /\ UNCHANGED <<kind, deadline, valkeyVars, stdoutVars, egtsVars>>
ValkeyStep(A) == kind = "valkey" /\ A /\ UNCHANGED <<kind, deadline, rabbitVars, stdoutVars, egtsVars>>
StdoutStep(A) == kind = "stdout" /\ A /\ UNCHANGED <<kind, rabbitVars, valkeyVars, egtsVars>>
EgtsStep(A) == kind = "egts" /\ A /\ UNCHANGED <<kind, message, rabbitVars, valkeyVars, stdoutVars>>

Next ==
    \/ RabbitStep(Rabbit!Next)
    \/ ValkeyStep(Stream!Next)
    \/ StdoutStep(Out!Next)
    \/ EgtsStep(Peer!PeerNext)

Spec == Init /\ [][Next]_vars

\* WriteContext goes on, its timers run and a file takes what is written to it; no
\* reader has to read the pipe, no server to answer, and nobody to cancel.
FairStdout ==
    /\ WF_vars(StdoutStep(~timed /\ Out!Put)) /\ WF_vars(StdoutStep(Out!Late)) /\ WF_vars(StdoutStep(Out!Expire))
    /\ WF_vars(StdoutStep(Out!Finish)) /\ WF_vars(StdoutStep(Out!Return))
FairEgts ==
    /\ WF_vars(EgtsStep(Peer!Check /\ Peer!Other)) /\ WF_vars(EgtsStep(Peer!Send /\ Peer!Other))
    /\ WF_vars(EgtsStep(Peer!Expire /\ Peer!Other))
FairSpec == Spec /\ FairStdout /\ FairEgts

----------------------------------------------------------------------------
\* WriteContext of rabbitmq.go, valkey.go and writer.go (stdout) keeps the promise of
\* a destination: no error means that the broker has routed this very message, that
\* the stream has its entry, or that its line was written, in this call.
Takes ==
    CASE kind = "rabbitmq" -> at = "waiting" /\ published \in routed
      [] kind = "valkey" -> at = "waiting" /\ calls \in added
      [] kind = "stdout" -> at # "idle" /\ parts = Out!Line
      [] kind = "egts" -> FALSE
Promise == INSTANCE Destination WITH
    busy <- message, taken <- Takes, outcome <- IF kind = "egts" THEN "none" ELSE result
Fulfils == Promise!Spec

\* No signal of an earlier message is left on a channel that is used again
\* (rabbitmq.go:64,95).
RabbitQuiet == Rabbit!Quiet

\* Only its own context cuts a write short, and nothing follows an incomplete line
\* (writer.go:102,125).
StdoutUndisturbed == Out!Undisturbed

\* The EGTS destination: what is reported as delivered was confirmed in all its parts,
\* nothing is owed on a connection that is kept, and data goes over connections that
\* were authenticated for its terminal (egts.go:84,164,237; see EgtsPeer).
Confirmed == kind = "egts" => Peer!Confirmed
NothingOwed == Peer!NothingOwed
Admitted == Peer!Admitted

\* A call ends, whatever is at the other end: the mutex it holds is what the next
\* delivery and Close wait for (egts.go:192, writer.go:95).
CallEnds == (kind \in {"stdout", "egts"} /\ at # "idle") ~> at = "idle"

=============================================================================
