------------------------------ MODULE EgtsPeer -------------------------------
(***************************************************************************)
(* An EGTS destination (EgtsRelay) with a server of the protocol at the    *)
(* other end of its connection. The server owes an answer to every part of *)
(* what it was sent: the packet, each of its records and, where the packet *)
(* authenticates, the authentication. It answers in any order, together or *)
(* apart, finally or by "in progress", or not at all, and it may send what *)
(* nobody asked for.                                                       *)
(***************************************************************************)
EXTENDS EgtsRelay

VARIABLES
    owed,  \* answers the server owes on this connection
    said   \* final answers it has given on this connection

vars == <<clientVars, owed, said>>

PeerInit == Init /\ owed = {} /\ said = {}

Parts(m) == {Whole} \union Keys(m) \union (IF m.auth THEN {Login} ELSE {})
Debts(m, n) == {[send |-> n, part |-> p] : p \in Parts(m)}

\* One code for all the parts a frame speaks of; parts that get different codes
\* come in different frames.
Codes == {"ok", "progress", "bad", "params"}
Frame(n, parts, code) ==
    [type |-> IF Whole \in parts THEN "response" ELSE "appdata",
     pid |-> sent[n].message.pid,
     says |-> {[about |-> IF code = "params" /\ p = Login THEN Params ELSE p,
                code |-> IF code = "params" THEN "ok" ELSE code] : p \in parts}]

\* Frames that answer nothing the server was asked on this connection.
Stray ==
    {[type |-> "response", pid |-> (Head(todo).pid + 1) % Numbers, says |-> {[about |-> Whole, code |-> "bad"]}],
     [type |-> "appdata", pid |-> 0, says |-> {[about |-> <<"teledata", Numbers>>, code |-> "bad"]}],
     [type |-> "appdata", pid |-> 0, says |-> {[about |-> Unknown, code |-> "ok"]}]}

Answer(n, parts, code) ==
    /\ at = "receiving"
    /\ code = "params" => Login \in parts
    /\ Receive(Frame(n, parts, code))
    /\ LET these == {[send |-> n, part |-> p] : p \in parts}
           final == {[send |-> n, part |-> p, code |-> code] : p \in parts}
       IN /\ these \subseteq owed
          /\ owed' = IF ~conn' THEN {} ELSE IF code = "progress" THEN owed ELSE owed \ these
          /\ said' = IF ~conn' THEN {} ELSE IF code = "progress" THEN said ELSE said \union final

StrayFrame ==
    /\ at = "receiving" /\ \E f \in Stray : Receive(f)
    /\ IF conn' THEN UNCHANGED <<owed, said>> ELSE owed' = {} /\ said' = {}

\* Debts arise with what is sent and are forgotten with the connection.
Other ==
    /\ Client
    /\ owed' = IF ~conn' THEN {} ELSE IF sent' # sent THEN owed \union Debts(Head(todo), Len(sent')) ELSE owed
    /\ said' = IF ~conn' THEN {} ELSE said

PeerNext ==
    \/ \E n \in DOMAIN sent, code \in Codes : \E parts \in (SUBSET Parts(sent[n].message)) \ {{}} :
         Answer(n, parts, code)
    \/ StrayFrame \/ Other

Spec == PeerInit /\ [][PeerNext]_vars

----------------------------------------------------------------------------
TypeOK ==
    /\ ClientTypeOK
    /\ \A d \in owed : d.send \in DOMAIN sent /\ d.part \in Parts(sent[d.send].message)
    /\ \A s \in said : s.send \in DOMAIN sent /\ s.code \in {"ok", "bad", "params"}

\* WriteContext returns without an error only if the server has said of this very
\* packet, sent over this very connection, that it has taken the packet, each of
\* its records and, where it has one, the identity in it, and has refused nothing.
Confirmed ==
    result = "ok" =>
        /\ sent # <<>> /\ conn
        /\ Last(sent) = [message |-> Data(call.record), for |-> call.identity]
        /\ {s \in said : s.send = Len(sent)} =
               {[send |-> Len(sent), part |-> p, code |-> "ok"] : p \in Parts(Data(call.record))}

\* A connection is used again only if nothing is owed on it: no late answer to one
\* packet can be taken for the answer to another one with the same numbers.
NothingOwed == conn /\ at # "receiving" => owed = {}

\* Every packet of data is sent over a connection that was authenticated for the
\* identity the packet came with, and with the credentials if there are any, and
\* the server has accepted that: it took the credentials, or the identity if there
\* are none. Also after errors, reconnects and a change of the terminal.
Accepting(kind) == IF kind = "identity" /\ AuthEnabled THEN {"ok", "params"} ELSE {"ok"}
Admitted ==
    /\ Presented
    /\ \A i \in DOMAIN sent : sent[i].message.kind = "data" =>
         \A k \in 1..(i - 1) : sent[k].message.kind # "data" =>
             \E s \in said : s.send = k /\ s.part = Login /\ s.code \in Accepting(sent[k].message.kind)

=============================================================================
