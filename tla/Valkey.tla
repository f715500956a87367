------------------------------- MODULE Valkey --------------------------------
(***************************************************************************)
(* The Valkey destination, gateway/destination/valkey.go: WriteContext     *)
(* connects if it has to, adds one entry to the stream (XADD) and takes    *)
(* the reply for a confirmation if it is the identifier of an entry.       *)
(*                                                                         *)
(* External: the server executes requests in order and answers each with   *)
(* the identifier or an error; a reply belongs to the request that is      *)
(* first in line on the connection, whatever it was; the client library    *)
(* closes a connection whose call was interrupted or failed.               *)
(***************************************************************************)
EXTENDS Naturals, Sequences

CONSTANTS
    Messages,
    None,
    MaxCalls   \* bound: how many calls of WriteContext are made

VARIABLES
    at,        \* where WriteContext is
    message,   \* the message of the call
    connected, \* v.connection is set and has no error
    closed,    \* Close was called
    toServer,  \* requests the server has not executed, by the number of their call
    replies,   \* replies the client has not read
    added,     \* calls whose entry is in the stream
    calls,
    result     \* of the last call

linkVars == <<connected, toServer, replies>>
vars == <<linkVars, at, message, closed, added, calls, result>>

Init ==
    /\ at = "idle" /\ message = None /\ closed = FALSE /\ calls = 0 /\ result = "none"
    /\ connected = FALSE /\ toServer = <<>> /\ replies = <<>> /\ added = {}

----------------------------------------------------------------------------
\* Every error drops the connection, with the reply that may still come over it.
Disconnect == connected' = FALSE /\ toServer' = <<>> /\ replies' = <<>>
MutantReuse == UNCHANGED linkVars
AfterError == Disconnect

Return(r) == at' = "idle" /\ message' = None /\ result' = r /\ UNCHANGED <<closed, added, calls>>
Error == Return("error") /\ AfterError

Reject ==
    /\ at = "idle" /\ calls < MaxCalls /\ calls' = calls + 1 /\ result' = "error"
    /\ UNCHANGED <<linkVars, at, message, closed, added>>

Write(m) ==
    /\ at = "idle" /\ calls < MaxCalls /\ ~closed
    /\ calls' = calls + 1 /\ message' = m /\ result' = "none"
    /\ at' = IF connected THEN "sending" ELSE "connecting"
    /\ UNCHANGED <<linkVars, closed, added>>

Connect ==
    /\ at = "connecting" /\ at' = "sending" /\ connected' = TRUE
    /\ UNCHANGED <<toServer, replies, message, closed, added, calls, result>>

Send ==
    /\ at = "sending" /\ at' = "waiting" /\ toServer' = Append(toServer, calls)
    /\ UNCHANGED <<connected, replies, message, closed, added, calls, result>>

\* The connection breaks, or the context of the call is done.
Broken == at # "idle" /\ Error

\* A reply that is an error, or no identifier of an entry, is no confirmation.
MutantAnyReply(r) == TRUE
IsEntryID(r) == r = "id"
Reply ==
    /\ at = "waiting" /\ replies # <<>>
    /\ IF IsEntryID(Head(replies))
       THEN Return("ok") /\ replies' = Tail(replies) /\ UNCHANGED <<connected, toServer>>
       ELSE Error

Close ==
    /\ at = "idle" /\ ~closed /\ closed' = TRUE /\ result' = "none" /\ Disconnect
    /\ UNCHANGED <<at, message, added, calls>>

\* External: the server.
Server(reply) ==
    /\ toServer # <<>> /\ toServer' = Tail(toServer) /\ replies' = Append(replies, reply)
    /\ added' = IF reply = "id" THEN added \union {Head(toServer)} ELSE added
    /\ UNCHANGED <<connected, at, message, closed, calls, result>>

Next ==
    \/ Reject \/ (\E m \in Messages : Write(m)) \/ Connect \/ Send \/ Broken \/ Reply \/ Close
    \/ \E reply \in {"id", "other", "error"} : Server(reply)

Spec == Init /\ [][Next]_vars

----------------------------------------------------------------------------
TypeOK ==
    /\ at \in {"idle", "connecting", "sending", "waiting"} /\ message \in Messages \union {None}
    /\ connected \in BOOLEAN /\ closed \in BOOLEAN /\ calls \in 0..MaxCalls
    /\ added \subseteq 1..calls /\ Len(toServer) + Len(replies) <= 1 /\ result \in {"none", "ok", "error"}
    /\ at = "idle" <=> message = None

\* No error means that the stream has an entry with this message: never by the
\* late reply to a request that was given up before.
Promise == INSTANCE Destination WITH
    busy <- message, taken <- at = "waiting" /\ calls \in added, outcome <- result
Fulfils == Promise!Spec

=============================================================================
