------------------------------ MODULE RabbitMQ -------------------------------
(***************************************************************************)
(* The RabbitMQ destination, gateway/destination/rabbitmq.go: WriteContext *)
(* connects if it has to, publishes one message and waits for its          *)
(* confirmation, while returns, confirmations and the end of the channel   *)
(* arrive on three Go channels and a goroutine closes the socket when the  *)
(* context is done. select takes any of the channels that are ready.       *)
(*                                                                         *)
(* The broker and the client library (external) are modelled as the code   *)
(* uses them: the broker routes a mandatory message or returns it before   *)
(* it confirms it, or rejects it; the library hands its signals over in    *)
(* order, through channels of capacity 1, and closes the channels when the *)
(* connection has ended.                                                   *)
(***************************************************************************)
EXTENDS Naturals, Sequences

CONSTANTS
    Messages,
    None,
    MaxCalls   \* bound: how many calls of WriteContext are made

VARIABLES
    at,        \* where WriteContext is
    message,   \* the message of the call
    link,      \* the connection: "none", "up", or "ended" (and the library knows it)
    cut,       \* its socket was closed by the goroutine, and the library does not know
    done,      \* the context is done
    closed,    \* Close was called
    published, \* how many messages were published on the channel
    toBroker,  \* published and not looked at by the broker
    signals,   \* of the broker, not handed over by the library
    confirmations, returned, channelClosed,  \* the three Go channels
    routed,    \* numbers of the messages the broker has put into the queue
    calls,
    result     \* of the last call

linkVars == <<link, cut, published, toBroker, signals, confirmations, returned, channelClosed, routed>>
callVars == <<at, message, done, closed, calls, result>>
vars == <<linkVars, callVars>>

Init ==
    /\ at = "idle" /\ message = None /\ done = FALSE /\ closed = FALSE /\ calls = 0 /\ result = "none"
    /\ link = "none" /\ cut = FALSE /\ published = 0 /\ toBroker = <<>> /\ signals = <<>>
    /\ confirmations = <<>> /\ returned = <<>> /\ channelClosed = FALSE /\ routed = {}

----------------------------------------------------------------------------
\* closeConnection forgets the connection with all that is under way on it.
CloseConnection ==
    /\ link' = "none" /\ cut' = FALSE /\ published' = 0 /\ toBroker' = <<>> /\ signals' = <<>>
    /\ confirmations' = <<>> /\ returned' = <<>> /\ channelClosed' = FALSE /\ routed' = {}

Return(r) == at' = "idle" /\ message' = None /\ result' = r /\ UNCHANGED <<done, closed, calls>>

MutantKeeps == UNCHANGED linkVars
AfterError == CloseConnection
Error == Return("error") /\ AfterError

\* The destination is closed, the context is done, or the record has no encoding.
Reject ==
    /\ at = "idle" /\ calls < MaxCalls /\ calls' = calls + 1 /\ result' = "error"
    /\ UNCHANGED <<linkVars, at, message, done, closed>>

Write(m) ==
    /\ at = "idle" /\ calls < MaxCalls /\ ~closed
    /\ calls' = calls + 1 /\ message' = m /\ result' = "none" /\ done' = FALSE
    /\ IF link = "up" THEN at' = "publishing" /\ UNCHANGED linkVars
       ELSE at' = "connecting" /\ CloseConnection
    /\ UNCHANGED closed

\* Socket, connection, channel, confirm mode and the declaration of the queue. Each
\* of them may fail (Broken) and each failure ends the same way.
Connect ==
    /\ at = "connecting" /\ ~done
    /\ at' = "publishing" /\ link' = "up"
    /\ UNCHANGED <<cut, published, toBroker, signals, confirmations, returned, channelClosed, routed,
                   message, done, closed, calls, result>>

Publish ==
    /\ at = "publishing" /\ link = "up" /\ ~cut
    /\ at' = "waiting" /\ published' = published + 1
    /\ toBroker' = Append(toBroker, published')
    /\ UNCHANGED <<link, cut, signals, confirmations, returned, channelClosed, routed,
                   message, done, closed, calls, result>>

\* The context of a call is done: it is cancelled or its time is up. A goroutine
\* closes the socket then.
Done ==
    /\ at # "idle" /\ ~done /\ done' = TRUE
    /\ UNCHANGED <<linkVars, at, message, closed, calls, result>>
CutSocket ==
    /\ at \in {"publishing", "waiting"} /\ done /\ link = "up" /\ ~cut
    /\ cut' = TRUE /\ signals' = <<>>
    /\ UNCHANGED <<link, published, toBroker, confirmations, returned, channelClosed, routed, callVars>>

Broken == at \in {"connecting", "publishing"} /\ Error

----------------------------------------------------------------------------
\* One turn of the select of waitConfirmation.

Ended == link = "ended"

MutantNoLook == FALSE
ReturnedToo == returned # <<>>
Good(c) == c.tag = published /\ c.ack /\ ~ReturnedToo

Waits ==
    /\ at = "waiting"
    /\ \/ (done \/ channelClosed \/ returned # <<>> \/ Ended) /\ Error
       \/ /\ confirmations # <<>> /\ Good(Head(confirmations))
          /\ Return("ok") /\ confirmations' = Tail(confirmations)
          /\ UNCHANGED <<link, cut, published, toBroker, signals, returned, channelClosed, routed>>
       \/ confirmations # <<>> /\ ~Good(Head(confirmations)) /\ Error

Close ==
    /\ at = "idle" /\ ~closed /\ closed' = TRUE /\ result' = "none"
    /\ CloseConnection
    /\ UNCHANGED <<at, message, done, calls>>

----------------------------------------------------------------------------
\* External: the broker and the client library.

Signals(tag, fate) ==
    CASE fate = "routed" -> <<[kind |-> "confirm", tag |-> tag, ack |-> TRUE]>>
      [] fate = "unroutable" -> <<[kind |-> "return", tag |-> tag, ack |-> FALSE],
                                  [kind |-> "confirm", tag |-> tag, ack |-> TRUE]>>
      [] fate = "rejected" -> <<[kind |-> "confirm", tag |-> tag, ack |-> FALSE]>>

Broker(fate) ==
    /\ link = "up" /\ toBroker # <<>> /\ toBroker' = Tail(toBroker)
    /\ routed' = IF fate = "routed" THEN routed \union {Head(toBroker)} ELSE routed
    /\ signals' = IF cut THEN signals ELSE signals \o Signals(Head(toBroker), fate)
    /\ UNCHANGED <<link, cut, published, confirmations, returned, channelClosed, callVars>>

HandOver ==
    /\ link = "up" /\ ~cut /\ signals # <<>> /\ signals' = Tail(signals)
    /\ LET s == Head(signals)
       IN IF s.kind = "return"
          THEN returned = <<>> /\ returned' = <<s>> /\ UNCHANGED confirmations
          ELSE confirmations = <<>> /\ confirmations' = <<s>> /\ UNCHANGED returned
    /\ UNCHANGED <<link, cut, published, toBroker, channelClosed, routed, callVars>>

\* The connection ends, or the library notices that the socket is closed.
Ends ==
    /\ link = "up" /\ link' = "ended" /\ channelClosed' = TRUE /\ cut' = FALSE
    /\ signals' = <<>> /\ toBroker' = <<>>
    /\ UNCHANGED <<published, confirmations, returned, routed, callVars>>

Next ==
    \/ Reject \/ (\E m \in Messages : Write(m)) \/ Connect \/ Publish \/ Done \/ CutSocket \/ Broken
    \/ Waits \/ Close
    \/ (\E fate \in {"routed", "unroutable", "rejected"} : Broker(fate)) \/ HandOver \/ Ends

Spec == Init /\ [][Next]_vars

----------------------------------------------------------------------------
TypeOK ==
    /\ at \in {"idle", "connecting", "publishing", "waiting"} /\ message \in Messages \union {None}
    /\ link \in {"none", "up", "ended"} /\ {cut, done, closed, channelClosed} \subseteq BOOLEAN
    /\ published \in 0..MaxCalls /\ routed \subseteq 1..published /\ calls \in 0..MaxCalls
    /\ Len(confirmations) <= 1 /\ Len(returned) <= 1 /\ result \in {"none", "ok", "error"}
    /\ at = "idle" <=> message = None

\* No error means that the broker has routed this message into the queue: never
\* one that it returned or rejected, never by the signal of an earlier message.
Promise == INSTANCE Destination WITH
    busy <- message, taken <- at = "waiting" /\ published \in routed, outcome <- result
Fulfils == Promise!Spec

\* A channel is used again only if nothing of the calls before is left on it: no
\* signal of an earlier message can answer for a later one.
Quiet ==
    at \in {"idle", "publishing"} /\ link = "up" =>
        toBroker = <<>> /\ signals = <<>> /\ confirmations = <<>> /\ returned = <<>>

=============================================================================
