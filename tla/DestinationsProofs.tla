------------------------- MODULE DestinationsProofs -------------------------
(***************************************************************************)
(* Proofs about Destinations for all messages and numbers of calls: the    *)
(* brokers and the standard output keep the promise of a destination.      *)
(***************************************************************************)
EXTENDS Destinations, Sequences, FiniteSetTheorems, TLAPS

----------------------------------------------------------------------------
\* RabbitMQ. What is under way on a channel belongs to the message published last,
\* and a positive confirmation that comes without a return means that it is routed.
Confirmation == [kind |-> "confirm", tag |-> published, ack |-> TRUE]
Rejection == [kind |-> "confirm", tag |-> published, ack |-> FALSE]
Returned == [kind |-> "return", tag |-> published, ack |-> FALSE]

Nothing == toBroker = <<>> /\ signals = <<>> /\ confirmations = <<>> /\ returned = <<>>
UnderWay ==
    \/ toBroker = <<published>> /\ signals = <<>> /\ confirmations = <<>> /\ returned = <<>>
    \/ Nothing
    \/ /\ toBroker = <<>> /\ returned = <<>>
       /\ \/ confirmations = <<>> /\ signals \in {<<Rejection>>, <<Returned, Confirmation>>}
          \/ confirmations = <<>> /\ signals = <<Confirmation>> /\ published \in routed
          \/ confirmations = <<Rejection>> /\ signals = <<>>
          \/ confirmations = <<Confirmation>> /\ signals = <<>> /\ published \in routed
    \/ /\ toBroker = <<>> /\ returned = <<Returned>>
       /\ \/ confirmations = <<>> /\ signals \in {<<>>, <<Confirmation>>}
          \/ confirmations = <<Confirmation>> /\ signals = <<>>

RabbitInv ==
    /\ at \in {"idle", "connecting", "publishing", "waiting"}
    /\ at = "idle" <=> message = None
    /\ message \in Messages \union {None}
    /\ at \in {"idle", "publishing"} /\ link = "up" => Nothing
    /\ at = "connecting" => Nothing
    /\ at = "waiting" => UnderWay

\* Valkey. A reply under way answers the request of this call.
ValkeyInv ==
    /\ at \in {"idle", "connecting", "sending", "waiting"}
    /\ at = "idle" <=> message = None
    /\ message \in Messages \union {None}
    /\ at # "waiting" => toServer = <<>> /\ replies = <<>>
    /\ at = "waiting" =>
          \/ toServer = <<calls>> /\ replies = <<>>
          \/ toServer = <<>> /\ \E r \in {"id", "other", "error"} : replies = <<r>> /\ (r = "id" => calls \in added)

\* Standard output.
StdoutInv ==
    /\ at \in {"idle", "writing", "written", "failed"}
    /\ at = "idle" <=> message = None
    /\ message \in Messages \union {None}
    /\ at = "writing" => parts \in {0, 1}
    /\ at = "written" => parts = 2

EgtsInv == at \in {"idle", "dialing", "checking", "sending", "receiving"} /\ message = None /\ output = <<>>

IInv ==
    \/ kind = "rabbitmq" /\ RabbitInv /\ output = <<>>
    \/ kind = "valkey" /\ ValkeyInv /\ output = <<>> /\ link = "none"
    \/ kind = "stdout" /\ StdoutInv /\ link = "none"
    \/ kind = "egts" /\ EgtsInv /\ link = "none"

LEMMA InitInv == Init => IInv
  BY DestinationAssumption
  DEF Init, IInv, RabbitInv, ValkeyInv, StdoutInv, EgtsInv, Nothing, Rabbit!Init, Stream!Init, Out!Init, Peer!PeerInit, Peer!Init

----------------------------------------------------------------------------
\* Queues of one or two elements.
LEMMA Short ==
    \A x, y :
        /\ Head(<<x>>) = x /\ Tail(<<x>>) = <<>> /\ <<>> \o <<x>> = <<x>>
        /\ Head(<<x, y>>) = x /\ Tail(<<x, y>>) = <<y>> /\ <<>> \o <<x, y>> = <<x, y>>
  OBVIOUS

\* Every step of RabbitMQ keeps its invariant and the promise.
LEMMA RabbitKeeps ==
    kind = "rabbitmq" /\ RabbitInv /\ RabbitStep(Rabbit!Next) => RabbitInv' /\ [Promise!Next]_(Promise!vars)
<1> SUFFICES ASSUME kind = "rabbitmq", RabbitInv, RabbitStep(Rabbit!Next)
             PROVE  RabbitInv' /\ [Promise!Next]_(Promise!vars)
  OBVIOUS
<1> USE DestinationAssumption DEF Takes
<1>k. kind' = "rabbitmq" /\ Rabbit!Next
  BY DEF RabbitStep
<1>1. CASE Rabbit!Reject
  BY <1>1, <1>k DEF Rabbit!Reject, Rabbit!linkVars, RabbitInv, Nothing, UnderWay, Promise!Next, Promise!Refuse, Promise!vars
<1>2. ASSUME NEW m \in Messages, Rabbit!Write(m) PROVE RabbitInv' /\ [Promise!Next]_(Promise!vars)
  <2>1. RabbitInv'
    BY <1>2, <1>k DEF Rabbit!Write, Rabbit!CloseConnection, Rabbit!linkVars, RabbitInv, Nothing
  <2>2. Promise!Begin(m)
    BY <1>2, <1>k DEF Rabbit!Write, RabbitInv, Promise!Begin
  <2> QED BY <2>1, <2>2 DEF Promise!Next
<1>3. CASE Rabbit!Connect
  BY <1>3, <1>k DEF Rabbit!Connect, RabbitInv, Nothing, Promise!vars
<1>4. CASE Rabbit!Publish
  <2>1. at = "publishing" /\ at' = "waiting" /\ toBroker' = <<published'>> /\ UNCHANGED <<signals, confirmations, returned, message, result>>
    BY <1>4 DEF Rabbit!Publish, RabbitInv, Nothing
  <2>2. RabbitInv'
    BY <1>4, <2>1 DEF Rabbit!Publish, RabbitInv, Nothing, UnderWay
  <2>3. [Promise!Next]_(Promise!vars)
    BY <1>4, <1>k, <2>1 DEF Promise!Next, Promise!Take, Promise!vars, RabbitInv
  <2> QED BY <2>2, <2>3
<1>5. CASE Rabbit!Done
  BY <1>5, <1>k DEF Rabbit!Done, Rabbit!linkVars, RabbitInv, Nothing, UnderWay, Confirmation, Rejection, Returned, Promise!vars
<1>6. CASE Rabbit!CutSocket
  BY <1>6, <1>k DEF Rabbit!CutSocket, Rabbit!callVars, RabbitInv, Nothing, UnderWay, Confirmation, Rejection, Returned, Promise!vars
<1>7. ASSUME at # "idle", Rabbit!Error PROVE RabbitInv' /\ [Promise!Next]_(Promise!vars)
  <2>1. RabbitInv'
    BY <1>7 DEF Rabbit!Error, Rabbit!Return, Rabbit!AfterError, Rabbit!CloseConnection, RabbitInv, Nothing
  <2>2. Promise!Fail
    BY <1>7, <1>k DEF Rabbit!Error, Rabbit!Return, RabbitInv, Promise!Fail
  <2> QED BY <2>1, <2>2 DEF Promise!Next
<1>8. CASE Rabbit!Broken
  BY <1>7, <1>8 DEF Rabbit!Broken
<1>9. CASE Rabbit!Waits
  <2>1. CASE Rabbit!Error
    BY <1>7, <1>9, <2>1 DEF Rabbit!Waits
  <2>2. CASE ~Rabbit!Error
    <3>1. /\ at = "waiting" /\ confirmations # <<>> /\ Rabbit!Good(Head(confirmations)) /\ Rabbit!Return("ok")
          /\ confirmations' = Tail(confirmations)
          /\ UNCHANGED <<link, cut, published, toBroker, signals, returned, channelClosed, routed>>
      BY <1>9, <2>2 DEF Rabbit!Waits
    <3>2. /\ toBroker = <<>> /\ signals = <<>> /\ confirmations = <<Confirmation>> /\ returned = <<>>
          /\ published \in routed
      BY <3>1 DEF RabbitInv, UnderWay, Nothing, Rejection, Rabbit!Good, Rabbit!ReturnedToo
    <3>3. RabbitInv'
      BY <3>1, <3>2 DEF RabbitInv, Nothing, Rabbit!Return
    <3>4. Promise!Confirm
      BY <3>1, <3>2, <1>k DEF RabbitInv, Rabbit!Return, Promise!Confirm
    <3> QED BY <3>3, <3>4 DEF Promise!Next
  <2> QED BY <2>1, <2>2
<1>10. CASE Rabbit!Close
  BY <1>10, <1>k DEF Rabbit!Close, Rabbit!CloseConnection, RabbitInv, Nothing, Promise!Next, Promise!Refuse
<1>11. ASSUME NEW fate \in {"routed", "unroutable", "rejected"}, Rabbit!Broker(fate)
       PROVE  RabbitInv' /\ [Promise!Next]_(Promise!vars)
  <2>1. at = "waiting" /\ toBroker = <<published>>
    BY <1>11 DEF Rabbit!Broker, RabbitInv, Nothing, UnderWay
  <2>2. signals = <<>> /\ confirmations = <<>> /\ returned = <<>>
    BY <1>11, <2>1 DEF Rabbit!Broker, RabbitInv, Nothing, UnderWay
  <2>3. UNCHANGED <<published, confirmations, returned, at, message, result>> /\ toBroker' = <<>>
    BY <1>11, <2>1 DEF Rabbit!Broker, Rabbit!callVars
  <2>4. CASE cut
    BY <1>11, <1>k, <2>1, <2>2, <2>3, <2>4 DEF Rabbit!Broker, RabbitInv, UnderWay, Nothing, Promise!Next, Promise!Take, Promise!vars
  <2>5. CASE ~cut /\ fate = "routed"
    <3>1. signals' = <<Confirmation'>> /\ published' \in routed'
      <4>1. Rabbit!Signals(Head(toBroker), fate) = <<Confirmation>> /\ Confirmation' = Confirmation
        BY <2>1, <2>3, <2>5, Short DEF Rabbit!Signals, Confirmation
      <4> QED BY <1>11, <2>1, <2>2, <2>3, <2>5, <4>1, Short DEF Rabbit!Broker
    <3> QED
      BY <1>k, <2>1, <2>2, <2>3, <3>1 DEF RabbitInv, UnderWay, Promise!Next, Promise!Take, Promise!vars
  <2>6. CASE ~cut /\ fate # "routed"
    <3>1. signals' \in {<<Rejection'>>, <<Returned', Confirmation'>>} /\ routed' = routed
      BY <1>11, <2>1, <2>2, <2>3, <2>6 DEF Rabbit!Broker, Rabbit!Signals, Confirmation, Rejection, Returned
    <3> QED
      BY <1>k, <2>1, <2>2, <2>3, <3>1 DEF RabbitInv, UnderWay, Promise!vars
  <2> QED BY <2>4, <2>5, <2>6
<1>12. CASE Rabbit!HandOver
  <2>1. at = "waiting" /\ UNCHANGED <<published, toBroker, routed, at, message, result>>
    BY <1>12 DEF Rabbit!HandOver, Rabbit!callVars, RabbitInv, Nothing
  <2>2. UnderWay'
    <3>0. /\ Rejection' = Rejection /\ Confirmation' = Confirmation /\ Returned' = Returned
          /\ Rejection.kind = "confirm" /\ Confirmation.kind = "confirm" /\ Returned.kind = "return"
          /\ signals # <<>> /\ signals' = Tail(signals) /\ toBroker' = toBroker
      BY <1>12, <2>1 DEF Rabbit!HandOver, Rejection, Confirmation, Returned
    <3>1. CASE signals = <<Rejection>>
      <4>0. Rejection # Confirmation
        BY DEF Rejection, Confirmation
      <4>2. returned = <<>> /\ toBroker = <<>>
        BY <2>1, <3>1, <4>0, Short DEF RabbitInv, UnderWay, Nothing
      <4>1. confirmations' = <<Rejection>> /\ signals' = <<>> /\ returned' = <<>> /\ toBroker = <<>>
        BY <1>12, <3>0, <3>1, <4>2, Short DEF Rabbit!HandOver
      <4> QED BY <3>0, <4>1 DEF UnderWay
    <3>2. CASE signals = <<Returned, Confirmation>>
      <4>1. confirmations' = <<>> /\ signals' = <<Confirmation>> /\ returned' = <<Returned>> /\ toBroker = <<>>
        BY <1>12, <2>1, <3>0, <3>2, Short DEF Rabbit!HandOver, RabbitInv, UnderWay, Nothing
      <4> QED BY <3>0, <4>1 DEF UnderWay
    <3>3. CASE signals = <<Confirmation>>
      <4>1. confirmations' = <<Confirmation>> /\ signals' = <<>> /\ returned' = returned /\ toBroker = <<>>
        BY <1>12, <2>1, <3>0, <3>3, Short DEF Rabbit!HandOver, RabbitInv, UnderWay, Nothing
      <4>2. returned = <<Returned>> \/ (returned = <<>> /\ published \in routed)
        BY <2>1, <3>0, <3>3 DEF RabbitInv, UnderWay, Nothing, Rejection, Confirmation
      <4> QED BY <2>1, <3>0, <4>1, <4>2 DEF UnderWay
    <3> QED BY <1>12, <2>1, <3>1, <3>2, <3>3 DEF Rabbit!HandOver, RabbitInv, UnderWay, Nothing
  <2> QED BY <1>k, <2>1, <2>2 DEF RabbitInv, Promise!vars
<1>13. CASE Rabbit!Ends
  BY <1>13, <1>k DEF Rabbit!Ends, Rabbit!callVars, RabbitInv, Nothing, UnderWay, Confirmation, Rejection, Returned, Promise!vars
<1> QED
  BY <1>k, <1>1, <1>2, <1>3, <1>4, <1>5, <1>6, <1>8, <1>9, <1>10, <1>11, <1>12, <1>13 DEF Rabbit!Next

----------------------------------------------------------------------------
\* Every step of Valkey keeps its invariant and the promise.
LEMMA ValkeyKeeps ==
    kind = "valkey" /\ ValkeyInv /\ ValkeyStep(Stream!Next) => ValkeyInv' /\ [Promise!Next]_(Promise!vars)
<1> SUFFICES ASSUME kind = "valkey", ValkeyInv, ValkeyStep(Stream!Next)
             PROVE  ValkeyInv' /\ [Promise!Next]_(Promise!vars)
  OBVIOUS
<1> USE DestinationAssumption DEF Takes
<1>k. kind' = "valkey" /\ Stream!Next
  BY DEF ValkeyStep
<1>1. CASE Stream!Reject
  BY <1>1, <1>k DEF Stream!Reject, Stream!linkVars, ValkeyInv, Promise!Next, Promise!Refuse
<1>2. ASSUME NEW m \in Messages, Stream!Write(m) PROVE ValkeyInv' /\ [Promise!Next]_(Promise!vars)
  <2>1. ValkeyInv'
    BY <1>2 DEF Stream!Write, Stream!linkVars, ValkeyInv
  <2>2. Promise!Begin(m)
    BY <1>2, <1>k DEF Stream!Write, ValkeyInv, Promise!Begin
  <2> QED BY <2>1, <2>2 DEF Promise!Next
<1>3. CASE Stream!Connect
  BY <1>3, <1>k DEF Stream!Connect, ValkeyInv, Promise!vars
<1>4. CASE Stream!Send
  <2>1. at = "sending" /\ at' = "waiting" /\ toServer' = <<calls'>> /\ UNCHANGED <<replies, message, added, calls, result>>
    BY <1>4 DEF Stream!Send, ValkeyInv
  <2>2. ValkeyInv'
    BY <2>1 DEF ValkeyInv
  <2>3. [Promise!Next]_(Promise!vars)
    BY <1>k, <2>1 DEF ValkeyInv, Promise!Next, Promise!Take, Promise!vars
  <2> QED BY <2>2, <2>3
<1>5. ASSUME at # "idle", Stream!Error PROVE ValkeyInv' /\ [Promise!Next]_(Promise!vars)
  <2>1. ValkeyInv'
    BY <1>5 DEF Stream!Error, Stream!Return, Stream!AfterError, Stream!Disconnect, ValkeyInv
  <2>2. Promise!Fail
    BY <1>5, <1>k DEF Stream!Error, Stream!Return, ValkeyInv, Promise!Fail
  <2> QED BY <2>1, <2>2 DEF Promise!Next
<1>6. CASE Stream!Broken
  BY <1>5, <1>6 DEF Stream!Broken
<1>7. CASE Stream!Reply
  <2>1. CASE Stream!IsEntryID(Head(replies))
    <3>1. at = "waiting" /\ Stream!Return("ok") /\ replies' = Tail(replies) /\ toServer' = toServer
      BY <1>7, <2>1 DEF Stream!Reply
    <3>2. toServer = <<>> /\ replies' = <<>> /\ calls \in added
      BY <1>7, <2>1, <3>1, Short DEF ValkeyInv, Stream!Reply, Stream!IsEntryID
    <3>3. ValkeyInv'
      BY <3>1, <3>2 DEF ValkeyInv, Stream!Return
    <3>4. Promise!Confirm
      BY <1>k, <3>1, <3>2 DEF ValkeyInv, Stream!Return, Promise!Confirm
    <3> QED BY <3>3, <3>4 DEF Promise!Next
  <2>2. CASE ~Stream!IsEntryID(Head(replies))
    BY <1>5, <1>7, <2>2 DEF Stream!Reply
  <2> QED BY <2>1, <2>2
<1>8. CASE Stream!Close
  BY <1>8, <1>k DEF Stream!Close, Stream!Disconnect, ValkeyInv, Promise!Next, Promise!Refuse
<1>9. ASSUME NEW reply \in {"id", "other", "error"}, Stream!Server(reply)
      PROVE  ValkeyInv' /\ [Promise!Next]_(Promise!vars)
  <2>1. at = "waiting" /\ toServer = <<calls>> /\ replies = <<>> /\ UNCHANGED <<at, message, calls, result>>
    BY <1>9 DEF Stream!Server, ValkeyInv
  <2>2. toServer' = <<>> /\ replies' = <<reply>> /\ added \subseteq added' /\ (reply = "id" => calls \in added')
    BY <1>9, <2>1, Short DEF Stream!Server
  <2>3. ValkeyInv'
    BY <2>1, <2>2 DEF ValkeyInv
  <2>4. [Promise!Next]_(Promise!vars)
    BY <1>k, <2>1, <2>2 DEF ValkeyInv, Promise!Next, Promise!Take, Promise!vars
  <2> QED BY <2>3, <2>4
<1> QED
  BY <1>k, <1>1, <1>2, <1>3, <1>4, <1>6, <1>7, <1>8, <1>9 DEF Stream!Next

----------------------------------------------------------------------------
\* Every step of the standard output keeps its invariant and the promise.
LEMMA StdoutKeeps ==
    kind = "stdout" /\ StdoutInv /\ StdoutStep(Out!Next) => StdoutInv' /\ [Promise!Next]_(Promise!vars)
<1> SUFFICES ASSUME kind = "stdout", StdoutInv, StdoutStep(Out!Next)
             PROVE  StdoutInv' /\ [Promise!Next]_(Promise!vars)
  OBVIOUS
<1> USE DestinationAssumption DEF Takes, Out!Line, Out!streamVars
<1>k. kind' = "stdout" /\ Out!Next
  BY DEF StdoutStep
<1>1. CASE Out!Reject
  BY <1>1, <1>k DEF Out!Reject, StdoutInv, Promise!Next, Promise!Refuse
<1>2. ASSUME NEW m \in Messages, Out!Write(m) PROVE StdoutInv' /\ [Promise!Next]_(Promise!vars)
  BY <1>2, <1>k DEF Out!Write, StdoutInv, Promise!Begin, Promise!Next
<1>3. CASE Out!Put
  BY <1>3, <1>k DEF Out!Put, StdoutInv, Promise!Take, Promise!Next, Promise!vars
<1>4. CASE Out!Late
  BY <1>4, <1>k DEF Out!Late, StdoutInv, Promise!vars
<1>5. CASE Out!Cancel
  BY <1>5, <1>k DEF Out!Cancel, StdoutInv, Promise!vars
<1>6. ASSUME NEW c \in watchers, Out!Interrupt(c) PROVE StdoutInv' /\ [Promise!Next]_(Promise!vars)
  BY <1>6, <1>k DEF Out!Interrupt, StdoutInv, Promise!vars
<1>7. CASE Out!Fails
  BY <1>7, <1>k DEF Out!Fails, StdoutInv, Promise!vars
<1>8. CASE Out!Finish
  BY <1>8, <1>k DEF Out!Finish, StdoutInv, Promise!vars
<1>9. CASE Out!Return
  BY <1>9, <1>k DEF Out!Return, StdoutInv, Promise!Confirm, Promise!Fail, Promise!Next
<1>10. CASE Out!Close
  BY <1>10, <1>k DEF Out!Close, StdoutInv, Promise!Refuse, Promise!Next
<1>11. CASE Out!Reader
  BY <1>11, <1>k DEF Out!Reader, StdoutInv, Promise!vars
<1> QED
  BY <1>k, <1>1, <1>2, <1>3, <1>4, <1>5, <1>6, <1>7, <1>8, <1>9, <1>10, <1>11 DEF Out!Next

----------------------------------------------------------------------------
\* The EGTS destination moves between its places; its promises are Confirmed and Admitted.
LEMMA EgtsKeeps ==
    kind = "egts" /\ EgtsInv /\ EgtsStep(Peer!PeerNext) => EgtsInv' /\ [Promise!Next]_(Promise!vars)
<1> SUFFICES ASSUME kind = "egts", EgtsInv, EgtsStep(Peer!PeerNext)
             PROVE  EgtsInv' /\ [Promise!Next]_(Promise!vars)
  OBVIOUS
<1>1. kind' = "egts" /\ message' = message /\ output' = output /\ Peer!PeerNext
  BY DEF EgtsStep, stdoutVars
<1>2. ASSUME NEW f, Peer!Receive(f) PROVE at' \in {"idle", "checking", "receiving"}
  BY <1>2 DEF Peer!Receive, Peer!Abort, Peer!Proceed
<1>3. ASSUME Peer!Client PROVE at' \in {"idle", "dialing", "checking", "sending", "receiving"}
  BY <1>3 DEF EgtsInv, Peer!Client, Peer!Reject, Peer!Call, Peer!Dial, Peer!Check, Peer!Send, Peer!Broken, Peer!Expire, Peer!Abort,
              Peer!Cancel, Peer!Interrupt, Peer!Close, Peer!callVars
<1>4. at' \in {"idle", "dialing", "checking", "sending", "receiving"}
  BY <1>1, <1>2, <1>3 DEF Peer!PeerNext, Peer!Answer, Peer!StrayFrame, Peer!Other
<1>5. UNCHANGED Promise!vars
  BY <1>1 DEF Promise!vars, Takes
<1> QED BY <1>1, <1>4, <1>5 DEF EgtsInv

----------------------------------------------------------------------------
LEMMA StepKeeps == IInv /\ [Next]_vars => IInv' /\ [Promise!Next]_(Promise!vars)
<1> SUFFICES ASSUME IInv, [Next]_vars PROVE IInv' /\ [Promise!Next]_(Promise!vars)
  OBVIOUS
<1>1. CASE RabbitStep(Rabbit!Next)
  <2>1. kind = "rabbitmq" /\ kind' = kind /\ output' = output
    BY <1>1 DEF RabbitStep, stdoutVars
  <2> QED BY <1>1, <2>1, RabbitKeeps DEF IInv
<1>2. CASE ValkeyStep(Stream!Next)
  <2>1. kind = "valkey" /\ kind' = kind /\ output' = output /\ link' = link
    BY <1>2 DEF ValkeyStep, stdoutVars, rabbitVars
  <2> QED BY <1>2, <2>1, ValkeyKeeps DEF IInv
<1>3. CASE StdoutStep(Out!Next)
  <2>1. kind = "stdout" /\ kind' = kind /\ link' = link
    BY <1>3 DEF StdoutStep, rabbitVars
  <2> QED BY <1>3, <2>1, StdoutKeeps DEF IInv
<1>4. CASE EgtsStep(Peer!PeerNext)
  <2>1. kind = "egts" /\ kind' = kind /\ link' = link
    BY <1>4 DEF EgtsStep, rabbitVars
  <2> QED BY <1>4, <2>1, EgtsKeeps DEF IInv
<1>5. CASE UNCHANGED vars
  BY <1>5 DEF vars, rabbitVars, valkeyVars, stdoutVars, egtsVars, IInv, RabbitInv, ValkeyInv, StdoutInv, EgtsInv, Nothing, UnderWay,
              Confirmation, Rejection, Returned, Promise!vars, Takes
<1> QED BY <1>1, <1>2, <1>3, <1>4, <1>5 DEF Next

LEMMA Invariant == Spec => []IInv
<1>1. IInv /\ [Next]_vars => IInv'
  BY StepKeeps
<1> QED BY <1>1, InitInv, PTL DEF Spec

\* WriteContext of rabbitmq.go, valkey.go and writer.go (stdout) reports success only
\* for a message the broker has routed, the stream has added or the output has taken
\* whole in this very call, whatever was left behind by the calls before.
THEOREM PromiseKept == Spec => Fulfils
<1>1. Init => Promise!Init
  BY DEF Init, Promise!Init, Takes, Rabbit!Init, Stream!Init, Out!Init
<1>2. IInv /\ [Next]_vars => [Promise!Next]_(Promise!vars)
  BY StepKeeps
<1> QED BY <1>1, <1>2, Invariant, PTL DEF Spec, Fulfils, Promise!Spec

\* A channel of RabbitMQ that is used again is empty (rabbitmq.go:64,95).
THEOREM ChannelsQuiet == Spec => []RabbitQuiet
<1>1. IInv => RabbitQuiet
  BY DEF IInv, RabbitInv, Nothing, RabbitQuiet, Rabbit!Quiet
<1> QED BY <1>1, Invariant, PTL

----------------------------------------------------------------------------
\* Why StdoutUndisturbed holds: at most the goroutine of the present call is there,
\* and all lines are complete but that of the call and of one that stopped the Writer.

PartsOf(c) == {j \in DOMAIN output : output[j] = c}
Whole(i) == Cardinality(PartsOf(output[i])) = Out!Line

WatchInv ==
    /\ calls \in Nat /\ watchers \subseteq {calls}
    /\ at = "idle" => watchers = {}
    /\ ~timed => deadline = "none" /\ watchers = {}
    /\ at = "writing" /\ deadline = "past" => ctxDone

OutputInv ==
    /\ output \in Seq(Nat) /\ parts \in Nat
    /\ \A i \in DOMAIN output : output[i] <= calls
    /\ at # "idle" =>
         /\ Cardinality(PartsOf(calls)) = parts
         /\ \A i \in DOMAIN output : output[i] # calls => Whole(i)
         /\ parts > 0 => output # <<>> /\ output[Len(output)] = calls
    /\ at = "idle" =>
         /\ ~writeErr => \A i \in DOMAIN output : Whole(i)
         /\ \A i \in DOMAIN output : output[i] # output[Len(output)] => Whole(i)

StreamInv == kind = "stdout" => WatchInv /\ OutputInv

LEMMA PartsFinite ==
    ASSUME output \in Seq(Nat), NEW c
    PROVE  IsFiniteSet(PartsOf(c)) /\ Cardinality(PartsOf(c)) \in Nat
<1>1. DOMAIN output = 1..Len(output) /\ Len(output) \in Nat
  OBVIOUS
<1>2. IsFiniteSet(1..Len(output))
  BY <1>1, FS_Interval
<1> QED BY <1>1, <1>2, FS_Subset, FS_CardinalityType DEF PartsOf

\* A part more belongs to the present call and leaves the lines of the others alone.
LEMMA PartMore ==
    ASSUME output \in Seq(Nat), calls \in Nat, calls' = calls, output' = Append(output, calls)
    PROVE  /\ output' \in Seq(Nat) /\ Len(output') = Len(output) + 1 /\ output'[Len(output')] = calls
           /\ DOMAIN output' = DOMAIN output \union {Len(output')}
           /\ \A i \in DOMAIN output : output'[i] = output[i]
           /\ \A c : c # calls => PartsOf(c)' = PartsOf(c)
           /\ Cardinality(PartsOf(calls)') = Cardinality(PartsOf(calls)) + 1
<1>1. /\ output' \in Seq(Nat) /\ Len(output') = Len(output) + 1 /\ output'[Len(output')] = calls
      /\ DOMAIN output = 1..Len(output) /\ DOMAIN output' = 1..(Len(output) + 1) /\ Len(output) \in Nat
      /\ \A i \in DOMAIN output : output'[i] = output[i]
  OBVIOUS
<1>2. DOMAIN output' = DOMAIN output \union {Len(output')} /\ Len(output') \notin DOMAIN output
  BY <1>1
<1>3. ASSUME NEW c, c # calls PROVE PartsOf(c)' = PartsOf(c)
  BY <1>1, <1>2, <1>3 DEF PartsOf
<1>4. PartsOf(calls)' = {j \in DOMAIN output' : output'[j] = calls}
  BY DEF PartsOf
<1>5. {j \in DOMAIN output' : output'[j] = calls} = PartsOf(calls) \union {Len(output')}
  BY <1>1, <1>2 DEF PartsOf
<1>6. Len(output') \notin PartsOf(calls)
  BY <1>2 DEF PartsOf
<1>7. Cardinality(PartsOf(calls) \union {Len(output')}) = Cardinality(PartsOf(calls)) + 1
  BY <1>6, PartsFinite, FS_AddElement
<1>8. Cardinality(PartsOf(calls)') = Cardinality(PartsOf(calls)) + 1
  BY <1>4, <1>5, <1>7
<1> QED BY <1>1, <1>2, <1>3, <1>8

\* Lines are left alone: what is whole stays whole.
LEMMA OutputFrame ==
    ASSUME output' = output
    PROVE  /\ \A c : PartsOf(c)' = PartsOf(c)
           /\ \A i : Whole(i)' <=> Whole(i)
BY DEF PartsOf, Whole

\* The number of parts of a line that Stdout speaks of is the one counted here.
LEMMA SameCardinality ==
    ASSUME NEW S PROVE Out!Cardinality(S) = Cardinality(S)
BY DEF Out!Cardinality, Out!IsFiniteSet, Cardinality, IsFiniteSet

LEMMA WatchKeeps ==
    ASSUME kind = "stdout", IInv, WatchInv, StdoutStep(Out!Next)
    PROVE  WatchInv'
<1> USE DestinationAssumption DEF Out!streamVars
<1>k. Out!Next /\ at \in {"idle", "writing", "written", "failed"}
  BY DEF StdoutStep, IInv, StdoutInv
<1>0. ASSUME NEW m \in Messages, Out!Write(m) PROVE WatchInv'
  <2>1. /\ watchers = {} /\ at' = "writing" /\ calls' = calls + 1 /\ calls' \in Nat /\ timed' = timed
        /\ IF timed THEN deadline' = "ahead" /\ watchers' = watchers \union {calls'}
           ELSE UNCHANGED <<deadline, watchers>>
    BY <1>0 DEF Out!Write, WatchInv
  <2>2. CASE timed
    BY <2>1, <2>2 DEF WatchInv
  <2>3. CASE ~timed
    BY <2>1, <2>3 DEF WatchInv
  <2> QED BY <2>2, <2>3
<1>1. CASE Out!Reject
  <2>1. at = "idle" /\ calls' = calls + 1 /\ UNCHANGED <<at, watchers, timed, deadline, ctxDone>>
    BY <1>1 DEF Out!Reject
  <2> QED BY <2>1 DEF WatchInv
<1>4. CASE Out!Put
  <2>1. /\ at = "writing" /\ deadline # "past" /\ at' # "idle"
        /\ UNCHANGED <<calls, watchers, timed, deadline, ctxDone>>
    BY <1>4 DEF Out!Put
  <2> QED BY <2>1 DEF WatchInv
<1>5. CASE Out!Late
  BY <1>5 DEF Out!Late, WatchInv
<1>6. CASE Out!Cancel
  BY <1>6 DEF Out!Cancel, WatchInv
<1>2. ASSUME NEW c \in watchers, Out!Interrupt(c) PROVE WatchInv'
  BY <1>k, <1>2 DEF Out!Interrupt, WatchInv
<1>3. CASE Out!Fails \/ Out!Finish \/ Out!Return \/ Out!Close \/ Out!Reader
  BY <1>k, <1>3 DEF Out!Fails, Out!Finish, Out!Return, Out!Watched, Out!Close, Out!Reader, WatchInv
<1> QED BY <1>k, <1>0, <1>1, <1>2, <1>3, <1>4, <1>5, <1>6 DEF Out!Next

LEMMA OutputKeeps ==
    ASSUME kind = "stdout", IInv, WatchInv, OutputInv, StdoutStep(Out!Next)
    PROVE  OutputInv'
<1> USE DestinationAssumption DEF Out!streamVars
<1>k. /\ Out!Next /\ at \in {"idle", "writing", "written", "failed"}
      /\ (at = "writing" => parts \in {0, 1}) /\ (at = "written" => parts = 2)
      /\ calls \in Nat /\ output \in Seq(Nat) /\ parts \in Nat
  BY DEF StdoutStep, IInv, StdoutInv, WatchInv, OutputInv
<1>d. DOMAIN output = 1..Len(output) /\ Len(output) \in Nat /\ \A i \in DOMAIN output : output[i] \in Nat
  BY <1>k
<1>1. CASE Out!Reject
  <2>1. at = "idle" /\ UNCHANGED <<at, writeErr, output, parts>> /\ calls' = calls + 1
    BY <1>1 DEF Out!Reject
  <2> QED BY <1>k, <1>d, <2>1, OutputFrame DEF OutputInv
<1>2. ASSUME NEW m \in Messages, Out!Write(m) PROVE OutputInv'
  <2>1. /\ at = "idle" /\ at' = "writing" /\ ~writeErr /\ parts' = 0 /\ output' = output /\ calls' = calls + 1
    BY <1>2 DEF Out!Write
  <2>2. PartsOf(calls + 1) = {}
    BY <1>k, <1>d, <2>1 DEF OutputInv, PartsOf
  <2>3. Cardinality(PartsOf(calls)') = 0
    <3>1. PartsOf(calls)' = PartsOf(calls + 1)
      BY <2>1 DEF PartsOf
    <3> QED BY <2>2, <3>1, FS_EmptySet
  <2>4. \A i \in DOMAIN output' : Whole(i)'
    BY <2>1, OutputFrame DEF OutputInv
  <2>5. \A i \in DOMAIN output' : output'[i] <= calls'
    BY <1>k, <1>d, <2>1 DEF OutputInv
  <2> QED BY <1>k, <2>1, <2>3, <2>4, <2>5 DEF OutputInv
<1>3. CASE Out!Put
  <2>1. /\ at = "writing" /\ at' \in {"writing", "written"} /\ parts' = parts + 1
        /\ output' = Append(output, calls) /\ calls' = calls
    BY <1>3 DEF Out!Put
  <2>2. /\ output' \in Seq(Nat) /\ Len(output') = Len(output) + 1 /\ output'[Len(output')] = calls
        /\ DOMAIN output' = DOMAIN output \union {Len(output')}
        /\ \A i \in DOMAIN output : output'[i] = output[i]
        /\ \A c : c # calls => PartsOf(c)' = PartsOf(c)
        /\ Cardinality(PartsOf(calls)') = Cardinality(PartsOf(calls)) + 1
    BY <1>k, <2>1, PartMore
  <2>3. ASSUME NEW i \in DOMAIN output', output'[i] # calls PROVE Whole(i)'
    <3>1. i \in DOMAIN output /\ output'[i] = output[i] /\ Whole(i)
      BY <2>1, <2>2, <2>3 DEF OutputInv
    <3>2. PartsOf(output[i])' = {j \in DOMAIN output' : output'[j] = output'[i]}
      BY DEF PartsOf
    <3>3. PICK x : x = output[i]
      OBVIOUS
    <3>4. PartsOf(x)' = PartsOf(x)
      BY <2>2, <2>3, <3>1, <3>3
    <3>5. {j \in DOMAIN output' : output'[j] = x} = PartsOf(x)
      BY <3>4 DEF PartsOf
    <3> QED BY <3>1, <3>2, <3>3, <3>5 DEF Whole
  <2>4. Cardinality(PartsOf(calls)') = parts'
    BY <2>1, <2>2 DEF OutputInv
  <2>5. \A i \in DOMAIN output' : output'[i] <= calls'
    BY <1>k, <2>1, <2>2 DEF OutputInv
  <2>6. output' # <<>>
    BY <1>k, <2>2
  <2> QED BY <1>k, <2>1, <2>2, <2>3, <2>4, <2>5, <2>6 DEF OutputInv
<1>4. CASE Out!Late \/ Out!Cancel \/ Out!Fails \/ Out!Finish \/ Out!Close \/ Out!Reader \/ \E c \in watchers : Out!Interrupt(c)
  <2>1. /\ UNCHANGED <<output, parts, calls, writeErr>>
        /\ at = "idle" <=> at' = "idle"
    BY <1>4, <1>k DEF Out!Late, Out!Cancel, Out!Fails, Out!Finish, Out!Close, Out!Reader, Out!Interrupt
  <2> QED BY <2>1, OutputFrame DEF OutputInv
<1>5. CASE Out!Return
  <2>1. /\ at \in {"written", "failed"} /\ at' = "idle" /\ UNCHANGED <<output, parts, calls>>
        /\ ~writeErr' => (at = "written" \/ ~(parts > 0))
    BY <1>5 DEF Out!Return
  <2>2. ASSUME NEW i \in DOMAIN output, output[i] = calls, ~writeErr' PROVE Whole(i)
    <3>1. i \in PartsOf(calls) /\ IsFiniteSet(PartsOf(calls))
      BY <1>k, <2>2, PartsFinite DEF PartsOf
    <3>2. parts # 0
      BY <2>1, <3>1, FS_EmptySet DEF OutputInv
    <3> QED BY <1>k, <2>1, <2>2, <3>2 DEF OutputInv, Whole, Out!Line
  <2>3. ~writeErr' => \A i \in DOMAIN output : Whole(i)
    BY <2>1, <2>2 DEF OutputInv
  <2>4. \A i \in DOMAIN output : output[i] # output[Len(output)] => Whole(i)
    <3>1. SUFFICES ASSUME NEW i \in DOMAIN output, output[i] # output[Len(output)] PROVE Whole(i)
      OBVIOUS
    <3>2. CASE output[i] # calls
      BY <2>1, <3>2 DEF OutputInv
    <3>3. CASE output[i] = calls
      <4>1. i \in PartsOf(calls) /\ IsFiniteSet(PartsOf(calls))
        BY <1>k, <3>3, PartsFinite DEF PartsOf
      <4>2. parts # 0
        BY <2>1, <4>1, FS_EmptySet DEF OutputInv
      <4> QED BY <1>k, <2>1, <3>1, <3>3, <4>2 DEF OutputInv
    <3> QED BY <3>2, <3>3
  <2> QED BY <1>k, <2>1, <2>3, <2>4, OutputFrame DEF OutputInv
<1> QED BY <1>k, <1>1, <1>2, <1>3, <1>4, <1>5 DEF Out!Next

\* Only its own context cuts a write to the standard output short, and nothing follows
\* an incomplete line (writer.go:102,125).
THEOREM StreamUndisturbed == Spec => []StdoutUndisturbed
<1>1. Init => StreamInv
  <2>1. SUFFICES ASSUME Init, kind = "stdout" PROVE WatchInv /\ OutputInv
    BY DEF StreamInv
  <2>2. /\ calls = 0 /\ watchers = {} /\ deadline = "none" /\ output = <<>> /\ parts = 0 /\ at = "idle"
    BY <2>1 DEF Init, Out!Init
  <2>3. \A i \in DOMAIN output : FALSE
    BY <2>2
  <2> QED BY <2>2, <2>3 DEF WatchInv, OutputInv
<1>2. IInv /\ StreamInv /\ [Next]_vars => StreamInv'
  <2>1. SUFFICES ASSUME IInv, StreamInv, [Next]_vars, kind' = "stdout" PROVE WatchInv' /\ OutputInv'
    BY DEF StreamInv
  <2>2. kind = "stdout"
    BY <2>1 DEF Next, RabbitStep, ValkeyStep, StdoutStep, EgtsStep, vars
  <2>3. WatchInv /\ OutputInv
    BY <2>1, <2>2 DEF StreamInv
  <2>4. CASE StdoutStep(Out!Next)
    BY <2>1, <2>2, <2>3, <2>4, WatchKeeps, OutputKeeps
  <2>5. CASE UNCHANGED vars
    <3>1. UNCHANGED <<at, calls, deadline, writeErr, timed, ctxDone, watchers, parts, output>>
      BY <2>5 DEF vars, stdoutVars
    <3> QED BY <2>3, <3>1, OutputFrame DEF WatchInv, OutputInv
  <2> QED BY <2>1, <2>2, <2>4, <2>5 DEF Next, RabbitStep, ValkeyStep, EgtsStep
<1>3. IInv /\ StreamInv => StdoutUndisturbed
  <2>1. SUFFICES ASSUME IInv, StreamInv PROVE Out!Undisturbed
    BY DEF StdoutUndisturbed
  <2>2. CASE kind # "stdout"
    <3>1. at # "writing" /\ \A i \in DOMAIN output : FALSE
      BY <2>1, <2>2 DEF IInv, RabbitInv, ValkeyInv, EgtsInv
    <3> QED BY <3>1 DEF Out!Undisturbed
  <2>3. CASE kind = "stdout"
    <3>1. WatchInv /\ OutputInv
      BY <2>1, <2>3 DEF StreamInv
    <3>2. ASSUME NEW i \in DOMAIN output, output[i] # Out!Last(output) PROVE Whole(i)
      <4>1. output[i] # output[Len(output)]
        BY <3>2 DEF Out!Last
      <4>2. CASE at = "idle"
        BY <3>1, <4>1, <4>2 DEF OutputInv
      <4>3. CASE at # "idle"
        <5>1. CASE output[i] # calls
          BY <3>1, <4>3, <5>1 DEF OutputInv
        <5>2. CASE output[i] = calls
          <6>1. i \in PartsOf(calls) /\ IsFiniteSet(PartsOf(calls))
            BY <3>1, <5>2, PartsFinite DEF OutputInv, PartsOf
          <6>2. parts # 0
            BY <3>1, <4>3, <6>1, FS_EmptySet DEF OutputInv
          <6> QED BY <3>1, <4>1, <4>3, <5>2, <6>2 DEF OutputInv
        <5> QED BY <5>1, <5>2
      <4> QED BY <4>2, <4>3
    <3>3. at = "writing" /\ deadline = "past" => ctxDone
      BY <3>1 DEF WatchInv
    <3>4. ASSUME NEW i \in DOMAIN output, output[i] # Out!Last(output)
          PROVE  Cardinality({j \in DOMAIN output : output[j] = output[i]}) = Out!Line
      <4>1. Whole(i)
        BY <3>2, <3>4
      <4> QED BY ONLY <4>1 DEF Whole, PartsOf
    <3> QED BY <3>3, <3>4, SameCardinality DEF Out!Undisturbed
  <2> QED BY <2>2, <2>3
<1> QED BY <1>1, <1>2, <1>3, Invariant, PTL DEF Spec

=============================================================================
