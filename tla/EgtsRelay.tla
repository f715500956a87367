------------------------------ MODULE EgtsRelay ------------------------------
(***************************************************************************)
(* The EGTS destination of gateway/destination/egts.go: the dialogue of    *)
(* one relay session with another EGTS server. WriteContext opens a        *)
(* connection and authenticates it for the identity of the terminal, or    *)
(* keeps the one it has, sends the packet and waits until the server has   *)
(* confirmed all of it.                                                    *)
(*                                                                         *)
(* This module has the steps of the client; what arrives is the argument   *)
(* of Receive. EgtsPeer puts a server of the protocol at the other end,    *)
(* GatewayChain another gateway.                                           *)
(*                                                                         *)
(* Packets have services with items (module Services), here with the       *)
(* numbers of packets and records that confirmations refer to. A frame     *)
(* that arrives says something about a packet or its records: it confirms  *)
(* the packet as a whole (in a RESPONSE only), a record of it, or the      *)
(* authentication, or it asks for credentials.                             *)
(***************************************************************************)
EXTENDS Services

CONSTANTS
    Records,      \* packets of the queue
    AuthEnabled,  \* cfg.Auth.Enabled
    Numbers,      \* how many packet numbers there are (2^16)
    MaxCalls      \* bound: how many calls of WriteContext are made

ASSUME RelayAssumption ==
    /\ IsFiniteSet(Records) /\ AuthEnabled \in BOOLEAN
    /\ Numbers \in Nat \ {0} /\ MaxCalls \in Nat
    /\ \A r \in Records : r.pid \in 0..(Numbers - 1) /\ r.type \in {"appdata", "other"}
    /\ \A r \in Records : \A s \in ToSet(r.services) :
          s.pair \notin {"packet", "authentication", "params", "unknown"}

VARIABLES
    conn,       \* there is an open connection (e.conn)
    identity,   \* the identity it was authenticated for (e.identity)
    closed,     \* Close was called (e.closed)
    at,         \* where WriteContext is
    call,       \* its arguments
    todo,       \* packets it has to exchange, the current one first
    wait,       \* what the current exchange waits for
    cancelled,  \* the context of the call was cancelled
    fired,      \* the goroutine that waits for it has set a deadline in the past
    deadline,   \* the deadline of the connection
    sent,       \* what was sent over the connection
    calls,      \* how many calls were made
    result      \* of the last call

callVars == <<at, call, todo, wait, calls, result>>
ctxVars == <<cancelled, fired, deadline>>
clientVars == <<conn, identity, closed, callVars, ctxVars, sent>>

----------------------------------------------------------------------------
\* The packet of a record, and what the server has to confirm of it.

Unfit(r) == r.type # "appdata" \/ HasCredentials(r)

\* Identities a record comes with: the connection it came over gives it the one it
\* names last, or else the last one it has heard (connection.go).
Given(r) == IF Names(r) THEN {x \in Ids : NamedLast(r, x)} ELSE Ids \union {None}
Data(r) == [kind |-> "data", pid |-> r.pid, services |-> r.services, auth |-> Names(r)]

Keys(m) ==
    {<<s.pair, s.number>> : s \in {t \in ToSet(m.services) : \E i \in ToSet(t.items) : i # "confirmation"}}

\* The packets that authenticate a connection: the identity of the terminal if it
\* is known, then the credentials if they are configured, numbered backwards from
\* the packet they precede.
MutantNoIdentity(c) == IF AuthEnabled THEN <<"right">> ELSE <<>>
MutantNoLogin(c) == IF c.identity = None THEN <<>> ELSE <<c.identity>>
Presents(c) ==
    (IF c.identity = None THEN <<>> ELSE <<c.identity>>)
    \o (IF AuthEnabled THEN <<"right">> ELSE <<>>)
Authentication(c) ==
    LET items == Presents(c)
        pid(i) == (c.record.pid - Len(items) + i - 1) % Numbers
    IN [i \in DOMAIN items |->
          [kind |-> IF items[i] \in Logins THEN "credentials" ELSE "identity", pid |-> pid(i), auth |-> TRUE,
           services |-> <<[number |-> pid(i), pair |-> "auth", items |-> <<items[i]>>]>>]]

\* The other things a frame can speak of, apart from records.
Whole == <<"packet", 0>>
Login == <<"authentication", 0>>
Params == <<"params", 0>>
Unknown == <<"unknown", 0>>

NoWait == [pending |-> {}, transport |-> FALSE, auth |-> FALSE, required |-> FALSE]
WaitFor(m) == [NoWait EXCEPT !.pending = Keys(m), !.auth = ~m.auth]

Init ==
    /\ conn = FALSE /\ identity = None /\ closed = FALSE
    /\ at = "idle" /\ call = None /\ todo = <<>> /\ wait = NoWait /\ calls = 0 /\ result = "none"
    /\ cancelled = FALSE /\ fired = FALSE /\ deadline = "none" /\ sent = <<>>

----------------------------------------------------------------------------
\* An error after the checks of the arguments closes the connection.
MutantKept == conn
AfterError == FALSE
Abort ==
    /\ at' = "idle" /\ result' = "error" /\ conn' = AfterError
    /\ sent' = IF conn' THEN sent ELSE <<>>
    /\ todo' = <<>> /\ wait' = NoWait
    /\ UNCHANGED <<identity, closed, call, ctxVars, calls>>

\* A call that is refused at once leaves the connection alone: the destination is
\* closed, the context is done, or the packet is not one to relay.
Reject(r, id) ==
    /\ at = "idle" /\ calls < MaxCalls
    /\ calls' = calls + 1 /\ call' = [record |-> r, identity |-> id] /\ result' = "error"
    /\ UNCHANGED <<conn, identity, closed, at, todo, wait, ctxVars, sent>>

\* A connection that was authenticated for another terminal is given up.
MutantAny(id) == conn
Usable(id) == conn /\ identity = id
Call(r, id) ==
    /\ at = "idle" /\ calls < MaxCalls /\ ~closed /\ ~Unfit(r)
    /\ calls' = calls + 1 /\ call' = [record |-> r, identity |-> id] /\ result' = "none"
    /\ cancelled' = FALSE /\ fired' = FALSE
    /\ IF Usable(id)
       THEN at' = "checking" /\ todo' = <<Data(r)>> /\ UNCHANGED <<conn, deadline, sent>>
       ELSE at' = "dialing" /\ todo' = <<>> /\ conn' = FALSE /\ sent' = <<>> /\ UNCHANGED deadline
    /\ UNCHANGED <<identity, closed, wait>>

Dial ==
    /\ at = "dialing" /\ at' = "checking" /\ conn' = TRUE /\ deadline' = "none"
    /\ todo' = Append(Authentication(call), Data(call.record))
    /\ IF Len(todo') = 1 THEN identity' = call.identity ELSE UNCHANGED identity
    /\ UNCHANGED <<closed, call, wait, calls, result, cancelled, fired, sent>>

\* exchange looks at its context first, and sets its deadline later.
Check ==
    /\ at = "checking" /\ ~cancelled /\ at' = "sending"
    /\ UNCHANGED <<conn, identity, closed, call, todo, wait, calls, result, ctxVars, sent>>

MutantEndless == "none"
AckDeadline == "ack"
Send ==
    /\ at = "sending" /\ at' = "receiving"
    /\ deadline' = AckDeadline
    /\ wait' = WaitFor(Head(todo))
    /\ sent' = Append(sent, [message |-> Head(todo), for |-> call.identity])
    /\ UNCHANGED <<conn, identity, closed, call, todo, calls, result, cancelled, fired>>

----------------------------------------------------------------------------
\* What a frame says to the exchange.

Speaks(f, about) == \E s \in f.says : s.about = about
Says(f, about) == [about |-> about, code |-> "ok"] \in f.says
Ignored(f) == f.type = "response" /\ f.pid # Head(todo).pid

Refuses(f) ==
    \/ \E s \in f.says :
         /\ s.code = "bad"
         /\ s.about \in {Whole} \union wait.pending \union (IF Head(todo).auth THEN {Login} ELSE {})
    \/ Speaks(f, Params) /\ ~Head(todo).auth
    \/ Speaks(f, Unknown)

\* The state of the exchange after a frame that refuses nothing. "In progress"
\* takes back an earlier confirmation of the packet or of the authentication.
MutantEager(w, f) ==
    [w EXCEPT !.pending = @ \ {s.about : s \in f.says},
              !.transport = IF Speaks(f, Whole) THEN TRUE ELSE @,
              !.auth = IF Speaks(f, Login) \/ Speaks(f, Params) THEN TRUE ELSE @]
After(w, f) ==
    [pending |-> {k \in w.pending : ~Says(f, k)},
     transport |-> IF Speaks(f, Whole) THEN Says(f, Whole) ELSE w.transport,
     auth |-> IF Speaks(f, Params) THEN TRUE
              ELSE IF Head(todo).auth /\ Speaks(f, Login) THEN Says(f, Login) ELSE w.auth,
     required |-> w.required \/ Speaks(f, Params)]
Complete(w) == w.pending = {} /\ w.transport /\ w.auth

\* The server asks for credentials and there are none (left) to present.
MutantUnasked == FALSE
Unanswerable == Head(todo).kind # "identity" \/ ~AuthEnabled

Proceed ==
    /\ todo' = Tail(todo) /\ wait' = NoWait
    /\ IF Len(todo) = 1 THEN at' = "idle" /\ result' = "ok" /\ UNCHANGED identity
       ELSE /\ at' = "checking" /\ UNCHANGED result
            /\ IF Len(todo) = 2 THEN identity' = call.identity ELSE UNCHANGED identity
    /\ UNCHANGED <<conn, closed, call, ctxVars, sent, calls>>

\* One turn of the loop of exchange. An APPDATA packet is answered (a failure to
\* do so is Broken).
Receive(f) ==
    /\ at = "receiving" /\ deadline # "past"
    /\ \/ /\ ~Ignored(f) /\ Refuses(f) /\ Abort
       \/ /\ ~Ignored(f) /\ ~Refuses(f) /\ Complete(After(wait, f))
          /\ IF After(wait, f).required /\ Unanswerable THEN Abort ELSE Proceed
       \/ /\ Ignored(f) \/ (~Refuses(f) /\ ~Complete(After(wait, f)))
          /\ wait' = IF Ignored(f) THEN wait ELSE After(wait, f)
          /\ UNCHANGED <<conn, identity, closed, at, call, todo, calls, result, ctxVars, sent>>

\* The connection breaks, cannot be opened or leads back to this gateway.
Broken == at # "idle" /\ Abort

\* A deadline has passed, or the context was cancelled and this is noticed.
Expire ==
    /\ \/ at = "dialing"
       \/ at = "checking" /\ cancelled
       \/ at = "receiving" /\ deadline \in {"ack", "past"}
    /\ Abort

\* The gateway stops or another destination has stalled. (The deadline of the
\* context itself is part of the deadline of the connection.)
Cancel ==
    /\ at # "idle" /\ ~cancelled /\ cancelled' = TRUE
    /\ UNCHANGED <<conn, identity, closed, callVars, fired, deadline, sent>>

\* The goroutine that WriteContext has started for the cancellation.
Interrupt ==
    /\ at \in {"checking", "sending", "receiving"} /\ cancelled /\ ~fired
    /\ fired' = TRUE /\ deadline' = "past"
    /\ UNCHANGED <<conn, identity, closed, callVars, cancelled, sent>>

Close ==
    /\ at = "idle" /\ ~closed /\ closed' = TRUE /\ conn' = FALSE /\ sent' = <<>> /\ result' = "none"
    /\ UNCHANGED <<identity, at, call, todo, wait, calls, ctxVars>>

\* What the client does whatever arrives.
Client ==
    \/ \E r \in Records : \E id \in Given(r) : Reject(r, id) \/ Call(r, id)
    \/ Dial \/ Check \/ Send \/ Broken \/ Expire \/ Cancel \/ Interrupt \/ Close

----------------------------------------------------------------------------
ClientTypeOK ==
    /\ conn \in BOOLEAN /\ closed \in BOOLEAN /\ identity \in Ids \union {None}
    /\ at \in {"idle", "dialing", "checking", "sending", "receiving"}
    /\ call # None => call \in [record : Records, identity : Ids \union {None}]
    /\ wait.transport \in BOOLEAN /\ wait.auth \in BOOLEAN /\ wait.required \in BOOLEAN
    /\ cancelled \in BOOLEAN /\ fired \in BOOLEAN /\ deadline \in {"none", "ack", "past"}
    /\ calls \in 0..MaxCalls /\ result \in {"none", "ok", "error"}
    /\ at \in {"checking", "sending", "receiving"} => conn /\ todo # <<>>
    /\ at = "receiving" => deadline # "none"

\* Part of Admitted (EgtsPeer): what is sent over a connection that data is sent
\* over is first what authenticates it, for the identity the data came with, and
\* from then on data.
Presented ==
    \A i \in DOMAIN sent : sent[i].message.kind = "data" =>
        LET shown == (IF sent[i].for = None THEN <<>> ELSE <<sent[i].for>>)
                     \o (IF AuthEnabled THEN <<"right">> ELSE <<>>)
        IN \A k \in 1..i :
             /\ sent[k].message.kind = "data" <=> k > Len(shown)
             /\ k <= Len(shown) => sent[k].message.services[1].items = <<shown[k]>>

\* "EGTS confirmation wait ignored cancellation" (egts_test.go): once the goroutine
\* has interrupted the connection, an exchange does not wait on it any more.
InterruptHeld == at = "receiving" /\ fired => deadline = "past"

=============================================================================
