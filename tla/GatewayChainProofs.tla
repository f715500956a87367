-------------------------- MODULE GatewayChainProofs --------------------------
(***************************************************************************)
(* Proofs about GatewayChain for all packets, identities, passwords and    *)
(* settings of the two gateways: what the first takes for delivered the    *)
(* second has, under the right terminal, and the two never wait for each   *)
(* other.                                                                  *)
(***************************************************************************)
EXTENDS GatewayChain, TLAPS

----------------------------------------------------------------------------
(***************************************************************************)
(* The invariant. At any time there is one packet, the last one in line    *)
(* but for answers, that the second gateway may not be done with. All      *)
(* packets before it are: each was read, answered with EGTS_PC_OK and      *)
(* remembered. So the replies are those to earlier packets, o of them, and *)
(* then those to this one, at place c.                                     *)
(***************************************************************************)

\* Messages of the first gateway on a connection for id.
Single(kind, number, item) ==
    [kind |-> kind, pid |-> number, auth |-> TRUE,
     services |-> <<[number |-> number, pair |-> "auth", items |-> <<item>>]>>]
Message(m, id) ==
    \/ \E r \in Records : ~Unfit(r) /\ id \in Given(r) /\ m = Data(r)
    \/ id \in Ids /\ \E n : m = Single("identity", n, id)
    \/ AuthEnabled /\ \E n : m = Single("credentials", n, "right")

\* What the second gateway has to know before it reads such a message, and what it
\* knows afterwards.
Ready(m, id, k) ==
    /\ m.kind # "identity" => k.source = id
    /\ m.kind = "data" /\ AuthEnabled /\ password = "right" => k.authorized
Post(m, id, k) ==
    /\ k.source = id
    /\ m.kind # "identity" /\ AuthEnabled /\ password = "right" => k.authorized

\* The order in which a call sends its messages.
Before(m, n) ==
    \/ m.kind = "identity" /\ (n.kind = "credentials" \/ (n.kind = "data" /\ ~AuthEnabled))
    \/ m.kind = "credentials" /\ n.kind = "data"

IsHistory(s) == \E S : s \in Seq(S)

ClientInv ==
    /\ conn \in BOOLEAN /\ IsHistory(sent)
    /\ at \in {"idle", "dialing", "checking", "sending", "receiving"}
    /\ at = "dialing" => ~conn
    /\ result = "ok" => at = "idle"
    /\ at # "idle" => call.record \in Records /\ ~Unfit(call.record) /\ call.identity \in Given(call.record)
    /\ at \in {"checking", "sending", "receiving"} =>
          /\ conn /\ todo # <<>> /\ IsHistory(todo)
          /\ todo[Len(todo)] = Data(call.record)
          /\ \A k \in 1..Len(todo) : Message(todo[k], call.identity)
          /\ \A k \in 1..(Len(todo) - 1) : Before(todo[k], todo[k + 1])
          /\ Len(todo) = 1 => identity = call.identity

Histories ==
    /\ IsHistory(line) /\ IsHistory(replies) /\ IsHistory(queued)
    /\ received \in Nat /\ received <= Len(line) /\ heard \in Nat
    /\ known.authorized \in BOOLEAN /\ next.authorized \in BOOLEAN /\ password \in Passwords

LineInv(c) ==
    /\ c \in 0..Len(line) /\ (c = 0 => Len(line) = 0)
    /\ c > 0 => line[c].message # Ack
    /\ \A i \in 1..Len(line) :
          /\ i > c => line[i].message = Ack
          /\ line[i].message # Ack => Message(line[i].message, line[i].for) /\ (i > received => i = c)
    /\ conn /\ at = "idle" => c > 0 /\ line[c].message.kind = "data" /\ line[c].for = identity

\* How many replies message c gets.
Full(c) == IF line[c].message.auth THEN 2 ELSE 1
InQueue(c) ==
    \E i \in 1..Len(queued) :
        /\ queued[i].n = c /\ queued[i].packet = Wire(line[c].message)
        /\ line[c].message.kind = "data" => queued[i].source = line[c].for

ReplyInv(c, o) ==
    /\ o \in 0..Len(replies) /\ (c = 0 => Len(replies) = 0)
    /\ handler \in {"reading", "waiting", "answering", "result", "closed"}
    \* while the handler is at it
    /\ handler \in {"waiting", "answering", "result"} =>
          /\ received = c /\ c > 0 /\ packet = Wire(line[c].message)
          /\ code \in {"ok", "denied", "unavailable"}
          /\ code = "denied" => ~(password = "right" /\ AuthEnabled)
          /\ code = "ok" => (request \/ InQueue(c)) /\ Post(line[c].message, line[c].for, next)
          /\ request => line[c].message.auth
          /\ Remote!AuthRequest(packet) <=> line[c].message.auth
    /\ handler \in {"waiting", "answering"} => Len(replies) = o
    /\ handler = "result" =>
          Len(replies) = o + 1 /\ line[c].message.auth /\ replies[o + 1].code = code
    \* before and after
    /\ received < c => Len(replies) = o /\ handler \in {"reading", "closed"} /\ Ready(line[c].message, line[c].for, known)
    /\ handler = "reading" /\ received >= c /\ c > 0 => Len(replies) = o + Full(c)
    /\ c > 0 /\ Len(replies) = o + Full(c) =>
          /\ handler \in {"reading", "closed"} /\ received >= c
          /\ replies[o + 1].code = "ok" => Post(line[c].message, line[c].for, known)
    \* the replies themselves
    /\ \A i \in 1..Len(replies) : i > o => replies[i].n = c
    /\ Len(replies) > o =>
          /\ c > 0 /\ Len(replies) <= o + Full(c)
          /\ replies[o + 1].kind = "response"
          /\ replies[o + 1].code = "ok" => request \/ InQueue(c)
          /\ request => line[c].message.auth
          /\ Len(replies) = o + 2 => replies[o + 2].code = replies[o + 1].code
                                      /\ replies[o + 2].kind = IF request THEN "params" ELSE "result"

LinkInv(c, o) ==
    /\ o <= heard /\ heard <= Len(replies)
    /\ conn /\ at \in {"idle", "checking", "sending"} =>
          /\ heard = Len(replies)
          /\ c > 0 => Len(replies) = o + Full(c) /\ replies[o + 1].code = "ok"
    /\ at \in {"checking", "sending"} => Ready(Head(todo), call.identity, known) /\ handler \in {"reading", "closed"}
    /\ at = "receiving" =>
          /\ c > 0 /\ line[c] = [message |-> Head(todo), for |-> call.identity]
          /\ \/ heard = o /\ wait = WaitFor(Head(todo))
             \/ /\ heard = o + 1 /\ line[c].message.auth /\ replies[o + 1].code = "ok"
                /\ wait = [pending |-> {}, transport |-> TRUE, auth |-> FALSE, required |-> FALSE]
    /\ result = "ok" =>
          c > 0 /\ line[c].message = Data(call.record) /\ line[c].for = call.identity /\ InQueue(c)

QueueInv ==
    /\ \A i \in 1..Len(queued) : queued[i].n \in 1..received
    /\ UnderIts /\ NeverDenied

IInv ==
    /\ ClientInv /\ Histories /\ QueueInv
    /\ \E c \in Nat, o \in Nat : LineInv(c) /\ ReplyInv(c, o) /\ LinkInv(c, o)

----------------------------------------------------------------------------
\* What appending to a history does.
LEMMA Appended ==
    ASSUME NEW s, NEW x, IsHistory(s)
    PROVE  /\ IsHistory(Append(s, x))
           /\ Len(s) \in Nat /\ Len(Append(s, x)) = Len(s) + 1
           /\ DOMAIN s = 1..Len(s) /\ DOMAIN Append(s, x) = 1..(Len(s) + 1)
           /\ \A i \in 1..Len(s) : Append(s, x)[i] = s[i]
           /\ Append(s, x)[Len(s) + 1] = x
<1>1. PICK S : s \in Seq(S)
  BY DEF IsHistory
<1>2. s \in Seq(S \union {x}) /\ x \in S \union {x}
  BY <1>1
<1>3. Append(s, x) \in Seq(S \union {x}) /\ Len(Append(s, x)) = Len(s) + 1 /\ Len(s) \in Nat
  BY <1>2
<1>4. DOMAIN s = 1..Len(s) /\ DOMAIN Append(s, x) = 1..(Len(s) + 1)
  BY <1>2, <1>3
<1>5. \A i \in 1..Len(s) : Append(s, x)[i] = s[i]
  BY <1>2, <1>3
<1>6. Append(s, x)[Len(s) + 1] = x
  BY <1>2, <1>3
<1> QED BY <1>3, <1>4, <1>5, <1>6 DEF IsHistory

LEMMA EmptyHistory ==
    IsHistory(<<>>) /\ Len(<<>>) = 0
BY DEF IsHistory

----------------------------------------------------------------------------
\* Messages as the second gateway reads them.

LEMMA Kinds ==
    ASSUME NEW m, NEW id, Message(m, id)
    PROVE  /\ m.kind \in {"data", "identity", "credentials"} /\ m # Ack
           /\ m.auth \in BOOLEAN
           /\ m.kind = "data" => \E r \in Records : ~Unfit(r) /\ id \in Given(r) /\ m = Data(r)
           /\ m.kind = "identity" => id \in Ids /\ \E n : m = Single("identity", n, id)
           /\ m.kind = "credentials" => AuthEnabled /\ \E n : m = Single("credentials", n, "right")
<1>1. ASSUME NEW r \in Records, m = Data(r)
      PROVE  m.kind = "data" /\ m.auth \in BOOLEAN
  BY <1>1 DEF Data, Names
<1>2. ASSUME NEW n, m = Single("identity", n, id)
      PROVE  m.kind = "identity" /\ m.auth \in BOOLEAN
  BY <1>2 DEF Single
<1>3. ASSUME NEW n, m = Single("credentials", n, "right")
      PROVE  m.kind = "credentials" /\ m.auth \in BOOLEAN
  BY <1>3 DEF Single
<1>4. m.kind \in {"data", "identity", "credentials"} /\ m.auth \in BOOLEAN
  BY <1>1, <1>2, <1>3 DEF Message
<1>5. m # Ack
  BY <1>4 DEF Ack
<1> QED BY <1>1, <1>2, <1>3, <1>4, <1>5 DEF Message

\* The items of a packet, service by service.
LEMMA AuthItemsAre ==
    ASSUME NEW p, NEW x
    PROVE  /\ x \in AuthItems(p) <=>
                \E i \in DOMAIN p.services : p.services[i].pair = "auth" /\
                   \E k \in DOMAIN p.services[i].items : p.services[i].items[k] = x
           /\ x \in Remote!AuthItems(p) <=>
                \E i \in DOMAIN p.services : p.services[i].pair = "auth" /\
                   \E k \in DOMAIN p.services[i].items : p.services[i].items[k] = x
<1>1. \A s : s \in Of(p, TRUE) <=> \E i \in DOMAIN p.services : p.services[i].pair = "auth" /\ s = p.services[i]
  BY DEF Of, ToSet
<1>2. \A s : s \in Remote!Of(p, TRUE) <=> \E i \in DOMAIN p.services : p.services[i].pair = "auth" /\ s = p.services[i]
  BY DEF Remote!Of, Remote!ToSet
<1>3. \A f : (x \in ToSet(f) <=> \E k \in DOMAIN f : f[k] = x) /\ (x \in Remote!ToSet(f) <=> \E k \in DOMAIN f : f[k] = x)
  BY DEF ToSet, Remote!ToSet
<1>4. x \in AuthItems(p) <=> \E s \in Of(p, TRUE) : x \in ToSet(s.items)
  BY DEF AuthItems, ItemsOf
<1>5. x \in Remote!AuthItems(p) <=> \E s \in Remote!Of(p, TRUE) : x \in Remote!ToSet(s.items)
  BY DEF Remote!AuthItems, Remote!ItemsOf
<1>6. x \in AuthItems(p) <=>
        \E i \in DOMAIN p.services : p.services[i].pair = "auth" /\ x \in ToSet(p.services[i].items)
  BY <1>1, <1>4
<1>7. x \in Remote!AuthItems(p) <=>
        \E i \in DOMAIN p.services : p.services[i].pair = "auth" /\ x \in Remote!ToSet(p.services[i].items)
  BY <1>2, <1>5
<1> QED BY <1>3, <1>6, <1>7

\* No packet names two identities last.
LEMMA OneLast ==
    ASSUME NEW p, NEW x, NEW y, DOMAIN p.services \subseteq Int,
           \A i \in DOMAIN p.services : DOMAIN p.services[i].items \subseteq Int,
           NamedLast(p, x), NamedLast(p, y)
    PROVE  x = y
<1>1. PICK i \in DOMAIN p.services : \E k \in DOMAIN p.services[i].items :
        /\ NamedAt(p, i, k) /\ p.services[i].items[k] = x
        /\ \A j \in DOMAIN p.services : \A l \in DOMAIN p.services[j].items :
             NamedAt(p, j, l) => j < i \/ (j = i /\ l <= k)
  BY DEF NamedLast
<1>2. PICK k \in DOMAIN p.services[i].items :
        /\ NamedAt(p, i, k) /\ p.services[i].items[k] = x
        /\ \A j \in DOMAIN p.services : \A l \in DOMAIN p.services[j].items :
             NamedAt(p, j, l) => j < i \/ (j = i /\ l <= k)
  BY <1>1
<1>3. PICK j \in DOMAIN p.services : \E l \in DOMAIN p.services[j].items :
        /\ NamedAt(p, j, l) /\ p.services[j].items[l] = y
        /\ \A h \in DOMAIN p.services : \A g \in DOMAIN p.services[h].items :
             NamedAt(p, h, g) => h < j \/ (h = j /\ g <= l)
  BY DEF NamedLast
<1>4. PICK l \in DOMAIN p.services[j].items :
        /\ NamedAt(p, j, l) /\ p.services[j].items[l] = y
        /\ \A h \in DOMAIN p.services : \A g \in DOMAIN p.services[h].items :
             NamedAt(p, h, g) => h < j \/ (h = j /\ g <= l)
  BY <1>3
<1>5. (j < i \/ (j = i /\ l <= k)) /\ (i < j \/ (i = j /\ k <= l))
  BY <1>2, <1>4
<1>6. i \in Int /\ j \in Int /\ k \in Int /\ l \in Int
  OBVIOUS
<1>7. i = j
  BY ONLY <1>5, <1>6
<1>8. k = l
  BY ONLY <1>5, <1>6
<1> QED BY <1>2, <1>4, <1>7, <1>8


LEMMA WireData ==
    ASSUME NEW r \in Records, NEW id, NEW m, NEW p, ~Unfit(r), id \in Given(r), m = Data(r), p = Wire(m)
    PROVE  /\ p.type = "appdata" /\ ~p.broken
           /\ ~Remote!HasCredentials(p)
           /\ Remote!AuthItems(p) \intersect Logins = {}
           /\ Remote!AuthRequest(p) <=> m.auth
           /\ Remote!Names(p) <=> m.auth
           /\ Remote!Names(p) => Remote!LastNamed(p) = id
<1>1. m.services = r.services /\ m.auth = Names(r) /\ m # Ack
  BY DEF Data, Ack
<1>2. /\ p.type = "appdata" /\ p.broken = FALSE
      /\ p.services = [i \in DOMAIN r.services |->
                         [pair |-> r.services[i].pair,
                          items |-> [k \in DOMAIN r.services[i].items |->
                                       IF r.services[i].items[k] \in Logins THEN password
                                       ELSE r.services[i].items[k]]]]
  BY <1>1 DEF Wire
<1>3. ASSUME NEW i \in DOMAIN r.services, NEW k \in DOMAIN r.services[i].items
      PROVE  r.services[i].items[k] \notin Logins
  <2>1. r.services[i].items[k] \in ItemsOf(ToSet(r.services))
    <3>1. r.services[i] \in ToSet(r.services)
      BY DEF ToSet
    <3>2. r.services[i].items[k] \in ToSet(r.services[i].items)
      BY DEF ToSet
    <3> QED BY <3>1, <3>2 DEF ItemsOf
  <2> QED BY <2>1 DEF Unfit, HasCredentials
<1>4. /\ DOMAIN p.services = DOMAIN r.services
      /\ \A i \in DOMAIN r.services :
           /\ p.services[i].pair = r.services[i].pair
           /\ DOMAIN p.services[i].items = DOMAIN r.services[i].items
           /\ \A k \in DOMAIN r.services[i].items : p.services[i].items[k] = r.services[i].items[k]
  <2>1. DOMAIN p.services = DOMAIN r.services
    BY <1>2
  <2>2. ASSUME NEW i \in DOMAIN r.services
        PROVE  /\ p.services[i].pair = r.services[i].pair
               /\ p.services[i].items = [k \in DOMAIN r.services[i].items |->
                                           IF r.services[i].items[k] \in Logins THEN password
                                           ELSE r.services[i].items[k]]
    BY <1>2
  <2>3. ASSUME NEW i \in DOMAIN r.services
        PROVE  /\ DOMAIN p.services[i].items = DOMAIN r.services[i].items
               /\ \A k \in DOMAIN r.services[i].items : p.services[i].items[k] = r.services[i].items[k]
    BY <1>3, <2>2
  <2> QED BY <2>1, <2>2, <2>3
<1>5. \A x : x \in Remote!AuthItems(p) <=> x \in AuthItems(r)
  <2>1. ASSUME NEW x PROVE x \in Remote!AuthItems(p) <=> x \in AuthItems(r)
    <3>1. x \in Remote!AuthItems(p) <=>
            \E i \in DOMAIN p.services : p.services[i].pair = "auth" /\
               \E k \in DOMAIN p.services[i].items : p.services[i].items[k] = x
      BY AuthItemsAre
    <3>2. x \in AuthItems(r) <=>
            \E i \in DOMAIN r.services : r.services[i].pair = "auth" /\
               \E k \in DOMAIN r.services[i].items : r.services[i].items[k] = x
      BY AuthItemsAre
    <3> QED BY <1>4, <3>1, <3>2
  <2> QED BY <2>1
<1>6. Remote!AuthItems(p) \intersect Logins = {}
  <2>1. ASSUME NEW x \in Remote!AuthItems(p) PROVE x \notin Logins
    <3>1. \E i \in DOMAIN r.services : r.services[i].pair = "auth" /\
               \E k \in DOMAIN r.services[i].items : r.services[i].items[k] = x
      BY <1>5, AuthItemsAre
    <3> QED BY <1>3, <3>1
  <2> QED BY <2>1
<1>7. Remote!Names(p) <=> m.auth
  <2>1. Remote!Names(p) <=> Names(r)
    BY <1>5 DEF Remote!Names, Names
  <2> QED BY <1>1, <2>1
<1>8. Remote!AuthRequest(p) <=> m.auth
  <2>1. Remote!AuthRequest(p) <=> Remote!Names(p)
    BY <1>6 DEF Remote!AuthRequest, Remote!Names, Logins, Remote!Logins
  <2> QED BY <1>7, <2>1
<1>9. ~Remote!HasCredentials(p)
  <2>1. ASSUME NEW x \in Remote!ItemsOf(Remote!ToSet(p.services)) PROVE x \notin Logins
    <3>1. PICK s \in Remote!ToSet(p.services) : x \in Remote!ToSet(s.items)
      BY DEF Remote!ItemsOf
    <3>2. PICK i \in DOMAIN p.services : s = p.services[i]
      BY DEF Remote!ToSet
    <3>3. PICK k \in DOMAIN p.services[i].items : x = p.services[i].items[k]
      BY <3>1, <3>2 DEF Remote!ToSet
    <3> QED BY <1>3, <1>4, <3>3
  <2> QED BY <2>1 DEF Remote!HasCredentials, Logins, Remote!Logins
<1>10. ASSUME Remote!Names(p) PROVE Remote!LastNamed(p) = id
  <2>1. \A i, k : Remote!NamedAt(p, i, k) <=> NamedAt(r, i, k)
    BY <1>4 DEF NamedAt, Remote!NamedAt
  <2>2. ASSUME NEW x PROVE Remote!NamedLast(p, x) <=> NamedLast(r, x)
    BY <1>4, <2>1 DEF NamedLast, Remote!NamedLast
  <2>3. id \in Ids /\ NamedLast(r, id)
    BY <1>1, <1>7, <1>10 DEF Given
  <2>4. ASSUME NEW x \in Ids, NamedLast(r, x) PROVE x = id
    <3>1. r.services \in Seq([number : Nat, pair : STRING, items : Seq(Items)])
      BY ChainAssumption
    <3>2. DOMAIN r.services \subseteq Int
      BY <3>1
    <3>3. \A i \in DOMAIN r.services : r.services[i] \in [number : Nat, pair : STRING, items : Seq(Items)]
      <4> DEFINE S == [number : Nat, pair : STRING, items : Seq(Items)]
      <4>1. r.services \in Seq(S)
        BY <3>1
      <4> HIDE DEF S
      <4>2. \A i \in DOMAIN r.services : r.services[i] \in S
        BY <4>1
      <4> QED BY <4>2 DEF S
    <3>4. \A i \in DOMAIN r.services : r.services[i].items \in Seq(Items)
      BY <3>3
    <3>5. \A i \in DOMAIN r.services : DOMAIN r.services[i].items \subseteq Int
      BY <3>4
    <3> QED BY <2>3, <2>4, <3>2, <3>5, OneLast
  <2> QED BY <2>2, <2>3, <2>4 DEF Remote!LastNamed
<1> QED BY <1>2, <1>6, <1>7, <1>8, <1>9, <1>10

LEMMA WireSingle ==
    ASSUME NEW kind, NEW n, NEW item, NEW m, m = Single(kind, n, item), kind # "ack", NEW p, p = Wire(m),
           NEW said, said = IF item \in Logins THEN password ELSE item
    PROVE  /\ p.type = "appdata" /\ ~p.broken /\ m.auth
           /\ \A x : x \in Remote!AuthItems(p) <=> x = said
           /\ (said \in Ids => Remote!OnlyIdentity(p)) /\ ~Remote!HasData(p)
           /\ Remote!HasCredentials(p) => said \in Logins
           /\ item \notin Logins /\ item \in Ids => Remote!LastNamed(p) = item
<1>1. /\ m # Ack /\ m.auth /\ m.services = <<[number |-> n, pair |-> "auth", items |-> <<item>>]>>
  BY DEF Single, Ack
<1>2. /\ DOMAIN m.services = {1} /\ m.services[1].pair = "auth"
      /\ DOMAIN m.services[1].items = {1} /\ m.services[1].items[1] = item
  BY <1>1
<1>3. /\ p.type = "appdata" /\ p.broken = FALSE
      /\ p.services = [i \in DOMAIN m.services |->
                         [pair |-> m.services[i].pair,
                          items |-> [k \in DOMAIN m.services[i].items |->
                                       IF m.services[i].items[k] \in Logins THEN password
                                       ELSE m.services[i].items[k]]]]
  BY <1>1 DEF Wire
<1>4. /\ DOMAIN p.services = {1} /\ p.services[1].pair = "auth"
      /\ DOMAIN p.services[1].items = {1} /\ p.services[1].items[1] = said
  <2>1. /\ DOMAIN p.services = {1}
        /\ p.services[1] = [pair |-> m.services[1].pair,
                            items |-> [k \in DOMAIN m.services[1].items |->
                                         IF m.services[1].items[k] \in Logins THEN password
                                         ELSE m.services[1].items[k]]]
    BY <1>2, <1>3
  <2> QED BY <1>2, <2>1
<1>5. \A x : x \in Remote!AuthItems(p) <=> x = said
  <2>1. \A x : x \in Remote!AuthItems(p) <=>
            \E i \in DOMAIN p.services : p.services[i].pair = "auth" /\
               \E k \in DOMAIN p.services[i].items : p.services[i].items[k] = x
    BY AuthItemsAre
  <2> QED BY <1>4, <2>1
<1>6. (said \in Ids => Remote!OnlyIdentity(p)) /\ ~Remote!HasData(p)
  <2>1. Remote!Of(p, FALSE) = {}
    BY <1>4 DEF Remote!Of, Remote!ToSet
  <2>2. p.services # <<>>
    BY <1>4
  <2>3. said \in Ids => Remote!AuthItems(p) \subseteq Ids
    BY <1>5
  <2> QED BY <2>1, <2>2, <2>3 DEF Remote!HasData, Remote!OnlyIdentity
<1>7. Remote!HasCredentials(p) => said \in Logins
  <2>1. ASSUME NEW x \in Remote!ItemsOf(Remote!ToSet(p.services)) PROVE x = said
    <3>1. PICK s \in Remote!ToSet(p.services) : x \in Remote!ToSet(s.items)
      BY DEF Remote!ItemsOf
    <3>2. s = p.services[1]
      BY <1>4 DEF Remote!ToSet
    <3>3. PICK k \in DOMAIN p.services[1].items : x = p.services[1].items[k]
      BY <3>1, <3>2 DEF Remote!ToSet
    <3> QED BY <1>4, <3>3
  <2> QED BY <2>1 DEF Remote!HasCredentials, Logins, Remote!Logins
<1>8. ASSUME item \notin Logins, item \in Ids PROVE Remote!LastNamed(p) = item
  <2>1. said = item
    BY <1>8
  <2>2. \A i, k : Remote!NamedAt(p, i, k) <=> i = 1 /\ k = 1
    BY <1>4, <1>8, <2>1 DEF Remote!NamedAt
  <2>3. \A x : Remote!NamedLast(p, x) <=> x = item
    BY <1>4, <2>1, <2>2 DEF Remote!NamedLast
  <2> QED BY <1>8, <2>3 DEF Remote!LastNamed
<1> QED BY <1>1, <1>3, <1>5, <1>6, <1>7, <1>8


\* What the handler makes of a message it is ready for.
LEMMA Decides ==
    ASSUME NEW m, NEW id, Message(m, id), NEW p, p = Wire(m),
           Ready(m, id, known), known.authorized \in BOOLEAN, password \in Passwords
    PROVE  /\ p.type = "appdata" /\ ~p.broken /\ ~Remote!Mixed(p)
           /\ Remote!AuthRequest(p) <=> m.auth
           /\ Remote!Asks(p) => m.auth
           /\ Remote!NextOf(p).authorized \in BOOLEAN
           /\ Post(m, id, Remote!NextOf(p))
           /\ Remote!Denied(p) => ~(password = "right" /\ AuthEnabled)
<1>n. /\ Remote!NextOf(p).authorized = (known.authorized \/ "right" \in Remote!AuthItems(p))
      /\ Remote!NextOf(p).source = Remote!Said(p, known.source)
  BY DEF Remote!NextOf
<1>d. Remote!Denied(p) =>
        \/ Remote!AuthItems(p) \intersect {"wrong", "sequenced"} # {}
        \/ ~Remote!NextOf(p).authorized /\ ~Remote!Asks(p)
  BY DEF Remote!Denied
<1>1. CASE m.kind = "data"
  <2>1. PICK r \in Records : ~Unfit(r) /\ id \in Given(r) /\ m = Data(r)
    BY <1>1, Kinds
  <2>2. /\ p.type = "appdata" /\ ~p.broken /\ ~Remote!HasCredentials(p)
        /\ Remote!AuthItems(p) \intersect Logins = {}
        /\ Remote!AuthRequest(p) <=> m.auth
        /\ Remote!Names(p) <=> m.auth
        /\ Remote!Names(p) => Remote!LastNamed(p) = id
    BY <2>1, WireData
  <2>3. Remote!Said(p, known.source) = id
    BY <1>1, <2>2 DEF Remote!Said, Ready
  <2>4. /\ Remote!NextOf(p).authorized \in BOOLEAN
        /\ AuthEnabled /\ password = "right" => Remote!NextOf(p).authorized
    BY <1>1, <1>n DEF Ready
  <2>5. Remote!Asks(p) => m.auth
    BY <2>2 DEF Remote!Asks
  <2>6. Remote!AuthItems(p) \intersect {"wrong", "sequenced"} = {}
    BY <2>2 DEF Logins
  <2> QED BY <1>n, <1>d, <2>2, <2>3, <2>4, <2>5, <2>6 DEF Remote!Mixed, Post
<1>2. CASE m.kind = "identity"
  <2>1. id \in Ids /\ \E n : m = Single("identity", n, id)
    BY <1>2, Kinds
  <2>2. id \notin Logins
    BY <2>1, IdAssumption
  <2>3. /\ p.type = "appdata" /\ ~p.broken /\ m.auth
        /\ Remote!AuthItems(p) = {id}
        /\ Remote!OnlyIdentity(p) /\ ~Remote!HasData(p)
        /\ Remote!LastNamed(p) = id
    <3>1. PICK n : m = Single("identity", n, id)
      BY <2>1
    <3>2. "identity" # "ack" /\ id = IF id \in Logins THEN password ELSE id
      BY <2>2
    <3>3. /\ p.type = "appdata" /\ ~p.broken /\ m.auth
          /\ \A x : x \in Remote!AuthItems(p) <=> x = id
          /\ (id \in Ids => Remote!OnlyIdentity(p)) /\ ~Remote!HasData(p)
          /\ id \notin Logins /\ id \in Ids => Remote!LastNamed(p) = id
      BY <3>1, <3>2, WireSingle
    <3>4. Remote!AuthItems(p) = {id}
      BY <3>3
    <3> QED BY <2>1, <2>2, <3>3, <3>4
  <2>4. Remote!Names(p) /\ Remote!AuthRequest(p) /\ Remote!OnlyIdentity(p)
    BY <2>1, <2>3 DEF Remote!Names, Remote!AuthRequest
  <2>5. Remote!Said(p, known.source) = id
    BY <2>3, <2>4 DEF Remote!Said
  <2>6. Remote!AuthItems(p) \intersect {"wrong", "sequenced"} = {}
    BY <2>2, <2>3 DEF Logins
  <2>7. Remote!Asks(p) \/ Remote!NextOf(p).authorized
    BY <1>n, <2>4 DEF Remote!Asks
  <2> QED BY <1>2, <1>n, <1>d, <2>3, <2>4, <2>5, <2>6, <2>7 DEF Remote!Mixed, Post
<1>3. CASE m.kind = "credentials"
  <2>1. AuthEnabled /\ \E n : m = Single("credentials", n, "right")
    BY <1>3, Kinds
  <2>2. "right" \in Logins /\ password \in Logins /\ password \notin Ids
    BY ChainAssumption, IdAssumption DEF Logins
  <2>3. /\ p.type = "appdata" /\ ~p.broken /\ m.auth
        /\ Remote!AuthItems(p) = {password}
        /\ ~Remote!HasData(p)
    <3>1. PICK n : m = Single("credentials", n, "right")
      BY <2>1
    <3>2. "credentials" # "ack" /\ password = IF "right" \in Logins THEN password ELSE "right"
      BY <2>2
    <3>3. /\ p.type = "appdata" /\ ~p.broken /\ m.auth
          /\ \A x : x \in Remote!AuthItems(p) <=> x = password
          /\ ~Remote!HasData(p)
      BY <3>1, <3>2, WireSingle
    <3>4. Remote!AuthItems(p) = {password}
      BY <3>3
    <3> QED BY <3>3, <3>4
  <2>4. ~Remote!Names(p) /\ Remote!AuthRequest(p)
    BY <2>2, <2>3 DEF Remote!Names, Remote!AuthRequest, Logins, Remote!Logins
  <2>5. Remote!Said(p, known.source) = id
    BY <1>3, <2>4 DEF Remote!Said, Ready
  <2>6. password = "right" => Remote!NextOf(p).authorized /\ Remote!AuthItems(p) \intersect {"wrong", "sequenced"} = {}
    BY <1>n, <2>3
  <2> QED BY <1>3, <1>n, <1>d, <2>3, <2>4, <2>5, <2>6 DEF Remote!Mixed, Post
<1> QED BY <1>1, <1>2, <1>3, Kinds

\* A message done with makes the handler ready for the one that follows.
LEMMA PostReady ==
    ASSUME NEW m, NEW n, NEW id, NEW k, Post(m, id, k), Before(m, n)
    PROVE  Ready(n, id, k)
BY DEF Post, Before, Ready


----------------------------------------------------------------------------
\* The steps of the second gateway.

LEMMA FullIs ==
    ASSUME NEW c PROVE Full(c) \in {1, 2} /\ (Full(c) = 2 <=> line[c].message.auth)
BY DEF Full

\* While the handler has a message before it, or part of its answer, the first
\* gateway waits for that, or has given the connection up.
LEMMA Awaited ==
    ASSUME ClientInv, NEW c \in Nat, NEW o \in Nat, LinkInv(c, o), c > 0, Len(replies) # o + Full(c)
    PROVE  ~(conn /\ at \in {"idle", "checking", "sending"}) /\ at \notin {"checking", "sending"}
BY DEF ClientInv, LinkInv

\* A step of the handler disturbs nothing that is the first gateway's own.
LEMMA HandlerFrame ==
    ASSUME ClientInv, NEW c \in Nat, LineInv(c), UNCHANGED <<clientVars, linkVars>>,
           received' = received \/ (received' = received + 1 /\ received \in Nat)
    PROVE  ClientInv' /\ LineInv(c)'
<1>1. UNCHANGED <<conn, identity, at, call, todo, result, line, password, heard, wait, sent>>
  BY DEF clientVars, callVars, linkVars
<1>2. ClientInv'
  BY <1>1 DEF ClientInv, IsHistory
<1>3. /\ c \in 0..Len(line)' /\ (c = 0 => Len(line') = 0)
      /\ c > 0 => line'[c].message # Ack
      /\ conn' /\ at' = "idle" => c > 0 /\ line'[c].message.kind = "data" /\ line'[c].for = identity'
  BY <1>1 DEF LineInv
<1>4. ASSUME NEW i \in 1..Len(line')
      PROVE  /\ i > c => line'[i].message = Ack
             /\ line'[i].message # Ack => Message(line'[i].message, line'[i].for) /\ (i > received' => i = c)
  <2>1. i \in 1..Len(line) /\ line' = line
    BY <1>1, <1>4
  <2>2. i > received' => i > received
    BY <2>1
  <2> QED BY <1>1, <2>1, <2>2 DEF LineInv
<1> QED BY <1>2, <1>3, <1>4 DEF LineInv

\* The queue of the second gateway only grows, so what is in it stays there.
LEMMA InQueueStays ==
    ASSUME NEW c, InQueue(c), IsHistory(queued), line' = line, password' = password, NEW q, queued' \in {queued, Append(queued, q)}
    PROVE  InQueue(c)'
<1>1. PICK i \in 1..Len(queued) :
        /\ queued[i].n = c /\ queued[i].packet = Wire(line[c].message)
        /\ line[c].message.kind = "data" => queued[i].source = line[c].for
  BY DEF InQueue
<1>2. i \in 1..Len(queued') /\ queued'[i] = queued[i]
  BY Appended
<1>3. Wire(line[c].message)' = Wire(line[c].message)
  BY DEF Wire
<1> QED BY <1>1, <1>2, <1>3 DEF InQueue

\* The handler has decided about a message.
LEMMA DecideKeeps ==
    ASSUME ClientInv, Histories, QueueInv, NEW c \in Nat, NEW o \in Nat, LineInv(c), ReplyInv(c, o), LinkInv(c, o),
           received + 1 = c, received' = c, received < Len(line),
           handler' \in {"waiting", "answering"}, packet' = Wire(line[c].message),
           code' \in {"ok", "denied", "unavailable"}, code' = "denied" => ~(password = "right" /\ AuthEnabled),
           next'.authorized \in BOOLEAN, Post(line[c].message, line[c].for, next'),
           request' => line[c].message.auth, Remote!AuthRequest(packet') <=> line[c].message.auth,
           NEW q, q.n = c, q.packet = packet', q.source = next'.source, queued' \in {queued, Append(queued, q)},
           code' = "ok" => request' \/ queued' = Append(queued, q),
           UNCHANGED <<known, replies, clientVars, linkVars>>
    PROVE  IInv'
<1>1. UNCHANGED <<conn, identity, at, call, todo, result, line, password, heard, wait, known, replies>>
  BY DEF clientVars, callVars, linkVars
<1>2. ClientInv' /\ LineInv(c)'
  BY HandlerFrame DEF Histories
<1>3. /\ Len(replies) = o /\ c > 0 /\ Full(c)' = Full(c) /\ Full(c) \in {1, 2}
      /\ Len(replies) # o + Full(c)
  <2>1. Len(replies) = o /\ c > 0
    BY DEF ReplyInv, Histories
  <2>2. Full(c)' = Full(c)
    BY <1>1 DEF Full
  <2> QED BY <2>1, <2>2, FullIs
<1>4. /\ Len(queued) \in Nat /\ IsHistory(queued')
      /\ queued' = Append(queued, q) =>
            Len(queued') = Len(queued) + 1 /\ queued'[Len(queued) + 1] = q
            /\ \A i \in 1..Len(queued) : queued'[i] = queued[i]
      /\ DOMAIN queued = 1..Len(queued) /\ DOMAIN queued' = 1..Len(queued')
  <2>1. IsHistory(queued)
    BY DEF Histories
  <2>2. /\ IsHistory(Append(queued, q))
        /\ Len(queued) \in Nat /\ Len(Append(queued, q)) = Len(queued) + 1
        /\ DOMAIN queued = 1..Len(queued) /\ DOMAIN Append(queued, q) = 1..(Len(queued) + 1)
        /\ \A i \in 1..Len(queued) : Append(queued, q)[i] = queued[i]
        /\ Append(queued, q)[Len(queued) + 1] = q
    BY <2>1, Appended
  <2>3. CASE queued' = queued /\ queued # Append(queued, q)
    BY <2>1, <2>2, <2>3
  <2>4. CASE queued' = Append(queued, q)
    BY <2>2, <2>4
  <2> QED BY <2>3, <2>4
<1>5. Histories'
  <2>1. received' \in Nat /\ received' <= Len(line')
    BY <1>1, <1>2 DEF LineInv
  <2> QED BY <1>1, <1>4, <2>1 DEF Histories
<1>6. queued' = Append(queued, q) => InQueue(c)'
  <2>1. Wire(line[c].message)' = Wire(line[c].message)
    BY <1>1 DEF Wire
  <2>2. next'.source = line[c].for
    BY DEF Post
  <2>3. ASSUME queued' = Append(queued, q) PROVE InQueue(c)'
    <3>1. Len(queued) + 1 \in 1..Len(queued') /\ queued'[Len(queued) + 1] = q
      BY <1>4, <2>3
    <3> QED BY <1>1, <2>1, <2>2, <3>1 DEF InQueue
  <2> QED BY <2>3
<1>7. Post(line[c].message, line[c].for, next)'
  BY <1>1 DEF Post
<1>8. ReplyInv(c, o)'
  <2>1. ~(Len(replies') > o) /\ o \in 0..Len(replies')
    BY <1>1, <1>3
  <2>2. ~(received' < c) /\ c > 0
    BY <1>3
  <2>3. \A i \in 1..Len(replies') : ~(i > o)
    BY <1>1, <1>3
  <2>4. Remote!AuthRequest(packet)' <=> Remote!AuthRequest(packet')
    BY DEF Remote!AuthRequest
  <2>5. Wire(line[c].message)' = Wire(line[c].message)
    BY <1>1 DEF Wire
  <2> QED BY <1>1, <1>3, <1>6, <1>7, <2>1, <2>2, <2>3, <2>4, <2>5 DEF ReplyInv
<1>9. LinkInv(c, o)'
  <2>1. ~(conn /\ at \in {"idle", "checking", "sending"}) /\ at \notin {"checking", "sending"}
    BY <1>3, Awaited
  <2>2. result = "ok" => InQueue(c)'
    <3>1. result = "ok" => InQueue(c)
      BY DEF LinkInv
    <3> QED BY <1>1, <3>1, InQueueStays DEF Histories
  <2>3. WaitFor(Head(todo))' = WaitFor(Head(todo))
    BY <1>1
  <2> QED BY <1>1, <2>1, <2>2, <2>3 DEF LinkInv
<1>10. ASSUME NEW i \in 1..Len(queued'), i \notin 1..Len(queued)
       PROVE  i = Len(queued) + 1 /\ queued'[i] = q
  <2>1. queued' = Append(queued, q)
    BY <1>10
  <2>2. Len(queued') = Len(queued) + 1 /\ Len(queued) \in Nat
    BY <1>4, <2>1
  <2>3. i = Len(queued) + 1
    BY <1>10, <2>2
  <2> QED BY <1>4, <2>1, <2>3
<1>12. QueueInv'
  <2>1. \A i \in 1..Len(queued') : queued'[i].n \in 1..received'
    <3>1. ASSUME NEW i \in 1..Len(queued') PROVE queued'[i].n \in 1..received'
      <4>1. CASE i \in 1..Len(queued)
        <5>1. queued[i].n \in 1..received
          BY <4>1 DEF QueueInv
        <5>2. queued'[i] = queued[i]
          BY <1>4, <4>1
        <5> QED BY <5>1, <5>2 DEF Histories
      <4>2. CASE i \notin 1..Len(queued)
        <5>1. i = Len(queued) + 1 /\ queued'[i] = q
          BY <1>10, <3>1, <4>2
        <5> QED BY <1>3, <5>1
      <4> QED BY <4>1, <4>2
    <3> QED BY <3>1
  <2>2. UnderIts'
    <3>1. ASSUME NEW i \in 1..Len(queued'), line[queued'[i].n].message.kind = "data"
          PROVE  queued'[i].source = line[queued'[i].n].for
      <4>1. CASE i \in 1..Len(queued)
        <5>1. queued'[i] = queued[i]
          BY <1>4, <4>1
        <5> QED BY <1>4, <3>1, <4>1, <5>1 DEF QueueInv, UnderIts
      <4>2. CASE i \notin 1..Len(queued)
        <5>1. i = Len(queued) + 1 /\ queued'[i] = q
          BY <1>10, <3>1, <4>2
        <5> QED BY <5>1 DEF Post
      <4> QED BY <4>1, <4>2
    <3> QED BY <1>1, <1>4, <3>1 DEF UnderIts
  <2>3. NeverDenied'
    BY <1>1 DEF QueueInv, NeverDenied
  <2> QED BY <2>1, <2>2, <2>3 DEF QueueInv
<1> QED BY <1>2, <1>5, <1>8, <1>9, <1>12 DEF IInv


\* An answer to the second gateway's own packets is passed over.
LEMMA PassesOver ==
    ASSUME ClientInv, Histories, QueueInv, NEW c \in Nat, NEW o \in Nat, LineInv(c), ReplyInv(c, o), LinkInv(c, o),
           received + 1 # c, received' = received + 1, received < Len(line), handler = "reading",
           UNCHANGED <<handler, packet, code, request, next, known, queued, replies, clientVars, linkVars>>
    PROVE  IInv'
<1>1. UNCHANGED <<conn, identity, at, call, todo, result, line, password, heard, wait, known, replies, queued,
                  handler, packet, code, request, next>>
  BY DEF clientVars, callVars, linkVars
<1>2. received \in Nat /\ received' \in Nat /\ received' <= Len(line')
  <2>1. received \in Nat /\ Len(line) \in Nat
    BY Appended DEF Histories
  <2> QED BY <1>1, <2>1
<1>3. ClientInv' /\ LineInv(c)'
  BY <1>2, HandlerFrame
<1>4. Histories'
  BY <1>1, <1>2 DEF Histories
<1>5. (received' < c <=> received < c) /\ (received' >= c <=> received >= c)
  BY <1>2
<1>6. /\ Wire(line[c].message)' = Wire(line[c].message) /\ Full(c)' = Full(c)
      /\ InQueue(c) <=> InQueue(c)'
  <2>1. Wire(line[c].message)' = Wire(line[c].message)
    BY <1>1 DEF Wire
  <2> QED BY <1>1, <2>1 DEF Full, InQueue
<1>7. ReplyInv(c, o)'
  <2>1. /\ o \in 0..Len(replies') /\ (c = 0 => Len(replies') = 0)
        /\ handler' = "reading"
        /\ received' < c => Len(replies') = o /\ Ready(line[c].message, line[c].for, known)'
        /\ handler' = "reading" /\ received' >= c /\ c > 0 => Len(replies') = o + Full(c)'
    BY <1>1, <1>5, <1>6 DEF ReplyInv, Ready
  <2>2. c > 0 /\ Len(replies') = o + Full(c)' =>
          /\ handler' \in {"reading", "closed"} /\ received' >= c
          /\ replies'[o + 1].code = "ok" => Post(line[c].message, line[c].for, known)'
    BY <1>1, <1>5, <1>6 DEF ReplyInv, Post
  <2>3. \A i \in 1..Len(replies') : i > o => replies'[i].n = c
    BY <1>1 DEF ReplyInv
  <2>4. Len(replies') > o =>
          /\ c > 0 /\ Len(replies') <= o + Full(c)'
          /\ replies'[o + 1].kind = "response"
          /\ replies'[o + 1].code = "ok" => request' \/ InQueue(c)'
          /\ request' => line'[c].message.auth
          /\ Len(replies') = o + 2 => replies'[o + 2].code = replies'[o + 1].code
                                      /\ replies'[o + 2].kind = IF request' THEN "params" ELSE "result"
    BY <1>1, <1>6 DEF ReplyInv
  <2> QED BY <2>1, <2>2, <2>3, <2>4 DEF ReplyInv
<1>8. LinkInv(c, o)'
  BY <1>1, <1>6 DEF LinkInv, Ready, WaitFor, Keys, NoWait
<1>9. QueueInv'
  <2>1. ASSUME NEW i \in 1..Len(queued') PROVE queued'[i].n \in 1..received'
    <3>1. queued[i].n \in 1..received /\ queued' = queued
      BY <1>1 DEF QueueInv
    <3> QED BY <1>2, <3>1
  <2>2. UnderIts' /\ NeverDenied'
    BY <1>1 DEF QueueInv, UnderIts, NeverDenied
  <2> QED BY <2>1, <2>2 DEF QueueInv
<1> QED BY <1>3, <1>4, <1>7, <1>8, <1>9 DEF IInv

LEMMA ReadKeeps ==
    ASSUME IInv, HandlerReads PROVE IInv'
<1>1. PICK c \in Nat, o \in Nat : LineInv(c) /\ ReplyInv(c, o) /\ LinkInv(c, o)
  BY DEF IInv
<1>2. ClientInv /\ Histories /\ QueueInv /\ received < Len(line) /\ UNCHANGED <<clientVars, linkVars>>
  BY DEF IInv, HandlerReads
<1>3. PICK p : /\ p = Wire(line[received + 1].message)
               /\ \/ Remote!Ignore(p) \/ Remote!Deny(p) \/ Remote!Ask(p) \/ Remote!Enqueue(p)
                  \/ \E err \in {"unavailable", "mixed"} : Remote!Refuse(p, err)
  BY DEF HandlerReads
<1>4. /\ handler = "reading" /\ received' = received + 1 /\ received + 1 \in 1..Len(line)
      /\ received \in Nat /\ received + 1 > received
  <2>1. received \in Nat /\ Len(line) \in Nat
    BY <1>2, Appended DEF Histories
  <2>2. Remote!Receive(p)
    BY <1>3 DEF Remote!Ignore, Remote!Deny, Remote!Ask, Remote!Enqueue, Remote!Refuse, Remote!Intact
  <2>3. handler = "reading" /\ received' = received + 1
    BY <2>2 DEF Remote!Receive
  <2> QED BY <1>2, <2>1, <2>3
<1>5. CASE line[received + 1].message = Ack
  <2>1. p.type = "other"
    BY <1>3, <1>5 DEF Wire
  <2>2. Remote!Ignore(p)
    BY <1>3, <2>1 DEF Remote!Deny, Remote!Ask, Remote!Enqueue, Remote!Refuse, Remote!Intact
  <2>3. UNCHANGED <<handler, packet, code, request, next, known, queued, replies>>
    BY <2>2 DEF Remote!Ignore, Remote!handlerVars
  <2>4. received + 1 # c
    BY <1>1, <1>4, <1>5 DEF LineInv
  <2> QED BY <1>1, <1>2, <1>4, <2>3, <2>4, PassesOver
<1>6. CASE line[received + 1].message # Ack
  <2> DEFINE m == line[c].message
             id == line[c].for
  <2>1. received + 1 = c /\ Message(m, id) /\ p = Wire(m)
    BY <1>1, <1>3, <1>4, <1>6 DEF LineInv
  <2>2. Ready(m, id, known) /\ known.authorized \in BOOLEAN /\ password \in Passwords
    BY <1>1, <1>2, <1>4, <2>1 DEF ReplyInv, Histories
  <2> HIDE DEF m, id
  <2>3. /\ p.type = "appdata" /\ ~p.broken /\ ~Remote!Mixed(p)
        /\ Remote!AuthRequest(p) <=> m.auth
        /\ Remote!Asks(p) => m.auth
        /\ Remote!NextOf(p).authorized \in BOOLEAN
        /\ Post(m, id, Remote!NextOf(p))
        /\ Remote!Denied(p) => ~(password = "right" /\ AuthEnabled)
    BY <2>1, <2>2, Decides
  <2>4. PICK q : q = [n |-> received', packet |-> p, source |-> Remote!NextOf(p).source, identity |-> Remote!NextOf(p).identity]
    OBVIOUS
  <2>5. q.n = c /\ q.packet = p /\ q.source = Remote!NextOf(p).source
    BY <1>4, <2>1, <2>4
  <2>6. /\ packet' = p /\ next' = Remote!NextOf(p) /\ UNCHANGED <<known, replies>>
        /\ handler' \in {"waiting", "answering"} /\ code' \in {"ok", "denied", "unavailable"}
        /\ code' = "denied" => Remote!Denied(p)
        /\ request' => Remote!Asks(p)
        /\ queued' \in {queued, Append(queued, q)}
        /\ code' = "ok" => request' \/ queued' = Append(queued, q)
    <3>1. CASE Remote!Deny(p)
      BY <2>3, <3>1 DEF Remote!Deny, Remote!Decide
    <3>2. CASE Remote!Ask(p)
      BY <2>3, <3>2 DEF Remote!Ask, Remote!Decide
    <3>3. CASE Remote!Enqueue(p)
      <4>1. Remote!Decide(p, "ok", FALSE, "waiting") /\ queued' = Append(queued, q)
        BY <2>4, <3>3 DEF Remote!Enqueue
      <4> QED BY <2>3, <4>1 DEF Remote!Decide
    <3>4. ASSUME NEW err \in {"unavailable", "mixed"}, Remote!Refuse(p, err)
          PROVE  /\ packet' = p /\ next' = Remote!NextOf(p) /\ UNCHANGED <<known, replies>>
                 /\ handler' \in {"waiting", "answering"} /\ code' \in {"ok", "denied", "unavailable"}
                 /\ code' = "denied" => Remote!Denied(p)
                 /\ request' => Remote!Asks(p)
                 /\ queued' \in {queued, Append(queued, q)}
                 /\ code' = "ok" => request' \/ queued' = Append(queued, q)
      <4>1. Remote!Decide(p, "unavailable", FALSE, "answering") /\ UNCHANGED queued
        BY <2>3, <3>4 DEF Remote!Refuse, Remote!Code
      <4> QED BY <2>3, <4>1 DEF Remote!Decide
    <3>5. ~Remote!Ignore(p)
      BY <2>3 DEF Remote!Ignore
    <3> QED BY <1>3, <3>1, <3>2, <3>3, <3>4, <3>5
  <2>7. Remote!AuthRequest(packet') <=> m.auth
    BY <2>3, <2>6
  <2> QED BY <1>1, <1>2, <1>4, <2>1, <2>3, <2>5, <2>6, <2>7, DecideKeeps DEF m, id
<1> QED BY <1>5, <1>6


\* A step that reads nothing and puts nothing in the queue.
LEMMA WorksOn ==
    ASSUME ClientInv, Histories, QueueInv, NEW c \in Nat, LineInv(c),
           UNCHANGED <<packet, code, request, next, received, queued, clientVars, linkVars>>
    PROVE  /\ UNCHANGED <<conn, identity, at, call, todo, result, line, password, heard, wait>>
           /\ ClientInv' /\ LineInv(c)' /\ (NeverDenied' => QueueInv')
           /\ Wire(line[c].message)' = Wire(line[c].message) /\ Full(c)' = Full(c)
           /\ InQueue(c) <=> InQueue(c)'
           /\ (IsHistory(replies') /\ known'.authorized \in BOOLEAN => Histories')
<1>1. UNCHANGED <<conn, identity, at, call, todo, result, line, password, heard, wait>>
  BY DEF clientVars, callVars, linkVars
<1>2. ClientInv' /\ LineInv(c)'
  BY HandlerFrame
<1>3. Wire(line[c].message)' = Wire(line[c].message)
  BY <1>1 DEF Wire
<1>4. Full(c)' = Full(c) /\ (InQueue(c) <=> InQueue(c)')
  BY <1>1, <1>3 DEF Full, InQueue
<1>5. NeverDenied' => QueueInv'
  BY <1>1 DEF QueueInv, UnderIts
<1>6. IsHistory(replies') /\ known'.authorized \in BOOLEAN => Histories'
  BY <1>1 DEF Histories
<1> QED BY <1>1, <1>2, <1>3, <1>4, <1>5, <1>6

\* The packet is delivered, or the handler is lost.
LEMMA MovesKeep ==
    ASSUME IInv, Remote!Delivered \/ Remote!Lost, UNCHANGED <<clientVars, linkVars>> PROVE IInv'
<1>1. PICK c \in Nat, o \in Nat : LineInv(c) /\ ReplyInv(c, o) /\ LinkInv(c, o)
  BY DEF IInv
<1>2. ClientInv /\ Histories /\ QueueInv
  BY DEF IInv
<1>3. /\ UNCHANGED <<packet, code, request, next, received, queued, clientVars, linkVars>>
      /\ UNCHANGED <<known, replies>>
      /\ \/ handler = "waiting" /\ handler' = "answering"
         \/ handler' = "closed"
  BY DEF Remote!Delivered, Remote!Lost
<1>4. /\ UNCHANGED <<conn, identity, at, call, todo, result, line, password, heard, wait>>
      /\ ClientInv' /\ LineInv(c)' /\ (NeverDenied' => QueueInv')
      /\ Wire(line[c].message)' = Wire(line[c].message) /\ Full(c)' = Full(c)
      /\ InQueue(c) <=> InQueue(c)'
      /\ (IsHistory(replies') /\ known'.authorized \in BOOLEAN => Histories')
  BY <1>1, <1>2, <1>3, WorksOn
<1>5. Histories' /\ QueueInv'
  BY <1>2, <1>3, <1>4 DEF Histories, QueueInv, NeverDenied
<1>6. /\ Post(line[c].message, line[c].for, known)' = Post(line[c].message, line[c].for, known)
      /\ Post(line[c].message, line[c].for, next)' = Post(line[c].message, line[c].for, next)
      /\ Ready(line[c].message, line[c].for, known)' = Ready(line[c].message, line[c].for, known)
      /\ Remote!AuthRequest(packet)' = Remote!AuthRequest(packet)
  BY <1>3, <1>4 DEF Post, Ready, Remote!AuthRequest, Remote!AuthItems, Remote!ItemsOf, Remote!Of
<1>7. ReplyInv(c, o)'
  <2>1. /\ o \in 0..Len(replies') /\ (c = 0 => Len(replies') = 0)
        /\ handler' \in {"answering", "closed"}
        /\ handler' = "answering" => handler = "waiting"
    BY <1>1, <1>3 DEF ReplyInv
  <2>2. handler' = "answering" =>
          /\ received' = c /\ c > 0 /\ packet' = Wire(line[c].message)'
          /\ code' \in {"ok", "denied", "unavailable"}
          /\ code' = "denied" => ~(password' = "right" /\ AuthEnabled)
          /\ code' = "ok" => (request' \/ InQueue(c)') /\ Post(line[c].message, line[c].for, next)'
          /\ request' => line'[c].message.auth
          /\ Remote!AuthRequest(packet)' <=> line'[c].message.auth
          /\ Len(replies') = o
    BY <1>1, <1>3, <1>4, <1>6, <2>1 DEF ReplyInv
  <2>3. /\ received' < c => Len(replies') = o /\ handler' \in {"reading", "closed"}
                            /\ Ready(line[c].message, line[c].for, known)'
        /\ c > 0 /\ Len(replies') = o + Full(c)' =>
              /\ handler' \in {"reading", "closed"} /\ received' >= c
              /\ replies'[o + 1].code = "ok" => Post(line[c].message, line[c].for, known)'
    <3>1. ~(received < c /\ handler = "waiting") /\ ~(c > 0 /\ Len(replies) = o + Full(c) /\ handler = "waiting")
      BY <1>1 DEF ReplyInv
    <3> QED BY <1>1, <1>3, <1>4, <1>6, <2>1, <3>1 DEF ReplyInv
  <2>4. \A i \in 1..Len(replies') : i > o => replies'[i].n = c
    BY <1>1, <1>3 DEF ReplyInv
  <2>5. Len(replies') > o =>
          /\ c > 0 /\ Len(replies') <= o + Full(c)'
          /\ replies'[o + 1].kind = "response"
          /\ replies'[o + 1].code = "ok" => request' \/ InQueue(c)'
          /\ request' => line'[c].message.auth
          /\ Len(replies') = o + 2 => replies'[o + 2].code = replies'[o + 1].code
                                      /\ replies'[o + 2].kind = IF request' THEN "params" ELSE "result"
    BY <1>1, <1>3, <1>4 DEF ReplyInv
  <2> QED BY <2>1, <2>2, <2>3, <2>4, <2>5 DEF ReplyInv
<1>8. LinkInv(c, o)'
  <2>1. handler = "waiting" => ~(at \in {"checking", "sending"})
    BY <1>1 DEF LinkInv
  <2>2. /\ Ready(Head(todo), call.identity, known)' = Ready(Head(todo), call.identity, known)
        /\ WaitFor(Head(todo))' = WaitFor(Head(todo))
    BY <1>3, <1>4 DEF Ready, WaitFor, Keys
  <2> QED BY <1>1, <1>3, <1>4, <2>1, <2>2 DEF LinkInv
<1> QED BY <1>4, <1>5, <1>7, <1>8 DEF IInv

\* An answer, after which the handler goes on to the result or is done.
LEMMA AnswerKeeps ==
    ASSUME ClientInv, Histories, QueueInv, NEW c \in Nat, NEW o \in Nat, LineInv(c), ReplyInv(c, o), LinkInv(c, o),
           handler \in {"answering", "result"}, NEW x, replies' = Append(replies, x), x.n = received, x.code = code,
           x.kind = IF handler = "answering" THEN "response" ELSE IF request THEN "params" ELSE "result",
           IF handler = "answering" /\ Remote!AuthRequest(packet)
           THEN handler' = "result" /\ known' = known
           ELSE handler' \in {"reading", "closed"} /\ known' = IF code = "ok" THEN next ELSE known,
           UNCHANGED <<packet, code, request, next, received, queued, clientVars, linkVars>>
    PROVE  IInv'
<1>1. /\ UNCHANGED <<conn, identity, at, call, todo, result, line, password, heard, wait>>
      /\ ClientInv' /\ LineInv(c)' /\ (NeverDenied' => QueueInv')
      /\ Wire(line[c].message)' = Wire(line[c].message) /\ Full(c)' = Full(c)
      /\ InQueue(c) <=> InQueue(c)'
      /\ (IsHistory(replies') /\ known'.authorized \in BOOLEAN => Histories')
  BY WorksOn
<1>2. /\ received = c /\ c > 0 /\ packet = Wire(line[c].message)
      /\ code \in {"ok", "denied", "unavailable"}
      /\ code = "denied" => ~(password = "right" /\ AuthEnabled)
      /\ code = "ok" => (request \/ InQueue(c)) /\ Post(line[c].message, line[c].for, next)
      /\ request => line[c].message.auth
      /\ Remote!AuthRequest(packet) <=> line[c].message.auth
  BY DEF ReplyInv
<1>3. /\ handler = "answering" => Len(replies) = o
      /\ handler = "result" => Len(replies) = o + 1 /\ line[c].message.auth /\ replies[o + 1].code = code
                               /\ replies[o + 1].kind = "response"
  BY DEF ReplyInv
<1>4. Full(c) \in {1, 2} /\ (Full(c) = 2 <=> line[c].message.auth)
  BY FullIs
<1>5. /\ IsHistory(replies') /\ Len(replies) \in Nat /\ Len(replies') = Len(replies) + 1
      /\ DOMAIN replies = 1..Len(replies) /\ DOMAIN replies' = 1..(Len(replies) + 1)
      /\ \A i \in 1..Len(replies) : replies'[i] = replies[i]
      /\ replies'[Len(replies) + 1] = x
  BY Appended DEF Histories
<1>6. Histories'
  BY <1>1, <1>5 DEF Histories
<1>7. NeverDenied'
  <2>1. ASSUME password = "right" /\ AuthEnabled, NEW i \in 1..(Len(replies) + 1)
        PROVE  replies'[i].code \notin {"denied", "mixed"}
    <3>1. CASE i \in 1..Len(replies)
      BY <1>5, <2>1, <3>1 DEF QueueInv, NeverDenied
    <3>2. CASE i = Len(replies) + 1
      BY <1>2, <1>5, <2>1, <3>2
    <3> QED BY <1>5, <3>1, <3>2
  <2> QED BY <1>1, <1>5, <2>1 DEF NeverDenied
<1>8. /\ handler = "answering" => Len(replies') = o + 1 /\ Len(replies) + 1 = o + 1
      /\ handler = "result" => Len(replies') = o + 2 /\ o + 1 \in 1..Len(replies)
      /\ o + 1 # o + 2
  <2>1. PICK n \in Nat : n = Len(replies)
    BY <1>5
  <2>2. n = o + 1 => n + 1 = o + 2 /\ o + 1 \in 1..n
    BY ONLY n \in Nat, o \in Nat
  <2>3. o + 1 # o + 2
    BY ONLY o \in Nat
  <2>4. handler = "answering" => n = o
    BY <1>3, <2>1
  <2>5. handler = "result" => n = o + 1
    BY <1>3, <2>1
  <2>6. Len(replies') = n + 1
    BY <1>5, <2>1
  <2>7. CASE handler = "answering"
    BY <2>1, <2>3, <2>4, <2>6, <2>7
  <2>8. CASE handler = "result"
    BY <2>1, <2>2, <2>3, <2>5, <2>6, <2>8
  <2> QED BY <2>7, <2>8
<1>9. /\ Len(replies') \in {o + 1, o + 2}
      /\ Len(replies') = o + 1 <=> handler = "answering"
      /\ Len(replies') = o + Full(c) <=> handler' # "result"
      /\ Len(replies') <= o + Full(c)
  <2>1. CASE handler = "answering"
    <3>1. handler' # "result" <=> Full(c) = 1
      BY <1>2, <1>4, <2>1
    <3>2. Len(replies') = o + Full(c) <=> Full(c) = 1
      BY <1>4, <1>8, <2>1
    <3> QED BY <1>4, <1>8, <2>1, <3>1, <3>2
  <2>2. CASE handler = "result"
    <3>1. handler' # "result" /\ Full(c) = 2
      BY <1>3, <1>4, <2>2
    <3> QED BY <1>8, <2>2, <3>1
  <2> QED BY <2>1, <2>2
<1>10. replies'[o + 1].kind = "response" /\ replies'[o + 1].code = code
  <2>1. CASE handler = "answering"
    <3>1. replies'[o + 1] = x
      BY <1>5, <1>8, <2>1
    <3> QED BY <2>1, <3>1
  <2>2. CASE handler = "result"
    <3>1. replies'[o + 1] = replies[o + 1]
      BY <1>5, <1>8, <2>2
    <3> QED BY <1>3, <2>2, <3>1
  <2> QED BY <2>1, <2>2
<1>11. ReplyInv(c, o)'
  <2>1. /\ o \in 0..Len(replies') /\ c > 0
        /\ handler' \in {"reading", "result", "closed"}
    BY <1>2, <1>9
  <2>2. handler' = "result" =>
          /\ received' = c /\ c > 0 /\ packet' = Wire(line[c].message)'
          /\ code' \in {"ok", "denied", "unavailable"}
          /\ code' = "denied" => ~(password' = "right" /\ AuthEnabled)
          /\ code' = "ok" => (request' \/ InQueue(c)') /\ Post(line[c].message, line[c].for, next)'
          /\ request' => line'[c].message.auth
          /\ Remote!AuthRequest(packet)' <=> line'[c].message.auth
          /\ Len(replies') = o + 1 /\ line'[c].message.auth /\ replies'[o + 1].code = code'
    <3>1. Remote!AuthRequest(packet)' <=> line'[c].message.auth
      BY <1>1, <1>2 DEF Remote!AuthRequest, Remote!AuthItems, Remote!ItemsOf, Remote!Of
    <3>2. Post(line[c].message, line[c].for, next)' <=> Post(line[c].message, line[c].for, next)
      BY <1>1 DEF Post
    <3>3. handler' = "result" => handler = "answering" /\ Remote!AuthRequest(packet)
      OBVIOUS
    <3> QED BY <1>1, <1>2, <1>9, <1>10, <3>1, <3>2, <3>3
  <2>3. /\ ~(received' < c) /\ received' >= c
        /\ handler' = "reading" => Len(replies') = o + Full(c)'
    BY <1>1, <1>2, <1>9
  <2>4. Len(replies') = o + Full(c)' =>
              /\ handler' \in {"reading", "closed"}
              /\ replies'[o + 1].code = "ok" => Post(line[c].message, line[c].for, known)'
    <3>1. code = "ok" /\ handler' # "result" => Post(line[c].message, line[c].for, known)'
      BY <1>1, <1>2 DEF Post
    <3> QED BY <1>1, <1>9, <1>10, <2>1, <3>1
  <2>5. \A i \in 1..Len(replies') : i > o => replies'[i].n = c
    <3>1. ASSUME NEW i \in 1..(Len(replies) + 1), i > o PROVE replies'[i].n = c
      <4>1. CASE i \in 1..Len(replies)
        BY <1>5, <3>1, <4>1 DEF ReplyInv
      <4>2. CASE i = Len(replies) + 1
        BY <1>2, <1>5, <4>2
      <4> QED BY <1>5, <4>1, <4>2
    <3> QED BY <1>5, <3>1
  <2>6. Len(replies') = o + 2 => replies'[o + 2].code = replies'[o + 1].code
                                  /\ replies'[o + 2].kind = IF request' THEN "params" ELSE "result"
    <3>1. ASSUME Len(replies') = o + 2 PROVE handler = "result" /\ replies'[o + 2] = x
      <4>1. handler = "result" /\ Len(replies) + 1 = o + 2
        BY <1>5, <1>8, <3>1
      <4> QED BY <1>5, <4>1
    <3> QED BY <1>10, <3>1
  <2>7. (replies'[o + 1].code = "ok" => request' \/ InQueue(c)') /\ (request' => line'[c].message.auth)
    BY <1>1, <1>2, <1>10
  <2> QED BY <1>1, <1>9, <1>10, <2>1, <2>2, <2>3, <2>4, <2>5, <2>6, <2>7 DEF ReplyInv
<1>12. LinkInv(c, o)'
  <2>1. Len(replies) # o + Full(c)
    <3>1. handler = "result" => Full(c) = 2
      BY <1>3, <1>4
    <3>2. PICK n \in Nat, f \in {1, 2} : n = Len(replies) /\ f = Full(c)
      BY <1>4, <1>5
    <3>3. n = o \/ (n = o + 1 /\ f = 2)
      BY <1>3, <3>1, <3>2
    <3>4. n # o + f
      BY ONLY <3>3, n \in Nat, o \in Nat, f \in {1, 2}
    <3> QED BY <3>2, <3>4
  <2>2. ~(conn /\ at \in {"idle", "checking", "sending"}) /\ at \notin {"checking", "sending"}
    BY <1>2, <2>1, Awaited
  <2>3. o <= heard /\ heard <= Len(replies) /\ heard \in Nat
    BY DEF LinkInv, Histories
  <2>4. heard' <= Len(replies')
    BY <1>1, <1>5, <2>3
  <2>5. at = "receiving" =>
          /\ c > 0 /\ line[c] = [message |-> Head(todo), for |-> call.identity]
          /\ \/ heard = o /\ wait = WaitFor(Head(todo))
             \/ /\ heard = o + 1 /\ line[c].message.auth /\ replies'[o + 1].code = "ok"
                /\ wait = [pending |-> {}, transport |-> TRUE, auth |-> FALSE, required |-> FALSE]
    <3>1. heard = o + 1 => replies'[o + 1] = replies[o + 1]
      BY <1>5, <2>3
    <3> QED BY <3>1 DEF LinkInv
  <2>6. WaitFor(Head(todo))' = WaitFor(Head(todo))
    BY <1>1 DEF WaitFor, Keys
  <2> QED BY <1>1, <2>2, <2>3, <2>4, <2>5, <2>6 DEF LinkInv
<1> QED BY <1>1, <1>6, <1>7, <1>11, <1>12 DEF IInv

LEMMA HandlerKeeps ==
    ASSUME IInv, HandlerElse PROVE IInv'
<1>1. PICK c \in Nat, o \in Nat : LineInv(c) /\ ReplyInv(c, o) /\ LinkInv(c, o)
  BY DEF IInv
<1>2. ClientInv /\ Histories /\ QueueInv /\ UNCHANGED <<clientVars, linkVars>>
  BY DEF IInv, HandlerElse
<1>3. CASE Remote!Respond
  <2>1. PICK x : /\ replies' = Append(replies, x) /\ x.n = received /\ x.code = code /\ x.kind = "response"
    BY <1>3 DEF Remote!Respond
  <2>2. handler = "answering" /\ UNCHANGED <<packet, code, request, next, received, queued>>
    BY <1>3 DEF Remote!Respond
  <2>3. code # "damaged"
    BY <1>1, <2>2 DEF ReplyInv
  <2>4. IF Remote!AuthRequest(packet)
        THEN handler' = "result" /\ known' = known
        ELSE handler' \in {"reading", "closed"} /\ known' = IF code = "ok" THEN next ELSE known
    BY <1>3, <2>3 DEF Remote!Respond, Remote!Done, Remote!Learned
  <2> QED BY <1>1, <1>2, <2>1, <2>2, <2>4, AnswerKeeps
<1>4. CASE Remote!Result
  <2>1. PICK x : /\ replies' = Append(replies, x) /\ x.n = received /\ x.code = code
                 /\ x.kind = IF request THEN "params" ELSE "result"
    BY <1>4 DEF Remote!Result
  <2>2. handler = "result" /\ UNCHANGED <<packet, code, request, next, received, queued>>
    BY <1>4 DEF Remote!Result
  <2>3. handler' \in {"reading", "closed"} /\ known' = IF code = "ok" THEN next ELSE known
    BY <1>4 DEF Remote!Result, Remote!Done, Remote!Learned
  <2> QED BY <1>1, <1>2, <2>1, <2>2, <2>3, AnswerKeeps
<1> QED BY <1>2, <1>3, <1>4, MovesKeep DEF HandlerElse


----------------------------------------------------------------------------
\* The steps of the first gateway.

\* While the second gateway does nothing and nothing is sent, only the last two
\* parts of the invariant can change.
LEMMA NothingMoves ==
    ASSUME Histories, QueueInv, NEW c \in Nat, NEW o \in Nat, ReplyInv(c, o), UNCHANGED <<handlerVars, password, line>>,
           heard' \in Nat
    PROVE  /\ Histories' /\ QueueInv' /\ ReplyInv(c, o)' /\ (InQueue(c)' <=> InQueue(c)) /\ Full(c)' = Full(c)
           /\ UNCHANGED <<known, handler, packet, code, request, next, received, queued, replies>>
<1>1. UNCHANGED <<known, handler, packet, code, request, next, received, queued, replies, line, password>>
  BY DEF handlerVars
<1>2. Histories' /\ QueueInv'
  BY <1>1 DEF Histories, QueueInv, UnderIts, NeverDenied
<1>3. /\ Wire(line[c].message)' = Wire(line[c].message)
      /\ Post(line[c].message, line[c].for, known)' <=> Post(line[c].message, line[c].for, known)
      /\ Post(line[c].message, line[c].for, next)' <=> Post(line[c].message, line[c].for, next)
      /\ Ready(line[c].message, line[c].for, known)' <=> Ready(line[c].message, line[c].for, known)
      /\ Remote!AuthRequest(packet)' <=> Remote!AuthRequest(packet)
  BY <1>1 DEF Wire, Post, Ready, Remote!AuthRequest, Remote!AuthItems, Remote!ItemsOf, Remote!Of
<1>4. (InQueue(c)' <=> InQueue(c)) /\ Full(c)' = Full(c)
  BY <1>1, <1>3 DEF InQueue, Full
<1>5. ReplyInv(c, o)'
  BY <1>1, <1>3, <1>4 DEF ReplyInv
<1> QED BY <1>1, <1>2, <1>4, <1>5

\* A call that ends with an error leaves no connection.
LEMMA AbortKeeps ==
    ASSUME IInv, Abort, UNCHANGED <<handlerVars, password, line>>,
           heard' = heard \/ (heard' = heard + 1 /\ heard < Len(replies))
    PROVE  IInv'
<1>1. PICK c \in Nat, o \in Nat : LineInv(c) /\ ReplyInv(c, o) /\ LinkInv(c, o)
  BY DEF IInv
<1>2. ClientInv /\ Histories /\ QueueInv
  BY DEF IInv
<1>3. heard \in Nat /\ Len(replies) \in Nat /\ o <= heard /\ heard <= Len(replies)
  BY <1>1, <1>2, Appended DEF Histories, LinkInv
<1>4. heard' \in Nat /\ o <= heard' /\ heard' <= Len(replies)
  BY <1>3
<1>5. /\ Histories' /\ QueueInv' /\ ReplyInv(c, o)'
      /\ UNCHANGED <<known, handler, packet, code, request, next, received, queued, replies>>
  BY <1>1, <1>2, <1>4, NothingMoves
<1>6. conn' = FALSE /\ at' = "idle" /\ result' = "error" /\ sent' = <<>>
  BY DEF Abort, AfterError
<1>7. ClientInv'
  BY <1>6, EmptyHistory DEF ClientInv
<1>8. LineInv(c)'
  <2>1. \A i \in 1..Len(line) :
          /\ i > c => line[i].message = Ack
          /\ line[i].message # Ack => Message(line[i].message, line[i].for) /\ (i > received => i = c)
    BY <1>1 DEF LineInv
  <2> QED BY <1>1, <1>5, <1>6, <2>1 DEF LineInv
<1>9. LinkInv(c, o)'
  BY <1>4, <1>5, <1>6 DEF LinkInv
<1> QED BY <1>5, <1>7, <1>8, <1>9 DEF IInv

\* The packet to be sent is the same whenever it is looked at.
LEMMA Unaffected ==
    ASSUME IInv, UNCHANGED <<handlerVars, password, line, heard>>,
           UNCHANGED <<conn, identity, call, todo, wait, result, sent>>,
           at' = at \/ (at = "checking" /\ at' = "sending")
    PROVE  IInv'
<1>1. PICK c \in Nat, o \in Nat : LineInv(c) /\ ReplyInv(c, o) /\ LinkInv(c, o)
  BY DEF IInv
<1>2. ClientInv /\ Histories /\ QueueInv
  BY DEF IInv
<1>3. /\ Histories' /\ QueueInv' /\ ReplyInv(c, o)' /\ (InQueue(c)' <=> InQueue(c)) /\ Full(c)' = Full(c)
      /\ UNCHANGED <<known, handler, packet, code, request, next, received, queued, replies>>
  <2>1. heard' \in Nat
    BY <1>2 DEF Histories
  <2> QED BY <1>1, <1>2, <2>1, NothingMoves
<1>4. ClientInv'
  <2>1. ClientInv' <=>
          /\ conn \in BOOLEAN /\ IsHistory(sent)
          /\ at' \in {"idle", "dialing", "checking", "sending", "receiving"}
          /\ at' = "dialing" => ~conn
          /\ result = "ok" => at' = "idle"
          /\ at' # "idle" => call.record \in Records /\ ~Unfit(call.record) /\ call.identity \in Given(call.record)
          /\ at' \in {"checking", "sending", "receiving"} =>
                /\ conn /\ todo # <<>> /\ IsHistory(todo)
                /\ todo[Len(todo)] = Data(call.record)
                /\ \A k \in 1..Len(todo) : Message(todo[k], call.identity)
                /\ \A k \in 1..(Len(todo) - 1) : Before(todo[k], todo[k + 1])
                /\ Len(todo) = 1 => identity = call.identity
    BY DEF ClientInv
  <2> QED BY <1>2, <2>1 DEF ClientInv
<1>5. LineInv(c)'
  <2>1. \A i \in 1..Len(line) :
          /\ i > c => line[i].message = Ack
          /\ line[i].message # Ack => Message(line[i].message, line[i].for) /\ (i > received => i = c)
    BY <1>1 DEF LineInv
  <2> QED BY <1>1, <1>3, <2>1 DEF LineInv
<1>6. LinkInv(c, o)'
  <2>1. Ready(Head(todo), call.identity, known)' = Ready(Head(todo), call.identity, known)
    BY <1>3 DEF Ready
  <2>2. WaitFor(Head(todo))' = WaitFor(Head(todo))
    BY DEF WaitFor, Keys
  <2>3. CASE at' = at
    BY <1>1, <1>3, <2>1, <2>2, <2>3 DEF LinkInv
  <2>4. CASE at = "checking" /\ at' = "sending"
    BY <1>1, <1>3, <2>1, <2>4 DEF LinkInv
  <2> QED BY <2>3, <2>4
<1> QED BY <1>3, <1>4, <1>5, <1>6 DEF IInv

LEMMA ClientElseKeeps ==
    ASSUME IInv, ClientElse PROVE IInv'
<1>1. PICK c \in Nat, o \in Nat : LineInv(c) /\ ReplyInv(c, o) /\ LinkInv(c, o)
  BY DEF IInv
<1>2. ClientInv /\ Histories /\ QueueInv
  BY DEF IInv
<1>3. UNCHANGED <<handlerVars, password, line, heard>>
  BY DEF ClientElse, linkVars
<1>4. /\ Histories' /\ QueueInv' /\ ReplyInv(c, o)' /\ (InQueue(c)' <=> InQueue(c)) /\ Full(c)' = Full(c)
      /\ UNCHANGED <<known, handler, packet, code, request, next, received, queued, replies>>
  <2>1. heard' \in Nat
    BY <1>2, <1>3 DEF Histories
  <2> QED BY <1>1, <1>2, <1>3, <2>1, NothingMoves
<1>5. /\ \A i \in 1..Len(line) :
          /\ i > c => line[i].message = Ack
          /\ line[i].message # Ack => Message(line[i].message, line[i].for) /\ (i > received => i = c)
      /\ c \in 0..Len(line) /\ (c = 0 => Len(line) = 0)
      /\ c > 0 => line[c].message # Ack
      /\ conn /\ at = "idle" => c > 0 /\ line[c].message.kind = "data" /\ line[c].for = identity
  BY <1>1 DEF LineInv
<1>6. LineInv(c)' <=> (conn' /\ at' = "idle" => c > 0 /\ line[c].message.kind = "data" /\ line[c].for = identity')
  BY <1>3, <1>4, <1>5 DEF LineInv
<1>7. CASE Broken \/ Expire
  BY <1>3, <1>7, AbortKeeps DEF Broken, Expire
<1>8. ASSUME NEW r \in Records, NEW id \in Given(r), Reject(r, id) PROVE IInv'
  <2>1. at = "idle" /\ UNCHANGED <<conn, identity, at, todo, wait, sent>> /\ result' = "error"
    BY <1>8 DEF Reject
  <2>2. ClientInv'
    BY <1>2, <2>1 DEF ClientInv
  <2>3. LineInv(c)'
    BY <1>5, <1>6, <2>1
  <2>4. LinkInv(c, o)'
    BY <1>1, <1>3, <1>4, <2>1 DEF LinkInv
  <2> QED BY <1>4, <2>2, <2>3, <2>4 DEF IInv
<1>9. ASSUME NEW r \in Records, NEW id \in Given(r), Call(r, id) PROVE IInv'
  <2>1. /\ at = "idle" /\ ~Unfit(r) /\ UNCHANGED <<identity, closed, wait>> /\ result' = "none"
        /\ call'.record = r /\ call'.identity = id
    BY <1>9 DEF Call
  <2>2. CASE Usable(id)
    <3>1. at' = "checking" /\ todo' = <<Data(r)>> /\ conn' = conn /\ sent' = sent /\ conn /\ identity = id
      BY <1>9, <2>2 DEF Call, Usable
    <3>2. IsHistory(todo') /\ Len(todo') = 1 /\ todo'[1] = Data(r) /\ todo' # <<>> /\ Head(todo') = Data(r)
      <4>1. PICK d : d = Data(r)
        OBVIOUS
      <4>2. <<d>> \in Seq({d}) /\ Len(<<d>>) = 1 /\ <<d>>[1] = d /\ <<d>> # <<>> /\ Head(<<d>>) = d
        OBVIOUS
      <4> QED BY <3>1, <4>1, <4>2 DEF IsHistory
    <3>3. Message(Data(r), id)
      BY <2>1 DEF Message
    <3>4. ClientInv'
      <4>1. \A k \in 1..Len(todo') : Message(todo'[k], id)
        BY <3>2, <3>3
      <4> QED BY <1>2, <2>1, <3>1, <3>2, <4>1 DEF ClientInv
    <3>5. LineInv(c)'
      BY <1>6, <3>1
    <3>6. /\ c > 0 /\ line[c].message.kind = "data" /\ line[c].for = id
          /\ heard = Len(replies) /\ Len(replies) = o + Full(c) /\ replies[o + 1].code = "ok"
      BY <1>1, <1>5, <2>1, <3>1 DEF LinkInv
    <3>7. Post(line[c].message, id, known) /\ handler \in {"reading", "closed"}
      BY <1>1, <3>6 DEF ReplyInv
    <3>8. Ready(Head(todo), call.identity, known)'
      BY <1>3, <1>4, <2>1, <3>2, <3>6, <3>7 DEF Post, Ready
    <3>9. LinkInv(c, o)'
      BY <1>1, <1>3, <1>4, <2>1, <3>1, <3>6, <3>7, <3>8 DEF LinkInv
    <3> QED BY <1>4, <3>4, <3>5, <3>9 DEF IInv
  <2>3. CASE ~Usable(id)
    <3>1. at' = "dialing" /\ conn' = FALSE /\ sent' = <<>>
      BY <1>9, <2>3 DEF Call
    <3>2. ClientInv'
      BY <2>1, <3>1, EmptyHistory DEF ClientInv
    <3>3. LineInv(c)'
      BY <1>6, <3>1
    <3>4. LinkInv(c, o)'
      BY <1>1, <1>3, <1>4, <2>1, <3>1 DEF LinkInv
    <3> QED BY <1>4, <3>2, <3>3, <3>4 DEF IInv
  <2> QED BY <2>2, <2>3
<1>10. CASE Check \/ Cancel \/ Interrupt
  <2>1. /\ UNCHANGED <<conn, identity, call, todo, wait, result, sent>>
        /\ at' = at \/ (at = "checking" /\ at' = "sending")
    BY <1>10 DEF Check, Cancel, Interrupt, callVars
  <2> QED BY <1>3, <2>1, Unaffected
<1>11. CASE Close
  <2>1. at' = "idle" /\ conn' = FALSE /\ sent' = <<>> /\ result' = "none"
    BY <1>11 DEF Close
  <2>2. ClientInv'
    BY <2>1, EmptyHistory DEF ClientInv
  <2>3. LineInv(c)' /\ LinkInv(c, o)'
    BY <1>1, <1>3, <1>4, <1>6, <2>1 DEF LinkInv
  <2> QED BY <1>4, <2>2, <2>3 DEF IInv
<1> QED BY <1>7, <1>8, <1>9, <1>10, <1>11 DEF ClientElse


\* The packets that precede the data of a new connection.
LEMMA Prelude ==
    ASSUME NEW k, k.identity \in Ids \union {None}, NEW a, a = Authentication(k)
    PROVE  /\ IsHistory(a) /\ Len(a) \in Nat
           /\ \A i \in 1..Len(a) : Message(a[i], k.identity) /\ a[i].kind \in {"identity", "credentials"}
           /\ \A i \in 1..(Len(a) - 1) : a[i].kind = "identity" /\ a[i + 1].kind = "credentials"
           /\ Len(a) = 0 => k.identity = None /\ ~AuthEnabled
           /\ Len(a) > 0 => /\ a[1].kind = "identity" \/ k.identity = None
                            /\ a[Len(a)].kind = "credentials" \/ ~AuthEnabled
<1> PICK s : s = Presents(k)
  OBVIOUS
<1>1. \/ k.identity = None /\ ~AuthEnabled /\ s = <<>>
      \/ k.identity # None /\ ~AuthEnabled /\ s = <<k.identity>>
      \/ k.identity = None /\ AuthEnabled /\ s = <<"right">>
      \/ k.identity # None /\ AuthEnabled /\ s = <<k.identity, "right">>
  <2>1. CASE k.identity = None /\ ~AuthEnabled
    BY <2>1 DEF Presents
  <2>2. CASE k.identity # None /\ ~AuthEnabled
    BY <2>2 DEF Presents
  <2>3. CASE k.identity = None /\ AuthEnabled
    BY <2>3 DEF Presents
  <2>4. CASE k.identity # None /\ AuthEnabled
    <3>1. ASSUME NEW x, NEW y PROVE <<x>> \o <<y>> = <<x, y>>
      <4>1. PICK S : S = {x, y}
        OBVIOUS
      <4>2. <<x>> \in Seq(S) /\ <<y>> \in Seq(S) /\ Len(<<x>>) = 1 /\ Len(<<y>>) = 1
        BY <4>1
      <4>3. /\ <<x>> \o <<y>> \in Seq(S) /\ Len(<<x>> \o <<y>>) = 2
            /\ (<<x>> \o <<y>>)[1] = x /\ (<<x>> \o <<y>>)[2] = y
        BY <4>2
      <4>4. <<x>> \o <<y>> = [i \in 1..2 |-> (<<x>> \o <<y>>)[i]]
        BY <4>3
      <4>5. <<x, y>> = [i \in 1..2 |-> <<x, y>>[i]]
        OBVIOUS
      <4>6. \A i \in 1..2 : (<<x>> \o <<y>>)[i] = <<x, y>>[i]
        BY <4>3
      <4> QED BY <4>4, <4>5, <4>6
    <3> QED BY <2>4, <3>1 DEF Presents
  <2> QED BY <2>1, <2>2, <2>3, <2>4
<1>2. "right" \in Logins /\ (k.identity # None => k.identity \in Ids /\ k.identity \notin Logins)
  BY IdAssumption DEF Logins
<1>3. DOMAIN s = 1..Len(s) /\ Len(s) \in {0, 1, 2}
  BY <1>1
<1>4. /\ DOMAIN a = 1..Len(s)
      /\ \A i \in 1..Len(s) : \E n :
           a[i] = Single(IF s[i] \in Logins THEN "credentials" ELSE "identity", n, s[i])
  <2>1. a = [i \in DOMAIN s |->
               [kind |-> IF s[i] \in Logins THEN "credentials" ELSE "identity",
                pid |-> (k.record.pid - Len(s) + i - 1) % Numbers, auth |-> TRUE,
                services |-> <<[number |-> (k.record.pid - Len(s) + i - 1) % Numbers, pair |-> "auth",
                                items |-> <<s[i]>>]>>]]
    BY DEF Authentication
  <2>2. ASSUME NEW i \in DOMAIN s
        PROVE  a[i] = Single(IF s[i] \in Logins THEN "credentials" ELSE "identity",
                             (k.record.pid - Len(s) + i - 1) % Numbers, s[i])
    BY <2>1 DEF Single
  <2>3. DOMAIN a = DOMAIN s
    BY <2>1
  <2> QED BY <1>3, <2>2, <2>3
<1>5. IsHistory(a) /\ Len(a) = Len(s)
  <2>1. PICK S : S = {a[i] : i \in 1..Len(s)}
    OBVIOUS
  <2>2. a = [i \in 1..Len(s) |-> a[i]]
    <3>1. a = [i \in DOMAIN a |-> a[i]]
      BY DEF Authentication
    <3> QED BY <1>4, <3>1
  <2>3. a \in [1..Len(s) -> S]
    BY <2>1, <2>2
  <2>4. Len(s) \in Nat
    BY <1>3
  <2>5. a \in Seq(S)
    BY <2>3, <2>4
  <2> QED BY <1>4, <2>4, <2>5 DEF IsHistory
<1>6. ASSUME NEW i \in 1..Len(s)
      PROVE  /\ Message(a[i], k.identity) /\ a[i].kind \in {"identity", "credentials"}
             /\ a[i].kind = "identity" <=> s[i] \notin Logins
  <2>1. s[i] \in {k.identity, "right"}
    BY <1>1
  <2>2. PICK n : a[i] = Single(IF s[i] \in Logins THEN "credentials" ELSE "identity", n, s[i])
    BY <1>4
  <2>3. a[i].kind = IF s[i] \in Logins THEN "credentials" ELSE "identity"
    BY <2>2 DEF Single
  <2>4. CASE s[i] \in Logins
    <3>1. s[i] = "right" /\ AuthEnabled
      BY <1>1, <1>2, <2>4
    <3> QED BY <2>2, <2>3, <2>4, <3>1 DEF Message
  <2>5. CASE s[i] \notin Logins
    <3>1. s[i] = k.identity /\ k.identity \in Ids
      BY <1>1, <1>2, <2>5
    <3> QED BY <2>2, <2>3, <2>5, <3>1 DEF Message
  <2> QED BY <2>4, <2>5
<1>7. \A i \in 1..(Len(s) - 1) : a[i].kind = "identity" /\ a[i + 1].kind = "credentials"
  <2>1. ASSUME NEW i \in 1..(Len(s) - 1) PROVE a[i].kind = "identity" /\ a[i + 1].kind = "credentials"
    <3>1. PICK n \in {0, 1, 2} : n = Len(s)
      BY <1>3
    <3>2. i \in 1..(n - 1)
      BY <3>1
    <3>3. n = 2 /\ i = 1
      BY ONLY <3>2, n \in {0, 1, 2}
    <3>4. s # <<>> /\ \A x : s # <<x>>
      <4>1. Len(<<>>) = 0 /\ \A x : Len(<<x>>) = 1
        OBVIOUS
      <4>2. Len(s) # 0 /\ Len(s) # 1
        BY <3>1, <3>3
      <4> QED BY ONLY <4>1, <4>2
    <3>5. s = <<k.identity, "right">> /\ k.identity # None
      BY <1>1, <3>4
    <3>6. 1 \in 1..Len(s) /\ 2 \in 1..Len(s) /\ i + 1 = 2
      BY <3>1, <3>3
    <3>7. s[1] \notin Logins /\ s[2] \in Logins
      BY <1>2, <3>5
    <3> QED BY <1>6, <3>3, <3>6, <3>7
  <2> QED BY <2>1
<1>8. Len(s) > 0 => /\ a[1].kind = "identity" \/ k.identity = None
                    /\ a[Len(s)].kind = "credentials" \/ ~AuthEnabled
  <2>1. ASSUME Len(s) > 0 PROVE 1 \in 1..Len(s) /\ Len(s) \in 1..Len(s)
    BY <1>3, <2>1
  <2>2. ASSUME Len(s) > 0, k.identity # None PROVE s[1] \notin Logins
    BY <1>1, <1>2, <2>2
  <2>3. ASSUME Len(s) > 0, AuthEnabled PROVE s[Len(s)] \in Logins
    BY <1>1, <1>2, <2>3
  <2> QED BY <1>6, <2>1, <2>2, <2>3
<1>9. Len(s) = 0 => k.identity = None /\ ~AuthEnabled
  BY <1>1
<1> QED BY <1>3, <1>5, <1>6, <1>7, <1>8, <1>9

LEMMA ConnectKeeps ==
    ASSUME IInv, Connect PROVE IInv'
<1>1. ClientInv /\ Histories /\ QueueInv /\ at = "dialing"
  BY DEF IInv, Connect, Dial
<1>2. /\ at' = "checking" /\ conn' = TRUE /\ todo' = Append(Authentication(call), Data(call.record))
      /\ UNCHANGED <<call, wait, result, sent, password>>
      /\ Len(todo') = 1 => identity' = call.identity
  BY DEF Connect, Dial
<1>3. /\ known' = Remote!Stranger /\ handler' = "reading" /\ received' = 0 /\ queued' = <<>> /\ replies' = <<>>
      /\ line' = <<>> /\ heard' = 0 /\ next' = Remote!Stranger
  BY DEF Connect
<1>4. call.record \in Records /\ ~Unfit(call.record) /\ call.identity \in Given(call.record) /\ result # "ok"
  BY <1>1 DEF ClientInv
<1>5. call.identity \in Ids \union {None}
  BY <1>4 DEF Given
<1>6. PICK a : a = Authentication(call)
  OBVIOUS
<1>7. PICK d : d = Data(call.record)
  OBVIOUS
<1>8. d.kind = "data" /\ Message(d, call.identity)
  BY <1>4, <1>7 DEF Data, Message
<1>9. /\ IsHistory(a) /\ Len(a) \in Nat
      /\ \A i \in 1..Len(a) : Message(a[i], call.identity) /\ a[i].kind \in {"identity", "credentials"}
      /\ \A i \in 1..(Len(a) - 1) : a[i].kind = "identity" /\ a[i + 1].kind = "credentials"
      /\ Len(a) = 0 => call.identity = None /\ ~AuthEnabled
      /\ Len(a) > 0 => /\ a[1].kind = "identity" \/ call.identity = None
                       /\ a[Len(a)].kind = "credentials" \/ ~AuthEnabled
  BY <1>5, <1>6, Prelude
<1>10. /\ todo' = Append(a, d) /\ IsHistory(todo') /\ Len(todo') = Len(a) + 1
       /\ \A i \in 1..Len(a) : todo'[i] = a[i]
       /\ todo'[Len(a) + 1] = d
  <2>1. todo' = Append(a, d)
    BY <1>2, <1>6, <1>7
  <2> QED BY <1>9, <2>1, Appended
<1>11. \A k \in 1..Len(todo') : Message(todo'[k], call.identity)
  <2>1. ASSUME NEW k \in 1..(Len(a) + 1) PROVE Message(todo'[k], call.identity)
    <3>1. CASE k \in 1..Len(a)
      BY <1>9, <1>10, <3>1
    <3>2. CASE k = Len(a) + 1
      BY <1>8, <1>10, <3>2
    <3> QED BY <1>9, <3>1, <3>2
  <2> QED BY <1>10, <2>1
<1>12. \A k \in 1..(Len(todo') - 1) : Before(todo'[k], todo'[k + 1])
  <2>1. ASSUME NEW k \in 1..Len(a) PROVE Before(todo'[k], todo'[k + 1])
    <3>1. todo'[k] = a[k] /\ a[k].kind \in {"identity", "credentials"}
      BY <1>9, <1>10
    <3>2. CASE k = Len(a)
      <4>1. todo'[k + 1] = d /\ Len(a) > 0
        BY <1>10, <3>2
      <4> QED BY <1>8, <1>9, <3>1, <3>2, <4>1 DEF Before
    <3>3. CASE k # Len(a)
      <4>1. k \in 1..(Len(a) - 1) /\ k + 1 \in 1..Len(a)
        BY <1>9, <3>3
      <4>2. todo'[k + 1] = a[k + 1]
        BY <1>10, <4>1
      <4> QED BY <1>9, <3>1, <4>1, <4>2 DEF Before
    <3> QED BY <3>2, <3>3
  <2>2. Len(todo') - 1 = Len(a)
    BY <1>9, <1>10
  <2> QED BY <2>1, <2>2
<1>13. todo' # <<>> /\ Head(todo') = todo'[1]
  <2>1. PICK S : todo' \in Seq(S)
    BY <1>10 DEF IsHistory
  <2> QED BY <1>9, <1>10, <2>1
<1>14. ClientInv'
  <2>1. todo'[Len(todo')] = Data(call.record)
    BY <1>7, <1>10
  <2> QED BY <1>1, <1>2, <1>4, <1>10, <1>11, <1>12, <1>13, <2>1 DEF ClientInv
<1>15. Histories'
  <2>1. known'.authorized \in BOOLEAN /\ next'.authorized \in BOOLEAN
    BY <1>3, ChainAssumption DEF Remote!Stranger
  <2> QED BY <1>1, <1>2, <1>3, <2>1, EmptyHistory DEF Histories
<1>16. QueueInv'
  BY <1>3, EmptyHistory DEF QueueInv, UnderIts, NeverDenied
<1>17. LineInv(0)'
  BY <1>2, <1>3, EmptyHistory DEF LineInv
<1>18. ReplyInv(0, 0)'
  BY <1>3, EmptyHistory DEF ReplyInv
<1>19. Ready(Head(todo), call.identity, known)'
  <2>1. known'.source = None
    BY <1>3 DEF Remote!Stranger
  <2>2. CASE Len(a) = 0
    <3>1. Head(todo') = d /\ call.identity = None /\ ~AuthEnabled
      BY <1>9, <1>10, <1>13, <2>2
    <3> QED BY <1>2, <2>1, <3>1 DEF Ready
  <2>3. CASE Len(a) > 0
    <3>1. 1 \in 1..Len(a)
      BY <1>9, <2>3
    <3>2. Head(todo') = a[1]
      BY <1>10, <1>13, <3>1
    <3>3. a[1].kind \in {"identity", "credentials"} /\ (a[1].kind = "identity" \/ call.identity = None)
      BY <1>9, <2>3, <3>1
    <3> QED BY <1>2, <2>1, <3>2, <3>3 DEF Ready
  <2> QED BY <1>9, <2>2, <2>3
<1>20. LinkInv(0, 0)'
  BY <1>2, <1>3, <1>4, <1>19, EmptyHistory DEF LinkInv
<1> QED BY <1>14, <1>15, <1>16, <1>17, <1>18, <1>20 DEF IInv

LEMMA SendKeeps ==
    ASSUME IInv, ClientSends PROVE IInv'
<1>1. PICK c \in Nat, o \in Nat : LineInv(c) /\ ReplyInv(c, o) /\ LinkInv(c, o)
  BY DEF IInv
<1>2. ClientInv /\ Histories /\ QueueInv
  BY DEF IInv
<1>3. /\ at = "sending" /\ at' = "receiving" /\ wait' = WaitFor(Head(todo))
      /\ sent' = Append(sent, [message |-> Head(todo), for |-> call.identity])
      /\ line' = Append(line, Last(sent'))
      /\ UNCHANGED <<conn, identity, call, todo, result, password, heard>>
      /\ UNCHANGED <<known, handler, packet, code, request, next, received, queued, replies>>
  BY DEF ClientSends, Send, handlerVars
<1>4. PICK x : x = [message |-> Head(todo), for |-> call.identity]
  OBVIOUS
<1>5. /\ IsHistory(sent') /\ Last(sent') = x
  <2>1. IsHistory(sent) /\ sent' = Append(sent, x)
    BY <1>2, <1>3, <1>4 DEF ClientInv
  <2>2. IsHistory(sent') /\ Len(sent') = Len(sent) + 1 /\ sent'[Len(sent) + 1] = x
    BY <2>1, Appended
  <2> QED BY <2>2 DEF Last
<1>6. /\ line' = Append(line, x) /\ IsHistory(line') /\ Len(line) \in Nat /\ Len(line') = Len(line) + 1
      /\ \A i \in 1..Len(line) : line'[i] = line[i]
      /\ line'[Len(line) + 1] = x
  <2>1. line' = Append(line, x) /\ IsHistory(line)
    BY <1>2, <1>3, <1>5 DEF Histories
  <2> QED BY <2>1, Appended
<1>7. /\ received \in Nat /\ received <= Len(line) /\ Len(replies) \in Nat /\ heard \in Nat
      /\ DOMAIN queued = 1..Len(queued)
  BY <1>2, Appended DEF Histories
<1>8. PICK d \in Nat : d = Len(line) + 1
  BY <1>6
<1>9. PICK n \in Nat : n = Len(replies)
  BY <1>7
<1>10. x.message = Head(todo) /\ x.for = call.identity /\ line'[d] = x /\ Len(line') = d
  BY <1>4, <1>6, <1>8
<1>11. /\ conn /\ heard = Len(replies) /\ c \in 0..Len(line) /\ (c = 0 => Len(line) = 0)
       /\ c > 0 => received >= c
       /\ Ready(Head(todo), call.identity, known) /\ handler \in {"reading", "closed"} /\ result # "ok"
  <2>1. conn /\ result # "ok"
    BY <1>2, <1>3 DEF ClientInv
  <2>2. heard = Len(replies) /\ (c > 0 => Len(replies) = o + Full(c))
        /\ Ready(Head(todo), call.identity, known) /\ handler \in {"reading", "closed"}
    BY <1>1, <1>3, <2>1 DEF LinkInv
  <2> QED BY <1>1, <2>1, <2>2 DEF ReplyInv, LineInv
<1>12. Message(Head(todo), call.identity) /\ Head(todo) # Ack
  <2>1. Head(todo) = todo[1] /\ 1 \in 1..Len(todo)
    <3>1. PICK S : todo \in Seq(S)
      BY <1>2, <1>3 DEF ClientInv, IsHistory
    <3>2. todo # <<>>
      BY <1>2, <1>3 DEF ClientInv
    <3> QED BY <3>1, <3>2
  <2>2. Message(Head(todo), call.identity)
    BY <1>2, <1>3, <2>1 DEF ClientInv
  <2> QED BY <2>2, Kinds
<1>13. ClientInv'
  <2>1. /\ conn /\ todo # <<>> /\ IsHistory(todo) /\ result # "ok"
        /\ call.record \in Records /\ ~Unfit(call.record) /\ call.identity \in Given(call.record)
        /\ todo[Len(todo)] = Data(call.record)
        /\ \A k \in 1..Len(todo) : Message(todo[k], call.identity)
        /\ \A k \in 1..(Len(todo) - 1) : Before(todo[k], todo[k + 1])
        /\ Len(todo) = 1 => identity = call.identity
    BY <1>2, <1>3 DEF ClientInv
  <2> QED BY <1>3, <1>5, <2>1 DEF ClientInv
<1>14. Histories'
  BY <1>2, <1>3, <1>6, <1>7 DEF Histories
<1>15. QueueInv'
  <2>1. \A i \in 1..Len(queued) : queued[i].n \in 1..received /\ line'[queued[i].n] = line[queued[i].n]
    <3>1. ASSUME NEW i \in 1..Len(queued)
          PROVE  queued[i].n \in 1..received /\ line'[queued[i].n] = line[queued[i].n]
      <4>1. queued[i].n \in 1..received
        BY <1>2 DEF QueueInv
      <4>2. queued[i].n \in 1..Len(line)
        BY <1>6, <1>7, <4>1
      <4> QED BY <1>6, <4>1, <4>2
    <3> QED BY <3>1
  <2>2. UnderIts'
    BY <1>2, <1>3, <1>7, <2>1 DEF QueueInv, UnderIts
  <2>3. NeverDenied'
    BY <1>2, <1>3 DEF QueueInv, NeverDenied
  <2> QED BY <1>3, <2>1, <2>2, <2>3 DEF QueueInv
<1>16. LineInv(d)'
  <2>1. ASSUME NEW i \in 1..d
        PROVE  /\ ~(i > d)
               /\ line'[i].message # Ack => Message(line'[i].message, line'[i].for) /\ (i > received => i = d)
    <3>1. CASE i = d
      BY <1>10, <1>12, <3>1
    <3>2. CASE i # d
      <4>1. i \in 1..Len(line)
        BY <1>6, <1>8, <3>2
      <4>2. line'[i] = line[i]
        BY <1>6, <4>1
      <4>3. line[i].message # Ack => Message(line[i].message, line[i].for) /\ (i > received => i = c)
        BY <1>1, <4>1 DEF LineInv
      <4>4. i > received => i # c
        BY <1>7, <1>11, <4>1
      <4> QED BY <4>1, <4>2, <4>3, <4>4
    <3> QED BY <3>1, <3>2
  <2>2. d \in 0..d /\ d # 0 /\ line'[d].message # Ack
    BY <1>6, <1>8, <1>10, <1>12
  <2> QED BY <1>3, <1>10, <2>1, <2>2 DEF LineInv
<1>17. ReplyInv(d, n)'
  <2>1. received < d /\ d > 0 /\ Ready(line[d].message, line[d].for, known)'
    <3>1. received < d /\ d > 0
      BY <1>6, <1>7, <1>8
    <3> QED BY <1>3, <1>10, <1>11, <3>1 DEF Ready
  <2>2. n # n + Full(d)'
    BY DEF Full
  <2>3. n = Len(replies') /\ n \in 0..Len(replies') /\ ~(Len(replies') > n) /\ \A i \in 1..Len(replies') : ~(i > n)
    BY <1>3, <1>9
  <2>4. handler' \in {"reading", "closed"} /\ received' < d /\ ~(received' >= d) /\ d # 0
    BY <1>3, <1>7, <1>11, <2>1
  <2> QED BY <2>1, <2>2, <2>3, <2>4 DEF ReplyInv
<1>18. LinkInv(d, n)'
  <2>1. line'[d] = [message |-> Head(todo)', for |-> call.identity'] /\ d > 0
    BY <1>3, <1>4, <1>6, <1>8, <1>10
  <2>2. WaitFor(Head(todo))' = WaitFor(Head(todo))
    BY <1>3 DEF WaitFor, Keys
  <2>3. at' = "receiving" /\ result' # "ok" /\ wait' = WaitFor(Head(todo))'
    BY <1>3, <1>11, <2>2
  <2>4. heard' = n /\ n <= heard' /\ heard' <= Len(replies')
    BY <1>3, <1>9, <1>11
  <2> QED BY <2>1, <2>3, <2>4 DEF LinkInv
<1> QED BY <1>13, <1>14, <1>15, <1>16, <1>17, <1>18 DEF IInv


\* No number of a record is mistaken for another thing a frame can speak of.
LEMMA KeysAreRecords ==
    ASSUME NEW m, NEW id, Message(m, id), NEW k \in Keys(m)
    PROVE  k # Whole /\ k # Login /\ k # Params /\ k # Unknown
<1>1. PICK s \in ToSet(m.services) : k = <<s.pair, s.number>>
  BY DEF Keys
<1>2. s.pair \notin {"packet", "authentication", "params", "unknown"}
  <2>1. CASE m.kind = "data"
    <3>1. PICK r \in Records : m = Data(r)
      BY <2>1, Kinds
    <3>2. m.services = r.services
      BY <3>1 DEF Data
    <3> QED BY <1>1, <3>2, RelayAssumption
  <2>2. ASSUME NEW kind, NEW n, NEW x, m = Single(kind, n, x) PROVE s.pair = "auth"
    <3>1. m.services = <<[number |-> n, pair |-> "auth", items |-> <<x>>]>>
      BY <2>2 DEF Single
    <3>2. s = [number |-> n, pair |-> "auth", items |-> <<x>>]
      BY <1>1, <3>1 DEF ToSet
    <3> QED BY <3>2
  <2>3. m.kind = "data" \/ \E kind, n, x : m = Single(kind, n, x)
    <3>1. CASE m.kind = "identity"
      <4>1. \E n : m = Single("identity", n, id)
        BY <3>1, Kinds
      <4> QED BY <4>1
    <3>2. CASE m.kind = "credentials"
      <4>1. \E n : m = Single("credentials", n, "right")
        BY <3>2, Kinds
      <4> QED BY <4>1
    <3>3. m.kind \in {"data", "identity", "credentials"}
      BY Kinds
    <3> QED BY <3>1, <3>2, <3>3
  <2> QED BY <2>1, <2>2, <2>3
<1> QED BY <1>1, <1>2 DEF Whole, Login, Params, Unknown

\* What the answer to the message in exchange means to the exchange: a refusal ...
LEMMA Refusal ==
    ASSUME NEW q, q.kind = "response", q.code # "ok", NEW f, f = FrameOf(q), line[q.n].message = Head(todo)
    PROVE  ~Ignored(f) /\ Refuses(f) /\ f.type = "response"
<1>1. f.type = "response" /\ f.pid = Head(todo).pid
  BY DEF FrameOf
<1>2. f.says = {[about |-> Whole, code |-> Verdict(q)]} \union {[about |-> k, code |-> "ok"] : k \in ConfirmedRecords(q)}
  BY DEF FrameOf
<1>3. [about |-> Whole, code |-> "bad"] \in f.says
  BY <1>2 DEF Verdict
<1>4. Refuses(f)
  <2>1. PICK s \in f.says : s = [about |-> Whole, code |-> "bad"]
    BY <1>3
  <2>2. s.code = "bad" /\ s.about = Whole
    BY <2>1
  <2> QED BY <2>2 DEF Refuses
<1> QED BY <1>1, <1>4 DEF Ignored

\* ... a confirmation, which is all there is to wait for unless the message takes
\* part in the authentication ...
LEMMA Confirmation ==
    ASSUME NEW q, q.kind = "response", q.code = "ok", NEW f, f = FrameOf(q), NEW id,
           line[q.n].message = Head(todo), Message(Head(todo), id), wait = WaitFor(Head(todo))
    PROVE  /\ ~Ignored(f) /\ ~Refuses(f) /\ f.type = "response"
           /\ After(wait, f) = [pending |-> {}, transport |-> TRUE, auth |-> ~Head(todo).auth, required |-> FALSE]
<1> PICK m : m = Head(todo)
  OBVIOUS
<1>1. f.type = "response" /\ f.pid = m.pid
  BY DEF FrameOf
<1>2. f.says = {[about |-> Whole, code |-> "ok"]} \union {[about |-> k, code |-> "ok"] : k \in Keys(m)}
  <2>1. f.says = {[about |-> Whole, code |-> Verdict(q)]} \union {[about |-> k, code |-> "ok"] : k \in ConfirmedRecords(q)}
    BY DEF FrameOf
  <2>2. Verdict(q) = "ok" /\ ConfirmedRecords(q) = Keys(m)
    BY DEF Verdict, ConfirmedRecords
  <2> QED BY <2>1, <2>2
<1>3. \A s \in f.says : s.code = "ok" /\ s.about \in {Whole} \union Keys(m)
  BY <1>2
<1>4. \A k \in Keys(m) : k # Whole /\ k # Login /\ k # Params /\ k # Unknown
  BY KeysAreRecords
<1>5. Whole # Params /\ Whole # Unknown /\ Whole # Login
  BY DEF Whole, Params, Unknown, Login
<1>6. ~Speaks(f, Params) /\ ~Speaks(f, Unknown) /\ ~Speaks(f, Login)
  BY <1>3, <1>4, <1>5 DEF Speaks
<1>7. Says(f, Whole) /\ Speaks(f, Whole) /\ \A k \in Keys(m) : Says(f, k)
  <2>1. Says(f, Whole) /\ \A k \in Keys(m) : Says(f, k)
    BY <1>2 DEF Says
  <2>2. Speaks(f, Whole)
    <3>1. PICK s \in f.says : s = [about |-> Whole, code |-> "ok"]
      BY <2>1 DEF Says
    <3> QED BY <3>1 DEF Speaks
  <2> QED BY <2>1, <2>2
<1>8. ~Refuses(f)
  BY <1>3, <1>6 DEF Refuses
<1>9. wait.pending = Keys(m) /\ wait.auth = ~m.auth /\ wait.required = FALSE
  BY DEF WaitFor, NoWait
<1>10. {k \in wait.pending : ~Says(f, k)} = {}
  BY <1>7, <1>9
<1>11. (IF Speaks(f, Whole) THEN Says(f, Whole) ELSE wait.transport) = TRUE
  BY <1>7 DEF Says
<1>12. (IF Speaks(f, Params) THEN TRUE ELSE IF Head(todo).auth /\ Speaks(f, Login) THEN Says(f, Login) ELSE wait.auth)
          = ~m.auth
  BY <1>6, <1>9
<1>13. (wait.required \/ Speaks(f, Params)) = FALSE
  BY <1>6, <1>9
<1> QED BY <1>1, <1>8, <1>10, <1>11, <1>12, <1>13 DEF After, Ignored

\* ... and then the result of the authentication, or a request for credentials.
LEMMA Outcome ==
    ASSUME NEW q, q.kind \in {"result", "params"}, q.code = "ok", NEW f, f = FrameOf(q), Head(todo).auth,
           wait = [pending |-> {}, transport |-> TRUE, auth |-> FALSE, required |-> FALSE]
    PROVE  /\ ~Ignored(f) /\ ~Refuses(f) /\ f.type = "appdata"
           /\ Complete(After(wait, f)) /\ (After(wait, f).required <=> q.kind = "params")
<1>1. f.type = "appdata"
  BY DEF FrameOf
<1> PICK about : about = IF q.kind = "params" THEN Params ELSE Login
  OBVIOUS
<1>2. f.says = {[about |-> about, code |-> "ok"]}
  <2>1. CASE q.kind = "result"
    BY <2>1 DEF FrameOf, Verdict
  <2>2. CASE q.kind = "params"
    BY <2>2 DEF FrameOf
  <2> QED BY <2>1, <2>2
<1>3. \A x : (Speaks(f, x) <=> x = about) /\ (Says(f, x) <=> x = about)
  BY <1>2 DEF Speaks, Says
<1>4. Params # Unknown /\ Login # Unknown /\ Params # Login /\ Whole # Params /\ Whole # Login
  BY DEF Params, Unknown, Login, Whole
<1>5. ~Refuses(f)
  <2>1. \A s \in f.says : s.code # "bad"
    BY <1>2
  <2> QED BY <1>3, <1>4, <2>1 DEF Refuses
<1>6. /\ After(wait, f).pending = {} /\ After(wait, f).transport /\ After(wait, f).auth
      /\ After(wait, f).required <=> q.kind = "params"
  <2>1. After(wait, f).pending = {} /\ After(wait, f).transport
    BY <1>3, <1>4 DEF After
  <2>2. After(wait, f).auth
    BY <1>3 DEF After
  <2>3. After(wait, f).required <=> q.kind = "params"
    BY <1>3, <1>4 DEF After
  <2> QED BY <2>1, <2>2, <2>3
<1> QED BY <1>1, <1>5, <1>6 DEF Ignored, Complete


\* An answer to a packet of the second gateway changes little.
LEMMA LineGrows ==
    ASSUME Histories, QueueInv, NEW c \in Nat, NEW o \in Nat, LineInv(c), ReplyInv(c, o), c > 0,
           NEW x, x.message = Ack, line' \in {line, Append(line, x)},
           UNCHANGED <<handlerVars, password>>, heard' \in Nat
    PROVE  /\ Histories' /\ QueueInv' /\ ReplyInv(c, o)' /\ (InQueue(c)' <=> InQueue(c)) /\ Full(c)' = Full(c)
           /\ line'[c] = line[c] /\ c \in 0..Len(line')
           /\ \A i \in 1..Len(line') :
                /\ i > c => line'[i].message = Ack
                /\ line'[i].message # Ack => Message(line'[i].message, line'[i].for) /\ (i > received => i = c)
           /\ UNCHANGED <<known, handler, packet, code, request, next, received, queued, replies, password>>
<1>1. UNCHANGED <<known, handler, packet, code, request, next, received, queued, replies, password>>
  BY DEF handlerVars
<1>2. PICK n \in Nat : n = Len(line)
  BY Appended DEF Histories
<1>3. /\ IsHistory(line') /\ n <= Len(line') /\ Len(line') \in {n, n + 1}
      /\ \A i \in 1..n : line'[i] = line[i]
      /\ \A i \in 1..Len(line') : i \in 1..n \/ (i = n + 1 /\ line'[i] = x)
  <2>1. IsHistory(line)
    BY DEF Histories
  <2>2. /\ IsHistory(Append(line, x)) /\ Len(Append(line, x)) = n + 1
        /\ \A i \in 1..n : Append(line, x)[i] = line[i]
        /\ Append(line, x)[n + 1] = x
    BY <1>2, <2>1, Appended
  <2>3. CASE line' = line
    BY <1>2, <2>1, <2>3
  <2>4. CASE line' = Append(line, x)
    BY <2>2, <2>4
  <2> QED BY <2>3, <2>4
<1>4. received \in Nat /\ received <= n /\ c \in 1..n
  BY <1>2 DEF Histories, LineInv
<1>5. line'[c] = line[c] /\ c \in 0..Len(line') /\ received <= Len(line')
  BY <1>3, <1>4
<1>6. Histories'
  BY <1>1, <1>3, <1>5 DEF Histories
<1>7. QueueInv'
  <2>1. DOMAIN queued = 1..Len(queued)
    BY Appended DEF Histories
  <2>2. ASSUME NEW i \in 1..Len(queued)
        PROVE  queued[i].n \in 1..received /\ line'[queued[i].n] = line[queued[i].n]
    <3>1. queued[i].n \in 1..received
      BY DEF QueueInv
    <3>2. queued[i].n \in 1..n
      BY <1>4, <3>1
    <3> QED BY <1>3, <3>1, <3>2
  <2>3. UnderIts'
    BY <1>1, <2>1, <2>2 DEF QueueInv, UnderIts
  <2>4. NeverDenied'
    BY <1>1 DEF QueueInv, NeverDenied
  <2> QED BY <1>1, <2>2, <2>3, <2>4 DEF QueueInv
<1>8. /\ Wire(line[c].message)' = Wire(line[c].message)
      /\ Post(line[c].message, line[c].for, known)' <=> Post(line[c].message, line[c].for, known)
      /\ Post(line[c].message, line[c].for, next)' <=> Post(line[c].message, line[c].for, next)
      /\ Ready(line[c].message, line[c].for, known)' <=> Ready(line[c].message, line[c].for, known)
      /\ Remote!AuthRequest(packet)' <=> Remote!AuthRequest(packet)
  BY <1>1, <1>5 DEF Wire, Post, Ready, Remote!AuthRequest, Remote!AuthItems, Remote!ItemsOf, Remote!Of
<1>9. (InQueue(c)' <=> InQueue(c)) /\ Full(c)' = Full(c)
  BY <1>1, <1>5, <1>8 DEF InQueue, Full
<1>10. ReplyInv(c, o)'
  BY <1>1, <1>5, <1>8, <1>9 DEF ReplyInv
<1>11. ASSUME NEW i \in 1..Len(line')
       PROVE  /\ i > c => line'[i].message = Ack
              /\ line'[i].message # Ack => Message(line'[i].message, line'[i].for) /\ (i > received => i = c)
  <2>1. CASE i \in 1..n
    <3>1. line'[i] = line[i]
      BY <1>3, <2>1
    <3> QED BY <1>2, <2>1, <3>1 DEF LineInv
  <2>2. CASE i = n + 1 /\ line'[i] = x
    BY <2>2
  <2> QED BY <1>3, <2>1, <2>2
<1> QED BY <1>1, <1>5, <1>6, <1>7, <1>9, <1>10, <1>11

\* The exchange is over: the call goes on with its next message, or is done.
LEMMA ProceedKeeps ==
    ASSUME ClientInv, Histories, QueueInv, NEW c \in Nat, NEW o \in Nat, LineInv(c), ReplyInv(c, o), LinkInv(c, o),
           at = "receiving", Proceed, heard' = heard + 1, heard + 1 = o + Full(c), heard < Len(replies),
           replies[o + 1].code = "ok", Head(todo).kind = "data" => ~request,
           NEW x, x.message = Ack, line' \in {line, Append(line, x)},
           UNCHANGED <<handlerVars, password>>
    PROVE  IInv'
<1>1. PICK m : m = Head(todo)
  OBVIOUS
<1>2. /\ c > 0 /\ line[c].message = m /\ line[c].for = call.identity
      /\ heard \in Nat /\ o <= heard /\ heard <= Len(replies) /\ Len(replies) \in Nat
  BY <1>1, Appended DEF LinkInv, Histories
<1>3. /\ Histories' /\ QueueInv' /\ ReplyInv(c, o)' /\ (InQueue(c)' <=> InQueue(c)) /\ Full(c)' = Full(c)
      /\ line'[c] = line[c] /\ c \in 0..Len(line')
      /\ \A i \in 1..Len(line') :
           /\ i > c => line'[i].message = Ack
           /\ line'[i].message # Ack => Message(line'[i].message, line'[i].for) /\ (i > received => i = c)
      /\ UNCHANGED <<known, handler, packet, code, request, next, received, queued, replies, password>>
  <2>1. heard' \in Nat
    BY <1>2
  <2> QED BY <1>2, <2>1, LineGrows
<1>4. heard' = Len(replies) /\ Len(replies) = o + Full(c)
  <2>1. PICK n \in Nat, h \in Nat, f \in {1, 2} : n = Len(replies) /\ h = heard /\ f = Full(c)
    BY <1>2, FullIs
  <2>2. h + 1 = o + f /\ h < n /\ o <= h
    BY <1>2, <2>1
  <2>3. n > o
    BY ONLY <2>2, n \in Nat, h \in Nat, o \in Nat
  <2>4. n <= o + f
    BY <2>1, <2>3 DEF ReplyInv
  <2>5. h + 1 = n /\ n = o + f
    BY ONLY <2>2, <2>4, n \in Nat, h \in Nat, o \in Nat, f \in {1, 2}
  <2> QED BY <2>1, <2>5
<1>5. Post(m, call.identity, known) /\ handler \in {"reading", "closed"}
  BY <1>2, <1>4 DEF ReplyInv
<1>6. m.kind = "data" => InQueue(c)
  <2>1. Len(replies) > o
    BY <1>4, <1>2, FullIs
  <2> QED BY <1>1, <2>1 DEF ReplyInv
<1>7. /\ todo' = Tail(todo) /\ UNCHANGED <<conn, call, sent>> /\ conn
      /\ call.record \in Records /\ ~Unfit(call.record) /\ call.identity \in Given(call.record)
      /\ conn \in BOOLEAN /\ IsHistory(sent) /\ result # "ok" /\ IsHistory(todo) /\ todo # <<>>
  BY DEF Proceed, ClientInv
<1>8. PICK S : todo \in Seq(S)
  BY <1>7 DEF IsHistory
<1>9. PICK l \in Nat : l = Len(todo) /\ l > 0
  BY <1>7, <1>8
<1>10. /\ m = todo[1] /\ todo' \in Seq(S) /\ Len(todo') = l - 1
       /\ \A k \in 1..(l - 1) : todo'[k] = todo[k + 1]
  BY <1>1, <1>7, <1>8, <1>9
<1>11. /\ todo[l] = Data(call.record)
       /\ \A k \in 1..l : Message(todo[k], call.identity)
       /\ \A k \in 1..(l - 1) : Before(todo[k], todo[k + 1])
       /\ l = 1 => identity = call.identity
  BY <1>9 DEF ClientInv
<1>12. CASE l = 1
  <2>1. at' = "idle" /\ result' = "ok" /\ identity' = identity /\ identity = call.identity
    BY <1>9, <1>11, <1>12 DEF Proceed
  <2>2. m = Data(call.record) /\ m.kind = "data"
    <3>1. m = Data(call.record)
      BY <1>10, <1>11, <1>12
    <3> QED BY <3>1 DEF Data
  <2>3. ClientInv'
    BY <1>7, <2>1 DEF ClientInv, IsHistory
  <2>4. LineInv(c)'
    <3>1. line'[c].message # Ack
      BY <1>2, <1>3, <2>2 DEF Ack
    <3> QED BY <1>2, <1>3, <2>1, <2>2, <3>1 DEF LineInv
  <2>5. LinkInv(c, o)'
    <3>1. o <= heard' /\ heard' <= Len(replies')
      BY <1>2, <1>3, <1>4
    <3>2. result' = "ok" =>
            c > 0 /\ line'[c].message = Data(call.record)' /\ line'[c].for = call.identity' /\ InQueue(c)'
      <4>1. Data(call.record)' = Data(call.record)
        BY <1>7
      <4> QED BY <1>2, <1>3, <1>6, <1>7, <2>2, <4>1
    <3> QED BY <1>3, <1>4, <2>1, <3>1, <3>2 DEF LinkInv
  <2> QED BY <1>3, <2>3, <2>4, <2>5 DEF IInv
<1>13. CASE l # 1
  <2>1. /\ at' = "checking" /\ result' = result
        /\ l = 2 => identity' = call.identity
    BY <1>9, <1>13 DEF Proceed
  <2>2. l - 1 \in Nat /\ l - 1 > 0 /\ (l - 1 = 1 => l = 2) /\ l - 1 \in 1..(l - 1) /\ (l - 1) + 1 = l
        /\ 1 \in 1..(l - 1)
    BY <1>9, <1>13
  <2>3. ClientInv'
    <3>1. todo'[Len(todo')] = Data(call.record)
      BY <1>10, <1>11, <2>2
    <3>2. \A k \in 1..Len(todo') : Message(todo'[k], call.identity)
      <4>1. \A k \in 1..(l - 1) : k + 1 \in 1..l
        BY <1>9
      <4> QED BY <1>10, <1>11, <4>1
    <3>3. \A k \in 1..(Len(todo') - 1) : Before(todo'[k], todo'[k + 1])
      <4>1. ASSUME NEW k \in 1..((l - 1) - 1) PROVE Before(todo'[k], todo'[k + 1])
        <5>1. k \in 1..(l - 1) /\ k + 1 \in 1..(l - 1)
          BY <1>9
        <5> QED BY <1>10, <1>11, <5>1
      <4> QED BY <1>10, <4>1
    <3>4. todo' # <<>> /\ IsHistory(todo')
      <4>1. Len(todo') # 0
        BY <1>10, <2>2
      <4> QED BY <1>10, <4>1, EmptyHistory DEF IsHistory
    <3>5. Len(todo') = 1 => identity' = call.identity
      BY <1>10, <2>1, <2>2
    <3> QED BY <1>7, <2>1, <3>1, <3>2, <3>3, <3>4, <3>5 DEF ClientInv, IsHistory
  <2>4. LineInv(c)'
    <3>1. line'[c].message # Ack
      <4>1. Message(m, call.identity)
        <5>1. 1 \in 1..l
          BY <1>9
        <5> QED BY <1>10, <1>11, <5>1
      <4> QED BY <1>2, <1>3, <4>1, Kinds
    <3> QED BY <1>2, <1>3, <2>1, <3>1 DEF LineInv
  <2>5. Ready(Head(todo), call.identity, known)'
    <3>1. Head(todo') = todo[2]
      <4>1. Head(todo') = todo'[1]
        BY <1>10, <2>2
      <4>2. 1 + 1 = 2
        OBVIOUS
      <4> QED BY <1>10, <2>2, <4>1, <4>2
    <3>2. Before(m, todo[2])
      BY <1>10, <1>11, <2>2
    <3>3. Ready(todo[2], call.identity, known)
      BY <1>5, <3>2, PostReady
    <3> QED BY <1>3, <1>7, <3>1, <3>3 DEF Ready
  <2>6. LinkInv(c, o)'
    <3>1. o <= heard' /\ heard' <= Len(replies')
      BY <1>2, <1>3, <1>4
    <3> QED BY <1>3, <1>4, <1>5, <1>7, <2>1, <2>5, <3>1 DEF LinkInv
  <2> QED BY <1>3, <2>3, <2>4, <2>6 DEF IInv
<1> QED BY <1>12, <1>13


LEMMA HearsKeeps ==
    ASSUME IInv, ClientHears PROVE IInv'
<1>1. PICK c \in Nat, o \in Nat : LineInv(c) /\ ReplyInv(c, o) /\ LinkInv(c, o)
  BY DEF IInv
<1>2. ClientInv /\ Histories /\ QueueInv
  BY DEF IInv
<1>3. PICK q : q = replies[heard + 1]
  OBVIOUS
<1>4. PICK f : f = FrameOf(q)
  OBVIOUS
<1>5. PICK x : x = [message |-> Ack, for |-> call.identity]
  OBVIOUS
<1>6. /\ at = "receiving" /\ conn /\ heard < Len(replies) /\ heard' = heard + 1
      /\ Receive(f) /\ line' = IF f.type = "appdata" /\ conn' THEN Append(line, x) ELSE line
      /\ UNCHANGED <<handlerVars, password>>
  BY <1>3, <1>4, <1>5 DEF ClientHears, Receive
<1>7. /\ \/ /\ ~Ignored(f) /\ Refuses(f) /\ Abort
         \/ /\ ~Ignored(f) /\ ~Refuses(f) /\ Complete(After(wait, f))
            /\ IF After(wait, f).required /\ Unanswerable THEN Abort ELSE Proceed
         \/ /\ Ignored(f) \/ (~Refuses(f) /\ ~Complete(After(wait, f)))
            /\ wait' = IF Ignored(f) THEN wait ELSE After(wait, f)
            /\ UNCHANGED <<conn, identity, closed, at, call, todo, calls, result, ctxVars, sent>>
  BY <1>6 DEF Receive
<1>8. /\ c > 0 /\ line[c].message = Head(todo) /\ line[c].for = call.identity
      /\ heard \in Nat /\ o <= heard /\ Len(replies) \in Nat
      /\ \/ heard = o /\ wait = WaitFor(Head(todo))
         \/ /\ heard = o + 1 /\ line[c].message.auth /\ replies[o + 1].code = "ok"
            /\ wait = [pending |-> {}, transport |-> TRUE, auth |-> FALSE, required |-> FALSE]
  BY <1>1, <1>2, <1>6, Appended DEF LinkInv, Histories
<1>9. Message(Head(todo), call.identity) /\ Head(todo).auth \in BOOLEAN
  <2>1. Head(todo) = todo[1] /\ 1 \in 1..Len(todo)
    <3>1. PICK S : todo \in Seq(S)
      BY <1>2, <1>6 DEF ClientInv, IsHistory
    <3>2. todo # <<>>
      BY <1>2, <1>6 DEF ClientInv
    <3> QED BY <3>1, <3>2
  <2>2. Message(Head(todo), call.identity)
    BY <1>2, <1>6, <2>1 DEF ClientInv
  <2> QED BY <2>2, Kinds
<1>10. /\ q.n = c /\ Len(replies) > o /\ Len(replies) <= o + Full(c) /\ replies[o + 1].kind = "response"
       /\ request => line[c].message.auth
       /\ Len(replies) = o + 2 => replies[o + 2].code = replies[o + 1].code
                                   /\ replies[o + 2].kind = IF request THEN "params" ELSE "result"
  <2>1. heard + 1 \in 1..Len(replies) /\ heard + 1 > o /\ Len(replies) > o
    BY <1>6, <1>8
  <2>2. q.n = c
    BY <1>1, <1>3, <2>1 DEF ReplyInv
  <2> QED BY <1>1, <2>1, <2>2 DEF ReplyInv
<1>11. x.message = Ack /\ line' \in {line, Append(line, x)}
  BY <1>5, <1>6
<1>12. Abort => IInv'
  <2>1. Abort => line' = line
    BY <1>6 DEF Abort, AfterError
  <2> QED BY <1>6, <2>1, AbortKeeps
<1>13. CASE heard = o /\ wait = WaitFor(Head(todo))
  <2>1. q.kind = "response" /\ q = replies[o + 1]
    BY <1>3, <1>10, <1>13
  <2>2. CASE q.code # "ok"
    <3>1. ~Ignored(f) /\ Refuses(f)
      BY <1>4, <1>8, <1>10, <2>1, <2>2, Refusal
    <3> QED BY <1>7, <1>12, <3>1
  <2>3. CASE q.code = "ok"
    <3>1. /\ ~Ignored(f) /\ ~Refuses(f) /\ f.type = "response"
          /\ After(wait, f) = [pending |-> {}, transport |-> TRUE, auth |-> ~Head(todo).auth, required |-> FALSE]
      BY <1>4, <1>8, <1>9, <1>10, <1>13, <2>1, <2>3, Confirmation
    <3>2. (Complete(After(wait, f)) <=> ~Head(todo).auth) /\ After(wait, f).required = FALSE
      <4>1. PICK w : w = After(wait, f)
        OBVIOUS
      <4>2. w.pending = {} /\ w.transport = TRUE /\ w.auth = ~Head(todo).auth /\ w.required = FALSE
        BY <3>1, <4>1
      <4>3. Complete(w) <=> ~Head(todo).auth
        BY <4>2 DEF Complete
      <4> QED BY <4>1, <4>2, <4>3
    <3>3. CASE Head(todo).auth
      <4>1. /\ wait' = After(wait, f)
            /\ UNCHANGED <<conn, identity, at, call, todo, result, sent>>
        BY <1>7, <3>1, <3>2, <3>3
      <4>2. wait' = [pending |-> {}, transport |-> TRUE, auth |-> FALSE, required |-> FALSE]
        <5>1. (~Head(todo).auth) = FALSE
          BY <3>3
        <5> QED BY <3>1, <4>1, <5>1
      <4>3. line' = line
        BY <1>6, <3>1
      <4>4. heard' \in Nat /\ heard' = o + 1 /\ o <= heard' /\ heard' <= Len(replies)
        BY <1>6, <1>8, <1>13
      <4>5. /\ Histories' /\ QueueInv' /\ ReplyInv(c, o)'
            /\ UNCHANGED <<known, handler, packet, code, request, next, received, queued, replies>>
        BY <1>1, <1>2, <1>6, <4>3, <4>4, NothingMoves
      <4>6. ClientInv'
        BY <1>2, <4>1 DEF ClientInv, IsHistory
      <4>7. LineInv(c)'
        <5>1. \A i \in 1..Len(line) :
                /\ i > c => line[i].message = Ack
                /\ line[i].message # Ack => Message(line[i].message, line[i].for) /\ (i > received => i = c)
          BY <1>1 DEF LineInv
        <5> QED BY <1>1, <4>1, <4>3, <4>5, <5>1 DEF LineInv
      <4>8. LinkInv(c, o)'
        <5>1. line[c] = [message |-> Head(todo), for |-> call.identity]
          BY <1>1, <1>6 DEF LinkInv
        <5>2. line'[c] = [message |-> Head(todo), for |-> call.identity]'
          BY <4>1, <4>3, <5>1
        <5>3. at' = "receiving" /\ result' # "ok"
          BY <1>2, <1>6, <4>1 DEF ClientInv
        <5>4. heard' = o + 1 /\ line'[c].message.auth /\ replies'[o + 1].code = "ok"
          BY <1>8, <2>1, <2>3, <3>3, <4>3, <4>4, <4>5
        <5> QED BY <1>8, <4>2, <4>4, <4>5, <5>2, <5>3, <5>4 DEF LinkInv
      <4> QED BY <4>5, <4>6, <4>7, <4>8 DEF IInv
    <3>4. CASE ~Head(todo).auth
      <4>1. Proceed
        BY <1>7, <3>1, <3>2, <3>4
      <4>2. heard + 1 = o + Full(c)
        BY <1>8, <1>13, <3>4 DEF Full
      <4>3. ~request /\ replies[o + 1].code = "ok"
        BY <1>8, <1>10, <2>1, <2>3, <3>4
      <4> QED BY <1>1, <1>2, <1>6, <1>11, <4>1, <4>2, <4>3, ProceedKeeps
    <3> QED BY <1>9, <3>3, <3>4
  <2> QED BY <2>2, <2>3
<1>14. CASE /\ heard = o + 1 /\ line[c].message.auth /\ replies[o + 1].code = "ok"
            /\ wait = [pending |-> {}, transport |-> TRUE, auth |-> FALSE, required |-> FALSE]
  <2>1. Full(c) = 2
    BY <1>14 DEF Full
  <2>2. Len(replies) = o + 2 /\ heard + 1 = o + 2
    <3>1. PICK n \in Nat, h \in Nat : n = Len(replies) /\ h = heard
      BY <1>8
    <3>2. h = o + 1 /\ h < n /\ n <= o + 2
      BY <1>6, <1>10, <1>14, <2>1, <3>1
    <3>3. n = o + 2 /\ h + 1 = o + 2
      BY ONLY <3>2, n \in Nat, h \in Nat, o \in Nat
    <3> QED BY <3>1, <3>3
  <2>3. q.code = "ok" /\ q.kind = IF request THEN "params" ELSE "result"
    BY <1>3, <1>10, <1>14, <2>2
  <2>4. /\ ~Ignored(f) /\ ~Refuses(f)
        /\ Complete(After(wait, f)) /\ (After(wait, f).required <=> q.kind = "params")
    BY <1>4, <1>8, <1>14, <2>3, Outcome
  <2>5. IF After(wait, f).required /\ Unanswerable THEN Abort ELSE Proceed
    BY <1>7, <2>4
  <2>6. CASE After(wait, f).required /\ Unanswerable
    BY <1>12, <2>5, <2>6
  <2>7. CASE ~(After(wait, f).required /\ Unanswerable)
    <3>1. Proceed
      BY <2>5, <2>7
    <3>2. Head(todo).kind = "data" => ~request
      <4>1. Head(todo).kind = "data" => Unanswerable
        BY DEF Unanswerable
      <4>2. request => After(wait, f).required
        BY <2>3, <2>4
      <4> QED BY <2>7, <4>1, <4>2
    <3>3. heard + 1 = o + Full(c)
      BY <2>1, <2>2
    <3> QED BY <1>1, <1>2, <1>6, <1>11, <1>14, <3>1, <3>2, <3>3, ProceedKeeps
  <2> QED BY <2>6, <2>7
<1> QED BY <1>8, <1>13, <1>14

----------------------------------------------------------------------------
LEMMA Starts ==
    ASSUME ChainInit PROVE IInv
<1>1. /\ conn = FALSE /\ at = "idle" /\ result = "none" /\ sent = <<>> /\ line = <<>> /\ heard = 0 /\ password \in Passwords
  BY DEF ChainInit, Init
<1>2. /\ known = Remote!Stranger /\ next = Remote!Stranger /\ handler = "reading" /\ received = 0
      /\ queued = <<>> /\ replies = <<>>
  BY DEF ChainInit, Remote!Init
<1>3. ClientInv
  BY <1>1, EmptyHistory DEF ClientInv
<1>4. Histories
  <2>1. known.authorized \in BOOLEAN /\ next.authorized \in BOOLEAN
    BY <1>2, ChainAssumption DEF Remote!Stranger
  <2> QED BY <1>1, <1>2, <2>1, EmptyHistory DEF Histories
<1>5. QueueInv
  BY <1>2, EmptyHistory DEF QueueInv, UnderIts, NeverDenied
<1>6. LineInv(0)
  BY <1>1, EmptyHistory DEF LineInv
<1>7. ReplyInv(0, 0)
  BY <1>2, EmptyHistory DEF ReplyInv
<1>8. LinkInv(0, 0)
  BY <1>1, <1>2, EmptyHistory DEF LinkInv
<1> QED BY <1>3, <1>4, <1>5, <1>6, <1>7, <1>8 DEF IInv

LEMMA Steps ==
    ASSUME IInv, [ChainNext]_vars PROVE IInv'
<1>1. CASE ChainNext
  BY <1>1, ConnectKeeps, SendKeeps, HearsKeeps, ClientElseKeeps, ReadKeeps, HandlerKeeps DEF ChainNext
<1>2. CASE UNCHANGED vars
  <2>1. UNCHANGED <<handlerVars, password, line, heard>>
    BY <1>2 DEF vars, linkVars
  <2>2. UNCHANGED <<conn, identity, at, call, todo, wait, result, sent>>
    BY <1>2 DEF vars, clientVars, callVars
  <2> QED BY <2>1, <2>2, Unaffected
<1> QED BY <1>1, <1>2

LEMMA Invariant == ChainSpec => []IInv
<1>1. ChainInit => IInv
  BY Starts
<1>2. IInv /\ [ChainNext]_vars => IInv'
  BY Steps
<1> QED BY <1>1, <1>2, PTL DEF ChainSpec

\* The second gateway stores data under the terminal the first one sent it for
\* (source.TerminalID of connection.go follows the identity that egts.go presents).
THEOREM RightTerminal == ChainSpec => []UnderIts
<1>1. IInv => UnderIts
  BY DEF IInv, QueueInv
<1> QED BY <1>1, Invariant, PTL

\* With the right password and credentials to present, nothing is denied, and no
\* packet is refused as one that may not be relayed (shouldRelay of relay.go).
THEOREM NothingDenied == ChainSpec => []NeverDenied
<1>1. IInv => NeverDenied
  BY DEF IInv, QueueInv
<1> QED BY <1>1, Invariant, PTL

\* What WriteContext of egts.go returns no error for, the queue of the second
\* gateway has taken, under the identity of the call.
THEOREM DoneIsTaken == ChainSpec => []Relayed
<1>1. ASSUME IInv PROVE Relayed
  <2>1. PICK c \in Nat, o \in Nat : LineInv(c) /\ LinkInv(c, o)
    BY <1>1 DEF IInv
  <2>2. SUFFICES ASSUME result = "ok"
                 PROVE  \E i \in DOMAIN queued :
                          /\ queued[i].n = LastData /\ queued[i].packet = Wire(Data(call.record))
                          /\ queued[i].source = call.identity
    BY DEF Relayed
  <2>3. c > 0 /\ line[c].message = Data(call.record) /\ line[c].for = call.identity /\ InQueue(c)
    BY <2>1, <2>2 DEF LinkInv
  <2>4. line[c].message.kind = "data"
    BY <2>3 DEF Data
  <2>5. DOMAIN line = 1..Len(line) /\ DOMAIN queued = 1..Len(queued) /\ Len(line) \in Nat
    BY <1>1, Appended DEF IInv, Histories
  <2>6. LastData = c
    <3>1. /\ c \in DOMAIN line /\ line[c].message # Ack
          /\ \A j \in DOMAIN line : j > c => line[j].message = Ack
      BY <2>1, <2>3, <2>5 DEF LineInv
    <3>2. ASSUME NEW i \in DOMAIN line, line[i].message # Ack,
                 \A j \in DOMAIN line : j > i => line[j].message = Ack
          PROVE  i = c
      <4>1. ~(i > c) /\ ~(c > i)
        BY <3>1, <3>2
      <4> QED BY <2>5, <4>1
    <3> QED BY <2>4, <3>1, <3>2 DEF LastData
  <2>7. PICK i \in 1..Len(queued) :
          /\ queued[i].n = c /\ queued[i].packet = Wire(line[c].message)
          /\ line[c].message.kind = "data" => queued[i].source = line[c].for
    BY <2>3 DEF InQueue
  <2> QED BY <2>3, <2>4, <2>5, <2>6, <2>7
<1> QED BY <1>1, Invariant, PTL

\* While exchange of egts.go waits for an answer, handleConnection of the other
\* gateway has not given all of it yet, so that neither waits for the other.
THEOREM NoStandstill == ChainSpec => []NoMutualWait
<1>1. ASSUME IInv PROVE NoMutualWait
  <2>1. PICK c \in Nat, o \in Nat : LineInv(c) /\ ReplyInv(c, o) /\ LinkInv(c, o)
    BY <1>1 DEF IInv
  <2>2. SUFFICES ASSUME at = "receiving", ~(received < Len(line)), ~(heard < Len(replies)), handler = "reading"
                 PROVE  FALSE
    BY DEF NoMutualWait
  <2>3. /\ c > 0 /\ \/ heard = o
                    \/ heard = o + 1 /\ line[c].message.auth
        /\ heard <= Len(replies)
    BY <2>1, <2>2 DEF LinkInv
  <2>4. /\ received \in Nat /\ heard \in Nat /\ Len(line) \in Nat /\ Len(replies) \in Nat
        /\ c <= Len(line)
    BY <1>1, <2>1, Appended DEF IInv, Histories, LineInv
  <2>5. received >= c /\ heard = Len(replies)
    BY <2>2, <2>3, <2>4
  <2>6. Len(replies) = o + Full(c)
    BY <2>1, <2>2, <2>3, <2>5 DEF ReplyInv
  <2> QED BY <2>3, <2>5, <2>6 DEF Full
<1> QED BY <1>1, Invariant, PTL

=============================================================================
