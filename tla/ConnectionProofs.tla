-------------------------- MODULE ConnectionProofs ---------------------------
(***************************************************************************)
(* Proofs about Connection for all packets, identities, settings and       *)
(* numbers of packets: who reaches the queue, under which name, and what   *)
(* the answers say, and that their numbers differ.                         *)
(***************************************************************************)
EXTENDS Connection, FiniteSetTheorems, TLAPS

----------------------------------------------------------------------------
Handling == at \in {"waiting", "answering", "result"}
Right(p) == "right" \in AuthItems(p)
Wrong(p) == AuthItems(p) \intersect {"wrong", "sequenced"} # {}

IsHistory(s) == \E S : s \in Seq(S)
Histories == IsHistory(queued) /\ IsHistory(replies) /\ IsHistory(accepted)

----------------------------------------------------------------------------
\* Why OnlyAuthorized holds: what makes a connection authorized is in the queue
\* before the connection remembers it, and a denial is the last thing answered.

Trusted == \E j \in DOMAIN queued : Right(queued[j].packet)

AuthInv ==
    /\ Histories
    /\ AuthEnabled =>
         /\ known.authorized => Trusted
         /\ Handling /\ code = "ok" /\ next.authorized => Trusted
         /\ \A i \in DOMAIN queued : \E j \in 1..i : Right(queued[j].packet)
         /\ \A i \in DOMAIN queued : ~Wrong(queued[i].packet)
         /\ \A i \in DOMAIN replies : replies[i].code = "denied" =>
              /\ replies[i].n = received
              /\ at = "closed" \/ (at = "result" /\ code = "denied")

\* Why AnswersAgree holds: what is answered EGTS_PC_OK is queued or asks for
\* credentials, and the handler reads again only after both of its answers.

InQueue(n) == \E j \in DOMAIN queued : queued[j].n = n
ToldOk(n) ==
    \E i \in DOMAIN replies :
        replies[i].n = n /\ replies[i].kind = "response" /\ replies[i].code = "ok"
AskedFor(n) == \E i \in DOMAIN replies : replies[i].n = n /\ replies[i].kind = "params"

AnswerInv ==
    /\ Histories
    /\ Handling /\ code = "ok" => request \/ InQueue(received)
    /\ Handling /\ request => AuthRequest(packet) /\ code # "damaged"
    /\ \A i \in DOMAIN replies : replies[i].code = "ok" =>
         \/ InQueue(replies[i].n) \/ AskedFor(replies[i].n)
         \/ replies[i].n = received /\ request /\ at \in {"result", "closed"}
    /\ \A j \in DOMAIN queued :
         \/ ToldOk(queued[j].n)
         \/ queued[j].n = received /\ ((at \in {"waiting", "answering"} /\ code = "ok") \/ at = "closed")

\* Why IdentityKnown holds: what the connection remembers is what the accepted
\* packets said last, and packets are accepted in the order they are read.

Naming == {x \in ToSet(accepted) : Names(x.packet)}

Remembered ==
    /\ at \in {"reading", "waiting", "answering"} => NamesLast(known.source, Naming)
    /\ at = "result" => NamesLast(IF code = "ok" THEN next.source ELSE known.source, Naming)
    /\ at \in {"waiting", "answering"} /\ code = "ok" => next.source = Said(packet, known.source)
    /\ Relaying => known.identity = known.source /\ next.identity = next.source

InOrder ==
    /\ received \in Nat
    /\ \A i \in DOMAIN queued : queued[i].n \in 1..received
    /\ \A x \in ToSet(accepted) : x.n \in 1..received
    /\ at \in {"waiting", "answering"} => received > 0 /\ \A x \in ToSet(accepted) : x.n < received

NameInv == Histories /\ Remembered /\ InOrder /\ IdentityKnown

----------------------------------------------------------------------------
\* What appending to a history does.
LEMMA Appended ==
    ASSUME NEW s, NEW x, IsHistory(s)
    PROVE  /\ IsHistory(Append(s, x))
           /\ DOMAIN s \subseteq DOMAIN Append(s, x)
           /\ \A i \in DOMAIN s : Append(s, x)[i] = s[i]
           /\ \A i \in DOMAIN Append(s, x) : i \in DOMAIN s \/ Append(s, x)[i] = x
           /\ \E i \in DOMAIN Append(s, x) : Append(s, x)[i] = x
           /\ ToSet(Append(s, x)) = ToSet(s) \union {x}
<1>1. PICK S : s \in Seq(S)
  BY DEF IsHistory
<1>2. s \in Seq(S \union {x}) /\ x \in S \union {x}
  BY <1>1
<1>3. Append(s, x) \in Seq(S \union {x}) /\ Len(Append(s, x)) = Len(s) + 1 /\ Len(s) \in Nat
  BY <1>2
<1>4. DOMAIN s = 1..Len(s) /\ DOMAIN Append(s, x) = 1..(Len(s) + 1)
  BY <1>2, <1>3
<1>5. \A i \in 1..Len(s) : Append(s, x)[i] = s[i]
  BY <1>2, <1>3
<1>6. Append(s, x)[Len(s) + 1] = x
  BY <1>2, <1>3
<1>7. ToSet(Append(s, x)) = ToSet(s) \union {x}
  BY <1>3, <1>4, <1>5, <1>6 DEF ToSet
<1>8. IsHistory(Append(s, x))
  BY <1>3 DEF IsHistory
<1> QED BY <1>3, <1>4, <1>5, <1>6, <1>7, <1>8

----------------------------------------------------------------------------
\* Nothing but Enqueue, Respond and Result writes the histories.
LEMMA InitHistories ==
    Init => Histories
BY DEF Init, Histories, IsHistory

LEMMA StepHistories ==
    ASSUME Histories, [Next]_vars
    PROVE  Histories'
<1>1. ASSUME NEW p \in Inputs, Enqueue(p)
      PROVE  Histories'
  BY <1>1, Appended DEF Enqueue, Decide, Histories
<1>2. CASE Respond
  BY <1>2, Appended DEF Respond, Histories
<1>3. CASE Result
  BY <1>3, Appended DEF Result, Histories
<1>4. CASE UNCHANGED <<queued, replies, accepted>>
  BY <1>4 DEF Histories
<1> QED
  BY <1>1, <1>2, <1>3, <1>4
     DEF Next, Ignore, Damaged, Deny, Ask, Refuse, Decide, Delivered, Lost, vars

----------------------------------------------------------------------------
\* OnlyAuthorized.

LEMMA InitAuth ==
    Init => AuthInv
<1> SUFFICES ASSUME Init PROVE AuthInv
  OBVIOUS
<1>1. DOMAIN queued = {} /\ DOMAIN replies = {} /\ ~Handling
  BY DEF Init, Handling
<1>2. AuthEnabled => ~known.authorized
  BY DEF Init, Stranger
<1> QED
  BY <1>1, <1>2, InitHistories DEF AuthInv

\* A step that leaves the queue and the answers alone.
LEMMA AuthFrame ==
    ASSUME AuthInv, UNCHANGED <<queued, replies>>, Histories',
           known'.authorized => known.authorized \/ Trusted,
           Handling' /\ code' = "ok" /\ next'.authorized => Trusted,
           \/ \A i \in DOMAIN replies : replies[i].code # "denied"
           \/ received' = received /\ (at' = "closed" \/ (at' = at /\ code' = code))
    PROVE  AuthInv'
BY DEF AuthInv, Trusted

LEMMA ReadingUndenied ==
    ASSUME AuthInv, AuthEnabled, at \notin {"closed", "result"}
    PROVE  \A i \in DOMAIN replies : replies[i].code # "denied"
BY DEF AuthInv

LEMMA StepAuth ==
    ASSUME AuthInv, [Next]_vars
    PROVE  AuthInv'
<1>h. Histories'
  BY StepHistories DEF AuthInv
<1>0. CASE ~AuthEnabled
  BY <1>0, <1>h DEF AuthInv
<1> SUFFICES ASSUME AuthEnabled PROVE AuthInv'
  BY <1>0
<1>1. ASSUME NEW p \in Inputs, Ignore(p)
      PROVE  AuthInv'
  BY <1>1, <1>h, AuthFrame, ReadingUndenied DEF Ignore, Receive, handlerVars, Handling
<1>2. ASSUME NEW p \in Inputs, Damaged(p)
      PROVE  AuthInv'
  BY <1>2, <1>h, AuthFrame, ReadingUndenied DEF Damaged, Receive, Decide
<1>3. ASSUME NEW p \in Inputs, Deny(p)
      PROVE  AuthInv'
  BY <1>3, <1>h, AuthFrame, ReadingUndenied DEF Deny, Intact, Receive, Decide
<1>4. ASSUME NEW p \in Inputs, Ask(p)
      PROVE  AuthInv'
  <2>1. ~Right(p)
    BY <1>4, IdAssumption DEF Ask, Asks, OnlyIdentity, Right, Logins
  <2>2. ~next'.authorized
    BY <1>4, <2>1 DEF Ask, Asks, Intact, Decide, NextOf, Right
  <2> QED
    BY <1>4, <1>h, <2>2, AuthFrame, ReadingUndenied DEF Ask, Intact, Receive, Decide
<1>5. ASSUME NEW p \in Inputs, Enqueue(p)
      PROVE  AuthInv'
  <2> DEFINE e == [n |-> received', packet |-> p,
                   source |-> NextOf(p).source, identity |-> NextOf(p).identity]
  <2>1. PICK x : x = e
    OBVIOUS
  <2>2. queued' = Append(queued, x) /\ x.packet = p
    BY <1>5, <2>1 DEF Enqueue
  <2>3. UNCHANGED <<replies, known>> /\ at = "reading"
    BY <1>5 DEF Enqueue, Intact, Receive, Decide
  <2>4. /\ DOMAIN queued \subseteq DOMAIN queued'
        /\ \A i \in DOMAIN queued : queued'[i] = queued[i]
        /\ \A i \in DOMAIN queued' : i \in DOMAIN queued \/ queued'[i] = x
    BY <2>2, Appended DEF AuthInv, Histories
  <2>5. ~Wrong(p) /\ (known.authorized \/ Right(p))
    BY <1>5 DEF Enqueue, Denied, Wrong, Right, NextOf
  <2>6. ASSUME NEW i \in DOMAIN queued'
        PROVE  \E j \in 1..i : Right(queued'[j].packet)
    <3>1. CASE i \in DOMAIN queued
      <4>1. PICK j \in 1..i : Right(queued[j].packet)
        BY <3>1 DEF AuthInv
      <4>2. j \in DOMAIN queued
        BY <3>1, <4>1 DEF AuthInv, Histories, IsHistory
      <4> QED BY <4>1, <4>2, <2>4
    <3>2. CASE i \notin DOMAIN queued
      <4>1. i = Len(queued) + 1 /\ Len(queued) \in Nat /\ DOMAIN queued = 1..Len(queued)
        BY <3>2, <2>2 DEF AuthInv, Histories, IsHistory
      <4>2. queued'[i] = x
        BY <2>4, <3>2
      <4>3. CASE Right(p)
        BY <4>1, <4>2, <4>3, <2>2
      <4>4. CASE known.authorized
        <5>1. PICK j \in DOMAIN queued : Right(queued[j].packet)
          BY <4>4 DEF AuthInv, Trusted
        <5>2. j \in 1..i
          BY <4>1, <5>1
        <5> QED BY <5>1, <5>2, <2>4
      <4> QED BY <4>3, <4>4, <2>5
    <3> QED BY <3>1, <3>2
  <2>7. \A i \in DOMAIN queued' : ~Wrong(queued'[i].packet)
    BY <2>2, <2>4, <2>5 DEF AuthInv
  <2>8. \E j \in DOMAIN queued' : Right(queued'[j].packet)
    <3>1. CASE Right(p)
      BY <2>2, <3>1, Appended DEF AuthInv, Histories
    <3>2. CASE known.authorized
      BY <3>2, <2>4 DEF AuthInv, Trusted
    <3> QED BY <3>1, <3>2, <2>5
  <2> QED
    BY <1>h, <2>3, <2>6, <2>7, <2>8, ReadingUndenied DEF AuthInv, Trusted
<1>6. ASSUME NEW p \in Inputs, NEW err \in {"unavailable", "mixed"}, Refuse(p, err)
      PROVE  AuthInv'
  BY <1>6, <1>h, AuthFrame, ReadingUndenied DEF Refuse, Intact, Receive, Decide, Code
<1>7. CASE Delivered
  BY <1>7, <1>h, AuthFrame, ReadingUndenied DEF Delivered, AuthInv, Handling
<1>8. CASE Respond
  <2>1. PICK r : /\ replies' = Append(replies, r)
                 /\ r.n = received /\ r.code = code
    BY <1>8 DEF Respond
  <2>2. \A i \in DOMAIN replies' :
          (i \in DOMAIN replies /\ replies'[i] = replies[i]) \/ replies'[i] = r
    BY <2>1, Appended DEF AuthInv, Histories
  <2>3. UNCHANGED <<queued, received, code, next>> /\ at = "answering"
    BY <1>8 DEF Respond
  <2>4. \/ at' = "result" /\ known' = known
        \/ at' \in {"closed", "reading"} /\ known' = Learned /\ (code = "denied" => at' = "closed")
    BY <1>8 DEF Respond, Done
  <2>5. known'.authorized => Trusted
    BY <2>3, <2>4 DEF AuthInv, Learned, Handling
  <2>6. Handling' /\ code' = "ok" /\ next'.authorized => Trusted
    BY <2>3 DEF AuthInv, Handling
  <2>7. \A i \in DOMAIN replies' : replies'[i].code = "denied" =>
          /\ replies'[i].n = received'
          /\ at' = "closed" \/ (at' = "result" /\ code' = "denied")
    BY <2>1, <2>2, <2>3, <2>4, ReadingUndenied
  <2> QED
    BY <1>h, <2>3, <2>5, <2>6, <2>7 DEF AuthInv, Trusted
<1>9. CASE Result
  <2>1. PICK r : /\ replies' = Append(replies, r)
                 /\ r.n = received /\ r.code = code
    BY <1>9 DEF Result
  <2>2. \A i \in DOMAIN replies' :
          (i \in DOMAIN replies /\ replies'[i] = replies[i]) \/ replies'[i] = r
    BY <2>1, Appended DEF AuthInv, Histories
  <2>3. UNCHANGED <<queued, received, code, next>> /\ at = "result"
    BY <1>9 DEF Result
  <2>4. at' \in {"closed", "reading"} /\ known' = Learned /\ (code = "denied" => at' = "closed")
    BY <1>9 DEF Result, Done
  <2>5. known'.authorized => Trusted
    BY <2>3, <2>4 DEF AuthInv, Learned, Handling
  <2>7. \A i \in DOMAIN replies' : replies'[i].code = "denied" =>
          /\ replies'[i].n = received'
          /\ at' = "closed" \/ (at' = "result" /\ code' = "denied")
    BY <2>1, <2>2, <2>3, <2>4 DEF AuthInv
  <2>8. Handling' /\ code' = "ok" /\ next'.authorized => Trusted
    BY <2>4 DEF Handling
  <2> QED
    BY <1>h, <2>3, <2>5, <2>7, <2>8 DEF AuthInv, Trusted
<1>10. CASE Lost
  BY <1>10, <1>h, AuthFrame DEF Lost, Handling
<1>11. CASE UNCHANGED vars
  BY <1>11, <1>h, AuthFrame DEF vars, handlerVars, AuthInv, Handling
<1> QED
  BY <1>1, <1>2, <1>3, <1>4, <1>5, <1>6, <1>7, <1>8, <1>9, <1>10, <1>11 DEF Next

\* A packet reaches the queue only on a connection that brought right credentials,
\* in that packet or in one the queue already has, and no wrong ones; a denial ends
\* the connection (handleConnection of connection.go).
THEOREM Authorized ==
    Spec => []OnlyAuthorized
<1>1. AuthInv => OnlyAuthorized
  BY DEF AuthInv, OnlyAuthorized, Right, Wrong
<1> QED
  BY <1>1, InitAuth, StepAuth, PTL DEF Spec

----------------------------------------------------------------------------
\* AnswersAgree.

LEMMA InitAnswer ==
    Init => AnswerInv
<1> SUFFICES ASSUME Init PROVE AnswerInv
  OBVIOUS
<1>1. DOMAIN queued = {} /\ DOMAIN replies = {} /\ ~Handling
  BY DEF Init, Handling
<1> QED
  BY <1>1, InitHistories DEF AnswerInv

\* What was answered while the handler reads is settled for good.
LEMMA Settled ==
    ASSUME AnswerInv, at = "reading"
    PROVE  /\ \A i \in DOMAIN replies : replies[i].code = "ok" =>
                InQueue(replies[i].n) \/ AskedFor(replies[i].n)
           /\ \A j \in DOMAIN queued : ToldOk(queued[j].n)
BY DEF AnswerInv

\* A packet that the queue does not get.
LEMMA AnswerUnqueued ==
    ASSUME AnswerInv, at = "reading", UNCHANGED <<queued, replies>>, Histories',
           Handling' /\ code' = "ok" => request',
           Handling' /\ request' => AuthRequest(packet') /\ code' # "damaged"
    PROVE  AnswerInv'
<1>1. /\ \A i \in DOMAIN replies' : replies'[i].code = "ok" =>
            InQueue(replies[i].n)' \/ AskedFor(replies[i].n)'
      /\ \A j \in DOMAIN queued' : ToldOk(queued[j].n)'
  BY Settled DEF InQueue, AskedFor, ToldOk
<1> QED
  BY <1>1 DEF AnswerInv

LEMMA AskNames ==
    ASSUME NEW p, Asks(p)
    PROVE  AuthRequest(p)
BY DEF Asks, Names, AuthRequest

LEMMA StepAnswer ==
    ASSUME AnswerInv, [Next]_vars
    PROVE  AnswerInv'
<1>h. Histories'
  BY StepHistories DEF AnswerInv
<1>1. ASSUME NEW p \in Inputs, Ignore(p)
      PROVE  AnswerInv'
  BY <1>1, <1>h, AnswerUnqueued DEF Ignore, Receive, handlerVars, Handling
<1>2. ASSUME NEW p \in Inputs, Damaged(p)
      PROVE  AnswerInv'
  BY <1>2, <1>h, AnswerUnqueued DEF Damaged, Receive, Decide
<1>3. ASSUME NEW p \in Inputs, Deny(p)
      PROVE  AnswerInv'
  BY <1>3, <1>h, AnswerUnqueued, AskNames DEF Deny, Intact, Receive, Decide
<1>4. ASSUME NEW p \in Inputs, Ask(p)
      PROVE  AnswerInv'
  BY <1>4, <1>h, AnswerUnqueued, AskNames DEF Ask, Intact, Receive, Decide
<1>5. ASSUME NEW p \in Inputs, Enqueue(p)
      PROVE  AnswerInv'
  <2>1. PICK x : queued' = Append(queued, x) /\ x.n = received'
    BY <1>5 DEF Enqueue
  <2>2. /\ replies' = replies /\ at = "reading" /\ at' \in {"waiting", "answering"}
        /\ code' = "ok" /\ request' = FALSE
    BY <1>5 DEF Enqueue, Intact, Receive, Decide
  <2>3. /\ DOMAIN queued \subseteq DOMAIN queued'
        /\ \A i \in DOMAIN queued : queued'[i] = queued[i]
        /\ \A i \in DOMAIN queued' : i \in DOMAIN queued \/ queued'[i] = x
        /\ \E i \in DOMAIN queued' : queued'[i] = x
    BY <2>1, Appended DEF AnswerInv, Histories
  <2>4. Handling' /\ code' = "ok" => request' \/ InQueue(received)'
    BY <2>1, <2>3 DEF InQueue
  <2>5. \A i \in DOMAIN replies' : replies'[i].code = "ok" =>
          InQueue(replies[i].n)' \/ AskedFor(replies[i].n)'
    BY <2>2, <2>3, Settled DEF InQueue, AskedFor
  <2>6. \A j \in DOMAIN queued' :
          \/ ToldOk(queued[j].n)'
          \/ queued'[j].n = received' /\ at' \in {"waiting", "answering"} /\ code' = "ok"
    BY <2>1, <2>2, <2>3, Settled DEF ToldOk
  <2>7. ~request'
    BY <2>2
  <2> QED
    BY <1>h, <2>4, <2>5, <2>6, <2>7 DEF AnswerInv
<1>6. ASSUME NEW p \in Inputs, NEW err \in {"unavailable", "mixed"}, Refuse(p, err)
      PROVE  AnswerInv'
  BY <1>6, <1>h, AnswerUnqueued DEF Refuse, Intact, Receive, Decide, Code
<1>7. CASE Delivered
  <2>1. UNCHANGED <<queued, replies, received, code, request, packet>> /\ at = "waiting" /\ at' = "answering"
    BY <1>7 DEF Delivered
  <2>2. Handling /\ Handling'
    BY <2>1 DEF Handling
  <2> QED
    BY <1>h, <2>1, <2>2 DEF AnswerInv, InQueue, AskedFor, ToldOk
<1>8. CASE Respond
  <2>1. PICK r : /\ replies' = Append(replies, r)
                 /\ r.n = received /\ r.code = code /\ r.kind = "response"
    BY <1>8 DEF Respond
  <2>2. /\ DOMAIN replies \subseteq DOMAIN replies'
        /\ \A i \in DOMAIN replies : replies'[i] = replies[i]
        /\ \A i \in DOMAIN replies' : i \in DOMAIN replies \/ replies'[i] = r
        /\ \E i \in DOMAIN replies' : replies'[i] = r
    BY <2>1, Appended DEF AnswerInv, Histories
  <2>3. UNCHANGED <<queued, received, code, request, packet>> /\ at = "answering"
    BY <1>8 DEF Respond
  <2>4. \/ at' = "result"
        \/ ~(AuthRequest(packet) /\ code # "damaged") /\ at' \in {"closed", "reading"}
    <3>1. CASE AuthRequest(packet) /\ code # "damaged"
      BY <1>8, <3>1 DEF Respond
    <3>2. CASE ~(AuthRequest(packet) /\ code # "damaged")
      BY <1>8, <3>2 DEF Respond, Done
    <3> QED BY <3>1, <3>2
  <2>5. /\ code = "ok" => request \/ InQueue(received)
        /\ request => AuthRequest(packet) /\ code # "damaged"
    BY <2>3 DEF AnswerInv, Handling
  <2>6. \A n : /\ InQueue(n) => InQueue(n)'
               /\ AskedFor(n) => AskedFor(n)'
               /\ ToldOk(n) => ToldOk(n)'
    BY <2>2, <2>3 DEF InQueue, AskedFor, ToldOk
  <2>7. request => at' = "result"
    BY <2>4, <2>5
  <2>8. ASSUME NEW i \in DOMAIN replies', replies'[i].code = "ok"
        PROVE  \/ InQueue(replies[i].n)' \/ AskedFor(replies[i].n)'
               \/ replies'[i].n = received' /\ request' /\ at' \in {"result", "closed"}
    <3>1. CASE i \in DOMAIN replies
      <4>1. InQueue(replies[i].n) \/ AskedFor(replies[i].n)
        BY <2>2, <2>3, <2>8, <3>1 DEF AnswerInv
      <4> QED BY <2>2, <2>6, <3>1, <4>1
    <3>2. CASE i \notin DOMAIN replies
      BY <2>1, <2>2, <2>3, <2>5, <2>6, <2>7, <2>8, <3>2
    <3> QED BY <3>1, <3>2
  <2>9. \A j \in DOMAIN queued' : ToldOk(queued[j].n)'
    <3>1. code = "ok" => ToldOk(received)'
      BY <2>1, <2>2, <2>3 DEF ToldOk
    <3>2. \A j \in DOMAIN queued : ToldOk(queued[j].n) \/ (queued[j].n = received /\ code = "ok")
      BY <2>3 DEF AnswerInv
    <3> QED BY <2>3, <2>6, <3>1, <3>2
  <2>10. /\ Handling' /\ code' = "ok" => request' \/ InQueue(received)'
         /\ Handling' /\ request' => AuthRequest(packet') /\ code' # "damaged"
    BY <2>3, <2>5, <2>6
  <2> QED
    BY <1>h, <2>8, <2>9, <2>10 DEF AnswerInv
<1>9. CASE Result
  <2>1. PICK r : /\ replies' = Append(replies, r)
                 /\ r.n = received /\ r.code = code /\ (request => r.kind = "params")
    BY <1>9 DEF Result
  <2>2. /\ DOMAIN replies \subseteq DOMAIN replies'
        /\ \A i \in DOMAIN replies : replies'[i] = replies[i]
        /\ \A i \in DOMAIN replies' : i \in DOMAIN replies \/ replies'[i] = r
        /\ \E i \in DOMAIN replies' : replies'[i] = r
    BY <2>1, Appended DEF AnswerInv, Histories
  <2>3. UNCHANGED <<queued, received, code, request, packet>> /\ at = "result"
    BY <1>9 DEF Result
  <2>4. at' \in {"closed", "reading"}
    BY <1>9 DEF Result, Done
  <2>5. code = "ok" => request \/ InQueue(received)
    BY <2>3 DEF AnswerInv, Handling
  <2>6. \A n : /\ InQueue(n) => InQueue(n)'
               /\ AskedFor(n) => AskedFor(n)'
               /\ ToldOk(n) => ToldOk(n)'
    BY <2>2, <2>3 DEF InQueue, AskedFor, ToldOk
  <2>7. request => AskedFor(received)'
    BY <2>1, <2>2, <2>3 DEF AskedFor
  <2>8. ASSUME NEW i \in DOMAIN replies', replies'[i].code = "ok"
        PROVE  InQueue(replies[i].n)' \/ AskedFor(replies[i].n)'
    <3>1. CASE i \in DOMAIN replies
      <4>0. replies[i].code = "ok"
        BY <2>2, <2>8, <3>1
      <4>1. InQueue(replies[i].n) \/ AskedFor(replies[i].n) \/ (replies[i].n = received /\ request)
        BY <2>3, <3>1, <4>0 DEF AnswerInv
      <4>2. InQueue(replies[i].n)' \/ AskedFor(replies[i].n)'
        <5>1. replies'[i].n = replies[i].n
          BY <2>2, <3>1
        <5>2. replies[i].n = received => AskedFor(received)' \/ ~request
          BY <2>7
        <5> QED BY <2>3, <2>6, <4>1, <5>1, <5>2 DEF InQueue, AskedFor
      <4> QED BY <4>2
    <3>2. CASE i \notin DOMAIN replies
      BY <2>1, <2>2, <2>3, <2>5, <2>6, <2>7, <2>8, <3>2
    <3> QED BY <3>1, <3>2
  <2>9. \A j \in DOMAIN queued' : ToldOk(queued[j].n)'
    BY <2>3, <2>6 DEF AnswerInv
  <2>10. ~Handling'
    BY <2>4 DEF Handling
  <2>11. /\ Handling' /\ code' = "ok" => request' \/ InQueue(received)'
         /\ Handling' /\ request' => AuthRequest(packet') /\ code' # "damaged"
    BY <2>10
  <2> QED
    BY <1>h, <2>8, <2>9, <2>11 DEF AnswerInv
<1>10. CASE Lost
  <2>1. /\ UNCHANGED <<queued, replies, received, code, request, packet>>
        /\ at' = "closed" /\ at # "closed"
    BY <1>10 DEF Lost
  <2>2. ~Handling'
    BY <2>1 DEF Handling
  <2>3. /\ \A j \in DOMAIN queued' : ToldOk(queued[j].n)' \/ (queued'[j].n = received' /\ at' = "closed")
        /\ \A i \in DOMAIN replies' : replies'[i].code = "ok" =>
             \/ InQueue(replies[i].n)' \/ AskedFor(replies[i].n)'
             \/ replies'[i].n = received' /\ request' /\ at' = "closed"
    BY <2>1 DEF AnswerInv, InQueue, AskedFor, ToldOk
  <2>4. /\ Handling' /\ code' = "ok" => request' \/ InQueue(received)'
        /\ Handling' /\ request' => AuthRequest(packet') /\ code' # "damaged"
    BY <2>2
  <2> QED
    BY <1>h, <2>3, <2>4 DEF AnswerInv
<1>11. CASE UNCHANGED vars
  <2>1. UNCHANGED <<queued, replies, received, code, request, packet, at>>
    BY <1>11 DEF vars, handlerVars
  <2> QED
    BY <1>h, <2>1 DEF AnswerInv, InQueue, AskedFor, ToldOk, Handling
<1> QED
  BY <1>1, <1>2, <1>3, <1>4, <1>5, <1>6, <1>7, <1>8, <1>9, <1>10, <1>11 DEF Next

\* EGTS_PC_OK means that the queue has the packet or that credentials are asked for,
\* and the handler reads on only after it has told so of every packet in the queue
\* (handleConnection and writeResponse of connection.go).
THEOREM Answered ==
    Spec => []AnswersAgree
<1>1. AnswerInv => AnswersAgree
  BY DEF AnswerInv, AnswersAgree, InQueue, AskedFor, ToldOk
<1> QED
  BY <1>1, InitAnswer, StepAnswer, PTL DEF Spec

----------------------------------------------------------------------------
\* IdentityKnown.

\* A packet read after all those in X, and what it says of its terminal.
LEMMA NamesMore ==
    ASSUME NEW X, NEW e, NEW source,
           NamesLast(source, {x \in X : Names(x.packet)}),
           e.n \in Int, \A x \in X : x.n \in Int /\ x.n < e.n
    PROVE  NamesLast(Said(e.packet, source), {x \in X \union {e} : Names(x.packet)})
<1> DEFINE Old == {x \in X : Names(x.packet)}
           New == {x \in X \union {e} : Names(x.packet)}
<1>1. CASE Names(e.packet)
  <2>1. Said(e.packet, source) = LastNamed(e.packet) /\ e \in New
    BY <1>1 DEF Said
  <2>2. \A x \in New : (\A y \in New : y.n <= x.n) => x = e
    BY <2>1
  <2> QED BY <2>1, <2>2 DEF NamesLast
<1>2. CASE ~Names(e.packet)
  <2>1. New = Old /\ Said(e.packet, source) = source
    BY <1>2 DEF Said
  <2> QED BY <2>1
<1> QED BY <1>1, <1>2

\* What holds of one packet in the queue.
Known(q) ==
    /\ NamesLast(q.source, {x \in {y \in ToSet(accepted) : y.n < q.n} \union
                                 {[n |-> q.n, packet |-> q.packet]} : Names(x.packet)})
    /\ Relaying => q.identity = q.source

LEMMA KnownEach ==
    IdentityKnown <=> \A i \in DOMAIN queued : Known(queued[i])
BY DEF IdentityKnown, Known

LEMMA InitName ==
    Init => NameInv
<1> SUFFICES ASSUME Init PROVE NameInv
  OBVIOUS
<1>1. DOMAIN queued = {} /\ ToSet(accepted) = {} /\ received = 0
  BY DEF Init, ToSet
<1>2. /\ at = "reading" /\ known.source = None
      /\ known.identity = known.source /\ next.identity = next.source
  BY DEF Init, Stranger
<1>3. Naming = {}
  BY <1>1 DEF Naming
<1> QED
  BY <1>1, <1>2, <1>3, InitHistories, KnownEach DEF NameInv, Remembered, InOrder, NamesLast

\* A step that leaves the histories alone.
LEMMA NameFrame ==
    ASSUME NameInv, UNCHANGED <<queued, accepted, known>>, Histories', Remembered',
           received' \in Nat, received <= received',
           \/ received < received'
           \/ at' \in {"waiting", "answering"} => at \in {"waiting", "answering"}
    PROVE  NameInv'
<1>1. InOrder'
  BY DEF NameInv, InOrder
<1>2. IdentityKnown'
  BY DEF NameInv, IdentityKnown
<1> QED
  BY <1>1, <1>2 DEF NameInv

\* The handler has read a packet and goes on with it.
LEMMA Taken ==
    ASSUME NameInv, NEW p, at = "reading", packet' = p, next' = NextOf(p),
           at' \in {"waiting", "answering"}, UNCHANGED <<accepted, known>>
    PROVE  Remembered'
<1>1. next'.source = Said(p, known.source) /\ (Relaying => next'.identity = Said(p, known.identity))
  BY DEF NextOf
<1>2. NamesLast(known.source, Naming) /\ (Relaying => known.identity = known.source)
  BY DEF NameInv, Remembered
<1>3. Relaying => next'.identity = next'.source
  BY <1>1, <1>2
<1>4. NamesLast(known.source, Naming)'
  BY <1>2 DEF Naming
<1>5. at' # "result" /\ packet' = p /\ known' = known
  OBVIOUS
<1>6. next'.source = Said(packet, known.source)'
  BY <1>1, <1>5
<1>7. Relaying => known'.identity = known'.source
  BY <1>2
<1> QED
  BY <1>3, <1>4, <1>5, <1>6, <1>7 DEF Remembered

LEMMA StepName ==
    ASSUME NameInv, [Next]_vars
    PROVE  NameInv'
<1>h. Histories'
  BY StepHistories DEF NameInv
<1>n. received \in Nat
  BY DEF NameInv, InOrder
<1>1. ASSUME NEW p \in Inputs, Ignore(p)
      PROVE  NameInv'
  <2>1. UNCHANGED <<known, at, code, next, packet, queued, accepted>> /\ received' = received + 1
    BY <1>1 DEF Ignore, Receive, handlerVars
  <2>2. Remembered'
    BY <2>1 DEF NameInv, Remembered, Naming
  <2> QED
    BY <1>h, <1>n, <2>1, <2>2, NameFrame
<1>2. ASSUME NEW p \in Inputs, Damaged(p)
      PROVE  NameInv'
  <2>1. /\ UNCHANGED <<known, queued, accepted>> /\ received' = received + 1
        /\ next' = known /\ code' = "damaged" /\ at = "reading" /\ at' = "answering"
    BY <1>2 DEF Damaged, Receive, Decide
  <2>2. Remembered'
    BY <2>1 DEF NameInv, Remembered, Naming
  <2> QED
    BY <1>h, <1>n, <2>1, <2>2, NameFrame
<1>3. ASSUME NEW p \in Inputs,
             Deny(p) \/ Ask(p) \/ \E err \in {"unavailable", "mixed"} : Refuse(p, err)
      PROVE  NameInv'
  <2>1. /\ UNCHANGED <<known, queued, accepted>> /\ received' = received + 1
        /\ next' = NextOf(p) /\ packet' = p /\ at = "reading" /\ at' = "answering"
    BY <1>3 DEF Deny, Ask, Refuse, Intact, Receive, Decide
  <2>2. Remembered'
    BY <2>1, Taken
  <2> QED
    BY <1>h, <1>n, <2>1, <2>2, NameFrame
<1>4. ASSUME NEW p \in Inputs, Enqueue(p)
      PROVE  NameInv'
  <2>1. /\ UNCHANGED <<known, accepted>> /\ received' = received + 1
        /\ next' = NextOf(p) /\ packet' = p /\ at = "reading"
        /\ at' \in {"waiting", "answering"}
    BY <1>4 DEF Enqueue, Intact, Receive, Decide
  <2>2. PICK q : /\ queued' = Append(queued, q)
                 /\ q.n = received' /\ q.packet = p
                 /\ q.source = NextOf(p).source /\ q.identity = NextOf(p).identity
    BY <1>4 DEF Enqueue
  <2>3. \A i \in DOMAIN queued' :
          (i \in DOMAIN queued /\ queued'[i] = queued[i]) \/ queued'[i] = q
    BY <2>2, Appended DEF NameInv, Histories
  <2>4. Remembered'
    BY <2>1, Taken
  <2>5. InOrder'
    <3>1. \A x \in ToSet(accepted) : x.n \in 1..received' /\ x.n < received'
      BY <1>n, <2>1 DEF NameInv, InOrder
    <3>2. \A i \in DOMAIN queued' : queued'[i].n \in 1..received'
      BY <1>n, <2>1, <2>2, <2>3 DEF NameInv, InOrder
    <3> QED BY <1>n, <2>1, <3>1, <3>2 DEF InOrder
  <2>6. Known(q)
    <3> DEFINE e == [n |-> q.n, packet |-> q.packet]
    <3>1. q.source = Said(q.packet, known.source) /\ (Relaying => q.identity = q.source)
      BY <2>1, <2>2 DEF NextOf, NameInv, Remembered
    <3>2. e.n \in Int /\ \A x \in ToSet(accepted) : x.n \in Int /\ x.n < e.n
      BY <1>n, <2>1, <2>2 DEF NameInv, InOrder
    <3>3. {y \in ToSet(accepted) : y.n < q.n} = ToSet(accepted)
      BY <3>2
    <3>4. NamesLast(known.source, {x \in ToSet(accepted) : Names(x.packet)})
      BY <2>1 DEF NameInv, Remembered, Naming
    <3>5. NamesLast(Said(e.packet, known.source), {x \in ToSet(accepted) \union {e} : Names(x.packet)})
      BY <3>2, <3>4, NamesMore
    <3> QED BY <3>1, <3>3, <3>5 DEF Known
  <2>7. \A i \in DOMAIN queued' : Known(queued'[i])
    BY <2>3, <2>6, KnownEach DEF NameInv
  <2>8. \A z : Known(z) => Known(z)'
    BY <2>1 DEF Known
  <2>9. IdentityKnown'
    BY <2>7, <2>1 DEF IdentityKnown, Known
  <2> QED
    BY <1>h, <2>4, <2>5, <2>9 DEF NameInv
<1>5. CASE Delivered
  <2>1. /\ UNCHANGED <<known, code, next, packet, received, queued, accepted>>
        /\ at = "waiting" /\ at' = "answering"
    BY <1>5 DEF Delivered
  <2>2. Remembered'
    BY <2>1 DEF NameInv, Remembered, Naming
  <2> QED
    BY <1>h, <1>n, <2>1, <2>2, NameFrame
<1>6. CASE Respond
  <2>1. UNCHANGED <<queued, received, code, next, packet>> /\ at = "answering"
    BY <1>6 DEF Respond
  <2>2. \/ at' = "result" /\ known' = known
        \/ at' \in {"closed", "reading"} /\ known' = Learned
    BY <1>6 DEF Respond, Done
  <2>3. NamesLast(known.source, Naming) /\ (code = "ok" => next.source = Said(packet, known.source))
    BY <2>1 DEF NameInv, Remembered
  <2>4. \A x \in ToSet(accepted) : x.n \in 1..received /\ x.n < received
    BY <2>1 DEF NameInv, InOrder
  <2>5. PICK e : e = [n |-> received, packet |-> packet]
    OBVIOUS
  <2>6. IF code = "ok" THEN ToSet(accepted)' = ToSet(accepted) \union {e}
                       ELSE ToSet(accepted)' = ToSet(accepted)
    BY <1>6, <2>5, Appended DEF Respond, NameInv, Histories
  <2>7. NamesLast(IF code = "ok" THEN next.source ELSE known.source, Naming')
    <3>1. CASE code = "ok"
      <4>1. e.n \in Int /\ \A x \in ToSet(accepted) : x.n \in Int /\ x.n < e.n
        BY <1>n, <2>4, <2>5
      <4>2. NamesLast(Said(e.packet, known.source), {x \in ToSet(accepted) \union {e} : Names(x.packet)})
        BY <2>3, <4>1, NamesMore DEF Naming
      <4> QED BY <2>3, <2>5, <2>6, <3>1, <4>2 DEF Naming
    <3>2. CASE code # "ok"
      BY <2>3, <2>6, <3>2 DEF Naming
    <3> QED BY <3>1, <3>2
  <2>8. /\ Relaying => known'.identity = known'.source
        /\ Relaying => next'.identity = next'.source
    BY <2>1, <2>2 DEF NameInv, Remembered, Learned
  <2>9. at' = "reading" => known'.source = (IF code = "ok" THEN next.source ELSE known.source)
    BY <2>2 DEF Learned
  <2>10. /\ at' = "reading" => NamesLast(known'.source, Naming')
         /\ at' = "result" => NamesLast(IF code' = "ok" THEN next'.source ELSE known'.source, Naming')
    <3>1. CASE at' = "reading"
      BY <2>7, <2>9, <3>1
    <3>2. CASE at' = "result"
      BY <2>1, <2>2, <2>7, <3>2
    <3> QED BY <3>1, <3>2
  <2>11. at' \notin {"waiting", "answering"}
    BY <2>2
  <2>12. Remembered'
    BY <2>8, <2>10, <2>11 DEF Remembered, NamesLast
  <2>13. InOrder'
    <3>1. \A x \in ToSet(accepted)' : x.n \in 1..received'
      <4>1. code = "ok" => received > 0
        BY <2>1 DEF NameInv, InOrder
      <4> QED BY <1>n, <2>1, <2>4, <2>5, <2>6, <4>1
    <3> QED BY <2>1, <2>11, <3>1 DEF NameInv, InOrder
  <2>14. IdentityKnown'
    <3>1. ASSUME NEW i \in DOMAIN queued
          PROVE  {y \in ToSet(accepted)' : y.n < queued[i].n} = {y \in ToSet(accepted) : y.n < queued[i].n}
      <4>1. ~(received < queued[i].n)
        BY <1>n DEF NameInv, InOrder
      <4> QED BY <2>5, <2>6, <4>1
    <3> QED
      BY <2>1, <3>1 DEF NameInv, IdentityKnown
  <2> QED
    BY <1>h, <2>12, <2>13, <2>14 DEF NameInv
<1>7. CASE Result
  <2>1. /\ UNCHANGED <<queued, received, code, next, packet, accepted>> /\ at = "result"
        /\ at' \in {"closed", "reading"} /\ known' = Learned
    BY <1>7 DEF Result, Done
  <2>2. Remembered'
    <3>1. known'.source = (IF code = "ok" THEN next.source ELSE known.source)
      BY <2>1 DEF Learned
    <3>2. NamesLast(known.source, Naming)'
      BY <2>1, <3>1 DEF NameInv, Remembered, Naming
    <3>3. /\ Relaying => known'.identity = known'.source
          /\ Relaying => next'.identity = next'.source
      BY <2>1 DEF NameInv, Remembered, Learned
    <3> QED BY <2>1, <3>2, <3>3 DEF Remembered
  <2>3. IdentityKnown' /\ InOrder'
    BY <2>1 DEF NameInv, IdentityKnown, InOrder
  <2> QED
    BY <1>h, <2>2, <2>3 DEF NameInv
<1>8. CASE Lost
  <2>1. UNCHANGED <<known, code, next, packet, received, queued, accepted>> /\ at' = "closed"
    BY <1>8 DEF Lost
  <2>2. Remembered'
    BY <2>1 DEF NameInv, Remembered
  <2> QED
    BY <1>h, <1>n, <2>1, <2>2, NameFrame
<1>9. CASE UNCHANGED vars
  <2>1. UNCHANGED <<known, at, code, next, packet, received, queued, accepted>>
    BY <1>9 DEF vars, handlerVars
  <2>2. Remembered'
    BY <2>1 DEF NameInv, Remembered, Naming
  <2> QED
    BY <1>h, <1>n, <2>1, <2>2, NameFrame
<1> QED
  BY <1>1, <1>2, <1>3, <1>4, <1>5, <1>6, <1>7, <1>8, <1>9 DEF Next

\* A record is stored and relayed under the identity that the accepted packets and
\* its own packet gave last (nextSource and nextRelayIdentity of connection.go).
THEOREM Identified ==
    Spec => []IdentityKnown
<1>1. NameInv => IdentityKnown
  BY DEF NameInv
<1> QED
  BY <1>1, InitName, StepName, PTL DEF Spec


----------------------------------------------------------------------------
\* Why NumbersDiffer holds: how far back a number lies from the last one is how
\* many packets, or at most how many records, came after it, as long as those are
\* fewer than there are numbers.

Number == 0..(Numbers - 1)
Behind(x, last) == IF x <= last THEN last - x ELSE last - x + Numbers
Since(i) == UNION {{<<k, r>> : r \in replies[k].records} : k \in i..Len(replies)}

NumberInv ==
    /\ IsHistory(replies)
    /\ Handling => packet \in Inputs
    /\ pid \in Number /\ rn \in Number
    /\ \A i \in DOMAIN replies :
         replies[i].pid \in Number /\ replies[i].records \subseteq Number /\ IsFiniteSet(Since(i))
    /\ \A i \in DOMAIN replies :
         Len(replies) - i < Numbers => Behind(replies[i].pid, pid) = Len(replies) - i
    /\ \A i \in DOMAIN replies : Cardinality(Since(i)) < Numbers =>
         \A r \in replies[i].records : Behind(r, rn) < Cardinality(Since(i))
    /\ NumbersDiffer

----------------------------------------------------------------------------
\* The numbers after a number.

LEMMA PlusIs ==
    ASSUME NEW n \in Number, NEW k \in 0..Numbers
    PROVE  Plus(n, k) = IF n + k < Numbers THEN n + k ELSE n + k - Numbers
BY NumberAssumption DEF Plus, Number

LEMMA PlusNumber ==
    ASSUME NEW n \in Number, NEW k \in Nat
    PROVE  Plus(n, k) \in Number
BY NumberAssumption DEF Plus, Number

\* Going on by k puts a number k further behind, until it would come up again.
LEMMA FurtherBehind ==
    ASSUME NEW x \in Number, NEW last \in Number, NEW k \in Nat, Behind(x, last) + k < Numbers
    PROVE  Behind(x, Plus(last, k)) = Behind(x, last) + k
<1>1. Numbers \in Nat /\ x \in 0..(Numbers - 1) /\ last \in 0..(Numbers - 1)
  BY NumberAssumption DEF Number
<1>2. Behind(x, last) \in Nat
  BY <1>1 DEF Behind
<1>3. k \in 0..Numbers
  BY <1>1, <1>2
<1>4. Plus(last, k) = IF last + k < Numbers THEN last + k ELSE last + k - Numbers
  BY <1>3, PlusIs
<1>5. CASE last + k < Numbers
  BY <1>1, <1>4, <1>5 DEF Behind
<1>6. CASE ~(last + k < Numbers)
  <2>1. Plus(last, k) = last + k - Numbers
    BY <1>4, <1>6
  <2>2. x <= last
    BY <1>1, <1>6 DEF Behind
  <2> QED BY <1>1, <1>6, <2>1, <2>2 DEF Behind
<1> QED BY <1>5, <1>6

\* Of the c numbers after last, the k-th lies c - k behind the last of them.
LEMMA BehindLast ==
    ASSUME NEW last \in Number, NEW c \in Nat, c < Numbers, NEW k \in 1..c
    PROVE  Behind(Plus(last, k), Plus(last, c)) = c - k
<1>1. Numbers \in Nat /\ last \in 0..(Numbers - 1) /\ k \in 0..Numbers /\ c \in 0..Numbers
  BY NumberAssumption DEF Number
<1>2. Plus(last, k) = IF last + k < Numbers THEN last + k ELSE last + k - Numbers
  BY <1>1, PlusIs
<1>3. Plus(last, c) = IF last + c < Numbers THEN last + c ELSE last + c - Numbers
  BY <1>1, PlusIs
<1>4. CASE last + c < Numbers
  BY <1>1, <1>2, <1>3, <1>4 DEF Behind
<1>5. CASE ~(last + c < Numbers) /\ last + k < Numbers
  BY <1>1, <1>2, <1>3, <1>5 DEF Behind
<1>6. CASE ~(last + k < Numbers)
  BY <1>1, <1>2, <1>3, <1>6 DEF Behind
<1> QED BY <1>4, <1>5, <1>6

\* No number a full turn or less ahead is one that lies behind by less than the rest.
LEMMA AheadDiffers ==
    ASSUME NEW x \in Number, NEW last \in Number, NEW k \in Nat \ {0},
           Behind(x, last) + k < Numbers
    PROVE  Plus(last, k) # x
<1>1. Behind(x, Plus(last, k)) = Behind(x, last) + k
  BY FurtherBehind
<1>2. Behind(x, last) >= 0 /\ Behind(x, last) \in Int /\ Behind(x, x) = 0
  BY NumberAssumption DEF Behind, Number
<1> QED BY <1>1, <1>2

LEMMA PlusDiffers ==
    ASSUME NEW last \in Number, NEW j \in 1..Numbers, NEW k \in 1..Numbers,
           Plus(last, j) = Plus(last, k)
    PROVE  j = k
<1>1. Numbers \in Nat \ {0} /\ last \in 0..(Numbers - 1)
  BY NumberAssumption DEF Number
<1>2. j \in 0..Numbers /\ k \in 0..Numbers
  BY <1>1
<1>3. Plus(last, j) = IF last + j < Numbers THEN last + j ELSE last + j - Numbers
  BY <1>2, PlusIs
<1>4. Plus(last, k) = IF last + k < Numbers THEN last + k ELSE last + k - Numbers
  BY <1>2, PlusIs
<1>5. PICK l \in Int, x \in Int, y \in Int :
         l = last /\ x = j /\ y = k /\ 0 <= l /\ l < Numbers /\ 1 <= x /\ x <= Numbers /\ 1 <= y /\ y <= Numbers
  BY <1>1
<1>6. (IF l + x < Numbers THEN l + x ELSE l + x - Numbers) = (IF l + y < Numbers THEN l + y ELSE l + y - Numbers)
  BY <1>3, <1>4, <1>5
<1>7. x = y
  BY ONLY <1>1, <1>5, <1>6
<1> QED BY <1>5, <1>7

\* c numbers in a row are c different ones, or all there are.
LEMMA Batch ==
    ASSUME NEW n \in Nat, NEW last \in Number, NEW c \in Nat, NEW R,
           R = {Plus(last, k) : k \in 1..c}
    PROVE  /\ R \subseteq Number
           /\ IsFiniteSet({<<n, r>> : r \in R})
           /\ Cardinality({<<n, r>> : r \in R}) \in Nat
           /\ Cardinality({<<n, r>> : r \in R}) < Numbers => c <= Cardinality({<<n, r>> : r \in R})
<1> DEFINE B == {<<n, r>> : r \in R}
<1>1. R \subseteq Number
  BY PlusNumber
<1>2. IsFiniteSet(R)
  <2>1. Numbers - 1 \in Int /\ 0 \in Int
    BY NumberAssumption
  <2>2. IsFiniteSet(Number)
    BY <2>1, FS_Interval DEF Number
  <2> QED BY <1>1, <2>2, FS_Subset
<1>3. IsFiniteSet(B) /\ Cardinality(B) \in Nat
  <2> DEFINE g == [r \in R |-> <<n, r>>]
  <2>1. g \in Surjection(R, B)
    BY DEF Surjection
  <2> HIDE DEF g, B
  <2>2. IsFiniteSet(B)
    BY <1>2, <2>1, FS_Surjection
  <2> QED BY <2>2, FS_CardinalityType
<1>4. ASSUME Cardinality(B) < Numbers
      PROVE  c <= Cardinality(B)
  <2>1. Numbers \in Nat \ {0}
    BY NumberAssumption
  <2>2. PICK m \in Nat : m = IF c <= Numbers THEN c ELSE Numbers
    BY <2>1
  <2>3. m <= c /\ m <= Numbers
    BY <2>1, <2>2
  <2> DEFINE h == [k \in 1..m |-> <<n, Plus(last, k)>>]
  <2>4. h \in [1..m -> B]
    BY <2>3
  <2>5. ASSUME NEW j \in 1..m, NEW k \in 1..m, h[j] = h[k]
        PROVE  j = k
    <3>1. Plus(last, j) = Plus(last, k)
      BY <2>5
    <3>2. j \in 1..Numbers /\ k \in 1..Numbers
      BY <2>1, <2>3
    <3> QED BY <3>1, <3>2, PlusDiffers
  <2>6. h \in Injection(1..m, B)
    BY <2>4, <2>5 DEF Injection, IsInjective
  <2> HIDE DEF h, B
  <2>7. Cardinality(1..m) <= Cardinality(B)
    BY <1>3, <2>6, FS_Injection
  <2>8. Cardinality(1..m) = m
    <3>1. 1 \in Int /\ m \in Int
      OBVIOUS
    <3>2. Cardinality(1..m) = IF 1 > m THEN 0 ELSE m - 1 + 1
      BY <3>1, FS_Interval
    <3> QED BY <3>2
  <2> QED BY <1>3, <1>4, <2>1, <2>2, <2>7, <2>8
<1> QED BY <1>1, <1>3, <1>4


----------------------------------------------------------------------------
\* NumbersDiffer.

\* A packet with the next number for itself and the c next for its records.
LEMMA NumbersNext ==
    ASSUME NumberInv, NEW c \in Nat, NEW q,
           replies' = Append(replies, q), IsHistory(replies'), Handling' => packet' \in Inputs,
           pid' = Plus(pid, 1), rn' = Plus(rn, c),
           q.pid = Plus(pid, 1), q.records = {Plus(rn, k) : k \in 1..c}
    PROVE  NumberInv'
<1> PICK n \in Nat : n = Len(replies)
  BY DEF NumberInv, IsHistory
<1> DEFINE B == {<<n + 1, r>> : r \in q.records}
<1>1. /\ DOMAIN replies = 1..n /\ Len(replies') = n + 1 /\ DOMAIN replies' = 1..(n + 1)
      /\ replies'[n + 1] = q
      /\ \A i \in 1..n : replies'[i] = replies[i]
  <2>1. PICK S : replies \in Seq(S)
    BY DEF NumberInv, IsHistory
  <2>2. replies \in Seq(S \union {q}) /\ q \in S \union {q}
    BY <2>1
  <2> QED BY <2>2
<1>2. pid \in Number /\ rn \in Number /\ Numbers \in Nat \ {0}
  BY NumberAssumption DEF NumberInv
<1>3. q.pid \in Number /\ pid' \in Number /\ rn' \in Number
  BY <1>2, PlusNumber
<1>4. /\ q.records \subseteq Number
      /\ IsFiniteSet(B) /\ Cardinality(B) \in Nat
      /\ Cardinality(B) < Numbers => c <= Cardinality(B)
  <2>1. n + 1 \in Nat
    OBVIOUS
  <2> QED BY <1>2, <2>1, Batch
\* What came since the i-th packet is what came before and the new records.
<1>5. ASSUME NEW i \in 1..n
      PROVE  /\ Since(i)' = Since(i) \union B
             /\ IsFiniteSet(Since(i)) /\ IsFiniteSet(Since(i)')
             /\ Cardinality(Since(i)) \in Nat
             /\ Cardinality(Since(i)') = Cardinality(Since(i)) + Cardinality(B)
  <2>1. Since(i)' = Since(i) \union B
    <3>1. i..(n + 1) = (i..n) \union {n + 1}
      OBVIOUS
    <3>2. Since(i)' = UNION {{<<k, r>> : r \in replies'[k].records} : k \in i..(n + 1)}
      BY <1>1 DEF Since
    <3>3. Since(i) = UNION {{<<k, r>> : r \in replies'[k].records} : k \in i..n}
      <4>1. \A k \in i..n : replies'[k] = replies[k]
        BY <1>1
      <4> QED BY <4>1 DEF Since
    <3> QED BY <1>1, <3>1, <3>2, <3>3
  <2>2. IsFiniteSet(Since(i))
    BY <1>1 DEF NumberInv
  <2>3. Since(i) \intersect B = {}
    <3>1. \A x \in Since(i) : x[1] \in i..n
      BY DEF Since
    <3>2. \A x \in B : x[1] = n + 1
      OBVIOUS
    <3>3. n + 1 \notin i..n
      OBVIOUS
    <3> QED BY <3>1, <3>2, <3>3
  <2> HIDE DEF B
  <2>4. /\ IsFiniteSet(Since(i) \union B)
        /\ Cardinality(Since(i) \union B)
             = Cardinality(Since(i)) + Cardinality(B) - Cardinality(Since(i) \intersect B)
    BY <1>4, <2>2, FS_Union
  <2>5. Cardinality(Since(i) \intersect B) = 0
    BY <2>3, FS_EmptySet
  <2>6. Cardinality(Since(i)) \in Nat
    BY <2>2, FS_CardinalityType
  <2> QED BY <1>4, <2>1, <2>2, <2>4, <2>5, <2>6
<1>6. Since(n + 1)' = B
  <2>1. (n + 1)..(n + 1) = {n + 1}
    OBVIOUS
  <2> QED BY <1>1, <2>1 DEF Since
<1> HIDE DEF B
<1>7. \A i \in DOMAIN replies' :
        replies'[i].pid \in Number /\ replies'[i].records \subseteq Number /\ IsFiniteSet(Since(i)')
  BY <1>1, <1>3, <1>4, <1>5, <1>6 DEF NumberInv
\* The packets' own numbers.
<1>8. ASSUME NEW i \in 1..n, n + 1 - i < Numbers
      PROVE  /\ Behind(replies[i].pid, pid') = n + 1 - i
             /\ replies[i].pid # q.pid
  <2>1. replies[i].pid \in Number /\ Behind(replies[i].pid, pid) = n - i
    BY <1>1, <1>2, <1>8 DEF NumberInv
  <2>2. Behind(replies[i].pid, pid) + 1 < Numbers
    BY <1>2, <1>8, <2>1
  <2>3. Behind(replies[i].pid, Plus(pid, 1)) = Behind(replies[i].pid, pid) + 1
    BY <1>2, <2>1, <2>2, FurtherBehind
  <2>4. Plus(pid, 1) # replies[i].pid
    BY <1>2, <2>1, <2>2, AheadDiffers
  <2> QED BY <2>1, <2>3, <2>4
\* Those of their records.
<1>9. ASSUME NEW i \in 1..n, Cardinality(Since(i)') < Numbers
      PROVE  /\ \A r \in replies[i].records : Behind(r, rn') < Cardinality(Since(i)')
             /\ replies[i].records \intersect q.records = {}
  <2>1. PICK m \in Nat : m = Cardinality(Since(i))
    BY <1>5
  <2>2. PICK b \in Nat : b = Cardinality(B)
    BY <1>4
  <2>3. m + b < Numbers /\ c <= b /\ m < Numbers
    BY <1>2, <1>4, <1>5, <1>9, <2>1, <2>2
  <2>4. ASSUME NEW r \in replies[i].records
        PROVE  /\ r \in Number
               /\ Behind(r, rn) \in Nat /\ Behind(r, rn) < m
    <3>1. r \in Number
      BY <1>1 DEF NumberInv
    <3>2. Behind(r, rn) \in Nat
      BY <1>2, <3>1 DEF Behind, Number
    <3>3. Behind(r, rn) < m
      BY <1>1, <2>1, <2>3 DEF NumberInv
    <3> QED BY <3>1, <3>2, <3>3
  <2>5. ASSUME NEW r \in replies[i].records
        PROVE  Behind(r, rn') < Cardinality(Since(i)')
    <3>1. Behind(r, rn) + c < Numbers
      BY <1>2, <2>3, <2>4
    <3>2. Behind(r, Plus(rn, c)) = Behind(r, rn) + c
      BY <1>2, <2>4, <3>1, FurtherBehind
    <3> QED BY <1>2, <1>5, <2>1, <2>2, <2>3, <2>4, <3>2
  <2>6. ASSUME NEW r \in replies[i].records, NEW k \in 1..c
        PROVE  Plus(rn, k) # r
    <3>1. k \in Nat \ {0} /\ Behind(r, rn) + k < Numbers
      BY <1>2, <2>3, <2>4
    <3> QED BY <1>2, <2>4, <3>1, AheadDiffers
  <2> QED BY <2>5, <2>6
<1>10. ASSUME Cardinality(B) < Numbers
       PROVE  \A r \in q.records : Behind(r, rn') < Cardinality(B)
  <2>1. PICK b \in Nat : b = Cardinality(B)
    BY <1>4
  <2>2. c <= b /\ b < Numbers /\ c < Numbers
    BY <1>2, <1>4, <1>10, <2>1
  <2>3. ASSUME NEW k \in 1..c
        PROVE  Behind(Plus(rn, k), Plus(rn, c)) < b
    <3>1. Behind(Plus(rn, k), Plus(rn, c)) = c - k
      BY <1>2, <2>2, BehindLast
    <3> QED BY <2>1, <2>2, <3>1
  <2> QED BY <2>1, <2>3
\* The new packet is the last one: nothing lies after it.
<1>11. \A i \in DOMAIN replies' :
         Len(replies') - i < Numbers => Behind(replies'[i].pid, pid') = Len(replies') - i
  <2>1. Behind(q.pid, pid') = 0
    BY <1>3 DEF Behind, Number
  <2>2. ASSUME NEW i \in 1..(n + 1), n + 1 - i < Numbers
        PROVE  Behind(replies'[i].pid, pid') = n + 1 - i
    <3>1. CASE i = n + 1
      BY <1>1, <2>1, <3>1
    <3>2. CASE i \in 1..n
      BY <1>1, <1>8, <2>2, <3>2
    <3> QED BY <3>1, <3>2
  <2> QED BY <1>1, <2>2
<1>12. \A i \in DOMAIN replies' : Cardinality(Since(i)') < Numbers =>
         \A r \in replies'[i].records : Behind(r, rn') < Cardinality(Since(i)')
  <2>1. ASSUME NEW i \in 1..(n + 1), Cardinality(Since(i)') < Numbers
        PROVE  \A r \in replies'[i].records : Behind(r, rn') < Cardinality(Since(i)')
    <3>1. CASE i = n + 1
      BY <1>1, <1>6, <1>10, <2>1, <3>1
    <3>2. CASE i \in 1..n
      BY <1>1, <1>9, <2>1, <3>2
    <3> QED BY <3>1, <3>2
  <2> QED BY <1>1, <2>1
<1>13. NumbersDiffer'
  <2>1. ASSUME NEW i \in 1..(n + 1), NEW j \in 1..(n + 1), i < j, j - i < Numbers
        PROVE  replies'[i].pid # replies'[j].pid
    <3>1. CASE j = n + 1
      BY <1>1, <1>8, <2>1, <3>1
    <3>2. CASE j \in 1..n
      <4>1. i \in 1..n
        BY <2>1, <3>2
      <4> QED BY <1>1, <2>1, <3>2, <4>1 DEF NumberInv, NumbersDiffer
    <3> QED BY <3>1, <3>2
  <2>2. ASSUME NEW i \in 1..(n + 1), NEW j \in 1..(n + 1), i < j,
               Cardinality(UNION {{<<k, r>> : r \in replies'[k].records} : k \in i..j}) < Numbers
        PROVE  replies'[i].records \intersect replies'[j].records = {}
    <3>1. CASE j = n + 1
      <4>1. i \in 1..n
        BY <2>2, <3>1
      <4>2. UNION {{<<k, r>> : r \in replies'[k].records} : k \in i..j} = Since(i)'
        BY <1>1, <3>1 DEF Since
      <4> QED BY <1>1, <1>9, <2>2, <3>1, <4>1, <4>2
    <3>2. CASE j \in 1..n
      <4>1. i \in 1..n
        BY <2>2, <3>2
      <4>2. \A k \in i..j : replies'[k] = replies[k]
        BY <1>1, <3>2, <4>1
      <4>3. UNION {{<<k, r>> : r \in replies'[k].records} : k \in i..j}
              = UNION {{<<k, r>> : r \in replies[k].records} : k \in i..j}
        BY <4>2
      <4>4. replies[i].records \intersect replies[j].records = {}
        BY <1>1, <2>2, <3>2, <4>1, <4>3 DEF NumberInv, NumbersDiffer
      <4> QED BY <1>1, <3>2, <4>1, <4>4
    <3> QED BY <3>1, <3>2
  <2>3. DOMAIN replies' = 1..(n + 1)
    BY <1>1
  <2>4. \A i, j \in DOMAIN replies' : i < j /\ j - i < Numbers => replies'[i].pid # replies'[j].pid
    BY <2>1, <2>3
  <2>5. \A i, j \in DOMAIN replies' :
          i < j /\ Cardinality(UNION {{<<k, r>> : r \in replies'[k].records} : k \in i..j}) < Numbers
             => replies'[i].records \intersect replies'[j].records = {}
    BY <2>2, <2>3
  <2> QED BY <2>4, <2>5 DEF NumbersDiffer
<1> QED BY <1>3, <1>7, <1>11, <1>12, <1>13 DEF NumberInv, Handling

\* A packet confirms a whole number of pairs of services.
LEMMA ConfirmingNat ==
    ASSUME packet \in Inputs
    PROVE  Confirming \in Nat
<1> PICK s : s = packet.services
  OBVIOUS
<1>1. s \in Seq([pair : STRING, items : Seq(Items)])
  BY InputAssumption DEF Packets
<1>2. Len(s) \in Nat /\ DOMAIN s = 1..Len(s)
  BY <1>1
<1> DEFINE P == {s[i].pair : i \in 1..Len(s)}
<1> DEFINE f == [i \in 1..Len(s) |-> s[i].pair]
<1>3. f \in Surjection(1..Len(s), P)
  BY DEF Surjection
<1>4. PairsWithData(packet) \subseteq P
  BY <1>2 DEF PairsWithData, ToSet
<1> HIDE DEF f, P
<1>5. IsFiniteSet(1..Len(s))
  BY <1>2, FS_Interval
<1>6. IsFiniteSet(P)
  BY <1>3, <1>5, FS_Surjection
<1>7. IsFiniteSet(PairsWithData(packet))
  BY <1>4, <1>6, FS_Subset
<1> QED BY <1>7, FS_CardinalityType DEF Confirming

LEMMA InitNumber ==
    Init => NumberInv
<1> SUFFICES ASSUME Init PROVE NumberInv
  OBVIOUS
<1>1. DOMAIN replies = {} /\ ~Handling /\ IsHistory(replies)
  BY InitHistories DEF Init, Handling, Histories
<1>2. pid \in Number /\ rn \in Number
  BY NumberAssumption DEF Init, Number
<1> QED BY <1>1, <1>2 DEF NumberInv, NumbersDiffer

\* A step that answers nothing.
LEMMA NumberFrame ==
    ASSUME NumberInv, UNCHANGED <<pid, rn, replies>>, Handling' => packet' \in Inputs
    PROVE  NumberInv'
<1>1. \A i : Since(i)' = Since(i)
  BY DEF Since
<1>2. NumbersDiffer'
  BY DEF NumberInv, NumbersDiffer
<1> QED BY <1>1, <1>2 DEF NumberInv

LEMMA StepNumber ==
    ASSUME NumberInv, Histories', [Next]_vars
    PROVE  NumberInv'
<1>1. ASSUME NEW p \in Inputs, Ignore(p) \/ Damaged(p) \/ Deny(p) \/ Ask(p) \/ Enqueue(p)
      PROVE  NumberInv'
  <2>1. Handling' => packet' \in Inputs
    BY <1>1 DEF Ignore, Damaged, Deny, Ask, Enqueue, Decide, NumberInv, Handling, handlerVars
  <2>2. UNCHANGED <<pid, rn, replies>>
    BY <1>1 DEF Ignore, Damaged, Deny, Ask, Enqueue, Decide, handlerVars
  <2> QED BY <2>1, <2>2, NumberFrame
<1>2. ASSUME NEW p \in Inputs, NEW err \in {"unavailable", "mixed"}, Refuse(p, err)
      PROVE  NumberInv'
  <2>1. packet' \in Inputs /\ UNCHANGED <<pid, rn, replies>>
    BY <1>2 DEF Refuse, Decide
  <2> QED BY <2>1, NumberFrame
<1>3. CASE Delivered \/ Lost \/ UNCHANGED vars
  <2>1. (Handling' => packet' \in Inputs) /\ UNCHANGED <<pid, rn, replies>>
    BY <1>3 DEF Delivered, Lost, vars, handlerVars, NumberInv, Handling
  <2> QED BY <2>1, NumberFrame
<1>4. CASE Respond
  <2>1. packet \in Inputs /\ packet' = packet
    BY <1>4 DEF Respond, NumberInv, Handling
  <2>2. Confirming \in Nat
    BY <2>1, ConfirmingNat
  <2> DEFINE q == [kind |-> "response", n |-> received, code |-> code, pid |-> pid',
                   records |-> {Plus(rn, k) : k \in 1..Confirming}]
  <2>3. /\ replies' = Append(replies, q)
        /\ pid' = Plus(pid, 1) /\ rn' = Plus(rn, Confirming)
    BY <1>4 DEF Respond, LastNumber
  <2>4. q.pid = Plus(pid, 1) /\ q.records = {Plus(rn, k) : k \in 1..Confirming}
    BY <2>3
  <2>5. IsHistory(replies')
    BY DEF Histories
  <2> HIDE DEF q
  <2> QED BY <2>1, <2>2, <2>3, <2>4, <2>5, NumbersNext
<1>5. CASE Result
  <2>1. packet \in Inputs /\ packet' = packet
    BY <1>5 DEF Result, NumberInv, Handling
  <2> DEFINE q == [kind |-> IF request THEN "params" ELSE "result", n |-> received,
                   code |-> code, pid |-> pid', records |-> {rn'}]
  <2>2. /\ replies' = Append(replies, q)
        /\ pid' = Plus(pid, 1) /\ rn' = Plus(rn, 1)
    BY <1>5 DEF Result
  <2>3. q.pid = Plus(pid, 1) /\ q.records = {Plus(rn, k) : k \in 1..1}
    <3>1. 1..1 = {1}
      OBVIOUS
    <3> QED BY <2>2, <3>1
  <2>4. IsHistory(replies')
    BY DEF Histories
  <2> HIDE DEF q
  <2>5. 1 \in Nat
    OBVIOUS
  <2> QED BY <2>1, <2>2, <2>3, <2>4, <2>5, NumbersNext
<1> QED BY <1>1, <1>2, <1>3, <1>4, <1>5 DEF Next

\* The gateway's packets, and the records in them, are told apart by their numbers
\* as long as fewer than Numbers follow each other (getPidRn, PrepareAnswer and
\* the results of an authentication), whatever a packet makes the gateway confirm.
THEOREM Numbered == Spec => []NumbersDiffer
<1>1. Init => NumberInv /\ Histories
  BY InitNumber, InitHistories
<1>2. NumberInv /\ Histories /\ [Next]_vars => (NumberInv /\ Histories)'
  BY StepNumber, StepHistories
<1>3. NumberInv => NumbersDiffer
  BY DEF NumberInv
<1> QED BY <1>1, <1>2, <1>3, PTL DEF Spec

=============================================================================
