--------------------------- MODULE EgtsPeerProofs ---------------------------
(***************************************************************************)
(* Confirmed, NothingOwed and Admitted of the EGTS destination for all     *)
(* packets, identities and numbers of calls: what the exchange still waits *)
(* for (wait) is always as much as the server still owes, so the exchange  *)
(* is complete only when nothing is owed and everything was said, and said *)
(* to be right. So was all that a connection was authenticated with.       *)
(***************************************************************************)
EXTENDS Destinations, Integers, Sequences, TLAPS

\* Identities the packets come with, and the packets that are sent.
Whom == UNION {Peer!Given(r) : r \in Records}
Login1(k, p, x) ==
    [kind |-> k, pid |-> p, auth |-> TRUE, services |-> <<[number |-> p, pair |-> "auth", items |-> <<x>>]>>]
Sendable ==
    {Peer!Data(r) : r \in Records} \union
    {Login1(k, p, x) : k \in {"credentials", "identity"}, p \in Int, x \in Whom \union {"right"}}
Entries == [message : Sendable, for : Whom]

TypeInv ==
    /\ conn \in BOOLEAN /\ at \in {"idle", "dialing", "checking", "sending", "receiving"}
    /\ todo \in Seq(Sendable) /\ sent \in Seq(Entries)
    /\ {wait.transport, wait.auth, wait.required} \subseteq BOOLEAN
    /\ at # "idle" => call \in [record : Records, identity : Whom]
    /\ at \in {"checking", "sending", "receiving"} =>
          conn /\ todo # <<>> /\ todo[Len(todo)] = Peer!Data(call.record)
    /\ result = "ok" => at = "idle"

\* The exchange of m still waits for the answer to a part.
Waits(m, w, p) ==
    /\ p = Peer!Whole => ~w.transport
    /\ p = Peer!Login /\ m.auth => ~w.auth
    /\ p \in Peer!Keys(m) => p \in w.pending

Now == Len(sent)
DebtInv ==
    /\ at # "receiving" => owed = {}
    /\ at = "receiving" =>
          /\ sent # <<>> /\ sent[Now] = [message |-> Head(todo), for |-> call.identity]
          /\ owed \subseteq Peer!Debts(Head(todo), Now)
          /\ \A d \in owed : Waits(Head(todo), wait, d.part)

SaidInv ==
    /\ \A s \in said : s.send \in Int /\ s.send <= Now
    /\ at = "receiving" =>
          /\ \A p \in Peer!Parts(Head(todo)) :
                [send |-> Now, part |-> p] \in owed \/ \E s \in said : s.send = Now /\ s.part = p
          /\ \A s \in said : s.send = Now =>
                /\ s = [send |-> Now, part |-> s.part, code |-> s.code] /\ s.part \in Peer!Parts(Head(todo))
                /\ s.code = "ok" \/ (wait.required /\ s.code = "params")

IInv == TypeInv /\ DebtInv /\ SaidInv /\ Peer!Confirmed

\* A destination of another kind has no such connection.
KindInv ==
    /\ kind = "egts" => IInv
    /\ kind # "egts" => ~conn

----------------------------------------------------------------------------
\* No record is named like the other things a frame can speak of.
LEMMA PartsPlain ==
    ASSUME NEW m \in Sendable
    PROVE  Peer!Params \notin Peer!Parts(m) /\ Peer!Unknown \notin Peer!Parts(m) /\ Peer!Whole \in Peer!Parts(m)
<1>1. ASSUME NEW s \in Peer!ToSet(m.services) PROVE s.pair \notin {"params", "unknown"}
  <2>1. CASE \E r \in Records : m = Peer!Data(r)
    BY <1>1, <2>1, RelayAssumption DEF Peer!Data, Peer!ToSet
  <2>2. CASE \E k \in {"credentials", "identity"}, p \in Int, x \in Whom \union {"right"} : m = Login1(k, p, x)
    BY <1>1, <2>2 DEF Login1, Peer!ToSet
  <2> QED BY <2>1, <2>2 DEF Sendable
<1>2. Peer!Params \notin Peer!Keys(m) /\ Peer!Unknown \notin Peer!Keys(m)
  BY <1>1 DEF Peer!Keys, Peer!Params, Peer!Unknown
<1>3. Peer!Params # Peer!Whole /\ Peer!Params # Peer!Login /\ Peer!Unknown # Peer!Whole /\ Peer!Unknown # Peer!Login
  BY DEF Peer!Params, Peer!Whole, Peer!Login, Peer!Unknown
<1> QED BY <1>2, <1>3 DEF Peer!Parts

\* What a frame of the server says, part by part.
LEMMA FrameSays ==
    ASSUME NEW n, NEW m \in Sendable, NEW answered \in SUBSET Peer!Parts(m), NEW code \in Peer!Codes,
           NEW f, f = Peer!Frame(n, answered, code)
    PROVE  /\ \A q \in Peer!Parts(m) \ answered : ~Peer!Speaks(f, q)
           /\ code = "progress" => \A q : ~Peer!Says(f, q)
           /\ Peer!Speaks(f, Peer!Params) <=> (code = "params" /\ Peer!Login \in answered)
           /\ ~Peer!Speaks(f, Peer!Unknown)
           /\ code = "bad" => \A q \in answered : [about |-> q, code |-> "bad"] \in f.says
<1>1. f.says = {[about |-> IF code = "params" /\ p = Peer!Login THEN Peer!Params ELSE p,
                 code |-> IF code = "params" THEN "ok" ELSE code] : p \in answered}
  BY DEF Peer!Frame
<1>2. Peer!Params \notin answered /\ Peer!Params \notin Peer!Parts(m) /\ Peer!Unknown \notin answered
  BY PartsPlain
<1>3. \A q \in Peer!Parts(m) \ answered : ~Peer!Speaks(f, q)
  BY <1>1, <1>2 DEF Peer!Speaks
<1>4. code = "progress" => \A q : ~Peer!Says(f, q)
  BY <1>1 DEF Peer!Says
<1>5. ASSUME code = "params", Peer!Login \in answered PROVE Peer!Speaks(f, Peer!Params)
  <2>1. [about |-> Peer!Params, code |-> "ok"] \in f.says
    BY <1>1, <1>5
  <2> QED BY <2>1 DEF Peer!Speaks
<1>6. ASSUME Peer!Speaks(f, Peer!Params) PROVE code = "params" /\ Peer!Login \in answered
  <2>1. PICK p \in answered : (IF code = "params" /\ p = Peer!Login THEN Peer!Params ELSE p) = Peer!Params
    BY <1>1, <1>6 DEF Peer!Speaks
  <2> QED BY <1>2, <2>1
<1>7. ~Peer!Speaks(f, Peer!Unknown)
  <2>1. Peer!Unknown # Peer!Params
    BY DEF Peer!Unknown, Peer!Params
  <2> QED BY <1>1, <1>2, <2>1 DEF Peer!Speaks
<1>8. ASSUME code = "bad", NEW q \in answered PROVE [about |-> q, code |-> "bad"] \in f.says
  BY <1>1, <1>8
<1> QED BY <1>3, <1>4, <1>5, <1>6, <1>7, <1>8

\* A frame is as good as its parts: the exchange waits on for every part that still
\* lacks a final answer.
LEMMA AfterWaits ==
    ASSUME NEW n, NEW m \in Sendable, m = Head(todo), NEW answered \in SUBSET Peer!Parts(m),
           NEW code \in Peer!Codes, code = "params" => Peer!Login \in answered,
           NEW f, f = Peer!Frame(n, answered, code),
           NEW q \in Peer!Parts(m), q \notin answered \/ code = "progress", Waits(m, wait, q)
    PROVE  Waits(m, Peer!After(wait, f), q)
<1>1. ~Peer!Says(f, q) /\ (q \notin answered => ~Peer!Speaks(f, q))
  <2>1. /\ q \notin answered => ~Peer!Speaks(f, q)
        /\ code = "progress" => ~Peer!Says(f, q)
    BY FrameSays
  <2>2. Peer!Says(f, q) => Peer!Speaks(f, q)
    BY DEF Peer!Says, Peer!Speaks
  <2> QED BY <2>1, <2>2
<1>2. q = Peer!Login => ~Peer!Speaks(f, Peer!Params)
  BY FrameSays
<1>3. q = Peer!Whole => ~Peer!After(wait, f).transport
  BY <1>1 DEF Peer!After, Waits
<1>4. q = Peer!Login /\ m.auth => ~Peer!After(wait, f).auth
  BY <1>1, <1>2 DEF Peer!After, Waits
<1>5. q \in Peer!Keys(m) => q \in Peer!After(wait, f).pending
  BY <1>1 DEF Peer!After, Waits
<1> QED BY <1>3, <1>4, <1>5 DEF Waits

----------------------------------------------------------------------------
\* An error ends the connection, and with it all that was owed and said on it.
LEMMA AbortKeeps ==
    ASSUME Peer!Abort, TypeInv, owed' = {}, said' = {}
    PROVE  IInv'
<1>1. /\ at' = "idle" /\ result' = "error" /\ conn' = FALSE /\ sent' = <<>>
      /\ todo' = <<>> /\ wait' = Peer!NoWait
  BY DEF Peer!Abort, Peer!AfterError
<1>2. TypeInv'
  <2>1. <<>> \in Seq(Sendable) /\ <<>> \in Seq(Entries)
    OBVIOUS
  <2>2. {wait'.transport, wait'.auth, wait'.required} \subseteq BOOLEAN
    BY <1>1 DEF Peer!NoWait
  <2> QED BY <1>1, <2>1, <2>2 DEF TypeInv
<1> QED BY <1>1, <1>2 DEF IInv, DebtInv, SaidInv, Peer!Confirmed

\* A complete exchange: the next packet of the call, or its end.
LEMMA ProceedKeeps ==
    ASSUME Peer!Proceed, TypeInv, at = "receiving", SaidInv', owed' = {},
           sent # <<>>, sent[Now] = [message |-> Head(todo), for |-> call.identity],
           Len(todo) = 1 => {s \in said' : s.send = Now} =
               {[send |-> Now, part |-> p, code |-> "ok"] : p \in Peer!Parts(Head(todo))}
    PROVE  IInv'
<1>1. /\ todo' = Tail(todo) /\ wait' = Peer!NoWait /\ UNCHANGED <<conn, call, sent>>
      /\ IF Len(todo) = 1 THEN at' = "idle" /\ result' = "ok" ELSE at' = "checking" /\ result' = result
  BY DEF Peer!Proceed
<1>2. /\ todo \in Seq(Sendable) /\ todo # <<>> /\ todo[Len(todo)] = Peer!Data(call.record) /\ conn
      /\ Len(todo) \in Nat /\ Len(todo) >= 1 /\ Head(todo) = todo[1]
  BY DEF TypeInv
<1>3. TypeInv'
  <2>1. Tail(todo) \in Seq(Sendable) /\ Len(Tail(todo)) = Len(todo) - 1
    BY <1>2
  <2>2. Len(todo) # 1 => Tail(todo) # <<>> /\ Tail(todo)[Len(Tail(todo))] = Peer!Data(call.record)
    <3>1. SUFFICES ASSUME Len(todo) # 1
                   PROVE  Tail(todo) # <<>> /\ Tail(todo)[Len(Tail(todo))] = Peer!Data(call.record)
      OBVIOUS
    <3>2. Len(todo) - 1 \in 1..Len(Tail(todo)) /\ Len(Tail(todo)) = Len(todo) - 1
      BY <1>2, <2>1, <3>1
    <3>3. Tail(todo)[Len(todo) - 1] = todo[Len(todo)]
      BY <1>2, <3>2
    <3>4. Tail(todo) # <<>>
      <4>1. Len(Tail(todo)) # 0
        BY <1>2, <3>1, <3>2
      <4>2. Len(<<>>) = 0
        OBVIOUS
      <4> QED BY <4>1, <4>2
    <3> QED BY <1>2, <3>2, <3>3, <3>4
  <2>3. result # "ok"
    BY DEF TypeInv
  <2> QED BY <1>1, <1>2, <2>1, <2>2, <2>3 DEF TypeInv, Peer!NoWait
<1>4. DebtInv'
  BY <1>1 DEF DebtInv
<1>5. Peer!Confirmed'
  <2>1. SUFFICES ASSUME result' = "ok" PROVE Peer!Confirmed'
    BY DEF Peer!Confirmed
  <2>2. Len(todo) = 1
    BY <1>1, <2>1 DEF TypeInv
  <2>3. Head(todo) = Peer!Data(call.record)
    BY <1>2, <2>2
  <2> QED BY <1>1, <1>2, <2>2, <2>3 DEF Peer!Confirmed, Peer!Last, Now
<1> QED BY <1>3, <1>4, <1>5 DEF IInv

\* Each part of the packet was taken, or the server asks for credentials that follow.
Settled ==
    \A p \in Peer!Parts(Head(todo)) : \E s \in said' :
        s.send = Now /\ s.part = p /\ (s.code = "ok" \/ (s.code = "params" /\ ~Peer!Unanswerable))

\* The heart of the argument: an answer of the server.
LEMMA AnswerKeeps ==
    ASSUME IInv, NEW n \in DOMAIN sent, NEW code \in Peer!Codes,
           NEW answered \in (SUBSET Peer!Parts(sent[n].message)) \ {{}},
           Peer!Answer(n, answered, code)
    PROVE  IInv' /\ (Peer!Proceed => Settled)
<1> DEFINE f == Peer!Frame(n, answered, code)
           m == Head(todo)
           w == Peer!After(wait, f)
           these == {[send |-> n, part |-> p] : p \in answered}
           final == {[send |-> n, part |-> p, code |-> code] : p \in answered}
<1>1. /\ at = "receiving" /\ Peer!Receive(f) /\ (code = "params" => Peer!Login \in answered) /\ these \subseteq owed
      /\ owed' = (IF ~conn' THEN {} ELSE IF code = "progress" THEN owed ELSE owed \ these)
      /\ said' = (IF ~conn' THEN {} ELSE IF code = "progress" THEN said ELSE said \union final)
  BY DEF Peer!Answer
<1>2. /\ TypeInv /\ conn /\ todo \in Seq(Sendable) /\ todo # <<>> /\ m \in Sendable
      /\ sent \in Seq(Entries) /\ sent # <<>> /\ Now \in Nat /\ sent[Now] = [message |-> m, for |-> call.identity]
  BY <1>1 DEF IInv, TypeInv, DebtInv, Now
<1>3. n = Now /\ answered \in SUBSET Peer!Parts(m)
  <2>1. PICK p \in answered : [send |-> n, part |-> p] \in owed
    <3>1. PICK p \in answered : TRUE
      OBVIOUS
    <3>2. [send |-> n, part |-> p] \in these
      BY <3>1
    <3> QED BY <1>1, <3>1, <3>2
  <2>2. n = Now
    BY <1>1, <2>1 DEF IInv, DebtInv, Peer!Debts
  <2> QED BY <1>2, <2>2
<1>4. \A p \in answered : Waits(m, wait, p)
  <2>1. ASSUME NEW p \in answered PROVE Waits(m, wait, p)
    <3>1. [send |-> n, part |-> p] \in owed
      BY <1>1
    <3> QED BY <1>1, <3>1 DEF IInv, DebtInv
  <2> QED BY <2>1
<1>5. ~Peer!Ignored(f)
  <2>1. f.pid = sent[n].message.pid
    BY DEF Peer!Frame
  <2> QED BY <1>2, <1>3, <2>1 DEF Peer!Ignored
<1>6. CASE Peer!Refuses(f)
  <2>1. Peer!Abort
    BY <1>1, <1>5, <1>6 DEF Peer!Receive
  <2>2. conn' = FALSE /\ ~Peer!Proceed
    BY <1>2, <2>1 DEF Peer!Abort, Peer!AfterError, Peer!Proceed
  <2> QED BY <1>1, <1>2, <2>1, <2>2, AbortKeeps
<1>7. CASE ~Peer!Refuses(f)
  <2>1. code # "bad"
    <3>1. SUFFICES ASSUME code = "bad" PROVE FALSE
      OBVIOUS
    <3>2. PICK p \in answered : [about |-> p, code |-> "bad"] \in f.says
      <4>1. f = Peer!Frame(n, answered, code)
        OBVIOUS
      <4> HIDE DEF m, f
      <4>2. \A q \in answered : [about |-> q, code |-> "bad"] \in f.says
        BY <1>2, <1>3, <3>1, <4>1, FrameSays
      <4> QED BY <1>3, <4>2
    <3>3. p \in {Peer!Whole} \union wait.pending \union (IF m.auth THEN {Peer!Login} ELSE {})
      BY <1>3, <1>4 DEF Peer!Parts, Waits
    <3> HIDE DEF f
    <3>4. Peer!Refuses(f)
      BY <3>2, <3>3 DEF Peer!Refuses
    <3> QED BY <1>7, <3>4
  <2>2. ASSUME NEW q \in Peer!Parts(m), [send |-> Now, part |-> q] \in owed, q \notin answered \/ code = "progress"
        PROVE  Waits(m, w, q)
    <3>1. Waits(m, wait, q)
      BY <1>1, <2>2 DEF IInv, DebtInv
    <3> HIDE DEF m
    <3>2. m = Head(todo) /\ f = Peer!Frame(n, answered, code)
      BY DEF m
    <3> HIDE DEF f
    <3> QED BY <1>1, <1>2, <1>3, <2>2, <3>1, <3>2, AfterWaits
  <2>3. {w.transport, w.auth, w.required} \subseteq BOOLEAN
    <3>1. {wait.transport, wait.auth, wait.required} \subseteq BOOLEAN
      BY <1>2 DEF TypeInv
    <3> HIDE DEF f
    <3>2. Peer!Says(f, Peer!Whole) \in BOOLEAN /\ Peer!Says(f, Peer!Login) \in BOOLEAN /\ Peer!Speaks(f, Peer!Params) \in BOOLEAN
      BY DEF Peer!Says, Peer!Speaks
    <3>3. w.transport \in BOOLEAN /\ w.auth \in BOOLEAN
      BY <3>1, <3>2 DEF Peer!After
    <3>4. w.required = (wait.required \/ Peer!Speaks(f, Peer!Params))
      BY DEF Peer!After
    <3> QED BY <3>3, <3>4
  <2>4. (wait.required => w.required) /\ (code = "params" => w.required)
    <3>1. code = "params" => Peer!Speaks(f, Peer!Params)
      <4> HIDE DEF m
      <4> QED BY <1>1, <1>2, <1>3, FrameSays
    <3> HIDE DEF f
    <3> QED BY <3>1 DEF Peer!After
  \* What is owed and said when the connection stays.
  <2>5. ASSUME conn'
        PROVE  /\ owed' \subseteq Peer!Debts(m, Now) /\ \A d \in owed' : Waits(m, w, d.part)
               /\ \A s \in said' : s.send \in Int /\ s.send <= Now
               /\ \A p \in Peer!Parts(m) :
                     [send |-> Now, part |-> p] \in owed' \/ \E s \in said' : s.send = Now /\ s.part = p
               /\ \A s \in said' : s.send = Now =>
                     /\ s = [send |-> Now, part |-> s.part, code |-> s.code] /\ s.part \in Peer!Parts(m)
                     /\ s.code = "ok" \/ (w.required /\ s.code = "params")
    <3>1. owed \subseteq Peer!Debts(m, Now) /\ owed' \subseteq owed
      BY <1>1 DEF IInv, DebtInv
    <3>2. ASSUME NEW d \in owed' PROVE Waits(m, w, d.part)
      <4>1. d \in owed /\ d = [send |-> Now, part |-> d.part] /\ d.part \in Peer!Parts(m)
        BY <3>1 DEF Peer!Debts
      <4>2. d.part \notin answered \/ code = "progress"
        BY <1>1, <1>3, <2>5, <4>1
      <4> QED BY <2>2, <4>1, <4>2
    <3>3. ASSUME NEW s \in said' PROVE s.send \in Int /\ s.send <= Now
      <4>1. s \in said \/ s \in final
        BY <1>1, <2>5
      <4> QED BY <1>2, <1>3, <4>1 DEF IInv, SaidInv
    <3>4. ASSUME NEW p \in Peer!Parts(m)
          PROVE  [send |-> Now, part |-> p] \in owed' \/ \E s \in said' : s.send = Now /\ s.part = p
      <4>1. CASE \E s \in said : s.send = Now /\ s.part = p
        BY <1>1, <2>5, <4>1
      <4>2. CASE [send |-> Now, part |-> p] \in owed
        <5>1. CASE code # "progress" /\ p \in answered
          <6>1. [send |-> n, part |-> p, code |-> code] \in said'
            BY <1>1, <2>5, <5>1
          <6> QED BY <1>3, <6>1
        <5>2. CASE code = "progress" \/ p \notin answered
          BY <1>1, <2>5, <4>2, <5>2
        <5> QED BY <5>1, <5>2
      <4> QED BY <1>1, <4>1, <4>2 DEF IInv, SaidInv
    <3>5. ASSUME NEW s \in said', s.send = Now
          PROVE  /\ s = [send |-> Now, part |-> s.part, code |-> s.code] /\ s.part \in Peer!Parts(m)
                 /\ s.code = "ok" \/ (w.required /\ s.code = "params")
      <4>1. CASE s \in said
        BY <1>1, <2>4, <3>5, <4>1 DEF IInv, SaidInv
      <4>2. CASE s \notin said
        <5>1. s \in final /\ code # "progress"
          BY <1>1, <2>5, <4>2
        <5>2. code \in {"ok", "params"}
          BY <2>1, <5>1 DEF Peer!Codes
        <5> QED BY <1>3, <2>4, <5>1, <5>2
      <4> QED BY <4>1, <4>2
    <3> QED BY <3>1, <3>2, <3>3, <3>4, <3>5
  <2>6. CASE Peer!Complete(w)
    <3>1. CASE w.required /\ Peer!Unanswerable
      <4>1. Peer!Abort
        BY <1>1, <1>5, <1>7, <2>6, <3>1 DEF Peer!Receive
      <4>2. conn' = FALSE /\ ~Peer!Proceed
        BY <1>2, <4>1 DEF Peer!Abort, Peer!AfterError, Peer!Proceed
      <4> QED BY <1>1, <1>2, <4>1, <4>2, AbortKeeps
    <3>2. CASE ~(w.required /\ Peer!Unanswerable)
      <4>1. Peer!Proceed
        BY <1>1, <1>5, <1>7, <2>6, <3>2 DEF Peer!Receive
      <4>2. conn' /\ UNCHANGED sent /\ todo' = Tail(todo)
        BY <1>2, <4>1 DEF Peer!Proceed
      <4>3. \A p \in Peer!Parts(m) : ~Waits(m, w, p)
        <5> HIDE DEF m, w
        <5> QED BY <2>6 DEF Peer!Complete, Waits, Peer!Parts
      <4>4. owed' = {}
        BY <2>5, <4>2, <4>3 DEF Peer!Debts
      <4>5. SaidInv'
        <5>1. at' # "receiving"
          BY <4>1 DEF Peer!Proceed
        <5> QED BY <2>5, <4>2, <5>1 DEF SaidInv, Now
      <4>6. ASSUME Len(todo) = 1
            PROVE  {s \in said' : s.send = Now} = {[send |-> Now, part |-> p, code |-> "ok"] : p \in Peer!Parts(m)}
        <5>1. m = Peer!Data(call.record)
          BY <1>1, <1>2, <4>6 DEF TypeInv
        <5>2. ~w.required
          <6>1. m.kind = "data"
            BY <5>1 DEF Peer!Data
          <6> QED BY <3>2, <6>1 DEF Peer!Unanswerable
        <5>3. \A s \in said' : s.send = Now => s = [send |-> Now, part |-> s.part, code |-> "ok"] /\ s.part \in Peer!Parts(m)
          BY <2>5, <4>2, <5>2
        <5>4. ASSUME NEW p \in Peer!Parts(m) PROVE [send |-> Now, part |-> p, code |-> "ok"] \in said'
          <6>1. PICK s \in said' : s.send = Now /\ s.part = p
            BY <2>5, <4>2, <4>4
          <6> QED BY <5>3, <6>1
        <5> HIDE DEF m
        <5> QED BY <5>3, <5>4
      <4>7. Settled
        <5>1. ASSUME NEW p \in Peer!Parts(m)
              PROVE  \E s \in said' : s.send = Now /\ s.part = p /\ (s.code = "ok" \/ (s.code = "params" /\ ~Peer!Unanswerable))
          <6>1. PICK s \in said' : s.send = Now /\ s.part = p
            BY <2>5, <4>2, <4>4
          <6>2. s.code = "ok" \/ (w.required /\ s.code = "params")
            BY <2>5, <4>2, <6>1
          <6> QED BY <3>2, <6>1, <6>2
        <5> QED BY <5>1 DEF Settled
      <4> QED BY <1>1, <1>2, <4>1, <4>4, <4>5, <4>6, <4>7, ProceedKeeps
    <3> QED BY <3>1, <3>2
  <2>7. CASE ~Peer!Complete(w)
    <3>1. wait' = w /\ UNCHANGED <<conn, identity, closed, at, call, todo, calls, result, sent>>
      BY <1>1, <1>5, <1>7, <2>7 DEF Peer!Receive
    <3>2. TypeInv'
      BY <1>2, <2>3, <3>1 DEF TypeInv
    <3>3. result' # "ok"
      BY <1>1, <1>2, <3>1 DEF TypeInv
    <3>4. DebtInv'
      BY <1>1, <1>2, <2>5, <3>1 DEF DebtInv, Now
    <3>5. SaidInv'
      BY <1>1, <1>2, <2>5, <3>1 DEF SaidInv, Now
    <3>6. ~Peer!Proceed
      BY <1>1, <3>1 DEF Peer!Proceed
    <3> QED BY <3>2, <3>3, <3>4, <3>5, <3>6 DEF IInv, Peer!Confirmed
  <2> QED BY <2>6, <2>7
<1> QED BY <1>6, <1>7

\* What nobody asked for says nothing about the parts, or refuses the exchange.
LEMMA StrayKeeps ==
    ASSUME IInv, Peer!StrayFrame PROVE IInv' /\ (Peer!Proceed => Settled)
<1>1. /\ at = "receiving" /\ TypeInv /\ DebtInv /\ SaidInv
      /\ IF conn' THEN UNCHANGED <<owed, said>> ELSE owed' = {} /\ said' = {}
  BY DEF Peer!StrayFrame, IInv
<1>2. PICK f \in Peer!Stray : Peer!Receive(f)
  BY DEF Peer!StrayFrame
<1>3. /\ conn /\ todo # <<>> /\ Head(todo) \in Sendable /\ sent # <<>> /\ Now \in Nat
      /\ sent[Now] = [message |-> Head(todo), for |-> call.identity]
  BY <1>1 DEF TypeInv, DebtInv, Now
<1>4. CASE Peer!Abort
  <2>1. conn' = FALSE /\ ~Peer!Proceed
    BY <1>3, <1>4 DEF Peer!Abort, Peer!AfterError, Peer!Proceed
  <2> QED BY <1>1, <1>4, <2>1, AbortKeeps
<1>5. CASE ~Peer!Abort
  <2>1. Peer!Ignored(f) \/ ~Peer!Refuses(f)
    BY <1>2, <1>5 DEF Peer!Receive
  \* The frames that are not ignored and refuse nothing speak of no part at all.
  <2>2. Peer!Ignored(f) \/ Peer!After(wait, f) = [pending |-> wait.pending, transport |-> wait.transport,
                                        auth |-> wait.auth, required |-> wait.required]
    <3>1. SUFFICES ASSUME ~Peer!Ignored(f), ~Peer!Refuses(f)
                   PROVE  Peer!After(wait, f) = [pending |-> wait.pending, transport |-> wait.transport,
                                            auth |-> wait.auth, required |-> wait.required]
      BY <2>1
    <3>2. \E subject \in {Peer!Whole, <<"teledata", Numbers>>} : f.says = {[about |-> subject, code |-> "bad"]}
      <4>1. f.says # {[about |-> Peer!Unknown, code |-> "ok"]}
        <5>1. ~Peer!Speaks(f, Peer!Unknown)
          BY <3>1 DEF Peer!Refuses
        <5>2. [about |-> Peer!Unknown, code |-> "ok"] \notin f.says
          BY <5>1 DEF Peer!Speaks
        <5> QED BY <5>2
      <4> QED BY <4>1 DEF Peer!Stray
    <3>3. f.says # {[about |-> Peer!Whole, code |-> "bad"]}
      <4>1. \A s \in f.says : ~(s.code = "bad" /\ s.about = Peer!Whole)
        BY <3>1 DEF Peer!Refuses
      <4>2. [about |-> Peer!Whole, code |-> "bad"] \notin f.says
        BY <4>1
      <4> QED BY <4>2
    <3>4. f.says = {[about |-> <<"teledata", Numbers>>, code |-> "bad"]}
      BY <3>2, <3>3
    <3>5. \A q : ~Peer!Says(f, q)
      BY <3>4 DEF Peer!Says
    <3>6. ~Peer!Speaks(f, Peer!Whole) /\ ~Peer!Speaks(f, Peer!Login) /\ ~Peer!Speaks(f, Peer!Params)
      BY <3>4 DEF Peer!Speaks, Peer!Whole, Peer!Login, Peer!Params
    <3>7. {wait.transport, wait.auth, wait.required} \subseteq BOOLEAN
      BY <1>1 DEF TypeInv
    <3>8. {k \in wait.pending : ~Peer!Says(f, k)} = wait.pending
      BY <3>5
    <3> QED BY <3>6, <3>7, <3>8 DEF Peer!After
  <2>3. CASE Peer!Ignored(f) \/ ~Peer!Complete(Peer!After(wait, f))
    <3>1. /\ UNCHANGED <<conn, identity, closed, at, call, todo, calls, result, sent>>
          /\ wait' = (IF Peer!Ignored(f) THEN wait ELSE Peer!After(wait, f))
      BY <1>2, <1>5, <2>1, <2>3 DEF Peer!Receive
    <3>2. /\ wait'.pending = wait.pending /\ wait'.transport = wait.transport
          /\ wait'.auth = wait.auth /\ wait'.required = wait.required
      BY <2>2, <3>1
    <3>3. UNCHANGED <<owed, said>>
      BY <1>1, <1>3, <3>1
    <3>4. TypeInv'
      BY <1>1, <3>1, <3>2 DEF TypeInv
    <3>5. DebtInv'
      BY <1>1, <3>1, <3>2, <3>3 DEF DebtInv, Waits, Now
    <3>6. SaidInv'
      BY <1>1, <3>1, <3>2, <3>3 DEF SaidInv, Now
    <3>7. result' # "ok" /\ ~Peer!Proceed
      BY <1>1, <3>1 DEF TypeInv, Peer!Proceed
    <3> QED BY <3>4, <3>5, <3>6, <3>7 DEF IInv, Peer!Confirmed
  <2>4. CASE ~Peer!Ignored(f) /\ Peer!Complete(Peer!After(wait, f))
    <3>1. Peer!Proceed /\ ~(Peer!After(wait, f).required /\ Peer!Unanswerable)
      BY <1>2, <1>5, <2>1, <2>4 DEF Peer!Receive
    <3>2. conn' = conn /\ UNCHANGED <<owed, said, sent>> /\ at' # "receiving"
      BY <1>1, <1>3, <3>1 DEF Peer!Proceed
    <3>3. Peer!Complete(wait)
      BY <2>2, <2>4 DEF Peer!Complete
    <3>4. owed = {}
      <4>1. SUFFICES ASSUME NEW d \in owed PROVE FALSE
        OBVIOUS
      <4>2. Waits(Head(todo), wait, d.part) /\ d.part \in Peer!Parts(Head(todo))
        BY <1>1 DEF DebtInv, Peer!Debts
      <4> QED BY <3>3, <4>2 DEF Peer!Complete, Waits, Peer!Parts
    <3>5. SaidInv'
      BY <1>1, <3>2 DEF SaidInv, Now
    <3>6. ASSUME Len(todo) = 1
          PROVE  {s \in said' : s.send = Now} = {[send |-> Now, part |-> p, code |-> "ok"] : p \in Peer!Parts(Head(todo))}
      <4>1. Head(todo) = Peer!Data(call.record)
        BY <1>1, <3>6 DEF TypeInv
      <4>2. Head(todo).kind = "data"
        BY <4>1 DEF Peer!Data
      <4>3. ~wait.required
        BY <2>2, <2>4, <3>1, <4>2 DEF Peer!Unanswerable
      <4>4. \A s \in said : s.send = Now =>
               s = [send |-> Now, part |-> s.part, code |-> "ok"] /\ s.part \in Peer!Parts(Head(todo))
        BY <1>1, <4>3 DEF SaidInv
      <4>5. ASSUME NEW p \in Peer!Parts(Head(todo)) PROVE [send |-> Now, part |-> p, code |-> "ok"] \in said
        <5>1. PICK s \in said : s.send = Now /\ s.part = p
          BY <1>1, <3>4 DEF SaidInv
        <5> QED BY <4>4, <5>1
      <4> QED BY <3>2, <4>4, <4>5
    <3>7. Settled
      <4>1. ASSUME NEW p \in Peer!Parts(Head(todo))
            PROVE  \E s \in said : s.send = Now /\ s.part = p /\ (s.code = "ok" \/ (s.code = "params" /\ ~Peer!Unanswerable))
        <5>1. PICK s \in said : s.send = Now /\ s.part = p
          BY <1>1, <3>4 DEF SaidInv
        <5>2. s.code = "ok" \/ (wait.required /\ s.code = "params")
          BY <1>1, <5>1 DEF SaidInv
        <5>3. wait.required => ~Peer!Unanswerable
          BY <2>2, <2>4, <3>1
        <5> QED BY <5>1, <5>2, <5>3
      <4> QED BY <3>2, <4>1 DEF Settled
    <3> QED BY <1>1, <1>3, <3>1, <3>2, <3>4, <3>5, <3>6, <3>7, ProceedKeeps
  <2> QED BY <2>3, <2>4
<1> QED BY <1>4, <1>5

----------------------------------------------------------------------------
\* A call that begins, and one that is refused.
LEMMA CallKeeps ==
    ASSUME IInv, Peer!Other, NEW r \in Records, NEW id \in Peer!Given(r), Peer!Reject(r, id) \/ Peer!Call(r, id)
    PROVE  IInv'
<1>1. TypeInv /\ at = "idle" /\ owed = {} /\ SaidInv /\ id \in Whom
  BY DEF Peer!Reject, Peer!Call, IInv, DebtInv, Whom
<1>2. call' = [record |-> r, identity |-> id] /\ result' # "ok" /\ wait' = wait
  BY DEF Peer!Reject, Peer!Call
<1>3. CASE Peer!Reject(r, id)
  <2>1. UNCHANGED <<conn, at, todo, sent>>
    BY <1>3 DEF Peer!Reject
  <2>2. owed' = {} /\ (said' = said \/ said' = {})
    BY <1>1, <2>1 DEF Peer!Other
  <2>3. SaidInv'
    BY <1>1, <2>1, <2>2 DEF SaidInv, Now
  <2> QED BY <1>1, <1>2, <2>1, <2>2, <2>3 DEF IInv, TypeInv, DebtInv, Peer!Confirmed
<1>4. CASE Peer!Call(r, id) /\ Peer!Usable(id)
  <2>1. at' = "checking" /\ todo' = <<Peer!Data(r)>> /\ UNCHANGED <<conn, sent>> /\ conn
    BY <1>4 DEF Peer!Call, Peer!Usable
  <2>2. owed' = {} /\ (said' = said \/ said' = {})
    BY <1>1, <2>1 DEF Peer!Other
  <2>3. SaidInv'
    BY <1>1, <2>1, <2>2 DEF SaidInv, Now
  <2>4. /\ Peer!Data(r) \in Sendable /\ <<Peer!Data(r)>> \in Seq(Sendable) /\ Len(<<Peer!Data(r)>>) = 1
        /\ call'.record = r
    BY <1>2 DEF Sendable
  <2>5. TypeInv'
    BY <1>1, <1>2, <2>1, <2>4 DEF TypeInv
  <2> QED BY <1>2, <2>1, <2>2, <2>3, <2>5 DEF IInv, DebtInv, Peer!Confirmed
<1>5. CASE Peer!Call(r, id) /\ ~Peer!Usable(id)
  <2>1. at' = "dialing" /\ todo' = <<>> /\ conn' = FALSE /\ sent' = <<>>
    BY <1>5 DEF Peer!Call
  <2>2. owed' = {} /\ said' = {}
    BY <2>1 DEF Peer!Other
  <2>3. <<>> \in Seq(Sendable) /\ <<>> \in Seq(Entries)
    OBVIOUS
  <2>4. TypeInv'
    BY <1>1, <1>2, <2>1, <2>3 DEF TypeInv
  <2> QED BY <1>2, <2>1, <2>2, <2>4 DEF IInv, DebtInv, SaidInv, Peer!Confirmed
<1> QED BY <1>3, <1>4, <1>5

LEMMA DialKeeps ==
    ASSUME IInv, Peer!Other, Peer!Dial PROVE IInv'
<1>1. /\ TypeInv /\ at = "dialing" /\ owed = {} /\ SaidInv /\ result # "ok"
      /\ call.record \in Records /\ call.identity \in Whom
  BY DEF Peer!Dial, IInv, DebtInv, TypeInv
<1>2. /\ at' = "checking" /\ conn' = TRUE /\ UNCHANGED <<call, wait, result, sent>>
      /\ todo' = Append(Peer!Authentication(call), Peer!Data(call.record))
  BY DEF Peer!Dial
<1>3. Peer!Authentication(call) \in Seq(Sendable)
  <2> DEFINE items == Peer!Presents(call)
             pid(i) == (call.record.pid - Len(items) + i - 1) % Numbers
  <2>1. items \in Seq(Whom \union {"right"}) /\ Len(items) \in Nat /\ DOMAIN items = 1..Len(items)
    <3> DEFINE name == IF call.identity = None THEN <<>> ELSE <<call.identity>>
               key == IF AuthEnabled THEN <<"right">> ELSE <<>>
    <3>1. name \in Seq(Whom \union {"right"})
      <4>1. <<>> \in Seq(Whom \union {"right"}) /\ <<call.identity>> \in Seq(Whom \union {"right"})
        BY <1>1
      <4> QED BY <4>1
    <3>3. key \in Seq(Whom \union {"right"})
      <4>1. <<>> \in Seq(Whom \union {"right"}) /\ <<"right">> \in Seq(Whom \union {"right"})
        OBVIOUS
      <4> QED BY <4>1
    <3>2. items = name \o key
      BY DEF Peer!Presents
    <3> HIDE DEF name, key, items
    <3>4. items \in Seq(Whom \union {"right"})
      BY <3>1, <3>2, <3>3
    <3> QED BY <3>4
  <2>2. ASSUME NEW i \in 1..Len(items) PROVE pid(i) \in Int
    BY <1>1, <2>1, RelayAssumption
  <2>3. Peer!Authentication(call) =
           [i \in 1..Len(items) |-> Login1(IF items[i] \in Peer!Logins THEN "credentials" ELSE "identity", pid(i), items[i])]
    BY <2>1 DEF Peer!Authentication, Login1
  <2>4. ASSUME NEW i \in 1..Len(items)
        PROVE  Login1(IF items[i] \in Peer!Logins THEN "credentials" ELSE "identity", pid(i), items[i]) \in Sendable
    <3>1. items[i] \in Whom \union {"right"}
      BY <2>1
    <3>2. pid(i) \in Int
      BY <2>2
    <3> HIDE DEF items, pid
    <3> QED BY <3>1, <3>2 DEF Sendable
  <2> HIDE DEF items, pid
  <2> QED BY <2>1, <2>3, <2>4
<1>4. Peer!Data(call.record) \in Sendable
  BY <1>1 DEF Sendable
<1>5. todo' \in Seq(Sendable) /\ todo' # <<>> /\ todo'[Len(todo')] = Peer!Data(call.record)
  BY <1>2, <1>3, <1>4
<1>6. TypeInv'
  BY <1>1, <1>2, <1>5 DEF TypeInv
<1>7. owed' = {} /\ said' = said
  BY <1>1, <1>2 DEF Peer!Other
<1>8. SaidInv'
  BY <1>1, <1>2, <1>7 DEF SaidInv, Now
<1> QED BY <1>1, <1>2, <1>6, <1>7, <1>8 DEF IInv, DebtInv, Peer!Confirmed

\* What is sent is owed in all its parts, and waited for in all its parts.
LEMMA SendKeeps ==
    ASSUME IInv, Peer!Other, Peer!Send PROVE IInv'
<1> DEFINE m == Head(todo)
<1>1. /\ TypeInv /\ at = "sending" /\ owed = {} /\ SaidInv /\ result # "ok" /\ conn /\ todo # <<>>
      /\ m \in Sendable /\ call.identity \in Whom /\ sent \in Seq(Entries) /\ Now \in Nat /\ Now = Len(sent)
  BY DEF Peer!Send, IInv, DebtInv, TypeInv, Now
<1>2. /\ at' = "receiving" /\ UNCHANGED <<conn, call, todo, result>> /\ wait' = Peer!WaitFor(m)
      /\ sent' = Append(sent, [message |-> m, for |-> call.identity])
  BY DEF Peer!Send
<1>3. /\ sent' \in Seq(Entries) /\ Len(sent') = Now + 1 /\ sent' # <<>> /\ sent' # sent
      /\ sent'[Len(sent')] = [message |-> m, for |-> call.identity]
  <2>1. [message |-> m, for |-> call.identity] \in Entries
    BY <1>1 DEF Entries
  <2> QED BY <1>1, <1>2, <2>1
<1>4. owed' = Peer!Debts(m, Now + 1) /\ said' = said
  BY <1>1, <1>2, <1>3 DEF Peer!Other
<1>5. m.auth \in BOOLEAN
  <2>1. m \in Sendable
    BY <1>1
  <2> HIDE DEF m
  <2>2. CASE \E r \in Records : m = Peer!Data(r)
    BY <2>2 DEF Peer!Data, Peer!Names
  <2>3. CASE \E k \in {"credentials", "identity"}, p \in Int, x \in Whom \union {"right"} : m = Login1(k, p, x)
    BY <2>3 DEF Login1
  <2> QED BY <2>1, <2>2, <2>3 DEF Sendable
<1>6. wait'.pending = Peer!Keys(m) /\ wait'.transport = FALSE /\ wait'.auth = ~m.auth /\ wait'.required = FALSE
  BY <1>2 DEF Peer!WaitFor, Peer!NoWait
<1>7. TypeInv'
  BY <1>1, <1>2, <1>3, <1>5, <1>6 DEF TypeInv
<1>8. DebtInv'
  <2>1. \A p : Waits(m, wait', p)
    BY <1>5, <1>6 DEF Waits
  <2> HIDE DEF m
  <2>2. m = Head(todo) /\ Now' = Now + 1
    BY <1>3 DEF m, Now
  <2> QED BY <1>2, <1>3, <1>4, <2>1, <2>2 DEF DebtInv
<1>9. SaidInv'
  <2>1. \A s \in said : s.send \in Int /\ s.send <= Now
    BY <1>1 DEF SaidInv
  <2>2. Now' = Now + 1
    BY <1>3 DEF Now
  <2>3. \A p \in Peer!Parts(m) : [send |-> Now + 1, part |-> p] \in owed'
    BY <1>4 DEF Peer!Debts
  <2> QED BY <1>1, <1>2, <1>4, <2>1, <2>2, <2>3 DEF SaidInv
<1> QED BY <1>1, <1>2, <1>7, <1>8, <1>9 DEF IInv, Peer!Confirmed

\* Steps that leave the exchange as it is, and those that end the connection.
LEMMA RestKeeps ==
    ASSUME IInv, Peer!Other, Peer!Check \/ Peer!Broken \/ Peer!Expire \/ Peer!Cancel \/ Peer!Interrupt \/ Peer!Close
    PROVE  IInv'
<1>1. TypeInv /\ DebtInv /\ SaidInv /\ Peer!Confirmed
  BY DEF IInv
<1>2. CASE Peer!Broken \/ Peer!Expire
  <2>1. Peer!Abort /\ conn' = FALSE
    BY <1>2 DEF Peer!Broken, Peer!Expire, Peer!Abort, Peer!AfterError
  <2>2. owed' = {} /\ said' = {}
    BY <2>1 DEF Peer!Other
  <2> QED BY <1>1, <2>1, <2>2, AbortKeeps
<1>3. CASE Peer!Close
  <2>1. at = "idle" /\ conn' = FALSE /\ sent' = <<>> /\ result' = "none" /\ UNCHANGED <<at, call, todo, wait>>
    BY <1>3 DEF Peer!Close
  <2>2. owed' = {} /\ said' = {}
    BY <2>1 DEF Peer!Other
  <2>3. <<>> \in Seq(Entries)
    OBVIOUS
  <2> QED BY <1>1, <2>1, <2>2, <2>3 DEF IInv, TypeInv, DebtInv, SaidInv, Peer!Confirmed
<1>4. CASE Peer!Check
  <2>1. at = "checking" /\ at' = "sending" /\ UNCHANGED <<conn, call, todo, wait, result, sent>>
    BY <1>4 DEF Peer!Check
  <2>2. owed' = owed /\ said' = said
    BY <1>1, <2>1 DEF Peer!Other, TypeInv
  <2>3. TypeInv' /\ result # "ok"
    BY <1>1, <2>1 DEF TypeInv
  <2>4. SaidInv' /\ DebtInv'
    BY <1>1, <2>1, <2>2 DEF SaidInv, DebtInv, Now
  <2> QED BY <2>1, <2>3, <2>4 DEF IInv, Peer!Confirmed
<1>5. CASE Peer!Cancel \/ Peer!Interrupt
  <2>1. at # "idle" /\ UNCHANGED <<conn, at, call, todo, wait, result, sent>>
    BY <1>5 DEF Peer!Cancel, Peer!Interrupt, Peer!callVars
  <2>2. owed' = owed \/ (owed' = {} /\ at # "receiving")
    BY <1>1, <2>1 DEF Peer!Other, TypeInv, DebtInv
  <2>3. said' = said \/ (said' = {} /\ at # "receiving")
    BY <1>1, <2>1 DEF Peer!Other, TypeInv
  <2>4. TypeInv' /\ result # "ok"
    BY <1>1, <2>1 DEF TypeInv
  <2>5. DebtInv'
    BY <1>1, <2>1, <2>2 DEF DebtInv, Now
  <2>6. owed' = owed \/ at # "receiving"
    BY <2>2
  <2>7. SaidInv'
    BY <1>1, <2>1, <2>3, <2>6 DEF SaidInv, Now
  <2> QED BY <2>1, <2>4, <2>5, <2>7 DEF IInv, Peer!Confirmed
<1> QED BY <1>2, <1>3, <1>4, <1>5

LEMMA InitInv == Init => KindInv
<1> SUFFICES ASSUME Init PROVE KindInv
  OBVIOUS
<1>1. <<>> \in Seq(Sendable) /\ <<>> \in Seq(Entries)
  OBVIOUS
<1>2. Peer!PeerInit
  BY DEF Init
<1> QED BY <1>1, <1>2 DEF Peer!PeerInit, Peer!Init, KindInv, IInv, TypeInv, DebtInv, SaidInv, Peer!Confirmed, Peer!NoWait

LEMMA PeerKeeps ==
    ASSUME IInv, Peer!PeerNext PROVE IInv'
<1>1. CASE Peer!Other
  BY <1>1, CallKeeps, DialKeeps, SendKeeps, RestKeeps DEF Peer!Other, Peer!Client
<1>2. CASE \E n \in DOMAIN sent, code \in Peer!Codes :
              \E answered \in (SUBSET Peer!Parts(sent[n].message)) \ {{}} : Peer!Answer(n, answered, code)
  BY <1>2, AnswerKeeps
<1>3. CASE Peer!StrayFrame
  BY <1>3, StrayKeeps
<1> QED BY <1>1, <1>2, <1>3 DEF Peer!PeerNext

LEMMA StepKeeps == KindInv /\ [Next]_vars => KindInv'
<1> SUFFICES ASSUME KindInv, [Next]_vars PROVE KindInv'
  OBVIOUS
<1>1. CASE EgtsStep(Peer!PeerNext)
  BY <1>1, PeerKeeps DEF EgtsStep, KindInv
<1>2. CASE RabbitStep(Rabbit!Next) \/ ValkeyStep(Stream!Next) \/ StdoutStep(Out!Next)
  <2>1. kind # "egts" /\ kind' = kind /\ conn' = conn
    BY <1>2 DEF RabbitStep, ValkeyStep, StdoutStep, egtsVars
  <2> QED BY <2>1 DEF KindInv
<1>3. CASE UNCHANGED vars
  <2>1. UNCHANGED <<kind, conn, at, call, todo, wait, result, sent, owed, said>>
    BY <1>3 DEF vars, egtsVars
  <2>2. TypeInv' = TypeInv /\ DebtInv' = DebtInv /\ SaidInv' = SaidInv
    BY <2>1 DEF TypeInv, DebtInv, SaidInv, Now
  <2>3. Peer!Confirmed' = Peer!Confirmed
    BY <2>1 DEF Peer!Confirmed
  <2> QED BY <2>1, <2>2, <2>3 DEF KindInv, IInv
<1> QED BY <1>1, <1>2, <1>3 DEF Next

\* WriteContext of egts.go reports success only for a packet that the server has
\* confirmed in all its parts, over the connection the packet was sent on.
THEOREM OnlyConfirmed == Spec => []Confirmed
<1>1. KindInv => Confirmed
  BY DEF KindInv, IInv, Confirmed
<1> QED BY <1>1, InitInv, StepKeeps, PTL DEF Spec

\* A connection is used again only when nothing is owed on it (egts.go:84,237).
THEOREM DebtsPaid == Spec => []NothingOwed
<1>1. KindInv => NothingOwed
  BY DEF KindInv, IInv, DebtInv, NothingOwed, Peer!NothingOwed
<1> QED BY <1>1, InitInv, StepKeeps, PTL DEF Spec

----------------------------------------------------------------------------
(***************************************************************************)
(* Admitted. What a connection has been sent begins with all that the      *)
(* identity of the call in progress, or of the last one, presents; what    *)
(* of it is not sent yet is still to do (SentInv). What was presented in   *)
(* an exchange that is over was accepted (AcceptInv).                      *)
(***************************************************************************)

Shows(id) == Peer!Presents([identity |-> id])
Presenting(m, x) == m.kind # "data" /\ m.auth /\ m.services[1].items = <<x>>

\* Whom the connection is for, and how many exchanges on it are over.
Subject == IF at = "idle" THEN identity ELSE call.identity
Over == IF at = "receiving" THEN Now - 1 ELSE Now

SentInv ==
    /\ ~conn => sent = <<>>
    /\ at = "dialing" => ~conn
    /\ conn => \A k \in 1..Now :
          /\ sent[k].for = Subject
          /\ k <= Len(Shows(Subject)) => Presenting(sent[k].message, Shows(Subject)[k])
          /\ k > Len(Shows(Subject)) => sent[k].message.kind = "data"
    /\ conn /\ at = "idle" => Now >= Len(Shows(Subject))
    /\ at \in {"checking", "sending", "receiving"} =>
          /\ Len(todo) = 1 => Over >= Len(Shows(Subject)) /\ identity = Subject
          /\ Len(todo) # 1 => Over + Len(todo) = Len(Shows(Subject)) + 1
          /\ \A k \in 1..(Len(todo) - 1) : Presenting(todo[k], Shows(Subject)[Over + k])

AcceptInv ==
    \A k \in 1..Over : sent[k].message.kind # "data" =>
        \E s \in said : s.send = k /\ s.part = Peer!Login /\ s.code \in Peer!Accepting(sent[k].message.kind)

AdmitInv == IF kind = "egts" THEN SentInv /\ AcceptInv ELSE sent = <<>>

LEMMA ShowsType ==
    ASSUME NEW id PROVE Shows(id) \in Seq({id, "right"}) /\ Len(Shows(id)) \in Nat
<1> DEFINE name == IF id = None THEN <<>> ELSE <<id>>
           key == IF AuthEnabled THEN <<"right">> ELSE <<>>
<1>0. {<<>>, <<id>>, <<"right">>} \subseteq Seq({id, "right"})
  OBVIOUS
<1>1. name \in Seq({id, "right"})
  BY <1>0
<1>2. key \in Seq({id, "right"})
  BY <1>0
<1>3. Shows(id) = name \o key
  BY DEF Shows, Peer!Presents
<1> HIDE DEF name, key
<1> QED BY <1>1, <1>2, <1>3

\* The packets that authenticate a connection present this, in this order.
LEMMA AuthenticationShows ==
    ASSUME NEW id, call.identity = id
    PROVE  /\ Peer!Authentication(call) \in Seq({Peer!Authentication(call)[i] : i \in 1..Len(Shows(id))})
           /\ Len(Peer!Authentication(call)) = Len(Shows(id))
           /\ \A i \in 1..Len(Shows(id)) : Presenting(Peer!Authentication(call)[i], Shows(id)[i])
<1> DEFINE items == Shows(id)
           pid(i) == (call.record.pid - Len(items) + i - 1) % Numbers
           packet(i) == Login1(IF items[i] \in Peer!Logins THEN "credentials" ELSE "identity", pid(i), items[i])
<1>1. Peer!Presents(call) = items
  BY DEF Shows, Peer!Presents
<1>2. items \in Seq({id, "right"}) /\ Len(items) \in Nat /\ DOMAIN items = 1..Len(items)
  BY ShowsType
<1>3. Peer!Authentication(call) = [i \in 1..Len(items) |-> packet(i)]
  BY <1>1, <1>2 DEF Peer!Authentication, Login1
<1>4. ASSUME NEW i \in 1..Len(items) PROVE Presenting(packet(i), items[i])
  <2> HIDE DEF items
  <2> QED BY DEF Presenting, Login1
<1> HIDE DEF items, packet
<1>5. Len(Peer!Authentication(call)) = Len(items)
  BY <1>2, <1>3
<1> QED BY <1>2, <1>3, <1>4, <1>5 DEF items

----------------------------------------------------------------------------
\* A connection that is closed has been sent nothing.
LEMMA ClosedAdmits ==
    ASSUME conn' = FALSE, sent' = <<>>, at' \in {"idle", "dialing"} PROVE SentInv' /\ AcceptInv'
<1>1. Now' = 0 /\ Over' = 0
  BY DEF Now, Over
<1> QED BY <1>1 DEF SentInv, AcceptInv

LEMMA AdmitFrame ==
    ASSUME SentInv, AcceptInv, UNCHANGED <<conn, identity, call, todo, sent>>, conn => said \subseteq said',
           at' = at \/ (at = "checking" /\ at' = "sending")
    PROVE  SentInv' /\ AcceptInv'
<1>1. Now' = Now /\ Over' = Over /\ Subject' = Subject
  BY DEF Now, Over, Subject
<1>2. /\ at' \in {"checking", "sending", "receiving"} <=> at \in {"checking", "sending", "receiving"}
      /\ at' = "idle" <=> at = "idle"
  OBVIOUS
<1>3. SentInv'
  BY <1>1, <1>2 DEF SentInv
<1>4. AcceptInv'
  <2>1. CASE conn
    BY <1>1, <2>1 DEF AcceptInv
  <2>2. CASE ~conn
    <3>1. Now = 0
      BY <2>2 DEF SentInv, Now
    <3>2. Over' = 0 \/ Over' = -1
      BY <1>1, <3>1 DEF Over
    <3> QED BY <3>2 DEF AcceptInv
  <2> QED BY <2>1, <2>2
<1> QED BY <1>3, <1>4

\* A new call has a connection that has presented what it would present.
LEMMA CallAdmits ==
    ASSUME IInv, SentInv, AcceptInv, Peer!Other, NEW r \in Records, NEW id \in Peer!Given(r), Peer!Call(r, id)
    PROVE  SentInv' /\ AcceptInv'
<1>1. at = "idle" /\ call' = [record |-> r, identity |-> id] /\ UNCHANGED identity /\ TypeInv
  BY DEF Peer!Call, IInv
<1>2. CASE Peer!Usable(id)
  <2>1. at' = "checking" /\ todo' = <<Peer!Data(r)>> /\ UNCHANGED <<conn, sent>> /\ conn /\ identity = id
    BY <1>2 DEF Peer!Call, Peer!Usable
  <2>2. said' = said
    BY <2>1 DEF Peer!Other
  <2>3. /\ Now' = Now /\ Over' = Over /\ Over = Now /\ Subject' = Subject /\ Subject = identity
        /\ Len(todo') = 1 /\ identity' = Subject'
    BY <1>1, <2>1 DEF Now, Over, Subject
  <2>4. SentInv'
    BY <1>1, <2>1, <2>3 DEF SentInv
  <2>5. AcceptInv'
    BY <2>1, <2>2, <2>3 DEF AcceptInv
  <2> QED BY <2>4, <2>5
<1>3. CASE ~Peer!Usable(id)
  <2>1. at' = "dialing" /\ conn' = FALSE /\ sent' = <<>>
    BY <1>3 DEF Peer!Call
  <2> QED BY <2>1, ClosedAdmits
<1> QED BY <1>2, <1>3

LEMMA DialAdmits ==
    ASSUME IInv, SentInv, AcceptInv, Peer!Other, Peer!Dial
    PROVE  SentInv' /\ AcceptInv'
<1> DEFINE id == call.identity
           A == Len(Shows(id))
           first == Peer!Authentication(call)
<1>1. /\ at = "dialing" /\ at' = "checking" /\ conn' = TRUE /\ UNCHANGED <<call, sent>>
      /\ todo' = Append(first, Peer!Data(call.record))
      /\ Len(todo') = 1 => identity' = id
  BY DEF Peer!Dial
<1>2. sent = <<>> /\ Now' = 0 /\ Over' = 0 /\ Subject' = id
  BY <1>1 DEF SentInv, Now, Over, Subject
<1>3. /\ first \in Seq({first[i] : i \in 1..A}) /\ Len(first) = A /\ A \in Nat
      /\ \A i \in 1..A : Presenting(first[i], Shows(id)[i])
  BY AuthenticationShows, ShowsType
<1> HIDE DEF id, A, first
<1>4. Len(todo') = A + 1 /\ \A i \in 1..A : todo'[i] = first[i]
  BY <1>1, <1>3
<1>5. SentInv'
  <2>1. A = Len(Shows(Subject))' /\ Shows(Subject)' = Shows(id)
    BY <1>2 DEF A, Shows
  <2> QED BY <1>1, <1>2, <1>3, <1>4, <2>1 DEF SentInv
<1>6. AcceptInv'
  BY <1>2 DEF AcceptInv
<1> QED BY <1>5, <1>6

\* The packet that is sent next is the next one to present, or data.
LEMMA SendAdmits ==
    ASSUME IInv, SentInv, AcceptInv, Peer!Other, Peer!Send
    PROVE  SentInv' /\ AcceptInv'
<1> DEFINE id == Subject
           A == Len(Shows(id))
           m == Head(todo)
<1>1. /\ at = "sending" /\ at' = "receiving" /\ UNCHANGED <<conn, identity, call, todo>>
      /\ sent' = Append(sent, [message |-> m, for |-> call.identity])
  BY DEF Peer!Send
<1>2. /\ sent \in Seq(Entries) /\ Now \in Nat /\ conn /\ todo \in Seq(Sendable) /\ todo # <<>>
      /\ todo[Len(todo)] = Peer!Data(call.record) /\ Len(todo) \in Nat /\ m = todo[1] /\ Len(todo) # 0
  BY <1>1 DEF IInv, TypeInv, Now
<1>3. /\ Now' = Now + 1 /\ Over' = Now /\ Over = Now /\ Subject' = id /\ id = call.identity
      /\ A \in Nat /\ said' = said
  <2>1. Len(sent') = Len(sent) + 1 /\ at' # "idle"
    BY <1>1, <1>2
  <2>2. said' = said
    BY <1>1, <1>2 DEF Peer!Other
  <2> QED BY <1>1, <1>2, <2>1, <2>2, ShowsType DEF Now, Over, Subject
<1>4. /\ sent'[Now + 1].message = m /\ sent'[Now + 1].for = id
      /\ \A k \in 1..Now : sent'[k] = sent[k]
  BY <1>1, <1>2, <1>3 DEF Now
<1>5. /\ Len(todo) = 1 => Now >= A /\ identity = id
      /\ Len(todo) # 1 => Now + Len(todo) = A + 1
      /\ \A k \in 1..(Len(todo) - 1) : Presenting(todo[k], Shows(id)[Now + k])
      /\ \A k \in 1..Now : /\ sent[k].for = id
                           /\ k <= A => Presenting(sent[k].message, Shows(id)[k])
                           /\ k > A => sent[k].message.kind = "data"
  BY <1>1, <1>2, <1>3 DEF SentInv
<1> HIDE DEF A, id, m
<1>6. ASSUME Now + 1 <= A PROVE Presenting(m, Shows(id)[Now + 1])
  <2>1. Len(todo) # 1 /\ 1 \in 1..(Len(todo) - 1)
    BY <1>2, <1>3, <1>5, <1>6
  <2> QED BY <1>2, <1>5, <2>1
<1>7. ASSUME Now + 1 > A PROVE m.kind = "data"
  <2>1. Len(todo) = 1
    <3>1. /\ Len(todo) # 1 => Now + Len(todo) = A + 1
          /\ Now \in Nat /\ A \in Nat /\ Len(todo) \in Nat /\ Len(todo) # 0 /\ Now + 1 > A
      BY <1>2, <1>3, <1>5, <1>7
    <3> QED BY ONLY <3>1
  <2> QED BY <1>2, <2>1 DEF Peer!Data
<1>8. \A k \in 1..(Now + 1) : /\ sent'[k].for = id
                              /\ k <= A => Presenting(sent'[k].message, Shows(id)[k])
                              /\ k > A => sent'[k].message.kind = "data"
  <2>1. \A k \in 1..(Now + 1) : k \in 1..Now \/ k = Now + 1
    BY <1>2
  <2> QED BY <1>4, <1>5, <1>6, <1>7, <2>1
<1>9. SentInv'
  <2>1. A = Len(Shows(Subject))' /\ Shows(Subject)' = Shows(id)
    BY <1>3 DEF A, id, Shows
  <2> QED BY <1>1, <1>2, <1>3, <1>5, <1>8, <2>1 DEF SentInv
<1>10. AcceptInv'
  BY <1>3, <1>4 DEF AcceptInv
<1> QED BY <1>9, <1>10

\* An exchange is over when what it presented, if anything, was accepted.
LEMMA ProceedAdmits ==
    ASSUME IInv, SentInv, AcceptInv, at = "receiving", Peer!Proceed, Settled, said \subseteq said'
    PROVE  SentInv' /\ AcceptInv'
<1> DEFINE id == Subject
           A == Len(Shows(id))
           m == Head(todo)
<1>1. /\ todo' = Tail(todo) /\ UNCHANGED <<conn, call, sent>>
      /\ Len(todo) = 1 => at' = "idle" /\ identity' = identity
      /\ Len(todo) = 2 => identity' = call.identity
      /\ Len(todo) # 1 => at' = "checking"
  BY DEF Peer!Proceed
<1>2. /\ sent \in Seq(Entries) /\ Now \in Nat /\ conn /\ todo \in Seq(Sendable) /\ todo # <<>>
      /\ Len(todo) \in Nat /\ Len(todo) # 0
      /\ sent # <<>> /\ sent[Now].message = m
  BY DEF IInv, TypeInv, DebtInv, Now
<1>3. /\ Now' = Now /\ Over' = Now /\ Over = Now - 1 /\ id = call.identity /\ A \in Nat /\ Now >= 1
  <2>1. Len(sent) # 0
    BY <1>2
  <2>2. Over' = Now
    BY <1>1 DEF Now, Over
  <2> QED BY <1>1, <1>2, <2>1, <2>2, ShowsType DEF Now, Over, Subject
<1>4. /\ Len(todo) = 1 => Now - 1 >= A /\ identity = id
      /\ Len(todo) # 1 => Now - 1 + Len(todo) = A + 1
      /\ \A k \in 1..(Len(todo) - 1) : Presenting(todo[k], Shows(id)[Now - 1 + k])
      /\ \A k \in 1..Now : /\ sent[k].for = id
                           /\ k <= A => Presenting(sent[k].message, Shows(id)[k])
                           /\ k > A => sent[k].message.kind = "data"
  BY <1>2, <1>3 DEF SentInv
<1>5. Subject' = id
  BY <1>1, <1>3, <1>4 DEF Subject
<1>6. /\ Len(todo') = Len(todo) - 1 /\ \A k \in 1..(Len(todo) - 1) : todo'[k] = todo[k + 1]
  BY <1>1, <1>2
<1> HIDE DEF A, id, m
<1>7. SentInv'
  <2>1. A = Len(Shows(Subject))' /\ Shows(Subject)' = Shows(id)
    BY <1>5 DEF A, id, Shows
  <2>2. CASE Len(todo) = 1
    BY <1>1, <1>2, <1>3, <1>4, <1>5, <2>1, <2>2 DEF SentInv
  <2>3. CASE Len(todo) # 1
    <3>0. Now - 1 + Len(todo) = A + 1 /\ Len(todo') = Len(todo) - 1
      BY <1>4, <1>6, <2>3
    <3>1. Len(todo') = 1 => Now >= A /\ identity' = id
      BY <1>1, <1>2, <1>3, <2>3, <3>0
    <3>2. Now + Len(todo') = A + 1
      BY <1>2, <1>3, <3>0
    <3>3. ASSUME NEW k \in 1..(Len(todo') - 1) PROVE Presenting(todo'[k], Shows(id)[Now + k])
      <4>1. k \in 1..(Len(todo) - 1) /\ k + 1 \in 1..(Len(todo) - 1) /\ Now - 1 + (k + 1) = Now + k
        BY <1>2, <1>3, <1>6
      <4>2. Presenting(todo[k + 1], Shows(id)[Now - 1 + (k + 1)])
        BY <1>4, <4>1
      <4> QED BY <1>6, <4>1, <4>2
    <3> QED BY <1>1, <1>2, <1>3, <1>4, <1>5, <2>1, <2>3, <3>1, <3>2, <3>3 DEF SentInv
  <2> QED BY <2>2, <2>3
<1>8. ASSUME m.kind # "data"
      PROVE  \E s \in said' : s.send = Now /\ s.part = Peer!Login /\ s.code \in Peer!Accepting(m.kind)
  <2>1. Now <= A
    BY <1>2, <1>3, <1>4, <1>8
  <2>2. m.auth
    BY <1>2, <1>3, <1>4, <2>1 DEF Presenting
  <2>3. Peer!Login \in Peer!Parts(Head(todo))
    BY <2>2 DEF Peer!Parts, m
  <2>4. PICK s \in said' : s.send = Now /\ s.part = Peer!Login
                           /\ (s.code = "ok" \/ (s.code = "params" /\ ~Peer!Unanswerable))
    BY <2>3 DEF Settled
  <2>5. s.code \in Peer!Accepting(m.kind)
    BY <2>4 DEF Peer!Accepting, Peer!Unanswerable, m
  <2> QED BY <2>4, <2>5
<1>9. AcceptInv'
  <2>1. \A k \in 1..Now : k \in 1..Over \/ k = Now
    BY <1>2, <1>3
  <2> QED BY <1>1, <1>2, <1>3, <1>8, <2>1 DEF AcceptInv
<1> QED BY <1>7, <1>9

LEMMA ReceiveAdmits ==
    ASSUME IInv, SentInv, AcceptInv, at = "receiving", NEW f, Peer!Receive(f), conn' => said \subseteq said',
           Peer!Proceed => Settled
    PROVE  SentInv' /\ AcceptInv'
<1>1. CASE Peer!Abort
  <2>1. conn' = FALSE /\ sent' = <<>> /\ at' = "idle"
    BY <1>1 DEF Peer!Abort, Peer!AfterError
  <2> QED BY <2>1, ClosedAdmits
<1>2. CASE Peer!Proceed
  <2>1. conn' /\ conn
    BY <1>2 DEF Peer!Proceed, IInv, TypeInv
  <2> QED BY <1>2, <2>1, ProceedAdmits
<1>3. CASE ~Peer!Abort /\ ~Peer!Proceed
  <2>1. UNCHANGED <<conn, identity, at, call, todo, sent>>
    BY <1>3 DEF Peer!Receive
  <2> QED BY <2>1, AdmitFrame
<1> QED BY <1>1, <1>2, <1>3

LEMMA PeerAdmits ==
    ASSUME IInv, SentInv, AcceptInv, Peer!PeerNext PROVE SentInv' /\ AcceptInv'
<1>1. ASSUME NEW n \in DOMAIN sent, NEW code \in Peer!Codes,
             NEW answered \in (SUBSET Peer!Parts(sent[n].message)) \ {{}}, Peer!Answer(n, answered, code)
      PROVE  SentInv' /\ AcceptInv'
  <2>1. at = "receiving" /\ Peer!Receive(Peer!Frame(n, answered, code)) /\ (conn' => said \subseteq said')
    BY <1>1 DEF Peer!Answer
  <2>2. Peer!Proceed => Settled
    BY <1>1, AnswerKeeps
  <2> QED BY <2>1, <2>2, ReceiveAdmits
<1>2. CASE Peer!StrayFrame
  <2>1. at = "receiving" /\ (\E f \in Peer!Stray : Peer!Receive(f)) /\ (conn' => said \subseteq said')
    BY <1>2 DEF Peer!StrayFrame
  <2>2. Peer!Proceed => Settled
    BY <1>2, StrayKeeps
  <2> QED BY <2>1, <2>2, ReceiveAdmits
<1>3. CASE Peer!Other
  <2>1. conn' => said' = said
    BY <1>3 DEF Peer!Other
  <2>2. CASE \E r \in Records : \E id \in Peer!Given(r) : Peer!Call(r, id)
    BY <1>3, <2>2, CallAdmits
  <2>3. CASE \E r \in Records : \E id \in Peer!Given(r) : Peer!Reject(r, id)
    <3>1. at = "idle" /\ UNCHANGED <<conn, identity, at, todo, sent>>
      BY <2>3 DEF Peer!Reject
    <3>2. Now' = Now /\ Over' = Over /\ Subject' = Subject /\ (conn => said' = said)
      BY <2>1, <3>1 DEF Now, Over, Subject
    <3>3. SentInv'
      BY <3>1, <3>2 DEF SentInv
    <3>4. AcceptInv'
      <4>1. ~conn => Over' = 0
        BY <3>1, <3>2 DEF SentInv, Over, Now
      <4> QED BY <3>1, <3>2, <4>1 DEF AcceptInv
    <3> QED BY <3>3, <3>4
  <2>4. CASE Peer!Broken \/ Peer!Expire
    <3>1. conn' = FALSE /\ sent' = <<>> /\ at' = "idle"
      BY <2>4 DEF Peer!Broken, Peer!Expire, Peer!Abort, Peer!AfterError
    <3> QED BY <3>1, ClosedAdmits
  <2>5. CASE Peer!Close
    <3>1. conn' = FALSE /\ sent' = <<>> /\ at' = "idle"
      BY <2>5 DEF Peer!Close
    <3> QED BY <3>1, ClosedAdmits
  <2>6. CASE Peer!Check \/ Peer!Cancel \/ Peer!Interrupt
    <3>1. /\ UNCHANGED <<conn, identity, call, todo, sent>>
          /\ at' = at \/ (at = "checking" /\ at' = "sending")
      BY <2>6 DEF Peer!Check, Peer!Cancel, Peer!Interrupt, Peer!callVars
    <3> QED BY <2>1, <3>1, AdmitFrame
  <2> QED BY <1>3, <2>2, <2>3, <2>4, <2>5, <2>6, DialAdmits, SendAdmits DEF Peer!Other, Peer!Client
<1> QED BY <1>1, <1>2, <1>3 DEF Peer!PeerNext

LEMMA AdmitKeeps == KindInv /\ AdmitInv /\ [Next]_vars => AdmitInv'
<1> SUFFICES ASSUME KindInv, AdmitInv, [Next]_vars PROVE AdmitInv'
  OBVIOUS
<1>1. CASE EgtsStep(Peer!PeerNext)
  BY <1>1, PeerAdmits DEF EgtsStep, KindInv, AdmitInv
<1>2. CASE RabbitStep(Rabbit!Next) \/ ValkeyStep(Stream!Next) \/ StdoutStep(Out!Next)
  <2>1. kind # "egts" /\ kind' = kind /\ sent' = sent
    BY <1>2 DEF RabbitStep, ValkeyStep, StdoutStep, egtsVars
  <2> QED BY <2>1 DEF AdmitInv
<1>3. CASE UNCHANGED vars
  <2>1. UNCHANGED <<kind, conn, identity, at, call, todo, sent, said>>
    BY <1>3 DEF vars, egtsVars
  <2> QED BY <2>1, AdmitFrame DEF AdmitInv
<1> QED BY <1>1, <1>2, <1>3 DEF Next

LEMMA AdmitImplies == KindInv /\ AdmitInv => Admitted
<1> SUFFICES ASSUME KindInv, AdmitInv, sent # <<>> PROVE Admitted
  <2>1. sent = <<>> => DOMAIN sent = {}
    OBVIOUS
  <2> QED BY <2>1 DEF Admitted, Peer!Admitted, Peer!Presented
<1>1. SentInv /\ AcceptInv /\ conn /\ TypeInv
  BY DEF AdmitInv, SentInv, KindInv, IInv
<1>2. DOMAIN sent = 1..Now /\ Now \in Nat
  BY <1>1 DEF TypeInv, Now
<1> DEFINE A == Len(Shows(Subject))
<1>3. A \in Nat
  BY ShowsType
<1>4. \A k \in 1..Now : /\ sent[k].for = Subject
                        /\ k <= A => Presenting(sent[k].message, Shows(Subject)[k])
                        /\ k > A => sent[k].message.kind = "data"
  BY <1>1 DEF SentInv
<1> HIDE DEF A
<1>5. ASSUME NEW i \in 1..Now, NEW k \in 1..i
      PROVE  /\ sent[k].message.kind = "data" <=> k > A
             /\ k <= A => sent[k].message.services[1].items = <<Shows(Subject)[k]>>
  <2>1. k \in 1..Now /\ k \in Nat
    BY <1>2
  <2> QED BY <1>3, <1>4, <2>1 DEF Presenting
<1>6. Peer!Presented
  <2> SUFFICES ASSUME NEW i \in DOMAIN sent, sent[i].message.kind = "data"
               PROVE  LET shown == (IF sent[i].for = None THEN <<>> ELSE <<sent[i].for>>)
                                   \o (IF AuthEnabled THEN <<"right">> ELSE <<>>)
                      IN \A k \in 1..i :
                           /\ sent[k].message.kind = "data" <=> k > Len(shown)
                           /\ k <= Len(shown) => sent[k].message.services[1].items = <<shown[k]>>
    BY DEF Peer!Presented
  <2>1. Shows(Subject) = (IF sent[i].for = None THEN <<>> ELSE <<sent[i].for>>)
                         \o (IF AuthEnabled THEN <<"right">> ELSE <<>>)
    BY <1>2, <1>4 DEF Shows, Peer!Presents
  <2>2. \A k \in 1..i : /\ sent[k].message.kind = "data" <=> k > Len(Shows(Subject))
                        /\ k <= Len(Shows(Subject)) => sent[k].message.services[1].items = <<Shows(Subject)[k]>>
    BY <1>2, <1>5 DEF A
  <2> QED BY <2>1, <2>2
<1>7. ASSUME NEW i \in DOMAIN sent, NEW k \in 1..(i - 1), sent[k].message.kind # "data"
      PROVE  \E s \in said : s.send = k /\ s.part = Peer!Login /\ s.code \in Peer!Accepting(sent[k].message.kind)
  <2>1. k \in 1..Over
    BY <1>2 DEF Over
  <2> QED BY <1>1, <1>7, <2>1 DEF AcceptInv
<1> QED BY <1>6, <1>7 DEF Admitted, Peer!Admitted

\* Data goes only over connections that have presented the identity it came with and
\* the credentials, in this order, and whose server has accepted both, also after
\* errors, reconnects and a change of the terminal (egts.go, WriteContext and
\* authenticate).
THEOREM OnlyAdmitted == Spec => []Admitted
<1>1. Init => AdmitInv
  <2> SUFFICES ASSUME Init PROVE AdmitInv
    OBVIOUS
  <2>1. conn = FALSE /\ sent = <<>> /\ at = "idle"
    BY DEF Init, Peer!PeerInit, Peer!Init
  <2>2. Now = 0 /\ Over = 0
    BY <2>1 DEF Now, Over
  <2> QED BY <2>1, <2>2 DEF AdmitInv, SentInv, AcceptInv
<1> QED BY <1>1, InitInv, StepKeeps, AdmitKeeps, AdmitImplies, PTL DEF Spec

=============================================================================
