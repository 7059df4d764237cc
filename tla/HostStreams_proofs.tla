------------------------- MODULE HostStreams_proofs -------------------------
(***************************************************************************)
(* Theorems about HostStreams, for every number of legs, every window and  *)
(* every bound: types, chunks relayed once, the overshoot of the window,   *)
(* the permanence of tombstones, and the two windows of a leg.             *)
(***************************************************************************)
EXTENDS HostStreams, FiniteSetTheorems, FunctionTheorems, SequenceTheorems, TLAPS

(* What a thread knows where it is: it relays only what is bound, it sends *)
(* a chunk it holds, and a worker that relays has seen its leg.  A local   *)
(* account that is not over has not passed its window.                     *)
Holds(t) ==
    /\ pc[t] \in {"bind", "take", "relay", "send"} => leg[t] \in Op \/ t = "reader"
    /\ pc[t] = "bind" => leg[t] \in Op
    /\ pc[t] \in {"take", "relay", "send"} => rst.bound
    /\ pc[t] = "send" => todo[t] # <<>> /\ Head(todo[t]) \in Seqno
Typed ==
    /\ TypeOK
    /\ \A t \in Thread : Holds(t)
    /\ pc["reader"] \in {"look", "bind", "local"} => todo["reader"] # <<>>
    /\ ~local.ended => local.received <= InitialGrant
    /\ ~source.ended => source.received <= InitialGrant

(* Chunks that went out, and those about to, lie below the next sequence   *)
(* number of the leg and are distinct.                                     *)
Once ==
    /\ \A i \in DOMAIN relayed : rst.bound /\ relayed[i] < rst.next
    /\ \A t \in Thread : pc[t] = "send" =>
          /\ Head(todo[t]) < rst.next
          /\ \A i \in DOMAIN relayed : relayed[i] # Head(todo[t])
          /\ \A u \in Thread : u # t /\ pc[u] = "send" => Head(todo[u]) # Head(todo[t])
    /\ RelayedOnce

(* The window counts what is about to be charged. *)
Sending == {t \in Thread : pc[t] = "send"}
Drained == {o \in Op : leg[o] # NoOp}
Window == rst.bound => rst.sent + Cardinality(Sending) <= rst.granted + Cardinality(Drained)

(* CreditConserved is not inductive.  Nothing is under way before the      *)
(* stream is bound; the executor never has more room than its first grant, *)
(* which is what a new route starts with; and it grants whole top-ups.     *)
BeforeBind == ~rst.bound => Chunks(dataQ) = 0 /\ Chunks(net) = 0 /\ Credits(back) = 0 /\ ~ex.known
WholeTopUps ==
    /\ \A i \in 1..Len(back) : back[i] \in Credit => back[i].bytes = TopUp
    /\ \E k \in 1..MaxStream : ExecState.granted = k * TopUp
CreditInv == CreditConserved /\ BeforeBind /\ WholeTopUps /\ ExecRoom <= InitialGrant

-----------------------------------------------------------------------------
(* The operators of the two accounts. *)

(* Account keeps its type and does not pass the window while it is open.   *)
LEMMA AccountTyped ==
    ASSUME NEW s \in Stream, ~s.ended => s.received <= InitialGrant, NEW q \in Seqno
    PROVE  Account(s, q) \in Stream /\ (~Account(s, q).ended => Account(s, q).received <= InitialGrant)
<1>1. InitialGrant \in Nat /\ s.next \in Nat /\ s.received \in 0..(InitialGrant + 1) /\ s.ended \in BOOLEAN
    BY StreamAssumption DEF Stream
<1>2. CASE Accepts(s, q)
    <2>1. s.received <= InitialGrant
        BY <1>2 DEF Accepts
    <2>2. Account(s, q) = [next |-> s.next + 1, received |-> s.received + 1, ended |-> s.received >= InitialGrant]
        BY <1>2 DEF Account
    <2>3. s.next + 1 \in Nat /\ s.received + 1 \in 0..(InitialGrant + 1)
        BY <1>1, <2>1
    <2>4. ~(s.received >= InitialGrant) => s.received + 1 <= InitialGrant
        BY <1>1
    <2> DEFINE b == s.received >= InitialGrant
    <2>5. b \in BOOLEAN /\ Account(s, q) = [next |-> s.next + 1, received |-> s.received + 1, ended |-> b]
        BY <2>2
    <2>6. ~b => s.received + 1 <= InitialGrant
        BY <2>4
    <2> HIDE DEF b
    <2> QED BY <2>3, <2>5, <2>6 DEF Stream
<1>3. CASE ~Accepts(s, q)
    BY <1>3 DEF Account
<1> QED BY <1>2, <1>3

(* The executor takes no more than it granted and grants no more than its  *)
(* limit.                                                                  *)
LEMMA IntakeTyped ==
    ASSUME ex \in Intake \cup {Unknown}, ex.known => ex.received <= ex.granted, back \in Seq(Message),
           NEW q \in Seqno, ExecData(q)
    PROVE  ex' \in Intake /\ ex'.received <= ex'.granted /\ back' \in Seq(Message)
<1> DEFINE e == ExecState
           got == [e EXCEPT !.next = q + 1, !.received = @ + 1]
<1>1. InitialGrant \in Nat /\ TopUp \in Nat \ {0} /\ MaxStream \in Nat /\ InitialGrant = 2 * TopUp
      /\ InitialGrant <= MaxStream
    BY StreamAssumption
<1>2. e \in Intake /\ e.received <= e.granted
    <2>1. CASE ex \in Intake
        BY <2>1 DEF ExecState, Intake
    <2>2. CASE ex = Unknown
        <3>1. e = NewExec
            BY <2>2 DEF ExecState, Unknown
        <3> QED BY <1>1, <3>1 DEF NewExec, Intake
    <2> QED BY <2>1, <2>2
<1>3. q \in Nat
    BY StreamAssumption DEF Seqno
<1> HIDE DEF e
<1>4. CASE e.ended \/ (~ExecFirst(e) /\ q # e.next)
    <2>1. ex' = e /\ UNCHANGED back
        BY <1>4 DEF ExecData, e
    <2> QED BY <1>2, <2>1
<1>5. CASE /\ ~(e.ended \/ (~ExecFirst(e) /\ q # e.next))
           /\ ~ExecFirst(e) /\ (e.received + 1 > e.granted \/ e.received + 1 > MaxStream)
    <2>1. ex' = [e EXCEPT !.ended = TRUE] /\ back' = Append(back, [type |-> "cancel"])
        BY <1>5 DEF ExecData, e
    <2>2. [type |-> "cancel"] \in Message
        BY DEF Message
    <2>3. ex' \in Intake /\ ex'.received <= ex'.granted
        BY <2>1, <1>2 DEF Intake
    <2> QED BY <2>1, <2>2, <2>3
<1>6. CASE /\ ~(e.ended \/ (~ExecFirst(e) /\ q # e.next))
           /\ ~(~ExecFirst(e) /\ (e.received + 1 > e.granted \/ e.received + 1 > MaxStream))
    <2>1. /\ ex' = [got EXCEPT !.granted = @ + Refill(got)]
          /\ back' = IF Refill(got) = 0 THEN back
                     ELSE Append(back, [type |-> "credit", bytes |-> Refill(got)])
        BY <1>6 DEF ExecData, e
    <2>2. /\ e.next \in Nat /\ e.received \in Nat /\ e.granted \in InitialGrant..MaxStream
        BY <1>2 DEF Intake
    <2>3. e.received + 1 <= e.granted
        BY <1>1, <1>6, <2>2 DEF ExecFirst
    <2>4. got \in Intake /\ got.received = e.received + 1 /\ got.granted = e.granted
        <3>1. q + 1 \in Nat /\ e.received + 1 \in Nat
            BY <1>3, <2>2
        <3>2. got = [e EXCEPT !.next = q + 1, !.received = e.received + 1]
            BY <1>2 DEF Intake
        <3> QED BY <1>2, <3>1, <3>2 DEF Intake
    <2> HIDE DEF got
    <2>5. Refill(got) \in Nat /\ got.granted + Refill(got) \in InitialGrant..MaxStream
        BY <1>1, <2>2, <2>4 DEF Refill
    <2>6. ex' \in Intake /\ ex'.received <= ex'.granted
        <3> DEFINE g == got.granted + Refill(got)
        <3>1. ex' = [got EXCEPT !.granted = g] /\ g \in InitialGrant..MaxStream
            BY <2>1, <2>4, <2>5 DEF Intake
        <3>2. got.received <= g
            BY <1>1, <2>2, <2>3, <2>4, <2>5
        <3> HIDE DEF g
        <3> QED BY <2>4, <3>1, <3>2 DEF Intake
    <2>7. [type |-> "credit", bytes |-> Refill(got)] \in Message
        BY <2>5 DEF Message, Credit
    <2> QED BY <2>1, <2>6, <2>7
<1> QED BY <1>4, <1>5, <1>6

-----------------------------------------------------------------------------
(* Types, and what threads hold.                                           *)

(* Before the first frame no thread holds anything.                        *)
LEMMA TypedInit == Init => Typed
<1> SUFFICES ASSUME Init PROVE Typed
    OBVIOUS
<1>1. InitialGrant \in Nat
    BY StreamAssumption
<1>2. Fresh \in Stream /\ Fresh.received <= InitialGrant
    BY <1>1 DEF Fresh, Stream
<1>3. 0 <= MaxParked
    BY StreamAssumption
<1>4. TypeOK
    <2>1. ex \in Intake \cup {Unknown} /\ (ex.known => ex.received <= ex.granted)
        BY DEF Init, Unknown
    <2>2. leg \in [Thread -> Op \cup {NoOp}] /\ todo \in [Thread -> Seq(Seqno \cup {End})] /\ back \in Seq(Message)
        BY DEF Init
    <2>3. parked \in Seq(Seqno) /\ Len(parked) <= MaxParked
        BY <1>3 DEF Init
    <2>4. pc \in [Thread -> {"idle", "look", "bind", "take", "local", "relay", "send", "drain", "open",
                             "forget", "answered", "aborted"}]
        BY DEF Init
    <2>5. /\ dataQ \in Seq(Seqno) /\ ctlQ \in Seq({End}) /\ net \in Seq(Seqno \cup {End})
          /\ relayed \in Seq(Seqno)
        BY DEF Init
    <2>6. ops \subseteq Op /\ rst \in Leg \cup {None} /\ up \in BOOLEAN /\ closed \in BOOLEAN
        BY DEF Init
    <2>7. local \in Stream /\ source \in Stream
        BY <1>2 DEF Init
    <2> QED BY <2>1, <2>2, <2>3, <2>4, <2>5, <2>6, <2>7 DEF TypeOK
<1>5. \A t \in Thread : Holds(t)
    BY DEF Init, Holds
<1>6. pc["reader"] \notin {"look", "bind", "local"}
    BY DEF Init, Thread
<1> QED BY <1>2, <1>4, <1>5, <1>6 DEF Typed, Init

(* A leg keeps its type under the changes the relays, the legs and the     *)
(* controller make.                                                        *)
LEMMA LegTyped ==
    ASSUME NEW r \in Leg, NEW n \in Nat, NEW b \in BOOLEAN
    PROVE  /\ [r EXCEPT !.next = n, !.ended = b] \in Leg
           /\ [r EXCEPT !.sent = n] \in Leg
           /\ [r EXCEPT !.ended = b] \in Leg
           /\ [r EXCEPT !.granted = n] \in Leg
BY DEF Leg

(* A chunk delivered to the leg leaves it a leg.                           *)
LEMMA DeliveredTyped ==
    ASSUME NEW r \in Leg, NEW n \in Nat, NEW m \in Nat, NEW b \in BOOLEAN
    PROVE  [r EXCEPT !.rnext = n, !.rreceived = m, !.ended = b] \in Leg
BY DEF Leg

(* Nothing else binds: what is bound is a leg, and stays bound.            *)
LEMMA BoundIsLeg ==
    ASSUME rst \in Leg \cup {None}
    PROVE  rst.bound \in BOOLEAN /\ (rst.bound <=> rst \in Leg)
<1>1. CASE rst \in Leg
    BY <1>1 DEF Leg
<1>2. CASE rst = None
    <2>1. rst.bound = FALSE
        BY <1>2 DEF None
    <2> QED BY <2>1 DEF Leg
<1> QED BY <1>1, <1>2

(* A thread drops the frame it is done with. *)
LEMMA DropTyped ==
    ASSUME TypeOK, NEW t \in Thread, todo[t] # <<>>, Drop(t)
    PROVE  todo' \in [Thread -> Seq(Seqno \cup {End})]
<1>1. Tail(todo[t]) \in Seq(Seqno \cup {End})
    BY HeadTailProperties DEF TypeOK
<1> QED BY <1>1 DEF TypeOK, Drop

(* What a link takes is what was handed to it, or nothing. *)
LEMMA QueuedTyped ==
    ASSUME NEW S, NEW c \in Seq(S), NEW s \in Seq(S)
    PROVE  s \o Queued(c) \in Seq(S)
<1>1. Queued(c) \in Seq(S)
    BY DEF Queued
<1> QED BY <1>1, ConcatProperties

(* The end of a stream is queued as control, or lost with the link.        *)
LEMMA EndQueued ==
    ASSUME ctlQ \in Seq({End})
    PROVE  ctlQ \o Queued(<<End>>) \in Seq({End})
<1>1. <<End>> \in Seq({End})
    OBVIOUS
<1> QED BY <1>1, QueuedTyped

(* What the controller does with a frame leaves a leg a leg, of the same   *)
(* operation, and an ended one as it was.                                  *)
LEMMA ControllerLeg ==
    ASSUME rst \in Leg \cup {None}, Head(back) \in Message, ControllerTake
    PROVE  /\ rst' \in Leg \cup {None}
           /\ rst.bound => /\ rst'.bound /\ rst'.op = rst.op /\ rst'.next = rst.next /\ rst'.sent = rst.sent
                           /\ rst'.granted >= rst.granted
                           /\ rst.ended => rst' = rst
           /\ ~rst.bound => rst' = rst
<1>1. CASE rst' = rst
    <2>1. rst.bound => rst.granted \in Nat
        BY BoundIsLeg DEF Leg
    <2> QED BY <1>1, <2>1
<1>2. CASE rst.bound /\ ~rst.ended
    <2>1. rst \in Leg
        BY <1>2, BoundIsLeg
    <2>2. rst.granted \in Nat /\ rst.rnext \in Nat /\ rst.rreceived \in Nat
        BY <2>1 DEF Leg
    <2> DEFINE m == Head(back)
    <2>3. CASE m.type = "credit" /\ CreditRemoteStream(m.bytes)
        <3>1. m.bytes \in Nat
            BY <2>3 DEF Message, Credit
        <3> DEFINE g == rst.granted + m.bytes
        <3>2. g \in Nat /\ g >= rst.granted /\ rst' = [rst EXCEPT !.granted = g]
            BY <2>1, <2>2, <2>3, <3>1 DEF CreditRemoteStream, Leg
        <3> HIDE DEF g
        <3>3. rst' \in Leg
            BY <2>1, <3>2, LegTyped
        <3> QED BY <1>2, <2>1, <3>2, <3>3 DEF Leg
    <2>4. CASE EndRemoteStream
        <3>1. rst' \in Leg
            BY <2>1, <2>4, LegTyped DEF EndRemoteStream
        <3>2. rst' = [rst EXCEPT !.ended = TRUE]
            BY <2>4 DEF EndRemoteStream
        <3>3. rst'.bound /\ rst'.op = rst.op /\ rst'.next = rst.next /\ rst'.sent = rst.sent /\ rst'.granted = rst.granted
            BY <2>1, <3>1, <3>2 DEF Leg
        <3> QED BY <1>2, <2>2, <3>1, <3>3
    <2>5. CASE DeliverRemoteChunk(m.seq)
        <3> DEFINE b == rst.rreceived + 1 > InitialGrant
        <3>1. b \in BOOLEAN /\ rst' = [rst EXCEPT !.rnext = rst.rnext + 1, !.rreceived = rst.rreceived + 1, !.ended = b]
            BY <2>1, <2>5 DEF DeliverRemoteChunk, Leg
        <3> HIDE DEF b
        <3>2. rst.rnext + 1 \in Nat /\ rst.rreceived + 1 \in Nat
            BY <2>2
        <3>3. rst' \in Leg
            BY <2>1, <3>1, <3>2, DeliveredTyped
        <3>4. rst'.bound /\ rst'.op = rst.op /\ rst'.next = rst.next /\ rst'.sent = rst.sent /\ rst'.granted = rst.granted
            BY <2>1, <3>1, <3>3 DEF Leg
        <3> QED BY <1>2, <2>2, <3>3, <3>4
    <2>6. rst' = rst \/ (m.type = "credit" /\ CreditRemoteStream(m.bytes)) \/ EndRemoteStream \/ DeliverRemoteChunk(m.seq)
        BY DEF ControllerTake
    <2> HIDE DEF m
    <2> QED BY <1>1, <2>3, <2>4, <2>5, <2>6
<1> QED BY <1>1, <1>2 DEF ControllerTake

(* ReadFrame: the reader holds the frame it has read.                      *)
LEMMA TypedReadFrame ==
    ASSUME Typed, NEW x \in Seqno \cup {End}, ReadFrame(x)
    PROVE  Typed'
<1> USE StreamAssumption DEF Typed, ReadFrame, legVars, linkVars, queueVars, execVars, bounds, hostVars, Goto, Rest, Drop, Done, Thread
<1>1. TypeOK'
    <2>1. todo' \in [Thread -> Seq(Seqno \cup {End})]
        <3>1. <<x>> \in Seq(Seqno \cup {End})
            OBVIOUS
        <3>2. todo \in [Thread -> Seq(Seqno \cup {End})] /\ todo' = [todo EXCEPT !["reader"] = <<x>>]
            BY DEF TypeOK
        <3> QED BY <3>1, <3>2
    <2>2. pc' \in [Thread -> {"idle", "look", "bind", "take", "local", "relay", "send", "drain", "open",
                              "forget", "answered", "aborted"}]
        BY DEF TypeOK
    <2>3. UNCHANGED <<ops, rst, leg, parked, local, source, dataQ, ctlQ, net, back, up, closed, ex, relayed>>
        OBVIOUS
    <2> QED BY <2>1, <2>2, <2>3, Zenon DEF TypeOK
<1>2. \A u \in Thread : Holds(u)'
    BY DEF TypeOK, Holds
<1>3. (pc["reader"] \in {"look", "bind", "local"} => todo["reader"] # <<>>)'
    BY DEF TypeOK, Holds
<1>4. (~local.ended => local.received <= InitialGrant)' /\ (~source.ended => source.received <= InitialGrant)'
    OBVIOUS
<1> QED BY <1>1, <1>2, <1>3, <1>4

(* Look: a thread that goes on to bind has seen its leg.                   *)
LEMMA TypedLook ==
    ASSUME Typed, NEW t \in Thread, Look(t)
    PROVE  Typed'
<1> USE StreamAssumption DEF Typed, Look, legVars, linkVars, queueVars, execVars, bounds, hostVars, Goto, Rest, Drop, Done, Thread
<1>1. TypeOK'
    BY DEF TypeOK
<1>2. \A u \in Thread : Holds(u)'
    <2>1. CASE \E o \in ops : ops = {o} /\ leg' = [leg EXCEPT ![t] = o] /\ pc' = [pc EXCEPT ![t] = "bind"]
        <3>1. PICK o \in Op : leg' = [leg EXCEPT ![t] = o] /\ pc' = [pc EXCEPT ![t] = "bind"]
            BY <2>1 DEF TypeOK
        <3> QED BY <3>1 DEF TypeOK, Holds
    <2>2. CASE /\ pc' = [pc EXCEPT ![t] = IF t = "reader" THEN "local" ELSE "open"]
               /\ UNCHANGED leg
        BY <2>2 DEF TypeOK, Holds
    <2> QED BY <2>1, <2>2
<1>3. (pc["reader"] \in {"look", "bind", "local"} => todo["reader"] # <<>>)'
    BY DEF TypeOK, Holds
<1>4. (~local.ended => local.received <= InitialGrant)' /\ (~source.ended => source.received <= InitialGrant)'
    OBVIOUS
<1> QED BY <1>1, <1>2, <1>3, <1>4

(* Bind: from here on the stream is bound.                                 *)
LEMMA TypedBind ==
    ASSUME Typed, NEW t \in Thread, Bind(t)
    PROVE  Typed'
<1> USE StreamAssumption DEF Typed, Bind, legVars, linkVars, queueVars, execVars, bounds, hostVars, Goto, Rest, Drop, Done, Thread
<1>1. TypeOK'
    <2>1. leg[t] \in Op
        BY DEF Holds
    <2>2. [bound |-> TRUE, op |-> leg[t], next |-> 0, granted |-> InitialGrant, sent |-> 0,
           rnext |-> 0, rreceived |-> 0, ended |-> FALSE] \in Leg
        BY <2>1 DEF Leg
    <2>3. rst' \in Leg \cup {None}
        BY <2>2 DEF TypeOK
    <2> QED BY <2>3 DEF TypeOK
<1>2. \A u \in Thread : Holds(u)'
    <2>1. rst'.bound
        <3>1. rst.bound \in BOOLEAN
            BY BoundIsLeg DEF TypeOK
        <3> QED BY <3>1
    <2> QED BY <2>1 DEF TypeOK, Holds
<1>3. (pc["reader"] \in {"look", "bind", "local"} => todo["reader"] # <<>>)'
    BY DEF TypeOK, Holds
<1>4. (~local.ended => local.received <= InitialGrant)' /\ (~source.ended => source.received <= InitialGrant)'
    OBVIOUS
<1> QED BY <1>1, <1>2, <1>3, <1>4

(* Take: parked chunks join those to relay.                                *)
LEMMA TypedTake ==
    ASSUME Typed, NEW t \in Thread, Take(t)
    PROVE  Typed'
<1> USE StreamAssumption DEF Typed, Take, legVars, linkVars, queueVars, execVars, bounds, hostVars, Goto, Rest, Drop, Done, Thread
<1>1. TypeOK'
    <2>1. parked \in Seq(Seqno \cup {End})
        BY SeqMonotonic DEF TypeOK
    <2>2. parked \o todo[t] \in Seq(Seqno \cup {End})
        BY <2>1, ConcatProperties DEF TypeOK
    <2>3. todo' \in [Thread -> Seq(Seqno \cup {End})]
        BY <2>2 DEF TypeOK
    <2>4. parked' \in Seq(Seqno) /\ Len(parked') <= MaxParked
        OBVIOUS
    <2> QED BY <2>3, <2>4 DEF TypeOK
<1>2. \A u \in Thread : Holds(u)'
    BY DEF TypeOK, Holds
<1>3. (pc["reader"] \in {"look", "bind", "local"} => todo["reader"] # <<>>)'
    BY DEF TypeOK, Holds
<1>4. (~local.ended => local.received <= InitialGrant)' /\ (~source.ended => source.received <= InitialGrant)'
    OBVIOUS
<1> QED BY <1>1, <1>2, <1>3, <1>4

(* Local: the cap of parked chunks and the local window.                   *)
LEMMA TypedLocal ==
    ASSUME Typed, Local
    PROVE  Typed'
<1> USE StreamAssumption DEF Typed, Local, legVars, linkVars, queueVars, execVars, bounds, hostVars, Goto, Rest, Drop, Done, Thread
<1>1. TypeOK' /\ (~local.ended => local.received <= InitialGrant)' /\ (~source.ended => source.received <= InitialGrant)'
    <2> DEFINE x == todo["reader"][1]
    <2>1. x \in Seqno \cup {End}
        <3>1. todo["reader"] \in Seq(Seqno \cup {End}) /\ todo["reader"] # <<>>
            BY DEF TypeOK
        <3> QED BY <3>1
    <2>2. todo' \in [Thread -> Seq(Seqno \cup {End})]
        <3>1. todo \in [Thread -> Seq(Seqno \cup {End})] /\ todo' = [todo EXCEPT !["reader"] = <<>>]
            BY DEF TypeOK
        <3>2. <<>> \in Seq(Seqno \cup {End})
            OBVIOUS
        <3> QED BY <3>1, <3>2
    <2>3. /\ parked' \in Seq(Seqno) /\ Len(parked') <= MaxParked
          /\ local' \in Stream /\ (~local'.ended => local'.received <= InitialGrant)
        <3>1. CASE x = End
            <4>1. Fresh \in Stream /\ Fresh.received <= InitialGrant
                BY DEF Fresh, Stream
            <4>2. parked' = <<>> /\ local' = Fresh
                BY <3>1
            <4> QED BY <4>1, <4>2
        <3>2. CASE x # End
            <4>1. x \in Seqno
                BY <2>1, <3>2
            <4>2. local' = Account(local, x)
                BY <3>2
            <4>3. local' \in Stream /\ (~local'.ended => local'.received <= InitialGrant)
                BY <4>1, <4>2, AccountTyped DEF TypeOK
            <4>4. CASE Len(parked) >= MaxParked
                <5>1. parked' = Append(Tail(parked), x) /\ parked # <<>>
                    BY <3>2, <4>4 DEF TypeOK
                <5>2. Tail(parked) \in Seq(Seqno) /\ Len(Tail(parked)) = Len(parked) - 1
                    BY <5>1, HeadTailProperties DEF TypeOK
                <5> HIDE DEF x
                <5>3. parked' \in Seq(Seqno) /\ Len(parked') = Len(parked)
                    <6>1. Len(parked) \in Nat
                        BY DEF TypeOK
                    <6>2. /\ Append(Tail(parked), x) \in Seq(Seqno)
                          /\ Len(Append(Tail(parked), x)) = Len(Tail(parked)) + 1
                        BY <4>1, <5>2, AppendProperties
                    <6>3. Len(Append(Tail(parked), x)) = Len(parked)
                        BY <5>2, <6>1, <6>2
                    <6> QED BY <5>1, <6>2, <6>3, Zenon
                <5> QED BY <4>3, <5>3 DEF TypeOK
            <4>5. CASE ~(Len(parked) >= MaxParked)
                <5>1. parked' = Append(parked, x)
                    BY <3>2, <4>5
                <5> HIDE DEF x
                <5>2. parked' \in Seq(Seqno) /\ Len(parked') = Len(parked) + 1 /\ Len(parked) \in Nat
                    BY <4>1, <5>1, AppendProperties DEF TypeOK
                <5> QED BY <4>3, <4>5, <5>2
            <4> QED BY <4>4, <4>5
        <3> QED BY <3>1, <3>2
    <2> QED BY <2>2, <2>3 DEF TypeOK
<1>2. \A u \in Thread : Holds(u)'
    BY DEF TypeOK, Holds
<1>3. (pc["reader"] \in {"look", "bind", "local"} => todo["reader"] # <<>>)'
    BY DEF TypeOK, Holds
<1> QED BY <1>1, <1>2, <1>3

(* Expire: parked chunks only get fewer.                                   *)
LEMMA TypedExpire ==
    ASSUME Typed, Expire
    PROVE  Typed'
<1> USE StreamAssumption DEF Typed, Expire, legVars, linkVars, queueVars, execVars, bounds, hostVars, Goto, Rest, Drop, Done, Thread
<1>1. TypeOK'
    <2>1. Tail(parked) \in Seq(Seqno) /\ Len(Tail(parked)) = Len(parked) - 1
        BY HeadTailProperties DEF TypeOK
    <2>2. Len(parked') <= MaxParked
        BY <2>1 DEF TypeOK
    <2> QED BY <2>1, <2>2 DEF TypeOK
<1>2. \A u \in Thread : Holds(u)'
    BY DEF TypeOK, Holds
<1>3. (pc["reader"] \in {"look", "bind", "local"} => todo["reader"] # <<>>)'
    BY DEF TypeOK, Holds
<1>4. (~local.ended => local.received <= InitialGrant)' /\ (~source.ended => source.received <= InitialGrant)'
    OBVIOUS
<1> QED BY <1>1, <1>2, <1>3, <1>4

(* RelayEmpty: the thread comes to rest.                                   *)
LEMMA TypedRelayEmpty ==
    ASSUME Typed, NEW t \in Thread, RelayEmpty(t)
    PROVE  Typed'
<1> USE StreamAssumption DEF Typed, RelayEmpty, legVars, linkVars, queueVars, execVars, bounds, hostVars, Goto, Rest, Drop, Done, Thread
<1>1. TypeOK'
    BY DEF TypeOK
<1>2. \A u \in Thread : Holds(u)'
    BY DEF TypeOK, Holds
<1>3. (pc["reader"] \in {"look", "bind", "local"} => todo["reader"] # <<>>)'
    BY DEF TypeOK, Holds
<1>4. (~local.ended => local.received <= InitialGrant)' /\ (~source.ended => source.received <= InitialGrant)'
    OBVIOUS
<1> QED BY <1>1, <1>2, <1>3, <1>4

(* RelaySkip: the frame in hand is dropped.                                *)
LEMMA TypedRelaySkip ==
    ASSUME Typed, NEW t \in Thread, RelaySkip(t)
    PROVE  Typed'
<1> USE StreamAssumption DEF Typed, RelaySkip, legVars, linkVars, queueVars, execVars, bounds, hostVars, Goto, Rest, Drop, Done, Thread
<1>1. TypeOK'
    <2>1. todo' \in [Thread -> Seq(Seqno \cup {End})]
        BY DropTyped
    <2> QED BY <2>1 DEF TypeOK
<1>2. \A u \in Thread : Holds(u)'
    BY DEF TypeOK, Holds
<1>3. (pc["reader"] \in {"look", "bind", "local"} => todo["reader"] # <<>>)'
    BY DEF TypeOK, Holds
<1>4. (~local.ended => local.received <= InitialGrant)' /\ (~source.ended => source.received <= InitialGrant)'
    OBVIOUS
<1> QED BY <1>1, <1>2, <1>3, <1>4

(* RelayEnd: the leg stays a leg and its end is queued.                    *)
LEMMA TypedRelayEnd ==
    ASSUME Typed, NEW t \in Thread, RelayEnd(t)
    PROVE  Typed'
<1> USE StreamAssumption DEF Typed, RelayEnd, legVars, linkVars, queueVars, execVars, bounds, hostVars, Goto, Rest, Drop, Done, Thread
<1>1. TypeOK'
    <2>1. todo' \in [Thread -> Seq(Seqno \cup {End})]
        BY DropTyped
    <2>2. rst \in Leg
        BY BoundIsLeg DEF TypeOK, Holds
    <2>3. rst' \in Leg
        BY <2>2, LegTyped
    <2>4. ctlQ' \in Seq({End})
        BY EndQueued DEF TypeOK
    <2> QED BY <2>1, <2>3, <2>4 DEF TypeOK
<1>2. \A u \in Thread : Holds(u)'
    <2>1. rst \in Leg /\ rst'.bound
        <3>1. rst \in Leg
            BY BoundIsLeg DEF TypeOK, Holds
        <3> QED BY <3>1 DEF Leg
    <2> QED BY <2>1 DEF TypeOK, Holds
<1>3. (pc["reader"] \in {"look", "bind", "local"} => todo["reader"] # <<>>)'
    BY DEF TypeOK, Holds
<1>4. (~local.ended => local.received <= InitialGrant)' /\ (~source.ended => source.received <= InitialGrant)'
    OBVIOUS
<1> QED BY <1>1, <1>2, <1>3, <1>4

(* RelayCheck: past the window the end is queued, else the chunk is held.  *)
LEMMA TypedRelayCheck ==
    ASSUME Typed, NEW t \in Thread, RelayCheck(t)
    PROVE  Typed'
<1> USE StreamAssumption DEF Typed, RelayCheck, legVars, linkVars, queueVars, execVars, bounds, hostVars, Goto, Rest, Drop, Done, Thread
<1>1. TypeOK'
    <2>1. rst \in Leg /\ rst.next + 1 \in Nat
        <3>1. rst \in Leg
            BY BoundIsLeg DEF TypeOK, Holds
        <3>2. rst.next \in Nat
            BY <3>1 DEF Leg
        <3> QED BY <3>1, <3>2
    <2>2. rst' \in Leg
        <3> DEFINE b == Over
        <3>1. b \in BOOLEAN /\ rst' = [rst EXCEPT !.next = rst.next + 1, !.ended = b]
            BY <2>1 DEF Over, Leg
        <3> HIDE DEF b
        <3>2. [rst EXCEPT !.next = rst.next + 1, !.ended = b] \in Leg
            BY <2>1, <3>1, LegTyped
        <3> QED BY <3>1, <3>2
    <2>3. todo' \in [Thread -> Seq(Seqno \cup {End})]
        BY DropTyped DEF TypeOK
    <2>4. ctlQ' \in Seq({End})
        BY EndQueued DEF TypeOK
    <2> QED BY <2>2, <2>3, <2>4 DEF TypeOK
<1>2. \A u \in Thread : Holds(u)'
    <2>1. rst \in Leg /\ rst'.bound
        <3>1. rst \in Leg
            BY BoundIsLeg DEF TypeOK, Holds
        <3> QED BY <3>1 DEF Leg
    <2>2. todo[t] # <<>> /\ Head(todo[t]) \in Seqno
        <3>1. Head(todo[t]) \in Seqno \cup {End} /\ rst.next \in Nat
            BY <2>1, HeadTailProperties DEF TypeOK, Leg
        <3> QED BY <3>1 DEF End
    <2>3. CASE Over
        BY <2>1, <2>3 DEF TypeOK, Holds
    <2>4. CASE ~Over
        BY <2>1, <2>2, <2>4 DEF TypeOK, Holds
    <2> QED BY <2>3, <2>4
<1>3. (pc["reader"] \in {"look", "bind", "local"} => todo["reader"] # <<>>)'
    BY DEF TypeOK, Holds
<1>4. (~local.ended => local.received <= InitialGrant)' /\ (~source.ended => source.received <= InitialGrant)'
    OBVIOUS
<1> QED BY <1>1, <1>2, <1>3, <1>4

(* RelaySend: the chunk is charged and queued, or dropped.                 *)
LEMMA TypedRelaySend ==
    ASSUME Typed, NEW t \in Thread, RelaySend(t)
    PROVE  Typed'
<1> USE StreamAssumption DEF Typed, RelaySend, legVars, linkVars, queueVars, execVars, bounds, hostVars, Goto, Rest, Drop, Done, Thread
<1>1. TypeOK'
    <2>1. todo[t] # <<>> /\ Head(todo[t]) \in Seqno /\ rst \in Leg
        BY BoundIsLeg DEF TypeOK, Holds
    <2>2. todo' \in [Thread -> Seq(Seqno \cup {End})]
        BY <2>1, DropTyped
    <2>3. rst' \in Leg
        <3>1. rst.sent + 1 \in Nat
            BY <2>1 DEF Leg
        <3>2. rst' = [rst EXCEPT !.sent = rst.sent + 1] \/ rst' = rst
            BY <2>1 DEF Leg
        <3> QED BY <2>1, <3>1, <3>2, LegTyped
    <2>4. relayed' \in Seq(Seqno)
        <3>1. relayed \in Seq(Seqno)
            BY DEF TypeOK
        <3>2. Append(relayed, Head(todo[t])) \in Seq(Seqno)
            BY <2>1, <3>1, AppendProperties
        <3> QED BY <3>1, <3>2
    <2>5. dataQ' \in Seq(Seqno)
        <3>1. dataQ \in Seq(Seqno) /\ <<Head(todo[t])>> \in Seq(Seqno)
            BY <2>1 DEF TypeOK
        <3>2. dataQ \o Queued(<<Head(todo[t])>>) \in Seq(Seqno)
            BY <3>1, QueuedTyped
        <3> QED BY <3>1, <3>2
    <2> QED BY <2>2, <2>3, <2>4, <2>5 DEF TypeOK
<1>2. \A u \in Thread : Holds(u)'
    <2>1. rst \in Leg
        BY BoundIsLeg DEF TypeOK, Holds
    <2>2. rst'.bound
        BY <2>1 DEF Leg
    <2> QED BY <2>2 DEF TypeOK, Holds
<1>3. (pc["reader"] \in {"look", "bind", "local"} => todo["reader"] # <<>>)'
    BY DEF TypeOK, Holds
<1>4. (~local.ended => local.received <= InitialGrant)' /\ (~source.ended => source.received <= InitialGrant)'
    OBVIOUS
<1> QED BY <1>1, <1>2, <1>3, <1>4

(* LegMap: the operation joins the table.                                  *)
LEMMA TypedLegMap ==
    ASSUME Typed, NEW o \in Op, LegMap(o)
    PROVE  Typed'
<1> USE StreamAssumption DEF Typed, LegMap, legVars, linkVars, queueVars, execVars, bounds, hostVars, Goto, Rest, Drop, Done, Thread
<1>1. TypeOK'
    BY DEF TypeOK
<1>2. \A u \in Thread : Holds(u)'
    BY DEF TypeOK, Holds
<1>3. (pc["reader"] \in {"look", "bind", "local"} => todo["reader"] # <<>>)'
    BY DEF TypeOK, Holds
<1>4. (~local.ended => local.received <= InitialGrant)' /\ (~source.ended => source.received <= InitialGrant)'
    OBVIOUS
<1> QED BY <1>1, <1>2, <1>3, <1>4

(* Drain: the worker goes to look, or rests.                               *)
LEMMA TypedDrain ==
    ASSUME Typed, NEW o \in Op, Drain(o)
    PROVE  Typed'
<1> USE StreamAssumption DEF Typed, Drain, legVars, linkVars, queueVars, execVars, bounds, hostVars, Goto, Rest, Drop, Done, Thread
<1>1. TypeOK'
    BY DEF TypeOK
<1>2. \A u \in Thread : Holds(u)'
    BY DEF TypeOK, Holds
<1>3. (pc["reader"] \in {"look", "bind", "local"} => todo["reader"] # <<>>)'
    BY DEF TypeOK, Holds
<1>4. (~local.ended => local.received <= InitialGrant)' /\ (~source.ended => source.received <= InitialGrant)'
    OBVIOUS
<1> QED BY <1>1, <1>2, <1>3, <1>4

(* LegAbort: the leg stays a leg.                                          *)
LEMMA TypedLegAbort ==
    ASSUME Typed, NEW o \in Op, LegAbort(o)
    PROVE  Typed'
<1> USE StreamAssumption DEF Typed, LegAbort, legVars, linkVars, queueVars, execVars, bounds, hostVars, Goto, Rest, Drop, Done, Thread
<1>1. TypeOK'
    <2>1. rst' \in Leg \cup {None}
        <3>1. CASE rst.bound
            <4>1. rst \in Leg
                BY <3>1, BoundIsLeg DEF TypeOK
            <4> QED BY <4>1, LegTyped
        <3>2. CASE ~rst.bound
            BY <3>2 DEF TypeOK
        <3> QED BY <3>1, <3>2
    <2> QED BY <2>1 DEF TypeOK
<1>2. \A u \in Thread : Holds(u)'
    <2>1. rst.bound => rst'.bound
        <3>1. CASE rst.bound
            <4>1. rst \in Leg
                BY <3>1, BoundIsLeg DEF TypeOK
            <4> QED BY <4>1 DEF Leg
        <3> QED BY <3>1
    <2> QED BY <2>1 DEF TypeOK, Holds
<1>3. (pc["reader"] \in {"look", "bind", "local"} => todo["reader"] # <<>>)'
    BY DEF TypeOK, Holds
<1>4. (~local.ended => local.received <= InitialGrant)' /\ (~source.ended => source.received <= InitialGrant)'
    OBVIOUS
<1> QED BY <1>1, <1>2, <1>3, <1>4

(* LegDone: the operation leaves the table.                                *)
LEMMA TypedLegDone ==
    ASSUME Typed, NEW o \in Op, LegDone(o)
    PROVE  Typed'
<1> USE StreamAssumption DEF Typed, LegDone, legVars, linkVars, queueVars, execVars, bounds, hostVars, Goto, Rest, Drop, Done, Thread
<1>1. TypeOK'
    BY DEF TypeOK
<1>2. \A u \in Thread : Holds(u)'
    BY DEF TypeOK, Holds
<1>3. (pc["reader"] \in {"look", "bind", "local"} => todo["reader"] # <<>>)'
    BY DEF TypeOK, Holds
<1>4. (~local.ended => local.received <= InitialGrant)' /\ (~source.ended => source.received <= InitialGrant)'
    OBVIOUS
<1> QED BY <1>1, <1>2, <1>3, <1>4

(* Flush: a frame moves from its queue to the wire, or is lost.            *)
LEMMA TypedFlush ==
    ASSUME Typed, Flush
    PROVE  Typed'
<1> USE StreamAssumption DEF Typed, Flush, legVars, linkVars, queueVars, execVars, bounds, hostVars, Goto, Rest, Drop, Done, Thread
<1>1. TypeOK'
    <2>1. net' \in Seq(Seqno \cup {End}) /\ ctlQ' \in Seq({End}) /\ dataQ' \in Seq(Seqno)
        <3>0. net \in Seq(Seqno \cup {End}) /\ ctlQ \in Seq({End}) /\ dataQ \in Seq(Seqno)
            BY DEF TypeOK
        <3>1. CASE ctlQ # <<>> /\ net' \in {Append(net, Head(ctlQ)), net} /\ ctlQ' = Tail(ctlQ) /\ UNCHANGED dataQ
            <4>1. Head(ctlQ) \in Seqno \cup {End} /\ Tail(ctlQ) \in Seq({End})
                BY <3>0, <3>1, HeadTailProperties
            <4>2. Append(net, Head(ctlQ)) \in Seq(Seqno \cup {End})
                BY <3>0, <4>1, AppendProperties
            <4> QED BY <3>0, <3>1, <4>1, <4>2
        <3>2. CASE dataQ # <<>> /\ net' \in {Append(net, Head(dataQ)), net} /\ dataQ' = Tail(dataQ) /\ UNCHANGED ctlQ
            <4>1. Head(dataQ) \in Seqno \cup {End} /\ Tail(dataQ) \in Seq(Seqno)
                BY <3>0, <3>2, HeadTailProperties
            <4>2. Append(net, Head(dataQ)) \in Seq(Seqno \cup {End})
                BY <3>0, <4>1, AppendProperties
            <4> QED BY <3>0, <3>2, <4>1, <4>2
        <3> QED BY <3>1, <3>2
    <2> QED BY <2>1 DEF TypeOK
<1>2. \A u \in Thread : Holds(u)'
    BY DEF TypeOK, Holds
<1>3. (pc["reader"] \in {"look", "bind", "local"} => todo["reader"] # <<>>)'
    BY DEF TypeOK, Holds
<1>4. (~local.ended => local.received <= InitialGrant)' /\ (~source.ended => source.received <= InitialGrant)'
    OBVIOUS
<1> QED BY <1>1, <1>2, <1>3, <1>4

(* ExecTake: the executor's window, by IntakeTyped.                        *)
LEMMA TypedExecTake ==
    ASSUME Typed, ExecTake
    PROVE  Typed'
<1> USE StreamAssumption DEF Typed, ExecTake, legVars, linkVars, queueVars, execVars, bounds, hostVars, Goto, Rest, Drop, Done, Thread
<1>1. TypeOK'
    <2>1. Head(net) \in Seqno \cup {End} /\ Tail(net) \in Seq(Seqno \cup {End})
        BY HeadTailProperties DEF TypeOK
    <2>2. ex' \in Intake \cup {Unknown} /\ (ex'.known => ex'.received <= ex'.granted) /\ back' \in Seq(Message)
        <3>1. CASE Head(net) = End
            <4>1. UNCHANGED back /\ ex' = (IF ex.known THEN [ex EXCEPT !.ended = TRUE] ELSE ex)
                BY <3>1
            <4>2. CASE ex \in Intake
                <5>1. ex' = [ex EXCEPT !.ended = TRUE]
                    BY <4>1, <4>2 DEF Intake
                <5>2. ex' \in Intake /\ ex'.received = ex.received /\ ex'.granted = ex.granted
                    BY <4>2, <5>1 DEF Intake
                <5>3. ex.received <= ex.granted
                    BY <4>2 DEF Intake, TypeOK
                <5> QED BY <4>1, <5>2, <5>3 DEF TypeOK
            <4>3. CASE ex = Unknown
                BY <4>1, <4>3 DEF Unknown, TypeOK
            <4> QED BY <4>2, <4>3 DEF TypeOK
        <3>2. CASE Head(net) # End
            <4>1. Head(net) \in Seqno /\ ExecData(Head(net))
                BY <2>1, <3>2
            <4> QED BY <4>1, IntakeTyped DEF TypeOK
        <3> QED BY <3>1, <3>2
    <2>3. closed' \in BOOLEAN
        OBVIOUS
    <2> QED BY <2>1, <2>2, <2>3 DEF TypeOK
<1>2. \A u \in Thread : Holds(u)'
    BY DEF TypeOK, Holds
<1>3. (pc["reader"] \in {"look", "bind", "local"} => todo["reader"] # <<>>)'
    BY DEF TypeOK, Holds
<1>4. (~local.ended => local.received <= InitialGrant)' /\ (~source.ended => source.received <= InitialGrant)'
    OBVIOUS
<1> QED BY <1>1, <1>2, <1>3, <1>4

(* ProviderChunk: the provider's account, by AccountTyped.                 *)
LEMMA TypedProviderChunk ==
    ASSUME Typed, ProviderChunk
    PROVE  Typed'
<1> USE StreamAssumption DEF Typed, ProviderChunk, legVars, linkVars, queueVars, execVars, bounds, hostVars, Goto, Rest, Drop, Done, Thread
<1>1. TypeOK' /\ (~local.ended => local.received <= InitialGrant)' /\ (~source.ended => source.received <= InitialGrant)'
    <2>1. PICK q \in Seqno :
              /\ source' = Account(source, q)
              /\ back' = IF Accepts(source, q) /\ ~source'.ended /\ up
                         THEN Append(back, [type |-> "data", seq |-> q]) ELSE back
        OBVIOUS
    <2>2. source' \in Stream /\ (~source'.ended => source'.received <= InitialGrant)
        BY <2>1, AccountTyped DEF TypeOK
    <2>3. back' \in Seq(Message)
        <3>1. [type |-> "data", seq |-> q] \in Message
            BY DEF Message
        <3> QED BY <2>1, <3>1, AppendProperties DEF TypeOK
    <2> QED BY <2>2, <2>3 DEF TypeOK
<1>2. \A u \in Thread : Holds(u)'
    BY DEF TypeOK, Holds
<1>3. (pc["reader"] \in {"look", "bind", "local"} => todo["reader"] # <<>>)'
    BY DEF TypeOK, Holds
<1> QED BY <1>1, <1>2, <1>3

(* ControllerTake: credits, cancels and chunks leave a leg a leg.          *)
LEMMA TypedControllerTake ==
    ASSUME Typed, ControllerTake
    PROVE  Typed'
<1> USE StreamAssumption DEF Typed, ControllerTake, legVars, linkVars, queueVars, execVars, bounds, hostVars, Goto, Rest, Drop, Done, Thread
<1>1. TypeOK'
    <2>1. Head(back) \in Message /\ Tail(back) \in Seq(Message)
        BY HeadTailProperties DEF TypeOK
    <2>2. rst' \in Leg \cup {None} /\ (rst.bound => rst'.bound)
        BY <2>1, ControllerLeg DEF TypeOK
    <2> QED BY <2>1, <2>2 DEF TypeOK
<1>2. \A u \in Thread : Holds(u)'
    <2>1. rst.bound => rst'.bound
        <3>1. Head(back) \in Message
            BY HeadTailProperties DEF TypeOK
        <3> QED BY <3>1, ControllerLeg DEF TypeOK
    <2> QED BY <2>1 DEF TypeOK, Holds
<1>3. (pc["reader"] \in {"look", "bind", "local"} => todo["reader"] # <<>>)'
    BY DEF TypeOK, Holds
<1>4. (~local.ended => local.received <= InitialGrant)' /\ (~source.ended => source.received <= InitialGrant)'
    OBVIOUS
<1> QED BY <1>1, <1>2, <1>3, <1>4

(* LinkLost: the queues and the wires are emptied.                         *)
LEMMA TypedLinkLost ==
    ASSUME Typed, LinkLost
    PROVE  Typed'
<1> USE StreamAssumption DEF Typed, LinkLost, legVars, linkVars, queueVars, execVars, bounds, hostVars, Goto, Rest, Drop, Done, Thread
<1>1. TypeOK'
    <2>1. ex' = Unknown /\ ~ex'.known
        BY DEF Unknown
    <2>2. back' \in Seq(Message) /\ net' \in Seq(Seqno \cup {End}) /\ dataQ' \in Seq(Seqno) /\ ctlQ' \in Seq({End})
        OBVIOUS
    <2> QED BY <2>1, <2>2 DEF TypeOK
<1>2. \A u \in Thread : Holds(u)'
    BY DEF TypeOK, Holds
<1>3. (pc["reader"] \in {"look", "bind", "local"} => todo["reader"] # <<>>)'
    BY DEF TypeOK, Holds
<1>4. (~local.ended => local.received <= InitialGrant)' /\ (~source.ended => source.received <= InitialGrant)'
    OBVIOUS
<1> QED BY <1>1, <1>2, <1>3, <1>4

(* Reattach: only the link comes up.                                       *)
LEMMA TypedReattach ==
    ASSUME Typed, Reattach
    PROVE  Typed'
<1> USE StreamAssumption DEF Typed, Reattach, legVars, linkVars, queueVars, execVars, bounds, hostVars, Goto, Rest, Drop, Done, Thread
<1>1. TypeOK'
    BY DEF TypeOK
<1>2. \A u \in Thread : Holds(u)'
    BY DEF TypeOK, Holds
<1>3. (pc["reader"] \in {"look", "bind", "local"} => todo["reader"] # <<>>)'
    BY DEF TypeOK, Holds
<1>4. (~local.ended => local.received <= InitialGrant)' /\ (~source.ended => source.received <= InitialGrant)'
    OBVIOUS
<1> QED BY <1>1, <1>2, <1>3, <1>4

(* ExecReconciles: the intake keeps its window.                            *)
LEMMA TypedExecReconciles ==
    ASSUME Typed, ExecReconciles
    PROVE  Typed'
<1> USE StreamAssumption DEF Typed, ExecReconciles, legVars, linkVars, queueVars, execVars, bounds, hostVars
<1>1. TypeOK'
    <2>1. ex \in Intake
        BY DEF TypeOK, Unknown
    <2>2. ex' \in Intake /\ ex'.received = ex.received /\ ex'.granted = ex.granted /\ ex.known
        BY <2>1 DEF Intake
    <2> QED BY <2>2 DEF TypeOK
<1>2. \A u \in Thread : Holds(u)'
    BY DEF TypeOK, Holds
<1> QED BY <1>1, <1>2

(* HostReconciles: the leg stays a leg.                                    *)
LEMMA TypedHostReconciles ==
    ASSUME Typed, HostReconciles
    PROVE  Typed'
<1> USE StreamAssumption DEF Typed, HostReconciles, EndRemoteStream, legVars, linkVars, queueVars, execVars, bounds
<1>1. rst \in Leg
    BY BoundIsLeg DEF TypeOK
<1>2. rst' \in Leg /\ rst'.bound
    BY <1>1, LegTyped DEF Leg
<1>3. TypeOK'
    BY <1>2 DEF TypeOK
<1>4. \A u \in Thread : Holds(u)'
    BY <1>2 DEF TypeOK, Holds
<1> QED BY <1>3, <1>4

(* Typed is inductive: one lemma per action.                               *)
LEMMA TypedStep == Typed /\ [Next]_vars => Typed'
<1> SUFFICES ASSUME Typed, [Next]_vars PROVE Typed'
    OBVIOUS
<1>1. CASE \E x \in Seqno \cup {End} : ReadFrame(x)
    BY <1>1, TypedReadFrame
<1>2. CASE \E t \in Thread : \/ Look(t) \/ Bind(t) \/ Take(t) \/ RelayEmpty(t) \/ RelaySkip(t)
                             \/ RelayEnd(t) \/ RelayCheck(t) \/ RelaySend(t)
    BY <1>2, TypedLook, TypedBind, TypedTake, TypedRelayEmpty, TypedRelaySkip, TypedRelayEnd,
       TypedRelayCheck, TypedRelaySend
<1>3. CASE \E o \in Op : LegMap(o) \/ Drain(o) \/ LegAbort(o) \/ LegDone(o)
    BY <1>3, TypedLegMap, TypedDrain, TypedLegAbort, TypedLegDone
<1>4. CASE \/ Local \/ Expire \/ Flush \/ ExecTake \/ ProviderChunk \/ ControllerTake \/ LinkLost \/ Reattach
           \/ ExecReconciles \/ HostReconciles
    BY <1>4, TypedLocal, TypedExpire, TypedFlush, TypedExecTake, TypedProviderChunk, TypedControllerTake,
       TypedLinkLost, TypedReattach, TypedExecReconciles, TypedHostReconciles
<1>5. CASE UNCHANGED vars
    <2>1. TypeOK'
        BY <1>5 DEF Typed, TypeOK, vars, hostVars, legVars, linkVars, queueVars, execVars
    <2>2. \A u \in Thread : Holds(u)'
        BY <1>5 DEF Typed, Holds, vars, hostVars, legVars
    <2> QED BY <1>5, <2>1, <2>2 DEF Typed, vars, hostVars, execVars
<1> QED BY <1>1, <1>2, <1>3, <1>4, <1>5 DEF Next

(* The tables, the threads and the windows stay within their types and     *)
(* limits, whatever the number of legs, frames and lost links.             *)
THEOREM StreamTypeCorrect == Spec => []TypeOK
<1>1. Typed => TypeOK
    BY DEF Typed
<1> QED BY <1>1, TypedInit, TypedStep, PTL DEF Spec

-----------------------------------------------------------------------------
(* Tombstones.                                                             *)

(* What any step may do to a leg: it stays bound to its operation, its     *)
(* sequence number and its window do not go back, and one that has ended   *)
(* keeps both.                                                             *)
LegStep ==
    rst.bound => /\ rst'.bound /\ rst'.op = rst.op
                 /\ rst'.next >= rst.next /\ rst'.granted >= rst.granted
                 /\ rst.ended => rst'.ended /\ rst'.next = rst.next /\ rst'.granted = rst.granted

(* Every step of Next is a LegStep.                                        *)
LEMMA LegSteps == Typed /\ [Next]_vars => LegStep
<1> SUFFICES ASSUME Typed, [Next]_vars, rst.bound PROVE LegStep
    BY DEF LegStep
<1>1. rst \in Leg
    BY BoundIsLeg DEF Typed, TypeOK
<1>2. rst.next \in Nat /\ rst.granted \in Nat /\ rst.bound
    BY <1>1 DEF Leg
<1>3. CASE rst' = rst
    BY <1>2, <1>3 DEF LegStep
<1>4. CASE \E t \in Thread : RelayEnd(t)
    <2>1. rst' = [rst EXCEPT !.ended = TRUE]
        BY <1>4 DEF RelayEnd
    <2> QED BY <1>1, <1>2, <2>1 DEF LegStep, Leg
<1>5. CASE \E t \in Thread : RelayCheck(t)
    <2>1. ~rst.ended /\ rst' = [rst EXCEPT !.next = rst.next + 1, !.ended = Over]
        BY <1>1, <1>5 DEF RelayCheck, Leg
    <2>2. rst'.bound /\ rst'.op = rst.op /\ rst'.next = rst.next + 1 /\ rst'.granted = rst.granted
        BY <1>1, <2>1 DEF Leg
    <2> QED BY <1>2, <2>1, <2>2 DEF LegStep
<1>6. CASE \E t \in Thread : RelaySend(t)
    <2>1. rst' = [rst EXCEPT !.sent = @ + 1] \/ rst' = rst
        BY <1>6 DEF RelaySend
    <2> QED BY <1>1, <1>2, <2>1 DEF LegStep, Leg
<1>7. CASE HostReconciles \/ \E o \in Op : LegAbort(o)
    <2>1. rst' = [rst EXCEPT !.ended = TRUE] \/ rst' = rst
        BY <1>7 DEF LegAbort, HostReconciles, EndRemoteStream
    <2> QED BY <1>1, <1>2, <2>1 DEF LegStep, Leg
<1>8. CASE ControllerTake
    <2>1. Head(back) \in Message
        BY <1>8, HeadTailProperties DEF Typed, TypeOK, ControllerTake
    <2>2. /\ rst'.bound /\ rst'.op = rst.op /\ rst'.next = rst.next
          /\ rst'.granted >= rst.granted /\ (rst.ended => rst' = rst)
        BY <1>1, <1>2, <1>8, <2>1, ControllerLeg
    <2> QED BY <1>2, <2>2 DEF LegStep
<1>9. CASE \E t \in Thread : Bind(t)
    <2>1. rst' = rst
        BY <1>2, <1>9 DEF Bind
    <2> QED BY <1>3, <2>1
<1>10. [\/ \E t \in Thread : RelayEnd(t) \/ RelayCheck(t) \/ RelaySend(t) \/ Bind(t)
        \/ \E o \in Op : LegAbort(o)
        \/ ControllerTake \/ HostReconciles]_rst
    BY DEF Next, vars, hostVars, legVars, ReadFrame, Local, Expire, Look, Take, RelayEmpty, RelaySkip, LegMap,
       Drain, LegDone, Flush, ExecTake, ProviderChunk, LinkLost, Reattach, ExecReconciles
<1> QED BY <1>3, <1>4, <1>5, <1>6, <1>7, <1>8, <1>9, <1>10

(* An ended leg is never revived, nor its id given to another operation,   *)
(* in any behaviour of the host, the link and the executor.                *)
THEOREM TombstoneSafety == Spec => TombstoneHolds
<1>1. Typed /\ [Next]_vars => [LegStep]_vars
    BY LegSteps
<1>2. [LegStep]_vars => [rst.bound => /\ rst'.bound /\ rst'.op = rst.op
                                      /\ rst.ended => rst'.ended /\ rst'.next = rst.next /\ rst'.granted = rst.granted]_vars
    BY DEF LegStep
<1> QED BY <1>1, <1>2, TypedInit, TypedStep, PTL DEF Spec, TombstoneHolds

-----------------------------------------------------------------------------
(* Chunks are relayed once, and the window is not passed by more than the  *)
(* racing relays.                                                          *)

(* A step that neither begins nor ends a send.                             *)
Quiet ==
    /\ relayed' = relayed
    /\ \A u \in Thread : pc'[u] = "send" => pc[u] = "send" /\ todo'[u] = todo[u]
    /\ \A o \in Op : leg[o] # NoOp => leg'[o] # NoOp
    /\ rst.bound => rst'.sent = rst.sent
    /\ ~rst.bound /\ rst'.bound => rst'.sent = 0

(* The steps of a thread are quiet, but for the send and the check before  *)
(* it.                                                                     *)
LEMMA QuietThreads ==
    ASSUME Typed, NEW t \in Thread,
           Look(t) \/ Bind(t) \/ Take(t) \/ RelayEmpty(t) \/ RelaySkip(t) \/ RelayEnd(t) \/ (RelayCheck(t) /\ Over)
    PROVE  Quiet
<1> USE DEF legVars, Goto, Rest, Drop, Done, Thread
<1>1. \A u \in Thread : pc'[u] = "send" => pc[u] = "send" /\ todo'[u] = todo[u]
    BY DEF Typed, TypeOK, Look, Bind, Take, RelayEmpty, RelaySkip, RelayEnd, RelayCheck
<1>2. \A o \in Op : leg[o] # NoOp => leg'[o] # NoOp
    <2>1. CASE Look(t)
        <3>1. leg' = leg \/ \E o \in Op : leg' = [leg EXCEPT ![t] = o]
            BY <2>1 DEF Look, Typed, TypeOK
        <3> QED BY <3>1, StreamAssumption DEF NoOp, Typed, TypeOK
    <2>2. CASE leg' = leg
        BY <2>2
    <2> QED BY <2>1, <2>2 DEF Bind, Take, RelayEmpty, RelaySkip, RelayEnd, RelayCheck
<1>3. relayed' = relayed
    BY DEF Look, Bind, Take, RelayEmpty, RelaySkip, RelayEnd, RelayCheck
<1>4. (rst.bound => rst'.sent = rst.sent) /\ (~rst.bound /\ rst'.bound => rst'.sent = 0)
    <2>1. CASE rst' = rst
        BY <2>1
    <2>2. CASE Bind(t)
        BY <2>2 DEF Bind
    <2>3. CASE RelayEnd(t) \/ RelayCheck(t)
        <3>1. rst \in Leg
            BY <2>3, BoundIsLeg DEF RelayEnd, RelayCheck, Typed, TypeOK, Holds
        <3>2. rst' = [rst EXCEPT !.ended = TRUE] \/ rst' = [rst EXCEPT !.next = @ + 1, !.ended = Over]
            BY <2>3 DEF RelayEnd, RelayCheck
        <3>3. rst.bound /\ rst'.sent = rst.sent
            BY <3>1, <3>2 DEF Leg
        <3> QED BY <3>3
    <2> QED BY <2>1, <2>2, <2>3 DEF Look, Take, RelayEmpty, RelaySkip
<1> QED BY <1>1, <1>2, <1>3, <1>4 DEF Quiet

(* A step is quiet, charges a chunk or lets one through to be charged.     *)
LEMMA QuietSteps ==
    ASSUME Typed, [Next]_vars
    PROVE  Quiet \/ \E t \in Thread : RelaySend(t) \/ (RelayCheck(t) /\ ~Over)
<1> USE DEF legVars, hostVars, Goto, Rest, Drop, Done, Thread
<1>1. CASE \E t \in Thread : \/ Look(t) \/ Bind(t) \/ Take(t) \/ RelayEmpty(t) \/ RelaySkip(t)
                             \/ RelayEnd(t) \/ RelayCheck(t) \/ RelaySend(t)
    BY <1>1, QuietThreads
<1>2. CASE \E x \in Seqno \cup {End} : ReadFrame(x)
    BY <1>2 DEF Quiet, ReadFrame, Typed, TypeOK
<1>3. CASE \E o \in Op : LegMap(o) \/ Drain(o) \/ LegDone(o)
    BY <1>3 DEF Quiet, LegMap, Drain, LegDone, Typed, TypeOK
<1>4. CASE \E o \in Op : LegAbort(o)
    <2>1. rst.bound => rst \in Leg
        BY BoundIsLeg DEF Typed, TypeOK
    <2>2. rst.bound => rst'.sent = rst.sent
        BY <1>4, <2>1 DEF LegAbort, Leg
    <2>3. ~rst.bound => rst' = rst
        BY <1>4 DEF LegAbort
    <2> QED BY <1>4, <2>2, <2>3 DEF Quiet, LegAbort, Typed, TypeOK
<1>5. CASE Local
    BY <1>5 DEF Quiet, Local, Typed, TypeOK
<1>6. CASE \/ Expire \/ Flush \/ ExecTake \/ ProviderChunk \/ LinkLost \/ Reattach \/ ExecReconciles
           \/ UNCHANGED vars
    BY <1>6 DEF Quiet, Expire, Flush, ExecTake, ProviderChunk, LinkLost, Reattach, ExecReconciles, vars
<1>7. CASE ControllerTake
    <2>1. Head(back) \in Message
        BY <1>7, HeadTailProperties DEF Typed, TypeOK, ControllerTake
    <2>2. (rst.bound => rst'.sent = rst.sent) /\ (~rst.bound => rst' = rst)
        BY <1>7, <2>1, ControllerLeg DEF Typed, TypeOK
    <2> QED BY <1>7, <2>2 DEF Quiet, ControllerTake
<1>8. CASE HostReconciles
    <2>1. rst \in Leg
        BY <1>8, BoundIsLeg DEF HostReconciles, Typed, TypeOK
    <2>2. rst.bound /\ rst'.sent = rst.sent
        BY <1>8, <2>1 DEF HostReconciles, EndRemoteStream, Leg
    <2> QED BY <1>8, <2>2 DEF Quiet, HostReconciles
<1> QED BY <1>1, <1>2, <1>3, <1>4, <1>5, <1>6, <1>7, <1>8 DEF Next

(* Once is inductive: quiet steps keep it, a check adds a chunk equal to   *)
(* the next sequence number, a send moves its chunk to the history.        *)
LEMMA OnceStep == Typed /\ Once /\ [Next]_vars => Once'
<1> SUFFICES ASSUME Typed, Once, [Next]_vars PROVE Once'
    OBVIOUS
<1>1. Typed' /\ LegStep
    BY TypedStep, LegSteps
<1>2. /\ relayed \in Seq(Seqno) /\ rst \in Leg \cup {None} /\ (rst.bound <=> rst \in Leg)
      /\ (rst.bound => rst.next \in Nat) /\ (rst'.bound => rst'.next \in Nat)
    <2>1. (rst.bound <=> rst \in Leg) /\ (rst'.bound <=> rst' \in Leg)
        <3>1. \A r \in Leg \cup {None} : r.bound <=> r \in Leg
            <4> SUFFICES ASSUME NEW r \in Leg \cup {None} PROVE r.bound <=> r \in Leg
                OBVIOUS
            <4>1. CASE r \in Leg
                BY <4>1 DEF Leg
            <4>2. CASE r = None
                BY <4>2 DEF None, Leg
            <4> QED BY <4>1, <4>2
        <3> QED BY <1>1, <3>1 DEF Typed, TypeOK
    <2> QED BY <2>1 DEF Typed, TypeOK, Leg
<1>3. \A i \in DOMAIN relayed : relayed[i] \in Int
    BY <1>2, StreamAssumption DEF Seqno
<1>4. CASE Quiet
    <2>1. \A i \in DOMAIN relayed' : rst'.bound /\ relayed'[i] < rst'.next
        BY <1>1, <1>2, <1>3, <1>4 DEF Quiet, Once, LegStep
    <2>2. \A t \in Thread : pc'[t] = "send" => rst.bound /\ Head(todo[t]) \in Int /\ Head(todo[t]) < rst.next
        BY <1>4, StreamAssumption DEF Quiet, Once, Typed, Holds, Seqno
    <2>3. \A t \in Thread : pc'[t] = "send" => Head(todo'[t]) < rst'.next
        BY <1>1, <1>2, <1>4, <2>2 DEF Quiet, LegStep
    <2>4. \A t \in Thread : pc'[t] = "send" =>
              /\ \A i \in DOMAIN relayed' : relayed'[i] # Head(todo'[t])
              /\ \A u \in Thread : u # t /\ pc'[u] = "send" => Head(todo'[u]) # Head(todo'[t])
        BY <1>4 DEF Quiet, Once
    <2>5. RelayedOnce'
        BY <1>4 DEF Quiet, Once, RelayedOnce
    <2> QED BY <2>1, <2>3, <2>4, <2>5 DEF Once
<1>5. ASSUME NEW t \in Thread, RelayCheck(t), ~Over PROVE Once'
    <2>1. rst \in Leg /\ rst.bound /\ Head(todo[t]) = rst.next
        BY <1>2, <1>5 DEF RelayCheck, Typed, Holds
    <2>2. rst'.next = rst.next + 1 /\ rst'.bound
        BY <1>5, <2>1 DEF RelayCheck, Leg
    <2>3. relayed' = relayed /\ todo' = todo /\ pc' = [pc EXCEPT ![t] = "send"]
        BY <1>5 DEF RelayCheck, Goto
    <2>4. \A u \in Thread : pc'[u] = "send" => u = t \/ pc[u] = "send"
        BY <2>3 DEF Typed, TypeOK
    <2>5. \A u \in Thread : pc[u] = "send" => Head(todo[u]) \in Int /\ Head(todo[u]) < rst.next
        BY StreamAssumption DEF Once, Typed, Holds, Seqno
    <2>6. \A i \in DOMAIN relayed : relayed[i] < rst.next
        BY DEF Once
    <2>7. RelayedOnce'
        BY <2>3 DEF Once, RelayedOnce
    <2>8. \A i \in DOMAIN relayed' : rst'.bound /\ relayed'[i] < rst'.next
        BY <1>2, <1>3, <2>1, <2>2, <2>3, <2>6
    <2>9. \A u \in Thread : pc'[u] = "send" => Head(todo'[u]) < rst'.next
        BY <1>2, <2>1, <2>2, <2>3, <2>4, <2>5
    <2>10. \A u \in Thread : pc'[u] = "send" => \A i \in DOMAIN relayed' : relayed'[i] # Head(todo'[u])
        BY <1>2, <1>3, <2>1, <2>3, <2>4, <2>6 DEF Once
    <2>11. \A u, v \in Thread : pc'[u] = "send" /\ pc'[v] = "send" /\ v # u => Head(todo'[v]) # Head(todo'[u])
        BY <1>2, <2>1, <2>3, <2>4, <2>5 DEF Once
    <2> QED BY <2>7, <2>8, <2>9, <2>10, <2>11 DEF Once
<1>6. ASSUME NEW t \in Thread, RelaySend(t) PROVE Once'
    <2> DEFINE h == Head(todo[t])
    <2>1. /\ pc[t] = "send" /\ rst \in Leg /\ rst.bound /\ h \in Seqno /\ h < rst.next
          /\ \A i \in DOMAIN relayed : relayed[i] # h
        BY <1>2, <1>6 DEF RelaySend, Typed, Holds, Once
    <2>2. rst'.next = rst.next /\ rst'.bound
        BY <1>6, <2>1 DEF RelaySend, Leg
    <2>3. \A u \in Thread : pc'[u] = "send" => u # t /\ pc[u] = "send" /\ todo'[u] = todo[u]
        BY <1>6 DEF RelaySend, Goto, Done, Rest, Drop, Typed, TypeOK
    <2>4. \A u \in Thread : pc'[u] = "send" =>
              /\ Head(todo'[u]) < rst'.next /\ Head(todo'[u]) # h
              /\ \A i \in DOMAIN relayed : relayed[i] # Head(todo'[u])
              /\ \A v \in Thread : v # u /\ pc'[v] = "send" => Head(todo'[v]) # Head(todo'[u])
        BY <2>1, <2>2, <2>3 DEF Once
    <2>5. CASE relayed' = relayed
        BY <2>2, <2>4, <2>5 DEF Once, RelayedOnce
    <2>6. CASE relayed' = Append(relayed, h)
        <3>1. /\ Len(relayed) \in Nat /\ DOMAIN relayed = 1..Len(relayed) /\ DOMAIN relayed' = 1..(Len(relayed) + 1)
              /\ \A i \in 1..Len(relayed) : relayed'[i] = relayed[i]
              /\ relayed'[Len(relayed) + 1] = h
            BY <1>2, <2>1, <2>6, AppendProperties
        <3> HIDE DEF h
        <3>2. \A i \in DOMAIN relayed' : \/ i \in DOMAIN relayed /\ relayed'[i] = relayed[i]
                                         \/ i = Len(relayed) + 1 /\ relayed'[i] = h
            BY <3>1
        <3>3. RelayedOnce'
            BY <2>1, <3>2 DEF Once, RelayedOnce
        <3>4. \A i \in DOMAIN relayed' : rst'.bound /\ relayed'[i] < rst'.next
            BY <2>1, <2>2, <3>2 DEF Once
        <3>5. \A u \in Thread : pc'[u] = "send" => \A i \in DOMAIN relayed' : relayed'[i] # Head(todo'[u])
            BY <2>4, <3>2
        <3> QED BY <2>4, <3>3, <3>4, <3>5 DEF Once
    <2> QED BY <1>6, <2>5, <2>6 DEF RelaySend
<1> QED BY <1>4, <1>5, <1>6, QuietSteps

(* No chunk is handed to the transport twice, whichever of the reader and  *)
(* the workers held it, in every instance.                                 *)
THEOREM RelayOnceSafety == Spec => []RelayedOnce
<1>1. Init => Once
    BY DEF Init, Once, RelayedOnce
<1>2. Once => RelayedOnce
    BY DEF Once
<1> QED BY <1>1, <1>2, TypedInit, TypedStep, OnceStep, PTL DEF Spec

(* The threads and the workers are finite sets.                            *)
LEMMA WindowSets ==
    /\ IsFiniteSet(Sending) /\ Cardinality(Sending) \in Nat
    /\ IsFiniteSet(Drained) /\ Cardinality(Drained) \in Nat
<1>1. IsFiniteSet(Op)
    BY StreamAssumption
<1>2. IsFiniteSet(Thread)
    BY <1>1, FS_AddElement, FS_Union, FS_Singleton DEF Thread
<1>3. Sending \subseteq Thread /\ Drained \subseteq Op
    BY DEF Sending, Drained
<1>4. IsFiniteSet(Sending) /\ IsFiniteSet(Drained)
    BY <1>1, <1>2, <1>3, FS_Subset
<1> QED BY <1>4, FS_CardinalityType

(* Every step keeps what is sent, and what is about to be, within the      *)
(* window and the workers that drained.                                    *)
LEMMA WindowStep == Typed /\ Window /\ [Next]_vars => Window'
<1> SUFFICES ASSUME Typed, Window, [Next]_vars, rst'.bound
             PROVE  rst'.sent + Cardinality(Sending') <= rst'.granted + Cardinality(Drained')
    BY DEF Window
<1>1. Typed' /\ LegStep
    BY TypedStep, LegSteps
<1>2. /\ IsFiniteSet(Sending) /\ Cardinality(Sending) \in Nat
      /\ IsFiniteSet(Drained) /\ Cardinality(Drained) \in Nat
    BY WindowSets
<1>3. /\ IsFiniteSet(Sending') /\ Cardinality(Sending') \in Nat
      /\ IsFiniteSet(Drained') /\ Cardinality(Drained') \in Nat
    <2>1. IsFiniteSet(Op)
        BY StreamAssumption
    <2>2. IsFiniteSet(Thread)
        BY <2>1, FS_AddElement, FS_Union, FS_Singleton DEF Thread
    <2>3. Sending' \subseteq Thread /\ Drained' \subseteq Op
        BY DEF Sending, Drained
    <2>4. IsFiniteSet(Sending') /\ IsFiniteSet(Drained')
        BY <2>1, <2>2, <2>3, FS_Subset
    <2> QED BY <2>4, FS_CardinalityType
<1>4. /\ rst.bound => rst \in Leg /\ rst.sent \in Nat /\ rst.granted \in Nat
      /\ rst'.sent \in Nat /\ rst'.granted \in Nat
    <2>1. (rst.bound => rst \in Leg) /\ rst' \in Leg
        <3>1. \A r \in Leg \cup {None} : r.bound => r \in Leg
            BY DEF None
        <3> QED BY <1>1, <3>1 DEF Typed, TypeOK
    <2> QED BY <2>1 DEF Leg
<1>5. CASE Quiet
    <2>1. Sending' \subseteq Sending /\ Drained \subseteq Drained'
        BY <1>5 DEF Quiet, Sending, Drained
    <2>2. Cardinality(Sending') <= Cardinality(Sending) /\ Cardinality(Drained) <= Cardinality(Drained')
        BY <1>2, <1>3, <2>1, FS_Subset
    <2>3. CASE rst.bound
        <3>1. rst'.sent = rst.sent /\ rst'.granted >= rst.granted
            BY <1>1, <1>5, <2>3 DEF Quiet, LegStep
        <3>2. rst.sent + Cardinality(Sending) <= rst.granted + Cardinality(Drained)
            BY <2>3 DEF Window
        <3> QED BY <1>2, <1>3, <1>4, <2>2, <2>3, <3>1, <3>2
    <2>4. CASE ~rst.bound
        <3>1. rst'.sent = 0
            BY <1>5, <2>4 DEF Quiet
        <3>2. \A t \in Thread : pc[t] # "send"
            BY <2>4 DEF Typed, Holds
        <3>3. Sending' = {}
            BY <2>1, <3>2 DEF Sending
        <3>4. Cardinality(Sending') = 0
            BY <3>3, FS_EmptySet
        <3> QED BY <1>3, <1>4, <3>1, <3>4
    <2> QED BY <2>3, <2>4
<1>6. ASSUME NEW t \in Thread, RelayCheck(t), ~Over
      PROVE  rst'.sent + Cardinality(Sending') <= rst'.granted + Cardinality(Drained')
    <2>1. rst.bound
        BY <1>6 DEF RelayCheck, Typed, Holds
    <2>2. rst'.sent = rst.sent /\ rst'.granted = rst.granted /\ rst.sent + 1 <= rst.granted
        BY <1>4, <1>6, <2>1 DEF RelayCheck, Over, Leg
    <2>3. pc' = [pc EXCEPT ![t] = "send"] /\ leg' = leg
        BY <1>6 DEF RelayCheck, Goto
    <2>4. \A u \in Op : pc[u] \in {"relay", "send"} => leg[u] # NoOp
        BY StreamAssumption DEF Typed, Holds, Thread, NoOp
    <2>5. Sending' \subseteq Drained \cup {"reader"}
        BY <1>6, <2>3, <2>4 DEF RelayCheck, Sending, Drained, Thread, Typed, TypeOK
    <2>6. IsFiniteSet(Drained \cup {"reader"}) /\ Cardinality(Drained \cup {"reader"}) <= Cardinality(Drained) + 1
        <3>1. /\ IsFiniteSet(Drained \cup {"reader"})
              /\ Cardinality(Drained \cup {"reader"})
                   = IF "reader" \in Drained THEN Cardinality(Drained) ELSE Cardinality(Drained) + 1
            BY <1>2, FS_AddElement
        <3> HIDE DEF Drained
        <3> QED BY <1>2, <3>1
    <2>7. Cardinality(Drained \cup {"reader"}) \in Nat
        BY <2>6, FS_CardinalityType
    <2>8. Cardinality(Sending') <= Cardinality(Drained \cup {"reader"})
        BY <2>5, <2>6, FS_Subset
    <2>9. Drained' = Drained
        BY <2>3 DEF Drained
    <2> HIDE DEF Sending, Drained
    <2> QED BY <1>2, <1>3, <1>4, <2>1, <2>2, <2>6, <2>7, <2>8, <2>9
<1>7. ASSUME NEW t \in Thread, RelaySend(t)
      PROVE  rst'.sent + Cardinality(Sending') <= rst'.granted + Cardinality(Drained')
    <2>1. pc[t] = "send" /\ rst.bound /\ leg' = leg
        BY <1>7 DEF RelaySend, Typed, Holds
    <2>2. rst'.sent <= rst.sent + 1 /\ rst'.granted = rst.granted
        <3>1. CASE rst' = rst
            BY <1>4, <2>1, <3>1
        <3>2. CASE rst' = [rst EXCEPT !.sent = @ + 1]
            BY <1>4, <2>1, <3>2 DEF Leg
        <3> QED BY <1>7, <3>1, <3>2 DEF RelaySend
    <2>3. \A u \in Thread : pc'[u] = "send" => u # t /\ pc[u] = "send"
        BY <1>7 DEF RelaySend, Goto, Done, Rest, Typed, TypeOK
    <2>4. t \in Sending /\ Sending' \subseteq Sending \ {t}
        BY <2>1, <2>3 DEF Sending
    <2>5. IsFiniteSet(Sending \ {t}) /\ Cardinality(Sending \ {t}) = Cardinality(Sending) - 1
        BY <1>2, <2>4, FS_RemoveElement
    <2>6. Cardinality(Sending') <= Cardinality(Sending \ {t})
        BY <2>4, <2>5, FS_Subset
    <2>7. Drained' = Drained
        BY <2>1 DEF Drained
    <2>8. rst.sent + Cardinality(Sending) <= rst.granted + Cardinality(Drained)
        BY <2>1 DEF Window
    <2> QED BY <1>2, <1>3, <1>4, <2>1, <2>2, <2>5, <2>6, <2>7, <2>8
<1> QED BY <1>5, <1>6, <1>7, QuietSteps

(* The window checked under one lock and charged under another is passed   *)
(* by no more than one chunk per worker that drained, for any number of    *)
(* legs.                                                                   *)
THEOREM WindowSafety == Spec => []WindowOvershoot
<1>1. Init => Window
    BY DEF Init, Window, None
<1>2. Typed /\ Window => WindowOvershoot
    <2> SUFFICES ASSUME Typed, Window, rst.bound PROVE rst.sent <= rst.granted + Cardinality(Drained)
        BY DEF WindowOvershoot, Drained
    <2>1. rst \in Leg
        BY BoundIsLeg DEF Typed, TypeOK
    <2>2. rst.sent \in Nat /\ rst.granted \in Nat
        BY <2>1 DEF Leg
    <2>3. rst.sent + Cardinality(Sending) <= rst.granted + Cardinality(Drained)
        BY DEF Window
    <2> QED BY <2>2, <2>3, WindowSets
<1> QED BY <1>1, <1>2, TypedInit, TypedStep, WindowStep, PTL DEF Spec

-----------------------------------------------------------------------------
(* The two windows of a leg.                                               *)

(* Where a sequence holds a member of V. *)
At(s, V) == {i \in 1..Len(s) : s[i] \in V}

(* Counts are natural numbers. *)
LEMMA CountType ==
    ASSUME NEW S, NEW s \in Seq(S), NEW V
    PROVE  IsFiniteSet(At(s, V)) /\ Count(s, V) = Cardinality(At(s, V)) /\ Count(s, V) \in Nat
<1>1. Len(s) \in Nat
    OBVIOUS
<1>2. IsFiniteSet(1..Len(s))
    BY <1>1, FS_Interval
<1>3. At(s, V) \in SUBSET (1..Len(s))
    BY DEF At
<1>4. IsFiniteSet(At(s, V))
    BY <1>2, <1>3, FS_Subset
<1>5. Count(s, V) = Cardinality(At(s, V))
    BY DEF Count, At
<1> QED BY <1>4, <1>5, FS_CardinalityType

(* An empty sequence has nothing to count. *)
LEMMA CountEmpty ==
    ASSUME NEW V
    PROVE  Count(<<>>, V) = 0
<1>1. {i \in 1..Len(<<>>) : <<>>[i] \in V} = {}
    OBVIOUS
<1> QED BY <1>1, FS_EmptySet DEF Count

(* What is appended is counted once. *)
LEMMA CountAppend ==
    ASSUME NEW S, NEW s \in Seq(S), NEW x \in S, NEW V
    PROVE  Count(Append(s, x), V) = Count(s, V) + (IF x \in V THEN 1 ELSE 0)
<1> DEFINE u == Append(s, x)
<1>1. u \in Seq(S) /\ Len(s) \in Nat /\ Len(u) = Len(s) + 1
    BY AppendProperties
<1>2. (\A i \in 1..Len(s) : u[i] = s[i]) /\ u[Len(s) + 1] = x
    BY AppendProperties
<1>3. /\ IsFiniteSet(At(s, V)) /\ Count(s, V) = Cardinality(At(s, V)) /\ Count(s, V) \in Nat
      /\ Count(u, V) = Cardinality(At(u, V))
    BY <1>1, CountType
<1> HIDE DEF u
<1>4. CASE x \in V
    <2>1. At(u, V) = At(s, V) \cup {Len(s) + 1}
        BY <1>1, <1>2, <1>4 DEF At
    <2>2. Len(s) + 1 \notin At(s, V)
        BY <1>1 DEF At
    <2>3. Cardinality(At(s, V) \cup {Len(s) + 1}) = Cardinality(At(s, V)) + 1
        BY <1>3, <2>2, FS_AddElement
    <2> QED BY <1>3, <1>4, <2>1, <2>3 DEF u
<1>5. CASE x \notin V
    <2>1. At(u, V) = At(s, V)
        BY <1>1, <1>2, <1>5 DEF At
    <2> QED BY <1>3, <1>5, <2>1 DEF u
<1> QED BY <1>4, <1>5

(* The head that is taken is no longer counted. *)
LEMMA CountTail ==
    ASSUME NEW S, NEW s \in Seq(S), s # <<>>, NEW V
    PROVE  Count(s, V) = Count(Tail(s), V) + (IF Head(s) \in V THEN 1 ELSE 0)
<1> DEFINE u == Tail(s)
           T == At(s, V) \ {1}
           F == [i \in At(u, V) |-> i + 1]
<1>1. /\ u \in Seq(S) /\ Len(s) \in Nat /\ Len(s) # 0 /\ Len(u) = Len(s) - 1 /\ s[1] = Head(s)
      /\ \A i \in 1..Len(u) : u[i] = s[i + 1]
    BY HeadTailProperties
<1>2. /\ IsFiniteSet(At(s, V)) /\ Count(s, V) = Cardinality(At(s, V)) /\ Count(s, V) \in Nat
      /\ IsFiniteSet(At(u, V)) /\ Count(u, V) = Cardinality(At(u, V)) /\ Count(u, V) \in Nat
    BY <1>1, CountType
<1> HIDE DEF u
<1>3. At(u, V) \subseteq Nat
    BY <1>1 DEF At
<1>4. F \in [At(u, V) -> T]
    BY <1>1 DEF At
<1>5. \A a, b \in At(u, V) : F[a] = F[b] => a = b
    BY <1>3
<1>6. \A t \in T : \E i \in At(u, V) : F[i] = t
    <2> SUFFICES ASSUME NEW t \in T PROVE \E i \in At(u, V) : F[i] = t
        OBVIOUS
    <2>1. t \in 2..Len(s) /\ s[t] \in V
        BY <1>1 DEF At
    <2>2. t - 1 \in 1..Len(u) /\ (t - 1) + 1 = t
        BY <1>1, <2>1
    <2>3. t - 1 \in At(u, V)
        BY <1>1, <2>1, <2>2 DEF At
    <2>4. F[t - 1] = t
        BY <2>2, <2>3
    <2> QED BY <2>3, <2>4
<1>7. F \in Bijection(At(u, V), T)
    <2> HIDE DEF F, T
    <2> QED BY <1>4, <1>5, <1>6, Fun_IsBij
<1>8. Cardinality(T) = Cardinality(At(u, V))
    <2>1. ExistsBijection(At(u, V), T)
        BY <1>7 DEF ExistsBijection
    <2> HIDE DEF T
    <2> QED BY <1>2, <2>1, FS_Bijection
<1>9. Cardinality(T) = IF 1 \in At(s, V) THEN Cardinality(At(s, V)) - 1 ELSE Cardinality(At(s, V))
    BY <1>2, FS_RemoveElement
<1>10. 1 \in At(s, V) <=> Head(s) \in V
    BY <1>1 DEF At
<1> HIDE DEF T, F
<1> QED BY <1>2, <1>8, <1>9, <1>10 DEF u

(* Between two different multiples of a number there is room for one more. *)
LEMMA NextMultiple ==
    ASSUME NEW T \in Nat, NEW k \in Nat, NEW n \in Nat, k * T < n * T
    PROVE  k < n /\ (k + 1) * T = k * T + T /\ (k + 1) * T <= n * T
<1>1. (k + 1) * T = k * T + T
    BY SMT
<1>2. ~(n <= k)
    <2> SUFFICES ASSUME n <= k PROVE FALSE
        OBVIOUS
    <2>1. PICK d \in Nat : k = n + d
        <3>1. k - n \in Nat /\ k = n + (k - n)
            OBVIOUS
        <3> QED BY <3>1
    <2>2. k * T = n * T + d * T /\ d * T >= 0
        BY <2>1
    <2>3. n * T \in Nat /\ k * T \in Nat /\ d * T \in Nat
        OBVIOUS
    <2> QED BY <2>2, <2>3
<1>3. PICK d \in Nat : n = (k + 1) + d
    <2>1. n - (k + 1) \in Nat /\ n = (k + 1) + (n - (k + 1))
        BY <1>2
    <2> QED BY <2>1
<1>4. n * T = (k + 1) * T + d * T /\ d * T >= 0
    BY <1>3
<1>5. n * T \in Nat /\ (k + 1) * T \in Nat /\ d * T \in Nat
    OBVIOUS
<1> QED BY <1>1, <1>2, <1>4, <1>5

(* The numbers the two windows are made of. *)
LEMMA CreditTypes ==
    ASSUME Typed
    PROVE  /\ Chunks(dataQ) \in Nat /\ Chunks(net) \in Nat
           /\ Count(back, Credit) \in Nat /\ Credits(back) \in Nat
           /\ rst.bound \in BOOLEAN /\ (rst.bound => rst \in Leg /\ rst.granted \in Nat /\ rst.sent \in Nat)
           /\ ExecState \in Intake /\ ExecState.granted \in Nat /\ ExecState.received \in Nat
           /\ TopUp \in Nat \ {0} /\ InitialGrant = 2 * TopUp /\ InitialGrant \in Nat
<1>1. TopUp \in Nat \ {0} /\ InitialGrant = 2 * TopUp /\ InitialGrant \in Nat /\ InitialGrant <= MaxStream
      /\ MaxStream \in Nat
    BY StreamAssumption
<1>2. Chunks(dataQ) \in Nat /\ Chunks(net) \in Nat /\ Count(back, Credit) \in Nat
    BY CountType DEF Chunks, Typed, TypeOK
<1>3. Credits(back) \in Nat
    BY <1>1, <1>2 DEF Credits
<1>4. rst.bound \in BOOLEAN /\ (rst.bound => rst \in Leg)
    BY BoundIsLeg DEF Typed, TypeOK
<1>5. rst.bound => rst.granted \in Nat /\ rst.sent \in Nat
    BY <1>4 DEF Leg
<1>6. ExecState \in Intake
    <2>1. CASE ex \in Intake
        BY <2>1 DEF ExecState, Intake
    <2>2. CASE ex = Unknown
        BY <1>1, <2>2 DEF ExecState, Unknown, NewExec, Intake
    <2> QED BY <2>1, <2>2 DEF Typed, TypeOK
<1>7. ExecState.granted \in Nat /\ ExecState.received \in Nat
    BY <1>1, <1>6 DEF Intake
<1> QED BY <1>1, <1>2, <1>3, <1>4, <1>5, <1>6, <1>7

(* A step that moves neither frames nor windows keeps them together. *)
LEMMA CreditSame ==
    ASSUME CreditInv, UNCHANGED <<dataQ, net, back, ex>>, rst'.bound = rst.bound,
           rst.bound => rst'.granted = rst.granted /\ rst'.sent = rst.sent
    PROVE  CreditInv'
<1>1. UNCHANGED <<Chunks(dataQ), Chunks(net), Credits(back), ExecState, ExecRoom>>
    BY DEF ExecState, ExecRoom
<1>2. CreditConserved' /\ BeforeBind'
    BY <1>1 DEF CreditInv, CreditConserved, BeforeBind
<1>3. WholeTopUps' /\ (ExecRoom <= InitialGrant)'
    BY <1>1 DEF CreditInv, WholeTopUps
<1> QED BY <1>2, <1>3 DEF CreditInv

(* The steps of the host that only look, park, bind what is bound or end. *)
LEMMA CreditHost ==
    ASSUME Typed, CreditInv,
           \/ \E x \in Seqno \cup {End} : ReadFrame(x)
           \/ Local
           \/ Expire
           \/ Reattach \/ HostReconciles
           \/ \E t \in Thread : Look(t) \/ Take(t) \/ RelayEmpty(t) \/ RelaySkip(t) \/ RelayEnd(t) \/ RelayCheck(t)
           \/ \E o \in Op : LegMap(o) \/ Drain(o) \/ LegAbort(o) \/ LegDone(o)
           \/ UNCHANGED vars
    PROVE  CreditInv'
<1>1. rst.bound \in BOOLEAN /\ (rst.bound => rst \in Leg)
    BY CreditTypes
<1>2. UNCHANGED <<dataQ, net, back, ex>>
    BY DEF ReadFrame, Local, Expire, Reattach, Look, Take, RelayEmpty, RelaySkip, RelayEnd, RelayCheck, LegMap,
           Drain, LegAbort, LegDone, HostReconciles, vars, hostVars, linkVars, queueVars, execVars
<1>3. CASE rst' = rst
    BY <1>2, <1>3, CreditSame
<1>4. CASE \E t \in Thread : RelayEnd(t) \/ RelayCheck(t)
    <2>1. rst.bound
        BY <1>4 DEF RelayEnd, RelayCheck, Typed, Holds
    <2>2. rst'.bound = rst.bound /\ rst'.granted = rst.granted /\ rst'.sent = rst.sent
        BY <1>1, <1>4, <2>1 DEF RelayEnd, RelayCheck, Leg
    <2> QED BY <1>2, <2>2, CreditSame
<1>5. CASE HostReconciles \/ \E o \in Op : LegAbort(o)
    <2>1. rst' = rst \/ (rst.bound /\ rst' = [rst EXCEPT !.ended = TRUE])
        BY <1>5 DEF LegAbort, HostReconciles, EndRemoteStream
    <2>2. rst'.bound = rst.bound /\ (rst.bound => rst'.granted = rst.granted /\ rst'.sent = rst.sent)
        BY <1>1, <2>1 DEF Leg
    <2> QED BY <1>2, <2>2, CreditSame
<1> QED BY <1>3, <1>4, <1>5 DEF ReadFrame, Local, Expire, Reattach, Look, Take, RelayEmpty, RelaySkip, LegMap,
           Drain, LegDone, vars, hostVars, legVars

(* A leg that is bound starts with the executor's first grant, and nothing *)
(* is under way.                                                           *)
LEMMA CreditBind ==
    ASSUME Typed, CreditInv, NEW t \in Thread, Bind(t)
    PROVE  CreditInv'
<1>1. UNCHANGED <<dataQ, net, back, ex>>
    BY DEF Bind, linkVars, queueVars, execVars
<1>2. CASE rst.bound
    <2>1. rst' = rst
        BY <1>2 DEF Bind
    <2> QED BY <1>1, <2>1, CreditSame
<1>3. CASE ~rst.bound
    <2>1. rst'.bound /\ rst'.granted = InitialGrant /\ rst'.sent = 0
        BY <1>3 DEF Bind
    <2>2. UNCHANGED <<Chunks(dataQ), Chunks(net), Credits(back), ExecState, ExecRoom>>
        BY <1>1 DEF ExecState, ExecRoom
    <2>3. Chunks(dataQ) = 0 /\ Chunks(net) = 0 /\ Credits(back) = 0 /\ ~ex.known
        BY <1>3 DEF CreditInv, BeforeBind
    <2>4. ExecRoom = InitialGrant
        <3>1. ExecState = NewExec
            BY <2>3 DEF ExecState
        <3> QED BY <3>1, CreditTypes DEF ExecRoom, NewExec
    <2>5. CreditConserved' /\ BeforeBind'
        BY <2>1, <2>2, <2>3, <2>4, CreditTypes DEF CreditConserved, BeforeBind
    <2>6. WholeTopUps' /\ (ExecRoom <= InitialGrant)'
        BY <1>1, <2>2 DEF CreditInv, WholeTopUps
    <2> QED BY <2>5, <2>6 DEF CreditInv
<1> QED BY <1>2, <1>3

(* A chunk that is charged is under way, or lost with the link. *)
LEMMA CreditSend ==
    ASSUME Typed, CreditInv, NEW t \in Thread, RelaySend(t)
    PROVE  CreditInv'
<1> DEFINE h == Head(todo[t])
<1>1. rst.bound /\ h \in Seqno
    BY DEF RelaySend, Typed, Holds
<1>2. rst \in Leg /\ rst.granted \in Nat /\ rst.sent \in Nat
    BY <1>1, CreditTypes
<1>3. UNCHANGED <<net, back, ex>>
    BY DEF RelaySend, execVars
<1>4. CASE rst' = rst /\ dataQ' = dataQ
    BY <1>3, <1>4, CreditSame
<1>5. CASE rst' = [rst EXCEPT !.sent = @ + 1] /\ dataQ' = dataQ \o Queued(<<h>>)
    <2>1. rst'.bound /\ rst'.granted = rst.granted /\ rst'.sent = rst.sent + 1
        BY <1>1, <1>2, <1>5 DEF Leg
    <2>2. dataQ \in Seq(Seqno)
        BY DEF Typed, TypeOK
    <2>3. dataQ' = dataQ \/ dataQ' = Append(dataQ, h)
        BY <1>1, <1>5, <2>2, AppendIsConcat, ConcatEmptySeq DEF Queued
    <2>4. Chunks(dataQ') <= Chunks(dataQ) + 1 /\ Chunks(dataQ') \in Nat
        <3>1. Count(Append(dataQ, h), Seqno) = Count(dataQ, Seqno) + 1
            BY <1>1, <2>2, CountAppend
        <3>2. Count(dataQ, Seqno) \in Nat
            BY <2>2, CountType
        <3>3. Count(dataQ', Seqno) \in {Count(dataQ, Seqno), Count(dataQ, Seqno) + 1}
            BY <2>3, <3>1, Zenon
        <3> QED BY <3>2, <3>3 DEF Chunks
    <2>5. UNCHANGED <<Chunks(net), Credits(back), ExecState, ExecRoom>>
        BY <1>3 DEF ExecState, ExecRoom
    <2>6. /\ rst.granted - rst.sent + Chunks(dataQ) + Chunks(net) + Credits(back) <= ExecRoom
          /\ ExecRoom \in Int
        BY <1>1, CreditTypes DEF CreditInv, CreditConserved, ExecRoom
    <2>7. rst'.granted - rst'.sent + Chunks(dataQ') + Chunks(net') + Credits(back') <= ExecRoom'
        BY <1>2, <2>1, <2>4, <2>5, <2>6, CreditTypes
    <2>8. CreditConserved' /\ BeforeBind'
        BY <2>1, <2>7 DEF CreditConserved, BeforeBind
    <2>9. WholeTopUps' /\ (ExecRoom <= InitialGrant)'
        BY <1>3, <2>5 DEF CreditInv, WholeTopUps
    <2> QED BY <2>8, <2>9 DEF CreditInv
<1> QED BY <1>4, <1>5 DEF RelaySend

(* A flushed chunk moves from the queue to the wire, or expires. *)
LEMMA CreditFlush ==
    ASSUME Typed, CreditInv, Flush
    PROVE  CreditInv'
<1>1. UNCHANGED <<rst, back, ex>>
    BY DEF Flush, hostVars, legVars, execVars
<1>2. dataQ \in Seq(Seqno) /\ ctlQ \in Seq({End}) /\ net \in Seq(Seqno \cup {End}) /\ Seqno \subseteq Nat
    BY StreamAssumption DEF Typed, TypeOK, Seqno
<1>3. /\ Chunks(dataQ') + Chunks(net') <= Chunks(dataQ) + Chunks(net)
      /\ Chunks(dataQ') \in Nat /\ Chunks(net') \in Nat
    <2>1. Count(dataQ, Seqno) \in Nat /\ Count(net, Seqno) \in Nat
        BY <1>2, CountType
    <2>2. CASE ctlQ # <<>> /\ net' \in {Append(net, Head(ctlQ)), net} /\ UNCHANGED dataQ
        <3>1. Head(ctlQ) = End
            BY <1>2, <2>2, HeadTailProperties
        <3>2. End \notin Seqno
            BY <1>2 DEF End
        <3>3. Count(Append(net, End), Seqno) = Count(net, Seqno) + 0
            BY <1>2, <3>2, CountAppend
        <3>4. Count(net', Seqno) \in {Count(net, Seqno), Count(net, Seqno) + 0} /\ dataQ' = dataQ
            BY <2>2, <3>1, <3>3, Zenon
        <3> QED BY <2>1, <3>4 DEF Chunks
    <2>3. CASE dataQ # <<>> /\ net' \in {Append(net, Head(dataQ)), net} /\ dataQ' = Tail(dataQ)
        <3> DEFINE h == Head(dataQ)
        <3>1. h \in Seqno /\ Tail(dataQ) \in Seq(Seqno)
            BY <1>2, <2>3, HeadTailProperties
        <3>2. Count(dataQ, Seqno) = Count(Tail(dataQ), Seqno) + 1 /\ Count(Tail(dataQ), Seqno) \in Nat
            BY <1>2, <2>3, <3>1, CountTail, CountType
        <3>3. Count(Append(net, h), Seqno) = Count(net, Seqno) + 1
            BY <1>2, <3>1, CountAppend
        <3>4. Count(net', Seqno) \in {Count(net, Seqno), Count(net, Seqno) + 1}
            BY <2>3, <3>3, Zenon
        <3>5. Count(dataQ', Seqno) = Count(Tail(dataQ), Seqno)
            BY <2>3, Zenon
        <3> QED BY <2>1, <3>2, <3>4, <3>5 DEF Chunks
    <2> QED BY <2>2, <2>3 DEF Flush
<1>4. UNCHANGED <<Credits(back), ExecState, ExecRoom>>
    BY <1>1 DEF ExecState, ExecRoom
<1>5. ExecRoom \in Int
    BY CreditTypes DEF ExecRoom
<1>6. CreditConserved'
    <2> SUFFICES ASSUME rst'.bound
                 PROVE  rst'.granted - rst'.sent + Chunks(dataQ') + Chunks(net') + Credits(back') <= ExecRoom'
        BY DEF CreditConserved
    <2>1. rst.granted - rst.sent + Chunks(dataQ) + Chunks(net) + Credits(back) <= ExecRoom
        BY <1>1 DEF CreditInv, CreditConserved
    <2>2. rst.granted \in Nat /\ rst.sent \in Nat
        BY <1>1, CreditTypes
    <2> QED BY <1>1, <1>3, <1>4, <1>5, <2>1, <2>2, CreditTypes
<1>7. BeforeBind'
    BY <1>1, <1>3, <1>4, CreditTypes DEF CreditInv, BeforeBind
<1>8. WholeTopUps' /\ (ExecRoom <= InitialGrant)'
    BY <1>1, <1>4 DEF CreditInv, WholeTopUps
<1> QED BY <1>6, <1>7, <1>8 DEF CreditInv

(* The link takes everything under way with it: what the host may still    *)
(* send fits in the first grant of the route that comes next.              *)
LEMMA CreditLost ==
    ASSUME Typed, CreditInv, LinkLost
    PROVE  CreditInv'
<1>1. rst' = rst /\ dataQ' = <<>> /\ net' = <<>> /\ back' = <<>> /\ ex' = Unknown
    BY DEF LinkLost, hostVars, legVars
<1>2. Chunks(dataQ') = 0 /\ Chunks(net') = 0 /\ Credits(back') = 0
    BY <1>1, CountEmpty, CreditTypes DEF Chunks, Credits
<1>3. ~ex'.known /\ ExecState' = NewExec /\ ExecRoom' = InitialGrant
    BY <1>1, CreditTypes DEF Unknown, ExecState, ExecRoom, NewExec
<1>4. CreditConserved'
    <2> SUFFICES ASSUME rst'.bound
                 PROVE  rst'.granted - rst'.sent + Chunks(dataQ') + Chunks(net') + Credits(back') <= ExecRoom'
        BY DEF CreditConserved
    <2>1. rst.granted - rst.sent + Chunks(dataQ) + Chunks(net) + Credits(back) <= ExecRoom /\ ExecRoom <= InitialGrant
        BY <1>1 DEF CreditInv, CreditConserved
    <2>2. rst.granted \in Nat /\ rst.sent \in Nat /\ ExecRoom \in Int
        BY <1>1, CreditTypes DEF ExecRoom
    <2> QED BY <1>1, <1>2, <1>3, <2>1, <2>2, CreditTypes
<1>5. BeforeBind' /\ (ExecRoom <= InitialGrant)'
    BY <1>2, <1>3, CreditTypes DEF BeforeBind
<1>6. WholeTopUps'
    <2>1. 2 \in 1..MaxStream
        BY StreamAssumption
    <2>2. ExecState'.granted = 2 * TopUp
        BY <1>3, CreditTypes DEF NewExec
    <2> QED BY <1>1, <2>1, <2>2 DEF WholeTopUps
<1> QED BY <1>4, <1>5, <1>6 DEF CreditInv

(* A tombstone of the executor's keeps the room of its window.             *)
LEMMA CreditReconciled ==
    ASSUME Typed, CreditInv, ExecReconciles
    PROVE  CreditInv'
<1>1. UNCHANGED <<rst, dataQ, net, back>> /\ ex.known /\ ex' = [ex EXCEPT !.ended = TRUE]
    BY DEF ExecReconciles, hostVars, legVars, linkVars, queueVars
<1>2. ex \in Intake
    BY <1>1 DEF Typed, TypeOK, Unknown
<1>3. ex'.known /\ ex'.granted = ex.granted /\ ex'.received = ex.received
    BY <1>1, <1>2 DEF Intake
<1>4. UNCHANGED <<Chunks(dataQ), Chunks(net), Credits(back), ExecState.granted, ExecRoom>>
    BY <1>1, <1>3 DEF ExecState, ExecRoom
<1>5. CreditConserved' /\ BeforeBind'
    BY <1>1, <1>3, <1>4 DEF CreditInv, CreditConserved, BeforeBind
<1>6. WholeTopUps' /\ (ExecRoom <= InitialGrant)'
    BY <1>1, <1>4 DEF CreditInv, WholeTopUps
<1> QED BY <1>5, <1>6 DEF CreditInv

(* A chunk the executor takes leaves the room of its window one smaller,   *)
(* or a whole top-up larger than that, which it sends as a credit.         *)
LEMMA ExecCredit ==
    ASSUME Typed, CreditInv, NEW q \in Seqno, ExecData(q)
    PROVE  /\ WholeTopUps' /\ ExecRoom' \in Int /\ ExecRoom' <= InitialGrant
           /\ \E r \in {0, TopUp} : /\ ExecRoom' >= ExecRoom - 1 + r
                                    /\ Credits(back') = Credits(back) + r
<1> DEFINE e == ExecState
           got == [e EXCEPT !.next = q + 1, !.received = @ + 1]
           W(b) == \A i \in 1..Len(b) : b[i] \in Credit => b[i].bytes = TopUp
           G(g) == \E k \in 1..MaxStream : g = k * TopUp
<1>1. /\ e \in Intake /\ e.granted \in Nat /\ e.received \in Nat /\ e.next \in Nat /\ TopUp \in Nat \ {0}
      /\ InitialGrant = 2 * TopUp /\ InitialGrant \in Nat /\ MaxStream \in Nat
    BY CreditTypes, StreamAssumption DEF Intake
<1>2. back \in Seq(Message) /\ Count(back, Credit) \in Nat
    BY CreditTypes DEF Typed, TypeOK
<1>3. W(back) /\ G(e.granted) /\ ExecRoom = e.granted - e.received /\ ExecRoom <= InitialGrant
    BY DEF CreditInv, WholeTopUps, ExecRoom
<1>4. ex' \in Intake
    BY IntakeTyped DEF Typed, TypeOK
<1>5. ExecState' = ex'
    BY <1>4 DEF ExecState, Intake
<1>6. ASSUME G(ex'.granted), W(back') PROVE WholeTopUps'
    BY <1>5, <1>6 DEF WholeTopUps
<1>7. ExecRoom' = ex'.granted - ex'.received
    BY <1>5 DEF ExecRoom
<1> HIDE DEF e
<1>8. CASE e.ended \/ (~ExecFirst(e) /\ q # e.next)
    <2>1. ex' = e /\ back' = back
        BY <1>8 DEF ExecData, e
    <2>2. Credits(back') = Credits(back) + 0
        BY <1>1, <1>2, <2>1 DEF Credits
    <2>3. ExecRoom' >= ExecRoom - 1 + 0 /\ ExecRoom' \in Int /\ ExecRoom' <= InitialGrant
        BY <1>1, <1>3, <1>7, <2>1
    <2>4. WholeTopUps'
        BY <1>3, <1>6, <2>1
    <2> QED BY <2>2, <2>3, <2>4
<1>9. CASE /\ ~(e.ended \/ (~ExecFirst(e) /\ q # e.next))
           /\ ~ExecFirst(e) /\ (e.received + 1 > e.granted \/ e.received + 1 > MaxStream)
    <2> DEFINE m == [type |-> "cancel"]
    <2>1. ex' = [e EXCEPT !.ended = TRUE] /\ back' = Append(back, m)
        BY <1>9 DEF ExecData, e
    <2>2. m \in Message /\ m \notin Credit
        BY DEF Message, Credit
    <2> HIDE DEF m
    <2>3. ex'.granted = e.granted /\ ex'.received = e.received
        BY <1>1, <2>1 DEF Intake
    <2>4. Count(Append(back, m), Credit) = Count(back, Credit) + 0
        BY <1>2, <2>2, CountAppend
    <2>5. Credits(back') = Credits(back) + 0
        <3>1. Count(back', Credit) = Count(back, Credit) + 0
            BY <2>1, <2>4, Zenon
        <3> QED BY <1>1, <1>2, <3>1 DEF Credits
    <2>6. W(back')
        BY <1>2, <1>3, <2>1, <2>2, AppendProperties
    <2>7. ExecRoom' >= ExecRoom - 1 + 0 /\ ExecRoom' \in Int /\ ExecRoom' <= InitialGrant
        BY <1>1, <1>3, <1>7, <2>3
    <2>8. WholeTopUps'
        BY <1>3, <1>6, <2>3, <2>6
    <2> QED BY <2>5, <2>7, <2>8
<1>10. CASE /\ ~(e.ended \/ (~ExecFirst(e) /\ q # e.next))
            /\ ~(~ExecFirst(e) /\ (e.received + 1 > e.granted \/ e.received + 1 > MaxStream))
    <2> DEFINE m == [type |-> "credit", bytes |-> TopUp]
               r == Refill(got)
    <2>1. /\ ex' = [got EXCEPT !.granted = @ + Refill(got)]
          /\ back' = IF Refill(got) = 0 THEN back
                     ELSE Append(back, [type |-> "credit", bytes |-> Refill(got)])
        BY <1>10 DEF ExecData, e
    <2>2. got.received = e.received + 1 /\ got.granted = e.granted
        BY <1>1 DEF Intake
    <2>3. PICK n \in 1..MaxStream : MaxStream = n * TopUp
        BY TopUpAssumption
    <2>4. PICK k \in 1..MaxStream : e.granted = k * TopUp
        BY <1>3
    <2>5. e.granted < MaxStream =>
              k + 1 \in 1..MaxStream /\ (k + 1) * TopUp = e.granted + TopUp /\ e.granted + TopUp <= MaxStream
        <3> SUFFICES ASSUME e.granted < MaxStream
                     PROVE  /\ k + 1 \in 1..MaxStream /\ (k + 1) * TopUp = e.granted + TopUp
                            /\ e.granted + TopUp <= MaxStream
            OBVIOUS
        <3>1. TopUp \in Nat /\ k \in Nat /\ n \in Nat /\ k * TopUp < n * TopUp
            BY <1>1, <2>3, <2>4
        <3>2. k < n /\ (k + 1) * TopUp = k * TopUp + TopUp /\ (k + 1) * TopUp <= n * TopUp
            BY <3>1, NextMultiple
        <3>3. (k + 1) * TopUp = e.granted + TopUp /\ e.granted + TopUp <= MaxStream
            BY <2>3, <2>4, <3>2
        <3>4. k + 1 \in 1..MaxStream
            BY <1>1, <3>2
        <3> QED BY <3>3, <3>4
    <2>6. \/ r = 0 /\ e.granted - (e.received + 1) <= InitialGrant
          \/ r = TopUp /\ e.granted < MaxStream /\ e.granted - (e.received + 1) + TopUp <= InitialGrant
        <3> HIDE DEF got
        <3> QED BY <1>1, <1>3, <2>2, <2>5 DEF Refill
    <2>7. ex'.granted = e.granted + r /\ ex'.received = e.received + 1
        <3>1. ex' = [got EXCEPT !.granted = e.granted + r]
            BY <1>1, <2>1, <2>2 DEF Intake
        <3> QED BY <1>1, <2>2, <3>1 DEF Intake
    <2> HIDE DEF got, r
    <2>8. ExecRoom' = e.granted + r - (e.received + 1)
        <3>1. r \in Nat
            BY <1>1, <2>6
        <3> QED BY <1>1, <1>7, <2>7, <3>1
    <2>9. G(ex'.granted)
        <3>1. CASE r = 0
            <4>1. ex'.granted = k * TopUp
                BY <1>1, <2>4, <2>7, <3>1
            <4> QED BY <4>1
        <3>2. CASE r = TopUp /\ e.granted < MaxStream
            <4>1. ex'.granted = (k + 1) * TopUp /\ k + 1 \in 1..MaxStream
                BY <2>5, <2>7, <3>2
            <4> QED BY <4>1
        <3> QED BY <2>6, <3>1, <3>2
    <2>10. CASE r = 0
        <3>1. back' = back
            BY <2>1, <2>10 DEF r
        <3>2. Credits(back') = Credits(back) + 0
            BY <1>1, <1>2, <3>1 DEF Credits
        <3>3. ExecRoom' >= ExecRoom - 1 + 0 /\ ExecRoom' \in Int /\ ExecRoom' <= InitialGrant
            BY <1>1, <1>3, <2>6, <2>8, <2>10
        <3>4. WholeTopUps'
            BY <1>3, <1>6, <2>9, <3>1
        <3> QED BY <3>2, <3>3, <3>4
    <2>11. CASE r = TopUp
        <3>1. back' = Append(back, m)
            BY <1>1, <2>1, <2>11 DEF r
        <3>2. m \in Message /\ m \in Credit /\ m.bytes = TopUp
            BY <1>1 DEF Message, Credit
        <3> HIDE DEF m
        <3>3. Count(Append(back, m), Credit) = Count(back, Credit) + 1
            BY <1>2, <3>2, CountAppend
        <3>4. Credits(back') = Credits(back) + TopUp
            <4>1. Count(back', Credit) = Count(back, Credit) + 1
                BY <3>1, <3>3, Zenon
            <4> QED BY <1>1, <1>2, <4>1 DEF Credits
        <3>5. W(back')
            BY <1>2, <1>3, <3>1, <3>2, AppendProperties
        <3>6. ExecRoom' >= ExecRoom - 1 + TopUp /\ ExecRoom' \in Int /\ ExecRoom' <= InitialGrant
            BY <1>1, <1>3, <2>6, <2>8, <2>11
        <3>7. WholeTopUps'
            BY <1>6, <2>9, <3>5
        <3> QED BY <3>4, <3>6, <3>7
    <2> QED BY <2>6, <2>10, <2>11
<1> QED BY <1>8, <1>9, <1>10

(* ExecTake: the chunk taken off the wire pays for the room it uses. *)
LEMMA CreditExec ==
    ASSUME Typed, CreditInv, ExecTake
    PROVE  CreditInv'
<1> DEFINE h == Head(net)
<1>1. rst' = rst /\ dataQ' = dataQ /\ net' = Tail(net) /\ net # <<>>
    BY DEF ExecTake, hostVars, legVars
<1>2. net \in Seq(Seqno \cup {End}) /\ Seqno \subseteq Nat
    BY StreamAssumption DEF Typed, TypeOK, Seqno
<1>3. h \in Seqno \cup {End} /\ Tail(net) \in Seq(Seqno \cup {End}) /\ End \notin Seqno
    BY <1>1, <1>2, HeadTailProperties DEF End
<1>4. /\ Chunks(net) = Chunks(net') + (IF h \in Seqno THEN 1 ELSE 0)
      /\ Chunks(net') \in Nat
    <2>1. Count(net, Seqno) = Count(Tail(net), Seqno) + (IF h \in Seqno THEN 1 ELSE 0)
        BY <1>1, <1>2, CountTail
    <2>2. Count(Tail(net), Seqno) \in Nat
        BY <1>3, CountType
    <2>3. Count(net', Seqno) = Count(Tail(net), Seqno)
        BY <1>1, Zenon
    <2> QED BY <2>1, <2>2, <2>3 DEF Chunks
<1>5. /\ rst.bound \in BOOLEAN /\ (rst.bound => rst.granted \in Nat /\ rst.sent \in Nat)
      /\ Chunks(dataQ) \in Nat /\ Credits(back) \in Nat /\ ExecRoom \in Int /\ TopUp \in Nat
      /\ ExecRoom <= InitialGrant /\ InitialGrant \in Nat /\ Chunks(net) \in Nat
    BY CreditTypes DEF ExecRoom, CreditInv
<1>6. rst.bound => rst.granted - rst.sent + Chunks(dataQ) + Chunks(net) + Credits(back) <= ExecRoom
    BY DEF CreditInv, CreditConserved
<1> HIDE DEF h
<1>7. CASE h = End
    <2>1. back' = back /\ ex' = IF ex.known THEN [ex EXCEPT !.ended = TRUE] ELSE ex
        BY <1>7 DEF ExecTake, h
    <2>2. ExecState'.granted = ExecState.granted /\ ExecState'.received = ExecState.received /\ ex'.known = ex.known
        <3>1. CASE ex \in Intake
            BY <2>1, <3>1 DEF ExecState, Intake
        <3>2. CASE ex = Unknown
            <4>1. ex' = ex
                BY <2>1, <3>2 DEF Unknown
            <4> QED BY <4>1 DEF ExecState
        <3> QED BY <3>1, <3>2 DEF Typed, TypeOK
    <2>3. ExecRoom' = ExecRoom /\ Credits(back') = Credits(back) /\ Chunks(net') = Chunks(net)
        BY <1>3, <1>4, <1>7, <2>1, <2>2 DEF ExecRoom
    <2>4. CreditConserved' /\ BeforeBind'
        BY <1>1, <2>2, <2>3 DEF CreditInv, CreditConserved, BeforeBind
    <2>5. WholeTopUps' /\ (ExecRoom <= InitialGrant)'
        BY <2>1, <2>2, <2>3 DEF CreditInv, WholeTopUps
    <2> QED BY <2>4, <2>5 DEF CreditInv
<1>8. CASE h \in Seqno
    <2>1. ExecData(h)
        BY <1>3, <1>8 DEF ExecTake, h
    <2>2. rst.bound
        BY <1>4, <1>5, <1>8 DEF CreditInv, BeforeBind
    <2>3. WholeTopUps' /\ ExecRoom' \in Int /\ ExecRoom' <= InitialGrant
        BY <1>8, <2>1, ExecCredit
    <2>4. PICK r \in {0, TopUp} : ExecRoom' >= ExecRoom - 1 + r /\ Credits(back') = Credits(back) + r
        BY <1>8, <2>1, ExecCredit
    <2>5. rst.granted - rst.sent + Chunks(dataQ) + Chunks(net') + Credits(back') <= ExecRoom'
        BY <1>4, <1>5, <1>6, <1>8, <2>2, <2>3, <2>4
    <2>6. CreditConserved' /\ BeforeBind'
        BY <1>1, <2>2, <2>5 DEF CreditConserved, BeforeBind
    <2> QED BY <2>3, <2>6 DEF CreditInv
<1> QED BY <1>3, <1>7, <1>8

(* ControllerTake: a credit moves from the wire to the leg, or is lost. *)
LEMMA CreditController ==
    ASSUME Typed, CreditInv, ControllerTake
    PROVE  CreditInv'
<1> DEFINE m == Head(back)
<1>1. dataQ' = dataQ /\ net' = net /\ ex' = ex /\ back' = Tail(back) /\ back # <<>>
    BY DEF ControllerTake, queueVars, execVars
<1>2. back \in Seq(Message) /\ Len(back) \in Nat /\ Len(back) # 0 /\ back[1] = m
    BY <1>1 DEF Typed, TypeOK
<1>3. /\ m \in Message /\ Tail(back) \in Seq(Message) /\ Len(Tail(back)) = Len(back) - 1
      /\ \A i \in 1..Len(Tail(back)) : Tail(back)[i] = back[i + 1]
    BY <1>1, <1>2, HeadTailProperties
<1>4. /\ rst.bound \in BOOLEAN /\ (rst.bound => rst \in Leg /\ rst.granted \in Nat /\ rst.sent \in Nat)
      /\ Chunks(dataQ) \in Nat /\ Chunks(net) \in Nat /\ Credits(back) \in Nat /\ ExecRoom \in Int
      /\ TopUp \in Nat /\ Count(back, Credit) \in Nat
    BY CreditTypes DEF ExecRoom
<1>5. /\ Credits(back') \in Nat /\ Credits(back') <= Credits(back)
      /\ m \in Credit => Credits(back) = Credits(back') + TopUp
    <2>1. Count(back, Credit) = Count(Tail(back), Credit) + (IF m \in Credit THEN 1 ELSE 0)
        BY <1>1, <1>2, CountTail
    <2>2. Count(Tail(back), Credit) \in Nat
        BY <1>3, CountType
    <2>3. Count(back', Credit) = Count(Tail(back), Credit)
        BY <1>1, Zenon
    <2>4. CASE m \in Credit
        BY <1>4, <2>1, <2>2, <2>3, <2>4 DEF Credits
    <2>5. CASE m \notin Credit
        BY <1>4, <2>1, <2>2, <2>3, <2>5 DEF Credits
    <2> QED BY <2>4, <2>5
<1>6. UNCHANGED <<Chunks(dataQ), Chunks(net), ExecState, ExecRoom>>
    BY <1>1 DEF ExecState, ExecRoom
<1>7. WholeTopUps' /\ (ExecRoom <= InitialGrant)'
    <2>1. \A i \in 1..Len(back') : back'[i] \in Credit => back'[i].bytes = TopUp
        BY <1>1, <1>2, <1>3 DEF CreditInv, WholeTopUps
    <2> QED BY <1>6, <2>1 DEF CreditInv, WholeTopUps
<1>8. m \in Credit => m.bytes = TopUp
    BY <1>2 DEF CreditInv, WholeTopUps
<1>9. rst'.bound = rst.bound /\ (rst.bound => rst'.sent = rst.sent)
    <2>1. /\ rst' \in Leg \cup {None} /\ (rst.bound => rst'.bound /\ rst'.sent = rst.sent)
          /\ ~rst.bound => rst' = rst
        BY <1>3, ControllerLeg DEF Typed, TypeOK
    <2>2. rst'.bound \in BOOLEAN
        <3>1. CASE rst' \in Leg
            BY <3>1 DEF Leg
        <3>2. CASE rst' = None
            BY <3>2 DEF None
        <3> QED BY <2>1, <3>1, <3>2
    <2> QED BY <1>4, <2>1, <2>2
<1>10. rst.bound => \/ rst'.granted = rst.granted
                    \/ m \in Credit /\ rst'.granted = rst.granted + TopUp
    <2> SUFFICES ASSUME rst.bound
                 PROVE  \/ rst'.granted = rst.granted
                        \/ m \in Credit /\ rst'.granted = rst.granted + TopUp
        OBVIOUS
    <2>1. CASE m.type = "credit" /\ CreditRemoteStream(m.bytes)
        <3>1. m \in Credit
            BY <1>3, <2>1 DEF Message, Credit
        <3>2. rst'.granted = rst.granted + m.bytes
            BY <1>4, <2>1 DEF CreditRemoteStream, Leg
        <3> QED BY <1>8, <3>1, <3>2
    <2>2. CASE rst' = rst \/ EndRemoteStream \/ DeliverRemoteChunk(m.seq)
        BY <1>4, <2>2 DEF EndRemoteStream, DeliverRemoteChunk, Leg
    <2> QED BY <2>1, <2>2 DEF ControllerTake
<1>11. CreditConserved'
    <2> SUFFICES ASSUME rst.bound
                 PROVE  rst'.granted - rst'.sent + Chunks(dataQ') + Chunks(net') + Credits(back') <= ExecRoom'
        BY <1>9 DEF CreditConserved
    <2>1. rst.granted - rst.sent + Chunks(dataQ) + Chunks(net) + Credits(back) <= ExecRoom
        BY DEF CreditInv, CreditConserved
    <2> HIDE DEF m
    <2> QED BY <1>4, <1>5, <1>6, <1>9, <1>10, <2>1
<1>12. BeforeBind'
    BY <1>1, <1>4, <1>5, <1>6, <1>9 DEF CreditInv, BeforeBind
<1> QED BY <1>7, <1>11, <1>12 DEF CreditInv

(* ProviderChunk: what goes the other way is no credit. *)
LEMMA CreditProvider ==
    ASSUME Typed, CreditInv, ProviderChunk
    PROVE  CreditInv'
<1>1. UNCHANGED <<rst, dataQ, net, ex>>
    BY DEF ProviderChunk, hostVars, legVars, queueVars
<1>2. CASE back' = back
    BY <1>1, <1>2, CreditSame
<1>3. CASE \E q \in Seqno : back' = Append(back, [type |-> "data", seq |-> q])
    <2>1. PICK q \in Seqno : back' = Append(back, [type |-> "data", seq |-> q])
        BY <1>3
    <2> DEFINE m == [type |-> "data", seq |-> q]
    <2>2. m \in Message /\ m \notin Credit /\ back \in Seq(Message)
        BY DEF Message, Credit, Typed, TypeOK
    <2>3. back' = Append(back, m)
        BY <2>1
    <2> HIDE DEF m
    <2>4. Credits(back') = Credits(back)
        <3>1. Count(Append(back, m), Credit) = Count(back, Credit) + 0
            BY <2>2, CountAppend
        <3>2. Count(back', Credit) = Count(back, Credit) + 0
            BY <2>3, <3>1, Zenon
        <3> QED BY <3>2, CreditTypes DEF Credits
    <2>5. UNCHANGED <<Chunks(dataQ), Chunks(net), ExecState, ExecRoom>>
        BY <1>1 DEF ExecState, ExecRoom
    <2>6. \A i \in 1..Len(back') : back'[i] \in Credit => back'[i].bytes = TopUp
        BY <2>2, <2>3, AppendProperties DEF CreditInv, WholeTopUps
    <2>7. WholeTopUps' /\ (ExecRoom <= InitialGrant)'
        BY <2>5, <2>6 DEF CreditInv, WholeTopUps
    <2>8. CreditConserved' /\ BeforeBind'
        BY <1>1, <2>4, <2>5 DEF CreditInv, CreditConserved, BeforeBind
    <2> QED BY <2>7, <2>8 DEF CreditInv
<1> QED BY <1>2, <1>3 DEF ProviderChunk

(* The windows stay together at every step. *)
LEMMA CreditStep == Typed /\ CreditInv /\ [Next]_vars => CreditInv'
<1> SUFFICES ASSUME Typed, CreditInv, [Next]_vars PROVE CreditInv'
    OBVIOUS
<1>1. CASE \/ \E x \in Seqno \cup {End} : ReadFrame(x)
           \/ Local
           \/ Expire
           \/ Reattach \/ HostReconciles
           \/ \E t \in Thread : Look(t) \/ Take(t) \/ RelayEmpty(t) \/ RelaySkip(t) \/ RelayEnd(t) \/ RelayCheck(t)
           \/ \E o \in Op : LegMap(o) \/ Drain(o) \/ LegAbort(o) \/ LegDone(o)
           \/ UNCHANGED vars
    BY <1>1, CreditHost
<1>2. CASE \E t \in Thread : Bind(t) \/ RelaySend(t)
    BY <1>2, CreditBind, CreditSend
<1>3. CASE Flush \/ ExecTake \/ ProviderChunk \/ ControllerTake \/ LinkLost \/ ExecReconciles
    BY <1>3, CreditFlush, CreditExec, CreditProvider, CreditController, CreditLost, CreditReconciled
<1> QED BY <1>1, <1>2, <1>3 DEF Next

(* What the host may still send, with the chunks and credits under way,    *)
(* fits in what the executor still accepts, for every window, number of    *)
(* legs and loss of frames, link or route.                                 *)
THEOREM CreditSafety == Spec => []CreditConserved
<1>1. Init => CreditInv
    <2> SUFFICES ASSUME Init PROVE CreditInv
        OBVIOUS
    <2>1. Chunks(dataQ) = 0 /\ Chunks(net) = 0 /\ Count(back, Credit) = 0 /\ ~rst.bound /\ ~ex.known
        BY CountEmpty DEF Init, Chunks, None, Unknown
    <2>2. TopUp \in Nat /\ InitialGrant = 2 * TopUp /\ 2 \in 1..MaxStream
        BY StreamAssumption
    <2>3. Credits(back) = 0
        BY <2>1, <2>2 DEF Credits
    <2>4. ExecState = NewExec /\ back = <<>>
        BY <2>1 DEF ExecState, Init
    <2>5. ExecState.granted = 2 * TopUp /\ ExecRoom <= InitialGrant
        BY <2>2, <2>4 DEF NewExec, ExecRoom
    <2>6. WholeTopUps
        BY <2>2, <2>4, <2>5 DEF WholeTopUps
    <2> QED BY <2>1, <2>3, <2>5, <2>6 DEF CreditInv, CreditConserved, BeforeBind
<1>2. CreditInv => CreditConserved
    BY DEF CreditInv
<1> QED BY <1>1, <1>2, TypedInit, TypedStep, CreditStep, PTL DEF Spec
=============================================================================
