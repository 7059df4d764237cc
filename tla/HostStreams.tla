----------------------------- MODULE HostStreams -----------------------------
(***************************************************************************)
(* A call-associated stream of one component session, from the host of the *)
(* controller (matrix-host/src/lib.rs 250-312, 2403-2500, 2779-3263) over  *)
(* the link (matrix-runtime route_controller.rs 566-611 and 892-945,       *)
(* session.rs 346-367 and 879-984) to the intake of the executor           *)
(* (route_executor.rs 543-680).                                            *)
(*                                                                         *)
(* The reader of the session handles the frames of the component; the      *)
(* worker of every remote leg drains what was parked before the leg was    *)
(* mapped.  Both relay under two separate locks of the table of legs, and  *)
(* the link sends queued control before queued data.                       *)
(*                                                                         *)
(* Simplifications: one stream id under remote/, whose session stays; every*)
(* chunk is one unit of the windows; the table of remote legs has room; a  *)
(* chunk that a full table of the executor turns away is one that was lost.*)
(***************************************************************************)
EXTENDS Integers, FiniteSets, Sequences

CONSTANTS Op,           \* remote legs of the session
          MaxSeq,       \* bound: sequence numbers 0..MaxSeq
          MaxFrames,    \* bound: frames the component sends
          MaxDown,      \* bound: chunks the provider sends
          MaxRelink,    \* bound: losses of the link
          MaxParked,    \* MAX_PARKED_PER_SESSION
          InitialGrant, \* STREAM_INITIAL_GRANT, the executor's INITIAL_GRANT
          TopUp,        \* the executor's TOPUP
          MaxStream     \* the executor's MAX_STREAM_BYTES

(* The executor's window is twice its top-up (65536 and 32768), and its    *)
(* limit a multiple of it (2^20).                                          *)
ASSUME StreamAssumption ==
    /\ IsFiniteSet(Op) /\ Op \cap {"reader", "none"} = {}
    /\ {MaxSeq, MaxFrames, MaxDown, MaxRelink} \subseteq Nat
    /\ {MaxParked, TopUp, MaxStream} \subseteq Nat \ {0}
    /\ InitialGrant = 2 * TopUp /\ InitialGrant <= MaxStream
ASSUME TopUpAssumption == \E n \in 1..MaxStream : MaxStream = n * TopUp

Seqno == 0..MaxSeq
End == -1                      \* stream.end
Thread == {"reader"} \cup Op
NoOp == "none"
None == [bound |-> FALSE]

VARIABLES
    ops,       \* remote_ops of the session's dep_requests
    rst,       \* rstreams[id]: the leg the stream is bound to
    parked,    \* parked chunks of the id, oldest first
    local,     \* streams[id], the local accounting
    pc, leg, todo,  \* where a thread is, the operation it saw, the frames it relays
    dataQ, ctlQ,    \* send queues of the link, controller to executor
    net,            \* frames on the wire to the executor
    back,           \* frames on the wire to the controller
    up,             \* the link has a session
    ex,        \* streams[id] of the executor's route
    closed,    \* history: this route has handled a terminal of the stream
    source,    \* accounting of the provider's own stream at the executor's host
    relayed,   \* history: chunks handed to the transport, in order
    frames, downs, relinks

legVars == <<ops, rst, leg>>
hostVars == <<legVars, parked, local, pc, todo, relayed>>
queueVars == <<dataQ, ctlQ, net, up>>
linkVars == <<queueVars, back>>
execVars == <<ex, closed, source>>
bounds == <<frames, downs, relinks>>
vars == <<hostVars, linkVars, execVars, bounds>>

Goto(t, l) == pc' = [pc EXCEPT ![t] = l]
Rest(t) == IF t = "reader" THEN "idle" ELSE "open"

-----------------------------------------------------------------------------
(* Local accounting of a stream: window, tombstone, contiguity.            *)

Fresh == [next |-> 0, received |-> 0, ended |-> FALSE]
Accepts(s, q) == ~s.ended /\ q = s.next
Account(s, q) ==
    IF Accepts(s, q)
    THEN [next |-> s.next + 1, received |-> s.received + 1, ended |-> s.received >= InitialGrant]
    ELSE s

-----------------------------------------------------------------------------
(* The reader: one frame of the component.                                 *)

(* A bound id relays; anything else looks for the leg it may belong to.    *)
ReadFrame(x) ==
    /\ pc["reader"] = "idle"
    /\ frames < MaxFrames
    /\ frames' = frames + 1
    /\ todo' = [todo EXCEPT !["reader"] = <<x>>]
    /\ Goto("reader", IF rst.bound THEN "relay" ELSE "look")
    /\ UNCHANGED <<legVars, parked, local, relayed, linkVars, execVars, downs, relinks>>

(* single_remote_leg: exactly one leg, or the frame stays local.           *)
Look(t) ==
    /\ pc[t] = "look"
    /\ \/ \E o \in ops : ops = {o} /\ leg' = [leg EXCEPT ![t] = o] /\ Goto(t, "bind")
       \/ /\ Cardinality(ops) # 1
          /\ Goto(t, IF t = "reader" THEN "local" ELSE "open")
          /\ UNCHANGED leg
    /\ UNCHANGED <<ops, rst, parked, local, todo, relayed, linkVars, execVars, bounds>>

(* bind_remote_stream: a bound id stays what it is. *)
\* Defect for mutation: a bind overwrites the leg that is there.
BindOver(t) ==
    /\ pc[t] = "bind"
    /\ rst' = [bound |-> TRUE, op |-> leg[t], next |-> 0, granted |-> InitialGrant, sent |-> 0,
               rnext |-> 0, rreceived |-> 0, ended |-> FALSE]
    /\ Goto(t, "take")
    /\ UNCHANGED <<ops, leg, parked, local, todo, relayed, linkVars, execVars, bounds>>
Bind(t) ==
    /\ pc[t] = "bind"
    /\ rst' = IF rst.bound THEN rst
              ELSE [bound |-> TRUE, op |-> leg[t], next |-> 0, granted |-> InitialGrant, sent |-> 0,
                    rnext |-> 0, rreceived |-> 0, ended |-> FALSE]
    /\ Goto(t, "take")
    /\ UNCHANGED <<ops, leg, parked, local, todo, relayed, linkVars, execVars, bounds>>

(* take_parked: what was parked goes before the frame in hand. *)
Take(t) ==
    /\ pc[t] = "take"
    /\ todo' = [todo EXCEPT ![t] = parked \o @]
    /\ parked' = <<>>
    /\ Goto(t, "relay")
    /\ UNCHANGED <<legVars, local, relayed, linkVars, execVars, bounds>>

(* No single leg: a chunk is parked (the oldest gives way) and accounted,  *)
(* an end forgets the stream.                                              *)
\* Defect for mutation: a full list of parked chunks keeps its oldest.
LocalKeeps ==
    /\ pc["reader"] = "local"
    /\ LET x == todo["reader"][1]
       IN IF x = End THEN parked' = <<>> /\ local' = Fresh
          ELSE parked' = Append(parked, x) /\ local' = Account(local, x)
    /\ todo' = [todo EXCEPT !["reader"] = <<>>]
    /\ Goto("reader", "idle")
    /\ UNCHANGED <<legVars, relayed, linkVars, execVars, bounds>>
Local ==
    /\ pc["reader"] = "local"
    /\ LET x == todo["reader"][1]
       IN IF x = End THEN parked' = <<>> /\ local' = Fresh
          ELSE /\ parked' = (IF Len(parked) >= MaxParked THEN Append(Tail(parked), x)
                             ELSE Append(parked, x))
               /\ local' = Account(local, x)
    /\ todo' = [todo EXCEPT !["reader"] = <<>>]
    /\ Goto("reader", "idle")
    /\ UNCHANGED <<legVars, relayed, linkVars, execVars, bounds>>

(* PARKED_TTL. *)
Expire ==
    /\ parked # <<>>
    /\ parked' = Tail(parked)
    /\ UNCHANGED <<legVars, local, pc, todo, relayed, linkVars, execVars, bounds>>

-----------------------------------------------------------------------------
(* relay_stream_frame, for the next frame a thread has to relay: under the *)
(* first lock the sequence and the window, under the second the bytes.     *)

Queued(c) == IF up THEN c ELSE <<>>   \* a link that is down takes nothing
Done(t) == IF Len(todo[t]) = 1 THEN Rest(t) ELSE "relay"
Drop(t) == todo' = [todo EXCEPT ![t] = Tail(@)]

\* Defect for mutation: the window is compared before the chunk is added.
OverLate == rst.sent > rst.granted
Over == rst.sent + 1 > rst.granted

RelayEmpty(t) ==
    /\ pc[t] = "relay" /\ todo[t] = <<>>
    /\ Goto(t, Rest(t))
    /\ UNCHANGED <<legVars, parked, local, todo, relayed, linkVars, execVars, bounds>>

RelaySkip(t) ==
    /\ pc[t] = "relay" /\ todo[t] # <<>>
    /\ Head(todo[t]) # End
    /\ rst.ended \/ Head(todo[t]) # rst.next
    /\ Drop(t)
    /\ Goto(t, Done(t))
    /\ UNCHANGED <<legVars, parked, local, relayed, linkVars, execVars, bounds>>

RelayEnd(t) ==
    /\ pc[t] = "relay" /\ todo[t] # <<>>
    /\ Head(todo[t]) = End
    /\ rst' = [rst EXCEPT !.ended = TRUE]
    /\ ctlQ' = ctlQ \o Queued(<<End>>)
    /\ Drop(t)
    /\ Goto(t, Done(t))
    /\ UNCHANGED <<ops, leg, parked, local, relayed, dataQ, net, up, back, execVars, bounds>>

(* The chunk takes its sequence number; past the window it ends the leg. *)
\* Defect for mutation: the next sequence number moves only when the chunk was sent.
RelayCheckLate(t) ==
    /\ pc[t] = "relay" /\ todo[t] # <<>>
    /\ ~rst.ended /\ Head(todo[t]) = rst.next
    /\ ~Over
    /\ Goto(t, "send")
    /\ UNCHANGED <<legVars, todo, ctlQ, parked, local, relayed, dataQ, net, up, back, execVars, bounds>>
RelayCheck(t) ==
    /\ pc[t] = "relay" /\ todo[t] # <<>>
    /\ ~rst.ended /\ Head(todo[t]) = rst.next
    /\ rst' = [rst EXCEPT !.next = @ + 1, !.ended = Over]
    /\ IF Over THEN Drop(t) /\ Goto(t, Done(t)) /\ ctlQ' = ctlQ \o Queued(<<End>>)
       ELSE Goto(t, "send") /\ UNCHANGED <<todo, ctlQ>>
    /\ UNCHANGED <<ops, leg, parked, local, relayed, dataQ, net, up, back, execVars, bounds>>

(* Without room in the egress quota the chunk is dropped. *)
RelaySend(t) ==
    /\ pc[t] = "send"
    /\ \/ /\ rst' = [rst EXCEPT !.sent = @ + 1]
          /\ relayed' = Append(relayed, Head(todo[t]))
          /\ dataQ' = dataQ \o Queued(<<Head(todo[t])>>)
       \/ UNCHANGED <<rst, relayed, dataQ>>
    /\ Drop(t)
    /\ Goto(t, Done(t))
    /\ UNCHANGED <<ops, leg, parked, local, ctlQ, net, up, back, execVars, bounds>>

-----------------------------------------------------------------------------
(* The worker of a leg.                                                    *)

LegMap(o) ==
    /\ pc[o] = "idle"
    /\ ops' = ops \cup {o}
    /\ Goto(o, "drain")
    /\ UNCHANGED <<rst, leg, parked, local, todo, relayed, linkVars, execVars, bounds>>

(* drain_parked_for_session: the parked ids, then bind_and_drain of each. *)
Drain(o) ==
    /\ pc[o] = "drain"
    /\ Goto(o, IF parked = <<>> THEN "open" ELSE "look")
    /\ UNCHANGED <<legVars, parked, local, todo, relayed, linkVars, execVars, bounds>>

(* A leg whose consumer, ticket or time is gone ends its streams, and only *)
(* then forgets its operation.                                             *)
LegAbort(o) ==
    /\ pc[o] = "open"
    /\ rst' = IF rst.bound /\ rst.op = o THEN [rst EXCEPT !.ended = TRUE] ELSE rst
    /\ Goto(o, "forget")
    /\ UNCHANGED <<ops, leg, parked, local, todo, relayed, linkVars, execVars, bounds>>

(* Streams outlive a call that was answered. *)
LegDone(o) ==
    /\ pc[o] \in {"open", "forget"}
    /\ ops' = ops \ {o}
    /\ Goto(o, IF pc[o] = "open" THEN "answered" ELSE "aborted")
    /\ UNCHANGED <<rst, leg, parked, local, todo, relayed, linkVars, execVars, bounds>>

-----------------------------------------------------------------------------
(* The link and the executor.                                              *)

(* flush_one: queued control goes first; a frame may expire in its queue.  *)
Flush ==
    /\ \/ /\ ctlQ # <<>>
          /\ net' \in {Append(net, Head(ctlQ)), net}
          /\ ctlQ' = Tail(ctlQ)
          /\ UNCHANGED dataQ
       \/ /\ ctlQ = <<>> /\ dataQ # <<>>
          /\ net' \in {Append(net, Head(dataQ)), net}
          /\ dataQ' = Tail(dataQ)
          /\ UNCHANGED ctlQ
    /\ UNCHANGED <<hostVars, up, back, execVars, bounds>>

(* on_stream_data: the first chunk sets the base, the others continue it;  *)
(* a window that runs low is topped up.                                    *)
NewExec == [next |-> 0, received |-> 0, granted |-> InitialGrant, ended |-> FALSE, known |-> TRUE]
Unknown == [known |-> FALSE]
ExecState == IF ex.known THEN ex ELSE NewExec

Refill(e) ==
    IF e.received + TopUp > e.granted /\ e.granted < MaxStream
    THEN IF TopUp <= MaxStream - e.granted THEN TopUp ELSE MaxStream - e.granted
    ELSE 0

ExecFirst(e) == e.next = 0 /\ e.received = 0

\* Defect for mutation: the executor sends a credit it does not add to its own window.
ExecDataUnrecorded(q) ==
    LET e == ExecState
        got == [e EXCEPT !.next = q + 1, !.received = @ + 1]
    IN IF e.ended \/ (~ExecFirst(e) /\ q # e.next) THEN ex' = e /\ UNCHANGED back
       ELSE IF ~ExecFirst(e) /\ (e.received + 1 > e.granted \/ e.received + 1 > MaxStream)
       THEN ex' = [e EXCEPT !.ended = TRUE] /\ back' = Append(back, [type |-> "cancel"])
       ELSE /\ ex' = got
            /\ back' = IF Refill(got) = 0 THEN back
                       ELSE Append(back, [type |-> "credit", bytes |-> Refill(got)])
ExecData(q) ==
    LET e == ExecState
        got == [e EXCEPT !.next = q + 1, !.received = @ + 1]
    IN IF e.ended \/ (~ExecFirst(e) /\ q # e.next) THEN ex' = e /\ UNCHANGED back
       ELSE IF ~ExecFirst(e) /\ (e.received + 1 > e.granted \/ e.received + 1 > MaxStream)
       THEN ex' = [e EXCEPT !.ended = TRUE] /\ back' = Append(back, [type |-> "cancel"])
       ELSE /\ ex' = [got EXCEPT !.granted = @ + Refill(got)]
            /\ back' = IF Refill(got) = 0 THEN back
                       ELSE Append(back, [type |-> "credit", bytes |-> Refill(got)])

(* A terminal of a stream the executor has not seen changes nothing. *)
ExecTake ==
    /\ net # <<>>
    /\ net' = Tail(net)
    /\ closed' = (closed \/ Head(net) = End)
    /\ IF Head(net) = End
       THEN ex' = (IF ex.known THEN [ex EXCEPT !.ended = TRUE] ELSE ex) /\ UNCHANGED back
       ELSE ExecData(Head(net))
    /\ UNCHANGED <<hostVars, dataQ, ctlQ, up, source, bounds>>

(* The provider's chunk: accounted by the executor's host, then tapped.    *)
ProviderChunk ==
    /\ downs < MaxDown
    /\ downs' = downs + 1
    /\ \E q \in Seqno :
          /\ source' = Account(source, q)
          /\ back' = IF Accepts(source, q) /\ ~source'.ended /\ up
                     THEN Append(back, [type |-> "data", seq |-> q]) ELSE back
    /\ UNCHANGED <<hostVars, queueVars, ex, closed, frames, relinks>>

(* The executor's frames for a leg that is bound and open; the controller  *)
(* ignores the others, and the executor's queue may lose one.              *)
CreditRemoteStream(n) == rst' = [rst EXCEPT !.granted = @ + n]
EndRemoteStream == rst' = [rst EXCEPT !.ended = TRUE]
DeliverRemoteChunk(q) ==
    /\ q = rst.rnext
    /\ rst' = [rst EXCEPT !.rnext = @ + 1, !.rreceived = @ + 1,
                          !.ended = rst.rreceived + 1 > InitialGrant]

ControllerTake ==
    /\ back # <<>>
    /\ back' = Tail(back)
    /\ \/ UNCHANGED rst
       \/ /\ rst.bound /\ ~rst.ended
          /\ LET m == Head(back)
             IN \/ m.type = "credit" /\ CreditRemoteStream(m.bytes)
                \/ m.type = "cancel" /\ EndRemoteStream
                \/ m.type = "data" /\ DeliverRemoteChunk(m.seq)
    /\ UNCHANGED <<ops, leg, parked, local, pc, todo, relayed, queueVars, execVars, bounds>>

(* The session is lost with what its queues hold, and attached anew; the   *)
(* new session has a new route, the leg of the host stays.                 *)
LinkLost ==
    /\ up /\ relinks < MaxRelink
    /\ relinks' = relinks + 1
    /\ up' = FALSE
    /\ dataQ' = <<>> /\ ctlQ' = <<>> /\ net' = <<>> /\ back' = <<>>
    /\ ex' = Unknown /\ closed' = FALSE
    /\ UNCHANGED <<hostVars, source, frames, downs>>

Reattach ==
    /\ ~up
    /\ up' = TRUE
    /\ UNCHANGED <<hostVars, dataQ, ctlQ, net, back, execVars, bounds>>

(* The reconcile of an attach round: the executor tombstones the streams   *)
(* of the operations it has no row for (on_inventory), and the host ends   *)
(* their legs (cancel_revoked_operations), on a thread that is neither the *)
(* reader nor a worker of the session.                                     *)
ExecReconciles ==
    /\ up /\ relinks > 0
    /\ ex.known
    /\ ex' = [ex EXCEPT !.ended = TRUE]
    /\ UNCHANGED <<hostVars, linkVars, closed, source, bounds>>

HostReconciles ==
    /\ up /\ relinks > 0
    /\ rst.bound
    /\ EndRemoteStream
    /\ UNCHANGED <<ops, leg, parked, local, pc, todo, relayed, linkVars, execVars, bounds>>

-----------------------------------------------------------------------------
Init ==
    /\ ops = {} /\ rst = None /\ parked = <<>> /\ local = Fresh
    /\ pc = [t \in Thread |-> "idle"]
    /\ leg = [t \in Thread |-> NoOp]
    /\ todo = [t \in Thread |-> <<>>]
    /\ dataQ = <<>> /\ ctlQ = <<>> /\ net = <<>> /\ back = <<>>
    /\ up = TRUE /\ ex = Unknown /\ closed = FALSE /\ source = Fresh
    /\ relayed = <<>>
    /\ frames = 0 /\ downs = 0 /\ relinks = 0

Next ==
    \/ \E x \in Seqno \cup {End} : ReadFrame(x)
    \/ Local \/ Expire
    \/ \E t \in Thread : \/ Look(t) \/ Bind(t) \/ Take(t) \/ RelayEmpty(t) \/ RelaySkip(t)
                         \/ RelayEnd(t) \/ RelayCheck(t) \/ RelaySend(t)
    \/ \E o \in Op : LegMap(o) \/ Drain(o) \/ LegAbort(o) \/ LegDone(o)
    \/ Flush \/ ExecTake \/ ProviderChunk \/ ControllerTake \/ LinkLost \/ Reattach
    \/ ExecReconciles \/ HostReconciles

Spec == Init /\ [][Next]_vars

-----------------------------------------------------------------------------
(* Types, and the bounds of the tables: what is parked keeps to its cap,   *)
(* the executor grants no more than its limit and takes no more than it    *)
(* granted, although its first chunk is not compared with the window.      *)
Leg == [bound : {TRUE}, op : Op, next : Nat, granted : Nat, sent : Nat, rnext : Nat, rreceived : Nat,
        ended : BOOLEAN]
Stream == [next : Nat, received : 0..(InitialGrant + 1), ended : BOOLEAN]
Intake == [next : Nat, received : Nat, granted : InitialGrant..MaxStream, ended : BOOLEAN, known : {TRUE}]
Credit == [type : {"credit"}, bytes : Nat]
Message == [type : {"cancel"}] \cup Credit \cup [type : {"data"}, seq : Seqno]
TypeOK ==
    /\ ops \subseteq Op
    /\ rst \in Leg \cup {None}
    /\ parked \in Seq(Seqno) /\ Len(parked) <= MaxParked
    /\ local \in Stream /\ source \in Stream
    /\ pc \in [Thread -> {"idle", "look", "bind", "take", "local", "relay", "send", "drain", "open",
                          "forget", "answered", "aborted"}]
    /\ leg \in [Thread -> Op \cup {NoOp}]
    /\ todo \in [Thread -> Seq(Seqno \cup {End})]
    /\ dataQ \in Seq(Seqno) /\ ctlQ \in Seq({End}) /\ net \in Seq(Seqno \cup {End}) /\ back \in Seq(Message)
    /\ up \in BOOLEAN /\ closed \in BOOLEAN
    /\ ex \in Intake \cup {Unknown} /\ (ex.known => ex.received <= ex.granted)
    /\ relayed \in Seq(Seqno)

(* However the drain of a leg's worker and the reader interleave, no chunk *)
(* goes out twice: a parked chunk the component repeats, or one that both  *)
(* threads hold, is relayed once.                                          *)
RelayedOnce == \A i, j \in DOMAIN relayed : relayed[i] = relayed[j] => i = j

(* The window is checked under one lock and charged under another, so the  *)
(* relays may pass it, but by no more than one chunk for every worker that *)
(* drained beside the reader.                                              *)
WindowOvershoot ==
    rst.bound => rst.sent <= rst.granted + Cardinality({o \in Op : leg[o] # NoOp})

(* What the host may still send, with the chunks and the credits on their  *)
(* way, fits in what the executor still accepts: no lost frame, lost link  *)
(* or new route lets the two windows of a leg drift apart.                 *)
Count(s, V) == Cardinality({i \in 1..Len(s) : s[i] \in V})
Chunks(s) == Count(s, Seqno)
Credits(s) == TopUp * Count(s, Credit)
ExecRoom == ExecState.granted - ExecState.received
CreditConserved ==
    rst.bound => rst.granted - rst.sent + Chunks(dataQ) + Chunks(net) + Credits(back) <= ExecRoom

(* An ended leg is a tombstone: no bind, chunk, credit or new session      *)
(* revives it or gives the id to another operation.                        *)
TombstoneHolds ==
    [][rst.bound => /\ rst'.bound /\ rst'.op = rst.op
                    /\ rst.ended => rst'.ended /\ rst'.next = rst.next /\ rst'.granted = rst.granted]_vars

(* "late frames after terminal are ignored" (route_executor.rs on_stream_data): *)
(* once the route handled the terminal, its stream is over.                *)
LateFramesIgnored == closed /\ ex.known => ex.ended

(* "revoked/cancelled legs release their windows" (end_remote_streams_of).  *)
AbortedStreamEnds == \A o \in Op : pc[o] = "aborted" /\ rst.bound /\ rst.op = o => rst.ended

=============================================================================
