---------------------------- MODULE SessionEngine ----------------------------
(***************************************************************************)
(* The multiplexed remote session (matrix-runtime/src/session.rs): callers *)
(* that wait for answers by request id, and the one engine thread that     *)
(* drains their commands, sends control before data, expires waits, and    *)
(* hands inbound frames to the waits.  A wait is a slot: in replies from   *)
(* its insertion until the engine takes the command, then in pending; the  *)
(* many-answer waits of call.open (route_controller.rs call_open) are in   *)
(* multi.                                                                  *)
(*                                                                         *)
(* Simplifications: a wait is known by its number, its frame carries the   *)
(* number; the engine's round is any order of its steps; the peer answers  *)
(* a frame once, if at all; TLS, framing and heartbeats are left out (a    *)
(* heartbeat is an inbound frame that resolves nothing).                   *)
(***************************************************************************)
EXTENDS Naturals, FiniteSets, Sequences

CONSTANTS Wait,         \* request and call_open invocations
          Opens,        \* those that are call_open
          Rid,          \* request ids
          MaxPending,   \* limits.max_pending
          Commands,     \* capacity of the command channel
          ControlQueue  \* limits.control_queue

ASSUME SessionAssumption ==
    /\ Opens \subseteq Wait
    /\ Rid # {}
    /\ {MaxPending, Commands, ControlQueue} \subseteq Nat \ {0}

VARIABLES
    state,      \* SessionState
    shut,       \* the shutdown flag
    engine,     \* "run", "failing" and "failed" in detach, "ended" (receiver dropped)
    replies, pending, multi,  \* sets of [rid, wait]
    chan,       \* command channel: the waits whose command it holds
    ctlQ,       \* control queue
    out, inb,   \* frames on their way to the peer and answers on their way back
    pc, rid,    \* invocations
    mail,       \* what the channel of a wait holds
    got         \* the answer an invocation returned with

slots == <<replies, pending, multi>>
queues == <<chan, ctlQ, out, inb>>
vars == <<state, shut, engine, slots, queues, pc, rid, mail, got>>

Goto(w, l) == pc' = [pc EXCEPT ![w] = l]
Held(S, r) == {s \in S : s.rid = r}
Free(S, r) == S \ Held(S, r)
Slot(w) == [rid |-> rid[w], wait |-> w]
Refused == "refused"
Unknown == "unknown"

(* Every answer reaches the channel of its wait, unless one is there. *)
Tell(W, a) == mail' = [w \in Wait |-> IF w \in W /\ mail[w] = {} THEN {a} ELSE mail[w]]
Waits(S) == {s.wait : s \in S}

-----------------------------------------------------------------------------
(* The caller: Session::request.                                           *)

Request(w, r) ==
    /\ w \notin Opens /\ pc[w] = "idle"
    /\ rid' = [rid EXCEPT ![w] = r]
    /\ IF Cardinality(replies) >= MaxPending \/ Held(replies, r) # {}
       THEN Goto(w, "failed") /\ UNCHANGED replies
       ELSE Goto(w, "send") /\ replies' = replies \cup {[rid |-> r, wait |-> w]}
    /\ UNCHANGED <<state, shut, engine, pending, multi, queues, mail, got>>

(* A frame that cannot be encoded returns at once, and leaves its slot. *)
EncodeFails(w) ==
    /\ w \notin Opens /\ pc[w] = "send"
    /\ Goto(w, "failed")
    /\ UNCHANGED <<state, shut, engine, slots, queues, rid, mail, got>>

(* A command that is refused takes back what its invocation inserted. *)
TakeBack(w) ==
    IF w \in Opens THEN multi' = multi \ {Slot(w)} /\ UNCHANGED replies
    ELSE replies' = Free(replies, rid[w]) /\ UNCHANGED multi

(* send_cmd: the state is read, then the command is put. *)
SendCheck(w) ==
    /\ pc[w] = "send"
    /\ IF shut \/ state = "Detached"
       THEN Goto(w, "failed") /\ TakeBack(w)
       ELSE Goto(w, "put") /\ UNCHANGED <<replies, multi>>
    /\ UNCHANGED <<state, shut, engine, pending, queues, rid, mail, got>>

SendPut(w) ==
    /\ pc[w] = "put"
    /\ IF engine = "ended" \/ Len(chan) >= Commands
       THEN Goto(w, "failed") /\ TakeBack(w) /\ UNCHANGED chan
       ELSE Goto(w, "wait") /\ chan' = Append(chan, w) /\ UNCHANGED <<replies, multi>>
    /\ UNCHANGED <<state, shut, engine, pending, ctlQ, out, inb, rid, mail, got>>

Receive(w) ==
    /\ w \notin Opens /\ pc[w] = "wait"
    /\ mail[w] # {}
    /\ got' = [got EXCEPT ![w] = CHOOSE a \in mail[w] : TRUE]
    /\ Goto(w, "returned")
    /\ UNCHANGED <<state, shut, engine, slots, queues, rid, mail>>

(* The timeout and the cancel remove whatever the request id names. *)
GiveUp(w) ==
    /\ w \notin Opens /\ pc[w] = "wait"
    /\ replies' = Free(replies, rid[w])
    /\ Goto(w, "failed")
    /\ UNCHANGED <<state, shut, engine, pending, multi, queues, rid, mail, got>>

(* The sender is gone: every slot of the wait was dropped. *)
Disconnected(w) ==
    /\ w \notin Opens /\ pc[w] = "wait"
    /\ mail[w] = {}
    /\ w \notin Waits(replies) \cup Waits(pending)
    /\ replies' = Free(replies, rid[w])
    /\ Goto(w, "failed")
    /\ UNCHANGED <<state, shut, engine, pending, multi, queues, rid, mail, got>>

-----------------------------------------------------------------------------
(* The caller: call_open over a session.                                   *)

Subscribe(w, r) ==
    /\ w \in Opens /\ pc[w] = "idle"
    /\ rid' = [rid EXCEPT ![w] = r]
    /\ IF state # "Connected" \/ shut \/ Cardinality(multi) >= MaxPending \/ Held(multi, r) # {}
       THEN Goto(w, "failed") /\ UNCHANGED multi
       ELSE Goto(w, "send") /\ multi' = multi \cup {[rid |-> r, wait |-> w]}
    /\ UNCHANGED <<state, shut, engine, replies, pending, queues, mail, got>>

(* The terminal, the deadline or cancel, or a session that no longer       *)
(* admits: each ends the subscription.                                     *)
\* Defect for mutation: a call whose deadline passes keeps its subscription.
OpenEndsKeeps(w) ==
    /\ w \in Opens /\ pc[w] = "wait"
    /\ IF mail[w] # {}
       THEN /\ got' = [got EXCEPT ![w] = CHOOSE a \in mail[w] : TRUE]
            /\ multi' = multi \ {Slot(w)}
            /\ Goto(w, "returned")
       ELSE Goto(w, "failed") /\ UNCHANGED <<got, multi>>
    /\ UNCHANGED <<state, shut, engine, replies, pending, queues, rid, mail>>
OpenEnds(w) ==
    /\ w \in Opens /\ pc[w] = "wait"
    /\ \/ /\ mail[w] # {}
          /\ got' = [got EXCEPT ![w] = CHOOSE a \in mail[w] : TRUE]
          /\ Goto(w, "returned")
       \/ Goto(w, "failed") /\ UNCHANGED got
    /\ multi' = multi \ {Slot(w)}
    /\ UNCHANGED <<state, shut, engine, replies, pending, queues, rid, mail>>

-----------------------------------------------------------------------------
(* The engine.                                                             *)

\* Defect for mutation: the engine takes a wait over without looking at the cap.
DrainUncapped ==
    /\ engine = "run" /\ chan # <<>>
    /\ chan' = Tail(chan)
    /\ LET mine == Held(replies, rid[Head(chan)])
       IN /\ replies' = replies \ mine
          /\ pending' = Free(pending, rid[Head(chan)]) \cup mine
    /\ ctlQ' = IF Len(ctlQ) < ControlQueue THEN Append(ctlQ, Head(chan)) ELSE ctlQ
    /\ UNCHANGED <<state, shut, engine, multi, out, inb, pc, rid, mail, got>>

(* drain_commands: the slot the request id names now moves to pending,     *)
(* where it replaces an older one; without room the wait is told.          *)
Drain ==
    /\ engine = "run" /\ chan # <<>>
    /\ chan' = Tail(chan)
    /\ LET w == Head(chan)
           mine == Held(replies, rid[w])
       IN IF w \in Opens
          THEN /\ ctlQ' = IF Len(ctlQ) < ControlQueue THEN Append(ctlQ, w) ELSE ctlQ
               /\ UNCHANGED <<replies, pending, mail>>
          ELSE /\ replies' = replies \ mine
               /\ IF mine = {} \/ Cardinality(pending) >= MaxPending \/ Len(ctlQ) >= ControlQueue
                  THEN Tell(Waits(mine), Refused) /\ UNCHANGED <<pending, ctlQ>>
                  ELSE /\ pending' = Free(pending, rid[w]) \cup mine
                       /\ ctlQ' = Append(ctlQ, w)
                       /\ UNCHANGED mail
    /\ UNCHANGED <<state, shut, engine, multi, out, inb, pc, rid, got>>

(* expire_pending: waits in the engine are told, slots of callers dropped. *)
ExpirePending ==
    /\ engine = "run"
    /\ \E s \in pending : pending' = pending \ {s} /\ Tell({s.wait}, Unknown)
    /\ UNCHANGED <<state, shut, engine, replies, multi, queues, pc, rid, got>>

ExpireReplies ==
    /\ engine = "run"
    /\ \E s \in replies : replies' = replies \ {s}
    /\ UNCHANGED <<state, shut, engine, pending, multi, queues, pc, rid, mail, got>>

(* flush_one: the frame goes out, or expired in the queue. *)
Flush ==
    /\ engine = "run" /\ ctlQ # <<>>
    /\ out' \in {out \cup {Head(ctlQ)}, out}
    /\ ctlQ' = Tail(ctlQ)
    /\ UNCHANGED <<state, shut, engine, slots, chan, inb, pc, rid, mail, got>>

(* dispatch: the answer goes to what its request id names now. *)
Dispatch ==
    /\ engine = "run"
    /\ state' = IF state = "Suspect" THEN "Connected" ELSE state
    /\ \E w \in inb :
          /\ inb' = inb \ {w}
          /\ IF Held(pending, rid[w]) # {}
             THEN /\ pending' = Free(pending, rid[w])
                  /\ Tell(Waits(Held(pending, rid[w])), w)
             ELSE UNCHANGED pending /\ Tell(Waits(Held(multi, rid[w])), w)
    /\ UNCHANGED <<shut, engine, replies, multi, chan, ctlQ, out, pc, rid, got>>

(* check_timers and note_inbound. *)
Suspect ==
    /\ engine = "run" /\ state = "Connected"
    /\ state' = "Suspect"
    /\ UNCHANGED <<shut, engine, slots, queues, pc, rid, mail, got>>

Recover ==
    /\ engine = "run" /\ state = "Suspect"
    /\ state' = "Connected"
    /\ UNCHANGED <<shut, engine, slots, queues, pc, rid, mail, got>>

Shutdown ==
    /\ ~shut
    /\ shut' = TRUE
    /\ UNCHANGED <<state, engine, slots, queues, pc, rid, mail, got>>

(* detach, on a timer, an error or the shutdown: first the state, then     *)
(* every wait is failed.                                                   *)
\* Defect for mutation: a detach that leaves the state as it is.
DetachSilent ==
    /\ engine = "run"
    /\ engine' = "failing"
    /\ UNCHANGED <<state, shut, slots, queues, pc, rid, mail, got>>
Detach ==
    /\ engine = "run"
    /\ engine' = "failing"
    /\ state' = "Detached"
    /\ UNCHANGED <<shut, slots, queues, pc, rid, mail, got>>

FailAll ==
    /\ engine = "failing"
    /\ engine' = "failed"
    /\ Tell(Waits(pending) \cup Waits(replies), Unknown)
    /\ pending' = {} /\ replies' = {}
    /\ UNCHANGED <<state, shut, multi, queues, pc, rid, got>>

(* run returns: the receiver goes, with the commands it held. *)
EngineEnds ==
    /\ engine = "failed"
    /\ engine' = "ended"
    /\ chan' = <<>>
    /\ UNCHANGED <<state, shut, slots, ctlQ, out, inb, pc, rid, mail, got>>

(* The peer: an answer, some time, or none. *)
PeerAnswers ==
    /\ \E w \in out : out' = out \ {w} /\ inb' \in {inb \cup {w}, inb}
    /\ UNCHANGED <<state, shut, engine, slots, chan, ctlQ, pc, rid, mail, got>>

-----------------------------------------------------------------------------
Init ==
    /\ state = "Connected" /\ shut = FALSE /\ engine = "run"
    /\ replies = {} /\ pending = {} /\ multi = {}
    /\ chan = <<>> /\ ctlQ = <<>> /\ out = {} /\ inb = {}
    /\ pc = [w \in Wait |-> "idle"] /\ rid \in [Wait -> {CHOOSE r \in Rid : TRUE}]
    /\ mail = [w \in Wait |-> {}] /\ got = [w \in Wait |-> "none"]

Engine == Drain \/ ExpirePending \/ ExpireReplies \/ Flush \/ Dispatch \/ FailAll \/ EngineEnds

Next ==
    \/ \E w \in Wait :
          \/ \E r \in Rid : Request(w, r) \/ Subscribe(w, r)
          \/ EncodeFails(w) \/ SendCheck(w) \/ SendPut(w) \/ Receive(w) \/ GiveUp(w)
          \/ Disconnected(w) \/ OpenEnds(w)
    \/ Engine \/ Suspect \/ Recover \/ Detach \/ Shutdown \/ PeerAnswers

Spec == Init /\ [][Next]_vars

(* Callers run, and every wait has a deadline; the engine makes its rounds *)
(* and expires what is due.  Nothing obliges the peer to answer.           *)
Fairness ==
    /\ \A w \in Wait :
          WF_vars(SendCheck(w) \/ SendPut(w) \/ Receive(w) \/ GiveUp(w) \/ OpenEnds(w))
    /\ WF_vars(Drain) /\ WF_vars(ExpirePending) /\ WF_vars(ExpireReplies)
    /\ WF_vars(FailAll \/ EngineEnds)

FairSpec == Spec /\ Fairness

-----------------------------------------------------------------------------
(* Types, and the caps: no table of slots holds more than its limit or two *)
(* slots of one request id, although callers and engine move them.         *)
TypeOK ==
    /\ state \in {"Connected", "Suspect", "Detached"} /\ shut \in BOOLEAN
    /\ engine \in {"run", "failing", "failed", "ended"}
    /\ \A S \in {replies, pending, multi} :
          /\ S \subseteq [rid : Rid, wait : Wait]
          /\ Cardinality(S) <= MaxPending
          /\ \A s, t \in S : s.rid = t.rid => s = t
    /\ chan \in Seq(Wait) /\ Len(chan) <= Commands
    /\ ctlQ \in Seq(Wait) /\ Len(ctlQ) <= ControlQueue
    /\ out \subseteq Wait /\ inb \subseteq Wait
    /\ pc \in [Wait -> {"idle", "send", "put", "wait", "returned", "failed"}]
    /\ rid \in [Wait -> Rid]

(* A detach leaves nobody to wait out a timeout: with the engine gone, a   *)
(* request that waits has its answer, or no sender of its channel is left. *)
NoWaiterLeft ==
    engine = "ended" => \A w \in Wait \ Opens : pc[w] = "wait" => w \notin Waits(replies \cup pending)

(* The inductive invariant behind both: a detach announces itself before   *)
(* it fails the waits, so a caller that is past send_cmd's check by then   *)
(* had its slot in replies, and whoever comes later is refused.            *)
SessionInv ==
    /\ TypeOK
    /\ IsFiniteSet(replies) /\ IsFiniteSet(pending) /\ IsFiniteSet(multi)
    /\ engine # "run" => state = "Detached"
    /\ engine \in {"failed", "ended"} =>
          /\ pending = {}
          /\ \A w \in Wait \ Opens : pc[w] \in {"put", "wait"} => w \notin Waits(replies)

(* The caps on waits are not used up by waits that are over: every slot    *)
(* that a timeout, a cancel, a refused command or an early return leaves   *)
(* behind goes, unless the session is detached.                            *)
SlotsDrain ==
    <>[](/\ multi = {}
         /\ engine = "ended" \/ (replies = {} /\ pending = {}))

(* "A late answer never resolves a newer wait" *)
LateNeverResolvesNewer == \A w \in Wait : got[w] \in Wait => got[w] = w

=============================================================================
