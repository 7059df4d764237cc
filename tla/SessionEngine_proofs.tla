------------------------ MODULE SessionEngine_proofs ------------------------
(***************************************************************************)
(* Proofs about SessionEngine, for any number of callers, request ids and  *)
(* any limits.  The tables of slots are handled by three lemmas (taking    *)
(* slots out, adding one, replacing one); the rest is the order of detach: *)
(* state first, waits next, receiver last.                                 *)
(***************************************************************************)
EXTENDS SessionEngine, FiniteSetTheorems, TLAPS

\* What TypeOK says of one table of slots, and that it is finite.
Table(S) ==
    /\ S \subseteq [rid : Rid, wait : Wait]
    /\ IsFiniteSet(S)
    /\ Cardinality(S) <= MaxPending
    /\ \A s, t \in S : s.rid = t.rid => s = t

\* The parts of TypeOK that are not about slots.
Rest ==
    /\ state \in {"Connected", "Suspect", "Detached"} /\ shut \in BOOLEAN
    /\ engine \in {"run", "failing", "failed", "ended"}
    /\ chan \in Seq(Wait) /\ Len(chan) <= Commands
    /\ ctlQ \in Seq(Wait) /\ Len(ctlQ) <= ControlQueue
    /\ out \subseteq Wait /\ inb \subseteq Wait
    /\ pc \in [Wait -> {"idle", "send", "put", "wait", "returned", "failed"}]
    /\ rid \in [Wait -> Rid]

\* TypeOK and finiteness, table by table.
LEMMA TypeSplit ==
    TypeOK /\ IsFiniteSet(replies) /\ IsFiniteSet(pending) /\ IsFiniteSet(multi)
      <=> Rest /\ Table(replies) /\ Table(pending) /\ Table(multi)
<1>1. ASSUME NEW S PROVE Table(S) <=> /\ IsFiniteSet(S)
                                      /\ S \subseteq [rid : Rid, wait : Wait]
                                      /\ Cardinality(S) <= MaxPending
                                      /\ \A s, t \in S : s.rid = t.rid => s = t
  BY DEF Table
<1>2. TypeOK <=> /\ Rest
                 /\ \A S \in {replies, pending, multi} :
                       /\ S \subseteq [rid : Rid, wait : Wait]
                       /\ Cardinality(S) <= MaxPending
                       /\ \A s, t \in S : s.rid = t.rid => s = t
  BY DEF TypeOK, Rest
<1> QED
  BY <1>1, <1>2

\* The limits are numbers.
LEMMA Limits == MaxPending \in Nat \ {0} /\ Commands \in Nat \ {0} /\ ControlQueue \in Nat \ {0}
  BY SessionAssumption

\* Slots that are taken out leave a table.
LEMMA TableShrinks ==
    ASSUME NEW S, Table(S), NEW T \in SUBSET S
    PROVE  Table(T)
<1>1. /\ IsFiniteSet(T) /\ Cardinality(T) <= Cardinality(S)
      /\ Cardinality(T) \in Nat /\ Cardinality(S) \in Nat
  BY FS_Subset, FS_CardinalityType DEF Table
<1> QED
  BY <1>1, Limits DEF Table

\* A slot of a free request id fits while the table is below its limit.
LEMMA TableGrows ==
    ASSUME NEW S, Table(S), NEW s \in [rid : Rid, wait : Wait], Held(S, s.rid) = {},
           Cardinality(S) < MaxPending
    PROVE  Table(S \cup {s})
<1>1. /\ IsFiniteSet(S \cup {s}) /\ Cardinality(S) \in Nat
      /\ Cardinality(S \cup {s}) = Cardinality(S) \/ Cardinality(S \cup {s}) = Cardinality(S) + 1
  BY FS_AddElement, FS_CardinalityType DEF Table
<1>2. Cardinality(S \cup {s}) <= MaxPending
  BY <1>1, Limits
<1>3. \A a, b \in S \cup {s} : a.rid = b.rid => a = b
  BY DEF Table, Held
<1> QED
  BY <1>1, <1>2, <1>3 DEF Table

\* Freeing a request id leaves none of its slots.
LEMMA FreeHolds ==
    ASSUME NEW S, NEW r
    PROVE  Free(S, r) \subseteq S /\ Held(Free(S, r), r) = {}
  BY DEF Free, Held

\* The slots of one request id are none or one.
LEMMA HeldOne ==
    ASSUME NEW S, Table(S), NEW r, Held(S, r) # {}
    PROVE  \E s \in S : s.rid = r /\ Held(S, r) = {s}
  BY DEF Table, Held

\* The first state satisfies the invariant.
LEMMA InitInv == Init => SessionInv
<1> SUFFICES ASSUME Init PROVE SessionInv
  OBVIOUS
<1>1. IsFiniteSet({}) /\ Cardinality({}) = 0
  BY FS_EmptySet
<1>2. Table({})
  BY <1>1, Limits DEF Table
<1>3. <<>> \in Seq(Wait) /\ Len(<<>>) = 0
  OBVIOUS
<1>4. Rest
  <2>1. (CHOOSE r \in Rid : TRUE) \in Rid
    BY SessionAssumption
  <2>2. rid \in [Wait -> Rid]
    BY <2>1 DEF Init
  <2>3. chan \in Seq(Wait) /\ Len(chan) <= Commands /\ ctlQ \in Seq(Wait) /\ Len(ctlQ) <= ControlQueue
    BY <1>3, Limits DEF Init
  <2> QED
    BY <2>2, <2>3 DEF Init, Rest
<1> QED
  BY <1>2, <1>4, TypeSplit DEF Init, SessionInv

\* Every step keeps queues, control and limits.
LEMMA RestInv ==
    ASSUME Rest, Table(replies), Table(pending), Table(multi), [Next]_vars
    PROVE  Rest'
<1> USE Limits DEF Rest, Goto
<1>1. ASSUME NEW w \in Wait, NEW r \in Rid, Request(w, r) \/ Subscribe(w, r) PROVE Rest'
  BY <1>1 DEF Request, Subscribe, queues
<1>2. ASSUME NEW w \in Wait, \/ EncodeFails(w) \/ SendCheck(w) \/ Receive(w) \/ GiveUp(w)
                             \/ Disconnected(w) \/ OpenEnds(w)
      PROVE  Rest'
  BY <1>2 DEF EncodeFails, SendCheck, Receive, GiveUp, Disconnected, OpenEnds, queues
<1>3. ASSUME NEW w \in Wait, SendPut(w) PROVE Rest'
  <2>1. CASE engine = "ended" \/ Len(chan) >= Commands
    BY <1>3, <2>1 DEF SendPut
  <2>2. CASE ~(engine = "ended" \/ Len(chan) >= Commands)
    <3>1. chan' = Append(chan, w)
      BY <1>3, <2>2 DEF SendPut
    <3>2. chan' \in Seq(Wait) /\ Len(chan') = Len(chan) + 1 /\ Len(chan) \in Nat
      BY <3>1
    <3>3. Len(chan') <= Commands
      BY <2>2, <3>2
    <3> QED
      BY <1>3, <2>2, <3>2, <3>3 DEF SendPut
  <2> QED
    BY <2>1, <2>2
<1>4. CASE Drain
  <2>1. chan' = Tail(chan) /\ chan # <<>> /\ Head(chan) \in Wait
    BY <1>4 DEF Drain
  <2>2. chan' \in Seq(Wait) /\ Len(chan') <= Commands
    BY <2>1
  <2>3. ctlQ' = ctlQ \/ (ctlQ' = Append(ctlQ, Head(chan)) /\ Len(ctlQ) < ControlQueue)
    BY <1>4 DEF Drain
  <2>4. ctlQ' \in Seq(Wait) /\ Len(ctlQ') <= ControlQueue
    <3>1. CASE ctlQ' = ctlQ
      BY <3>1
    <3>2. CASE ctlQ' = Append(ctlQ, Head(chan)) /\ Len(ctlQ) < ControlQueue
      <4>1. PICK h \in Wait : h = Head(chan)
        BY <2>1
      <4>2. ctlQ' \in Seq(Wait) /\ Len(ctlQ') = Len(ctlQ) + 1 /\ Len(ctlQ) \in Nat
        BY <3>2, <4>1
      <4> QED
        BY <3>2, <4>2
    <3> QED
      BY <2>3, <3>1, <3>2
  <2> QED
    BY <1>4, <2>2, <2>4 DEF Drain
<1>5. CASE Flush
  <2>1. ctlQ' \in Seq(Wait) /\ Len(ctlQ') <= ControlQueue /\ Head(ctlQ) \in Wait
    BY <1>5 DEF Flush
  <2> QED
    BY <1>5, <2>1 DEF Flush, slots
<1>6. CASE EngineEnds
  BY <1>6 DEF EngineEnds
<1>7. CASE ExpirePending \/ ExpireReplies \/ Dispatch \/ FailAll \/ PeerAnswers
  BY <1>7 DEF ExpirePending, ExpireReplies, Dispatch, FailAll, PeerAnswers, queues
<1>8. CASE Suspect \/ Recover \/ Detach \/ Shutdown
  BY <1>8 DEF Suspect, Recover, Detach, Shutdown, queues
<1>9. CASE UNCHANGED vars
  BY <1>9 DEF vars, queues
<1> QED
  BY <1>1, <1>2, <1>3, <1>4, <1>5, <1>6, <1>7, <1>8, <1>9 DEF Next, Engine

\* Slots come only from Request, Subscribe and Drain, within the limits; every other
\* step takes slots out.
LEMMA TablesInv ==
    ASSUME Rest, Table(replies), Table(pending), Table(multi), [Next]_vars
    PROVE  Table(replies') /\ Table(pending') /\ Table(multi')
<1>1. ASSUME replies' \subseteq replies, pending' \subseteq pending, multi' \subseteq multi
      PROVE  Table(replies') /\ Table(pending') /\ Table(multi')
  BY <1>1, TableShrinks
<1>n. /\ Cardinality(replies) \in Nat /\ Cardinality(pending) \in Nat /\ Cardinality(multi) \in Nat
      /\ MaxPending \in Nat
  BY Limits, FS_CardinalityType DEF Table
<1>2. ASSUME NEW w \in Wait, NEW r \in Rid, Request(w, r)
      PROVE  Table(replies') /\ Table(pending') /\ Table(multi')
  <2>1. CASE Cardinality(replies) >= MaxPending \/ Held(replies, r) # {}
    BY <1>1, <1>2, <2>1 DEF Request
  <2>2. CASE ~(Cardinality(replies) >= MaxPending \/ Held(replies, r) # {})
    <3>1. replies' = replies \cup {[rid |-> r, wait |-> w]}
      BY <1>2, <2>2 DEF Request
    <3>2. Table(replies')
      BY <1>n, <2>2, <3>1, TableGrows
    <3> QED
      BY <1>2, <3>2 DEF Request
  <2> QED
    BY <2>1, <2>2
<1>3. ASSUME NEW w \in Wait, NEW r \in Rid, Subscribe(w, r)
      PROVE  Table(replies') /\ Table(pending') /\ Table(multi')
  <2>1. CASE multi' = multi
    BY <1>1, <1>3, <2>1 DEF Subscribe
  <2>2. CASE multi' # multi
    <3>1. /\ multi' = multi \cup {[rid |-> r, wait |-> w]}
          /\ ~(Cardinality(multi) >= MaxPending \/ Held(multi, r) # {})
      BY <1>3, <2>2 DEF Subscribe
    <3>2. Table(multi')
      BY <1>n, <3>1, TableGrows
    <3> QED
      BY <1>3, <3>2 DEF Subscribe
  <2> QED
    BY <2>1, <2>2
<1>4. CASE Drain
  <2> DEFINE w == Head(chan)
             mine == Held(replies, rid[w])
  <2>1. CASE pending' = pending
    BY <1>1, <1>4, <2>1 DEF Drain
  <2>2. CASE pending' # pending
    <3>1. /\ mine # {} /\ ~(Cardinality(pending) >= MaxPending)
          /\ pending' = Free(pending, rid[w]) \cup mine
          /\ replies' = replies \ mine
          /\ multi' = multi
      BY <1>4, <2>2 DEF Drain
    <3>2. PICK s \in replies : s.rid = rid[w] /\ mine = {s}
      BY <3>1, HeldOne
    <3>3. s \in [rid : Rid, wait : Wait]
      BY DEF Table
    <3>4. Table(Free(pending, rid[w])) /\ Held(Free(pending, rid[w]), rid[w]) = {}
      BY FreeHolds, TableShrinks
    <3>5. Cardinality(Free(pending, rid[w])) <= Cardinality(pending)
      BY FreeHolds, FS_Subset DEF Table
    <3>6. Cardinality(Free(pending, rid[w])) \in Nat
      BY <3>4, FS_CardinalityType DEF Table
    <3>7. Cardinality(Free(pending, rid[w])) < MaxPending
      BY <1>n, <3>1, <3>5, <3>6
    <3>8. Table(pending')
      BY <3>1, <3>2, <3>3, <3>4, <3>7, TableGrows
    <3> QED
      BY <3>1, <3>8, TableShrinks
  <2> QED
    BY <2>1, <2>2
<1>5. ASSUME NEW w \in Wait, \/ EncodeFails(w) \/ SendCheck(w) \/ SendPut(w) \/ Receive(w)
                             \/ GiveUp(w) \/ Disconnected(w) \/ OpenEnds(w)
      PROVE  Table(replies') /\ Table(pending') /\ Table(multi')
  BY <1>1, <1>5 DEF EncodeFails, SendCheck, SendPut, Receive, GiveUp, Disconnected, OpenEnds,
     TakeBack, Free, slots
<1>6. CASE \/ ExpirePending \/ ExpireReplies \/ Flush \/ Dispatch \/ FailAll \/ EngineEnds
           \/ PeerAnswers
  BY <1>1, <1>6 DEF ExpirePending, ExpireReplies, Flush, Dispatch, FailAll, EngineEnds,
     PeerAnswers, Free, slots
<1>7. CASE Suspect \/ Recover \/ Detach \/ Shutdown \/ UNCHANGED vars
  BY <1>1, <1>7 DEF Suspect, Recover, Detach, Shutdown, vars, slots
<1> QED
  BY <1>2, <1>3, <1>4, <1>5, <1>6, <1>7 DEF Next, Engine

\* Detached is announced before the waits are failed, and for good.
LEMMA DetachedInv ==
    ASSUME SessionInv, [Next]_vars
    PROVE  engine' # "run" => state' = "Detached"
<1>0. engine # "run" => state = "Detached"
  BY DEF SessionInv
<1>1. ASSUME NEW w \in Wait, NEW r \in Rid, Request(w, r) \/ Subscribe(w, r)
      PROVE  UNCHANGED <<engine, state>>
  BY <1>1 DEF Request, Subscribe
<1>2. ASSUME NEW w \in Wait, \/ EncodeFails(w) \/ SendCheck(w) \/ SendPut(w) \/ Receive(w)
                             \/ GiveUp(w) \/ Disconnected(w) \/ OpenEnds(w)
      PROVE  UNCHANGED <<engine, state>>
  BY <1>2 DEF EncodeFails, SendCheck, SendPut, Receive, GiveUp, Disconnected, OpenEnds
<1>3. CASE Engine \/ Suspect \/ Recover \/ Detach \/ Shutdown \/ PeerAnswers \/ UNCHANGED vars
  BY <1>0, <1>3 DEF Engine, Drain, ExpirePending, ExpireReplies, Flush, Dispatch, FailAll,
     EngineEnds, Suspect, Recover, Detach, Shutdown, PeerAnswers, vars
<1> QED
  BY <1>0, <1>1, <1>2, <1>3 DEF Next

\* After the waits are failed, no caller that put or may still put its command has a slot.
LEMMA FailedInv ==
    ASSUME SessionInv, [Next]_vars, engine' \in {"failed", "ended"}
    PROVE  /\ pending' = {}
           /\ \A w \in Wait \ Opens : pc'[w] \in {"put", "wait"} => w \notin Waits(replies')
<1>0. /\ engine # "run" => state = "Detached"
      /\ engine \in {"failed", "ended"} =>
           /\ pending = {}
           /\ \A w \in Wait \ Opens : pc[w] \in {"put", "wait"} => w \notin Waits(replies)
      /\ pc \in [Wait -> {"idle", "send", "put", "wait", "returned", "failed"}]
  BY DEF SessionInv, TypeOK
<1>1. CASE FailAll
  BY <1>1 DEF FailAll, Waits
<1>2. CASE ~FailAll
  <2>1. engine \in {"failed", "ended"} /\ state = "Detached"
    <3>1. ASSUME NEW w \in Wait, NEW r \in Rid, Request(w, r) \/ Subscribe(w, r)
          PROVE  UNCHANGED engine
      BY <3>1 DEF Request, Subscribe
    <3>2. ASSUME NEW w \in Wait, \/ EncodeFails(w) \/ SendCheck(w) \/ SendPut(w) \/ Receive(w)
                                 \/ GiveUp(w) \/ Disconnected(w) \/ OpenEnds(w)
          PROVE  UNCHANGED engine
      BY <3>2 DEF EncodeFails, SendCheck, SendPut, Receive, GiveUp, Disconnected, OpenEnds
    <3>3. CASE Engine \/ Suspect \/ Recover \/ Detach \/ Shutdown \/ PeerAnswers \/ UNCHANGED vars
      BY <1>0, <1>2, <3>3 DEF Engine, Drain, ExpirePending, ExpireReplies, Flush, Dispatch,
         EngineEnds, Suspect, Recover, Detach, Shutdown, PeerAnswers, vars
    <3> QED
      BY <1>0, <3>1, <3>2, <3>3 DEF Next
  <2>2. /\ pending = {}
        /\ \A w \in Wait \ Opens : pc[w] \in {"put", "wait"} => w \notin Waits(replies)
    BY <1>0, <2>1
  <2>3. ASSUME NEW u \in Wait, NEW r \in Rid, Request(u, r) \/ Subscribe(u, r)
        PROVE  /\ pending' = {}
               /\ \A w \in Wait \ Opens : pc'[w] \in {"put", "wait"} => w \notin Waits(replies')
    <3>1. \A w \in Wait : pc'[w] \in {"put", "wait"} => w # u /\ pc[w] \in {"put", "wait"}
      BY <1>0, <2>3 DEF Request, Subscribe, Goto
    <3>2. replies' \subseteq replies \cup {[rid |-> r, wait |-> u]}
      BY <2>3 DEF Request, Subscribe
    <3>3. \A w \in Wait : w # u /\ w \notin Waits(replies) => w \notin Waits(replies')
      BY <3>2 DEF Waits
    <3> QED
      BY <2>2, <2>3, <3>1, <3>3 DEF Request, Subscribe
  <2>4. ASSUME NEW u \in Wait, \/ EncodeFails(u) \/ SendCheck(u) \/ SendPut(u) \/ Receive(u)
                               \/ GiveUp(u) \/ Disconnected(u) \/ OpenEnds(u)
        PROVE  /\ pending' = {}
               /\ \A w \in Wait \ Opens : pc'[w] \in {"put", "wait"} => w \notin Waits(replies')
    <3>1. \A w \in Wait : pc'[w] \in {"put", "wait"} => pc[w] \in {"put", "wait"}
      BY <1>0, <2>1, <2>4 DEF EncodeFails, SendCheck, SendPut, Receive, GiveUp, Disconnected,
         OpenEnds, Goto
    <3>2. replies' \subseteq replies /\ pending' = pending
      BY <2>4 DEF EncodeFails, SendCheck, SendPut, Receive, GiveUp, Disconnected, OpenEnds,
         TakeBack, Free, slots
    <3> QED
      BY <2>2, <3>1, <3>2 DEF Waits
  <2>5. CASE Engine \/ Suspect \/ Recover \/ Detach \/ Shutdown \/ PeerAnswers \/ UNCHANGED vars
    <3>1. UNCHANGED <<pending, replies, pc>>
      BY <1>2, <2>1, <2>5 DEF Engine, Drain, ExpirePending, ExpireReplies, Flush, Dispatch,
         EngineEnds, Suspect, Recover, Detach, Shutdown, PeerAnswers, vars, slots
    <3> QED
      BY <2>2, <3>1
  <2> QED
    BY <2>3, <2>4, <2>5 DEF Next
<1> QED
  BY <1>1, <1>2

\* SessionInv is an invariant.
THEOREM SessionInvariance == Spec => []SessionInv
<1>1. SessionInv /\ [Next]_vars => SessionInv'
  <2> SUFFICES ASSUME SessionInv, [Next]_vars PROVE SessionInv'
    OBVIOUS
  <2>1. Rest /\ Table(replies) /\ Table(pending) /\ Table(multi)
    BY TypeSplit DEF SessionInv
  <2>2. Rest' /\ Table(replies') /\ Table(pending') /\ Table(multi')
    BY <2>1, RestInv, TablesInv
  <2>3. TypeOK' /\ IsFiniteSet(replies') /\ IsFiniteSet(pending') /\ IsFiniteSet(multi')
    <3>1. \A S \in {replies', pending', multi'} :
            /\ S \subseteq [rid : Rid, wait : Wait]
            /\ Cardinality(S) <= MaxPending
            /\ \A s, t \in S : s.rid = t.rid => s = t
      BY <2>2 DEF Table
    <3>2. IsFiniteSet(replies') /\ IsFiniteSet(pending') /\ IsFiniteSet(multi')
      BY <2>2 DEF Table
    <3> QED
      BY <2>2, <3>1, <3>2 DEF Rest, TypeOK
  <2> QED
    BY <2>3, DetachedInv, FailedInv DEF SessionInv
<1> QED
  BY <1>1, InitInv, PTL DEF Spec

\* The tables of slots never hold more than max_pending or two slots of one request id,
\* and the queues never pass their limits, although callers and engine move the slots
\* without a lock over both tables.
THEOREM SessionTypeCorrect == Spec => []TypeOK
<1>1. SessionInv => TypeOK
  BY DEF SessionInv
<1> QED
  BY <1>1, SessionInvariance, PTL

\* When the engine is gone no request waits for an answer that nobody can give.
THEOREM DetachFreesWaiters == Spec => []NoWaiterLeft
<1>1. SessionInv => NoWaiterLeft
  BY DEF SessionInv, NoWaiterLeft, Waits
<1> QED
  BY <1>1, SessionInvariance, PTL
=============================================================================
