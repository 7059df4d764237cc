------------------------ MODULE HostSessions_proofs ------------------------
(***************************************************************************)
(* Proofs about HostSessions, for any number of activations, processes,    *)
(* connections and faults.                                                 *)
(*                                                                         *)
(* The steps are sorted by the thread that takes them (StepKinds), with    *)
(* what each may do to the program counters (EventMoves, ConnMoves,        *)
(* ReadMoves, RestMoves).  KillLeavesNone and WillKillKept carry the       *)
(* argument about the children: a kill leaves no process but a stuck one,  *)
(* and the event that kills stays on its way until a kill.                 *)
(***************************************************************************)
EXTENDS HostSessions, FiniteSetTheorems, TLAPS

\* The event thread, the connection threads and the readers are all different.
LEMMA Threads ==
    /\ Ev \in Thread
    /\ \A s \in Sid : Conn(s) \in Thread /\ Reader(s) \in Thread /\ Ev # Conn(s) /\ Ev # Reader(s)
    /\ \A s, r \in Sid : /\ Conn(s) # Reader(r)
                         /\ s # r => Conn(s) # Conn(r) /\ Reader(s) # Reader(r)
    /\ \A t \in Thread : t = Ev \/ \E s \in Sid : t = Conn(s) \/ t = Reader(s)
  BY DEF Thread, Ev, Conn, Reader

\* The bounds are numbers, and 0 names no activation, process or connection.
LEMMA Bounds ==
    /\ MaxInst \in Nat /\ MaxProc \in Nat /\ MaxSess \in Nat
    /\ 1 \in Inst /\ 1 \in Proc /\ 1 \in Sid
    /\ \A x \in 0..MaxInst : x # 0 => x \in Inst
    /\ \A x \in 0..MaxProc : x # 0 => x \in Proc
    /\ \A x \in 0..MaxSess : x # 0 => x \in Sid
    /\ \A x \in Inst : x \in 0..MaxInst /\ x # 0
    /\ \A x \in Proc : x \in 0..MaxProc /\ x # 0
    /\ \A x \in Sid : x \in 0..MaxSess /\ x # 0
    /\ 0 \in 0..MaxInst /\ 0 \in 0..MaxProc /\ 0 \in 0..MaxSess
  BY HostAssumption DEF Inst, Proc, Sid

\* The fields of an event.
LEMMA EventFields ==
    ASSUME NEW e \in Event
    PROVE  /\ e.ty \in {"Activated", "Withdrawn", "Removed"} /\ e.inst \in 0..MaxInst
           /\ e.ty = "Activated" => e.inst # 0
<1>1. CASE \E i \in Inst : e = Activated(i)
  BY <1>1, Bounds DEF Activated
<1>2. CASE \E i \in Inst : e = Withdrawn(i)
  BY <1>2, Bounds DEF Withdrawn
<1>3. CASE e = Removed
  BY <1>3, Bounds DEF Removed
<1> QED
  BY <1>1, <1>2, <1>3 DEF Event

\* TypeOK and the types of the state that belongs to a thread.
Typed ==
    /\ TypeOK
    /\ ev \in [ty : {"none", "Activated", "Withdrawn", "Removed"}, inst : 0..MaxInst, sid : 0..MaxSess]
    /\ fatal \subseteq {Conn(s) : s \in Sid} /\ shutdown \in BOOLEAN
    /\ pc[Ev] \in {"replace", "spawn", "quiesce"} => ev.inst # 0

\* The steps by the thread that takes them.
ConnStep(s) == ConnThread(s) \/ \E p \in Proc : Connect(s, p)
ReadStep(s) == ReaderThread(s) \/ AcquireExternal(s) \/ ReleaseHandle(s) \/ CloseSession(s)
RestStep == Kernel \/ RetireKill \/ Shutdown \/ UNCHANGED vars \/ \E p \in Proc : ProcessExits(p)

EvPc == {"idle", "replace", "spawn", "reap", "quiesce", "open", "wait", "drop", "unbind", "kill", "forget"}
ConnPc == {"none", "publish", "open", "wait", "drop", "unbind", "kill", "end"}
ReadPc == {"none", "run", "push", "drop", "unbind", "end"}
EvType == [ty : {"none", "Activated", "Withdrawn", "Removed"}, inst : 0..MaxInst, sid : 0..MaxSess]

\* A step is of one of these kinds.
LEMMA StepKinds ==
    ASSUME [Next]_vars
    PROVE  EventThread \/ RestStep \/ \E s \in Sid : ConnStep(s) \/ ReadStep(s)
  BY DEF Next, ConnStep, ReadStep, RestStep

\* A program counter that is set, and the others.
LEMMA GotoSets ==
    ASSUME DOMAIN pc = Thread, NEW t \in Thread, NEW l, Goto(t, l)
    PROVE  DOMAIN pc' = Thread /\ pc'[t] = l /\ \A u \in Thread \ {t} : pc'[u] = pc[u]
  BY DEF Goto

\* The steps of the kernel, of a process and of the shutdown move no thread.
LEMMA RestMoves ==
    ASSUME RestStep
    PROVE  UNCHANGED <<pc, ev, fatal, sessions, byInst, bnd, peer>>
<1> USE DEF kernelVars, childVars, tableVars, connVars, threadVars
<1>1. CASE Kernel
  BY <1>1 DEF Kernel, KernelActivate, KernelWithdraw, KernelRemove, KernelRelease, KernelEmit
<1>2. CASE RetireKill \/ Shutdown
  BY <1>2 DEF RetireKill, Shutdown, KillChild
<1>3. ASSUME NEW p \in Proc, ProcessExits(p) PROVE UNCHANGED <<pc, ev, fatal, sessions, byInst, bnd, peer>>
  BY <1>3 DEF ProcessExits
<1> QED
  BY <1>1, <1>2, <1>3 DEF RestStep, vars

\* A transaction moves its own thread only.
LEMMA TransactMoves ==
    ASSUME Typed, NEW t \in Thread, NEW s \in Sid, TransactOpen(t, s) \/ TransactWait(t, s)
    PROVE  /\ pc[t] \in {"open", "wait"}
           /\ DOMAIN pc' = Thread /\ \A u \in Thread \ {t} : pc'[u] = pc[u]
           /\ pc'[t] \in {"wait", "drop", "end"} /\ (t = Ev => pc'[t] # "end")
           /\ fatal' \subseteq fatal \cup ({t} \ {Ev}) /\ fatal \subseteq fatal'
           /\ UNCHANGED <<kernelVars, evq, childVars, tableVars, connVars, ev, shutdown, faults>>
<1>1. DOMAIN pc = Thread
  BY DEF Typed, TypeOK
<1>2. \E l \in {"wait", "drop", "end"} : Goto(t, l) /\ (t = Ev => l # "end")
  BY DEF TransactOpen, TransactWait, Returns
<1>3. DOMAIN pc' = Thread /\ (\A u \in Thread \ {t} : pc'[u] = pc[u])
      /\ pc'[t] \in {"wait", "drop", "end"} /\ (t = Ev => pc'[t] # "end")
  BY <1>1, <1>2, GotoSets
<1>4. pc[t] \in {"open", "wait"}
  BY DEF TransactOpen, TransactWait
<1>5. fatal' \subseteq fatal \cup ({t} \ {Ev}) /\ fatal \subseteq fatal'
  BY DEF TransactOpen, TransactWait, Returns
<1>6. UNCHANGED <<kernelVars, evq, childVars, tableVars, connVars, ev, shutdown, faults>>
  BY DEF TransactOpen, TransactWait
<1> QED
  BY <1>3, <1>4, <1>5, <1>6

\* A drop of a session moves its own thread only.
LEMMA DropMoves ==
    ASSUME Typed, NEW t \in Thread, NEW s \in Sid, DropSession(t, s)
    PROVE  /\ pc[t] \in {"drop", "unbind"}
           /\ DOMAIN pc' = Thread /\ \A u \in Thread \ {t} : pc'[u] = pc[u]
           /\ pc'[t] \in {"unbind", AfterDrop(t)}
           /\ UNCHANGED <<kernelVars, evq, childVars, bnd, peer, ev, fatal, shutdown, faults>>
<1>1. DOMAIN pc = Thread
  BY DEF Typed, TypeOK
<1>2. \E l \in {"unbind", AfterDrop(t)} : Goto(t, l)
  BY DEF DropSession, DropRemove, DropRelease
<1>3. DOMAIN pc' = Thread /\ (\A u \in Thread \ {t} : pc'[u] = pc[u]) /\ pc'[t] \in {"unbind", AfterDrop(t)}
  BY <1>1, <1>2, GotoSets
<1>4. /\ pc[t] \in {"drop", "unbind"}
      /\ UNCHANGED <<kernelVars, evq, childVars, bnd, peer, ev, fatal, shutdown, faults>>
  BY DEF DropSession, DropRemove, DropRelease, connVars
<1> QED
  BY <1>3, <1>4

\* A kill touches no thread, session or connection.
LEMMA KillMoves ==
    ASSUME NEW b, KillChild(b)
    PROVE  UNCHANGED <<kernelVars, evq, pinst, tableVars>>
  BY DEF KillChild

\* A step of the event thread moves only that thread.
LEMMA EventMoves ==
    ASSUME Typed, EventThread
    PROVE  /\ DOMAIN pc' = Thread /\ \A u \in Thread \ {Ev} : pc'[u] = pc[u]
           /\ pc'[Ev] \in EvPc
           /\ ev' \in EvType
           /\ pc'[Ev] \in {"replace", "spawn", "quiesce"} => ev'.inst # 0
           /\ UNCHANGED <<kernelVars, bnd, peer, fatal, shutdown>>
<1> USE DEF kernelVars, tableVars, connVars
<1>1. DOMAIN pc = Thread /\ Ev \in Thread /\ ev \in EvType
  BY Threads DEF Typed, TypeOK, EvType
<1>2. CASE NextEvent
  <2>1. \E l \in EvPc : Goto(Ev, l)
    BY <1>2 DEF NextEvent, EvPc
  <2>2. ev' \in EvType /\ (pc'[Ev] \in {"replace", "spawn", "quiesce"} => ev'.inst # 0)
    <3>1. Head(evq) \in Event
      BY <1>2 DEF NextEvent, Typed, TypeOK
    <3>2. cur \in 0..MaxInst
      BY DEF Typed, TypeOK
    <3>3. PICK e \in Event : e = Head(evq)
      BY <3>1
    <3> DEFINE i == IF e.ty = "Removed" THEN cur ELSE e.inst
    <3>4. /\ e.ty \in {"Activated", "Withdrawn", "Removed"} /\ e.inst \in 0..MaxInst
          /\ e.ty = "Activated" => e.inst # 0
      BY EventFields
    <3>5. i \in 0..MaxInst /\ (e.ty = "Activated" => i # 0)
      BY <3>2, <3>4
    <3>6. /\ ev' = [ty |-> e.ty, inst |-> i, sid |-> 0]
          /\ Goto(Ev, IF e.ty = "Activated" THEN "replace" ELSE IF i # 0 THEN "quiesce" ELSE "forget")
      BY <1>2, <3>3 DEF NextEvent
    <3> HIDE DEF i
    <3>7. pc'[Ev] = IF e.ty = "Activated" THEN "replace" ELSE IF i # 0 THEN "quiesce" ELSE "forget"
      BY <1>1, <3>6 DEF Goto
    <3>8. ev' \in EvType /\ ev'.inst = i
      BY <3>4, <3>5, <3>6, Bounds DEF EvType
    <3> QED
      BY <3>5, <3>7, <3>8
  <2>3. UNCHANGED <<kernelVars, bnd, peer, fatal, shutdown>>
    BY <1>2 DEF NextEvent
  <2> QED
    BY <1>1, <2>1, <2>2, <2>3, GotoSets
<1>3. CASE ReplaceChild \/ SpawnChild \/ QuiesceKill
  <2>1. \E l \in EvPc : Goto(Ev, l) /\ (l \in {"replace", "spawn", "quiesce"} => ev.inst # 0)
    BY <1>3 DEF ReplaceChild, SpawnChild, QuiesceKill, EvPc, Typed
  <2>2. UNCHANGED <<kernelVars, bnd, peer, fatal, shutdown, ev>>
    BY <1>3, KillMoves DEF ReplaceChild, SpawnChild, QuiesceKill
  <2> QED
    BY <1>1, <2>1, <2>2, GotoSets
<1>4. CASE ReapFinished
  <2>1. \E l \in EvPc : Goto(Ev, l) /\ l \notin {"replace", "spawn", "quiesce"}
    BY <1>4 DEF ReapFinished, EvPc
  <2>2. UNCHANGED <<kernelVars, bnd, peer, fatal, shutdown>> /\ ev' \in EvType
    BY <1>4, Bounds DEF ReapFinished, NoEvent, EvType
  <2> QED
    BY <1>1, <2>1, <2>2, GotoSets
<1>5. CASE QuiesceUnbind
  <2>1. \E l \in EvPc : Goto(Ev, l) /\ l \notin {"replace", "spawn", "quiesce"}
    BY <1>5 DEF QuiesceUnbind, EvPc
  <2>2. UNCHANGED <<kernelVars, bnd, peer, fatal, shutdown>>
    BY <1>5 DEF QuiesceUnbind
  <2>3. ev.inst \in Inst
    BY <1>5, Bounds DEF QuiesceUnbind, Typed, TypeOK
  <2>4. byInst[ev.inst] \in 0..MaxSess
    BY <2>3 DEF Typed, TypeOK
  <2>5. ev' \in EvType
    BY <1>1, <1>5, <2>4 DEF QuiesceUnbind, EvType
  <2> QED
    BY <1>1, <2>1, <2>2, <2>5, GotoSets
<1>6. CASE /\ ev.sid # 0
           /\ TransactOpen(Ev, ev.sid) \/ TransactWait(Ev, ev.sid) \/ DropSession(Ev, ev.sid)
  <2>1. ev.sid \in Sid
    BY <1>6, Bounds DEF Typed, TypeOK
  <2>2. AfterDrop(Ev) = "kill"
    BY DEF AfterDrop
  <2> QED
    BY <1>1, <1>6, <2>1, <2>2, TransactMoves, DropMoves DEF EvPc
<1> QED
  BY <1>2, <1>3, <1>4, <1>5, <1>6 DEF EventThread

\* A step of a connection thread moves that thread, and may start its reader.
LEMMA ConnMoves ==
    ASSUME Typed, NEW s \in Sid, ConnStep(s)
    PROVE  /\ DOMAIN pc' = Thread /\ \A u \in Thread \ {Conn(s), Reader(s)} : pc'[u] = pc[u]
           /\ pc'[Conn(s)] \in ConnPc
           /\ pc'[Reader(s)] # pc[Reader(s)] => RegisterPublish(s) /\ pc'[Reader(s)] = "run"
           /\ fatal' \subseteq {Conn(r) : r \in Sid}
           /\ UNCHANGED <<kernelVars, evq, pinst, ev, shutdown>>
<1> USE DEF kernelVars, childVars, tableVars, connVars
<1>1. DOMAIN pc = Thread /\ Conn(s) \in Thread /\ Reader(s) \in Thread /\ Conn(s) # Reader(s) /\ Conn(s) # Ev
  BY Threads DEF Typed, TypeOK
<1>f. fatal \subseteq {Conn(r) : r \in Sid}
  BY DEF Typed
<1>2. ASSUME NEW p \in Proc, Connect(s, p)
      PROVE  (\E l \in ConnPc : Goto(Conn(s), l)) /\ UNCHANGED <<kernelVars, evq, pinst, ev, shutdown, fatal>>
  BY <1>2 DEF Connect, ConnPc
<1>3. CASE RegisterPublish(s)
  <2>1. \/ pc' = [pc EXCEPT ![Conn(s)] = "open", ![Reader(s)] = "run"]
        \/ pc' = [pc EXCEPT ![Conn(s)] = "drop"]
    BY <1>3 DEF RegisterPublish
  <2>2. UNCHANGED <<kernelVars, evq, pinst, ev, shutdown, fatal>>
    BY <1>3 DEF RegisterPublish
  <2> QED
    BY <1>1, <1>f, <1>3, <2>1, <2>2 DEF ConnPc
<1>4. CASE ActivateFailed(s)
  <2>1. Goto(Conn(s), "end") /\ UNCHANGED <<kernelVars, evq, pinst, ev, shutdown>> /\ fatal' \subseteq fatal
    BY <1>4, KillMoves DEF ActivateFailed
  <2> QED
    BY <1>1, <1>f, <2>1, GotoSets DEF ConnPc
<1>5. CASE TransactOpen(Conn(s), s) \/ TransactWait(Conn(s), s) \/ DropSession(Conn(s), s)
  <2>1. AfterDrop(Conn(s)) \in ConnPc
    BY DEF AfterDrop, ConnPc
  <2>2. CASE TransactOpen(Conn(s), s) \/ TransactWait(Conn(s), s)
    BY <1>1, <1>f, <2>2, TransactMoves DEF ConnPc
  <2>3. CASE DropSession(Conn(s), s)
    BY <1>1, <1>f, <2>1, <2>3, DropMoves DEF ConnPc
  <2> QED
    BY <1>5, <2>2, <2>3
<1> QED
  BY <1>1, <1>f, <1>2, <1>3, <1>4, <1>5, GotoSets DEF ConnStep, ConnThread

\* A step of a reader moves that thread.
LEMMA ReadMoves ==
    ASSUME Typed, NEW s \in Sid, ReadStep(s)
    PROVE  /\ DOMAIN pc' = Thread /\ \A u \in Thread \ {Reader(s)} : pc'[u] = pc[u]
           /\ pc'[Reader(s)] \in ReadPc
           /\ UNCHANGED <<kernelVars, evq, childVars, bnd, peer, ev, fatal, shutdown>>
<1> USE DEF tableVars, connVars, threadVars
<1>1. DOMAIN pc = Thread /\ Reader(s) \in Thread /\ Reader(s) # Ev /\ Reader(s) \notin fatal
      /\ pc[Reader(s)] \in ReadPc
  BY Threads DEF Typed, TypeOK, ReadPc
<1>2. CASE PushHandle(s) \/ ReadEnds(s) \/ AcquireExternal(s) \/ CloseSession(s)
  <2>1. \E l \in ReadPc : Goto(Reader(s), l)
    BY <1>2 DEF PushHandle, ReadEnds, AcquireExternal, CloseSession, ReadPc
  <2>2. UNCHANGED <<kernelVars, evq, childVars, bnd, peer, ev, fatal, shutdown>>
    BY <1>2 DEF PushHandle, ReadEnds, AcquireExternal, CloseSession
  <2> QED
    BY <1>1, <2>1, <2>2, GotoSets
<1>3. CASE ReleaseHandle(s)
  BY <1>1, <1>3 DEF ReleaseHandle
<1>4. CASE DropSession(Reader(s), s)
  BY <1>1, <1>4, DropMoves DEF AfterDrop, ReadPc
<1> QED
  BY <1>2, <1>3, <1>4 DEF ReadStep, ReaderThread

\* Types of the threads.
ThreadsTyped ==
    /\ DOMAIN pc = Thread
    /\ pc[Ev] \in EvPc
    /\ \A s \in Sid : pc[Conn(s)] \in ConnPc /\ pc[Reader(s)] \in ReadPc
    /\ ev \in EvType
    /\ fatal \subseteq {Conn(s) : s \in Sid}
    /\ pc[Ev] \in {"replace", "spawn", "quiesce"} => ev.inst # 0

\* Every step keeps the types of the threads.
LEMMA ThreadsStep ==
    ASSUME Typed, [Next]_vars
    PROVE  ThreadsTyped'
<1>1. ThreadsTyped
  BY DEF Typed, TypeOK, ThreadsTyped, EvPc, ConnPc, ReadPc, EvType
<1>2. CASE RestStep
  BY <1>1, <1>2, RestMoves DEF ThreadsTyped
<1>3. CASE EventThread
  BY <1>1, <1>3, EventMoves, Threads DEF ThreadsTyped
<1>4. ASSUME NEW s \in Sid, ConnStep(s) PROVE ThreadsTyped'
  <2>1. \A r \in Sid \ {s} : pc'[Conn(r)] = pc[Conn(r)] /\ pc'[Reader(r)] = pc[Reader(r)]
    BY <1>4, ConnMoves, Threads
  <2>2. pc'[Ev] = pc[Ev] /\ ev' = ev /\ pc'[Conn(s)] \in ConnPc /\ pc'[Reader(s)] \in ReadPc
    BY <1>1, <1>4, ConnMoves, Threads DEF ThreadsTyped, ReadPc
  <2> QED
    BY <1>1, <1>4, <2>1, <2>2, ConnMoves DEF ThreadsTyped
<1>5. ASSUME NEW s \in Sid, ReadStep(s) PROVE ThreadsTyped'
  <2>1. \A r \in Sid : pc'[Conn(r)] = pc[Conn(r)] /\ (r # s => pc'[Reader(r)] = pc[Reader(r)])
    BY <1>5, ReadMoves, Threads
  <2>2. pc'[Ev] = pc[Ev] /\ ev' = ev /\ pc'[Reader(s)] \in ReadPc
    BY <1>5, ReadMoves, Threads
  <2> QED
    BY <1>1, <1>5, <2>1, <2>2, ReadMoves DEF ThreadsTyped
<1> QED
  BY <1>2, <1>3, <1>4, <1>5, StepKinds

\* Types of the kernel's state and of the event queue.
KernelTyped ==
    /\ cur \in 0..MaxInst
    /\ kst \in [Inst -> {"None", "Active", "Retired"}]
    /\ owed \subseteq Event /\ evq \in Seq(Event)

\* Types of the children.
ChildTyped ==
    /\ child \in 0..MaxProc /\ token \in 0..MaxProc /\ pact \in 0..MaxInst
    /\ stuck \subseteq Proc
    /\ pinst \in [Proc -> 0..MaxInst] /\ up \in [Proc -> BOOLEAN]

\* Types of the tables of sessions and connections.
TableTyped ==
    /\ sessions \subseteq Sid /\ shut \subseteq Sid
    /\ byInst \in [Inst -> 0..MaxSess]
    /\ handle \in [Sid -> {"none", "kernel", "listed"}]
    /\ bnd \in [Sid -> 0..MaxInst] /\ peer \in [Sid -> 0..MaxProc]

\* The parts of Typed.
LEMMA TypedParts == Typed <=> KernelTyped /\ ChildTyped /\ TableTyped /\ ThreadsTyped /\ shutdown \in BOOLEAN
<1>1. ThreadsTyped => ev.inst \in 0..MaxInst /\ ev.sid \in 0..MaxSess
  BY DEF ThreadsTyped, EvType
<1> QED
  BY <1>1 DEF Typed, TypeOK, KernelTyped, ChildTyped, TableTyped, ThreadsTyped, EvPc, ConnPc, ReadPc, EvType

\* Every step keeps the types of the kernel's state.
LEMMA KernelStep ==
    ASSUME Typed, [Next]_vars
    PROVE  KernelTyped' /\ shutdown' \in BOOLEAN
<1> USE DEF kernelVars, childVars, tableVars, connVars, threadVars
<1>1. KernelTyped /\ shutdown \in BOOLEAN
  BY TypedParts
<1>2. CASE KernelActivate
  <2>1. PICK n \in Inst : n = cur + 1
    BY <1>1, <1>2, Bounds DEF KernelActivate, KernelTyped, Inst
  <2>2. Activated(n) \in Event
    BY DEF Event
  <2> QED
    BY <1>1, <1>2, <2>1, <2>2, Bounds DEF KernelActivate, KernelTyped
<1>3. CASE KernelWithdraw
  <2>1. cur \in Inst /\ Withdrawn(cur) \in Event
    BY <1>1, <1>3, Bounds DEF KernelWithdraw, KernelTyped, Event
  <2> QED
    BY <1>1, <1>3, <2>1 DEF KernelWithdraw, KernelTyped
<1>4. CASE KernelRemove
  <2>1. Removed \in Event
    BY DEF Event
  <2> QED
    BY <1>1, <1>4, <2>1 DEF KernelRemove, KernelTyped
<1>5. ASSUME NEW e \in Event, KernelEmit(e) PROVE KernelTyped' /\ shutdown' \in BOOLEAN
  BY <1>1, <1>5 DEF KernelEmit, KernelTyped
<1>6. CASE RetireKill \/ Shutdown
  BY <1>1, <1>6 DEF RetireKill, Shutdown, KillChild, KernelTyped
<1>7. ASSUME NEW p \in Proc, ProcessExits(p) PROVE KernelTyped' /\ shutdown' \in BOOLEAN
  BY <1>1, <1>7 DEF ProcessExits, KernelTyped
<1>8. CASE UNCHANGED vars
  BY <1>1, <1>8 DEF vars, KernelTyped
<1>9. CASE EventThread
  <2>1. evq' \in Seq(Event)
    <3>1. CASE NextEvent
      BY <1>1, <3>1 DEF NextEvent, KernelTyped
    <3>2. CASE ~NextEvent
      <4>1. evq' = evq
        BY <1>9, <3>2, KillMoves DEF EventThread, ReplaceChild, SpawnChild, ReapFinished, QuiesceUnbind, QuiesceKill,
           TransactOpen, TransactWait, DropSession, DropRemove, DropRelease
      <4> QED
        BY <1>1, <4>1 DEF KernelTyped
    <3> QED
      BY <3>1, <3>2
  <2>2. UNCHANGED <<kernelVars, shutdown>>
    BY <1>9, EventMoves
  <2> QED
    BY <1>1, <2>1, <2>2 DEF KernelTyped
<1>10. ASSUME NEW s \in Sid, ConnStep(s) \/ ReadStep(s) PROVE KernelTyped' /\ shutdown' \in BOOLEAN
  <2>1. UNCHANGED <<kernelVars, evq, shutdown>>
    BY <1>10, ConnMoves, ReadMoves
  <2> QED
    BY <1>1, <2>1 DEF KernelTyped
<1>11. ASSUME NEW i \in Inst, KernelRelease(i) PROVE KernelTyped' /\ shutdown' \in BOOLEAN
  BY <1>1, <1>11 DEF KernelRelease, KernelTyped
<1> QED
  BY <1>2, <1>3, <1>4, <1>5, <1>6, <1>7, <1>8, <1>9, <1>10, <1>11, StepKinds DEF RestStep, Kernel

\* A kill keeps the types of the children.
LEMMA KillTyped ==
    ASSUME Typed, NEW b, KillChild(b)
    PROVE  ChildTyped'
<1>1. ChildTyped
  BY TypedParts
<1>2. child # 0 => child \in Proc
  BY <1>1, Bounds DEF ChildTyped
<1> QED
  BY <1>1, <1>2, Bounds DEF KillChild, ChildTyped

\* Every step keeps the types of the children.
LEMMA ChildStep ==
    ASSUME Typed, [Next]_vars
    PROVE  ChildTyped'
<1> USE DEF kernelVars, childVars, tableVars, connVars, threadVars
<1>1. ChildTyped
  BY TypedParts
<1>2. CASE Kernel
  <2>1. UNCHANGED childVars
    BY <1>2 DEF Kernel, KernelActivate, KernelWithdraw, KernelRemove, KernelRelease, KernelEmit
  <2> QED
    BY <1>1, <2>1 DEF ChildTyped
<1>3. CASE UNCHANGED vars
  BY <1>1, <1>3 DEF vars, ChildTyped
<1>4. CASE RetireKill \/ Shutdown \/ ReplaceChild \/ QuiesceKill \/ \E s \in Sid : ActivateFailed(s)
  BY <1>4, KillTyped DEF RetireKill, Shutdown, ReplaceChild, QuiesceKill, ActivateFailed
<1>5. ASSUME NEW p \in Proc, ProcessExits(p) PROVE ChildTyped'
  BY <1>1, <1>5 DEF ProcessExits, ChildTyped
<1>6. CASE SpawnChild
  <2>1. ev.inst \in 0..MaxInst
    BY DEF Typed, TypeOK
  <2>2. \/ \E p \in Proc : /\ pinst' = [pinst EXCEPT ![p] = ev.inst]
                           /\ up' = [up EXCEPT ![p] = TRUE]
                           /\ child' = p /\ token' = p /\ pact' = ev.inst
        \/ token' = 0 /\ pact' = 0 /\ UNCHANGED <<pinst, up, child>>
        \/ UNCHANGED <<pinst, up, child, token, pact>>
    BY <1>6 DEF SpawnChild
  <2>3. stuck' = stuck
    BY <1>6 DEF SpawnChild
  <2> QED
    BY <1>1, <2>1, <2>2, <2>3, Bounds DEF ChildTyped
<1>7. CASE ReapFinished
  BY <1>1, <1>7, Bounds DEF ReapFinished, ChildTyped
<1>8. CASE NextEvent \/ QuiesceUnbind
  <2>1. UNCHANGED childVars
    BY <1>8 DEF NextEvent, QuiesceUnbind
  <2> QED
    BY <1>1, <2>1 DEF ChildTyped
<1>9. ASSUME NEW t \in Thread, NEW s \in Sid, TransactOpen(t, s) \/ TransactWait(t, s) \/ DropSession(t, s)
      PROVE  ChildTyped'
  <2>1. UNCHANGED childVars
    BY <1>9 DEF TransactOpen, TransactWait, DropSession, DropRemove, DropRelease
  <2> QED
    BY <1>1, <2>1 DEF ChildTyped
<1>10. ASSUME NEW s \in Sid, RegisterPublish(s) PROVE ChildTyped'
  BY <1>1, <1>10, Bounds DEF RegisterPublish, ChildTyped
<1>11. ASSUME NEW s \in Sid, NEW p \in Proc, Connect(s, p) PROVE ChildTyped'
  <2>1. UNCHANGED childVars
    BY <1>11 DEF Connect
  <2> QED
    BY <1>1, <2>1 DEF ChildTyped
<1>12. ASSUME NEW s \in Sid, ReadStep(s) PROVE ChildTyped'
  BY <1>1, <1>12, ReadMoves DEF ChildTyped
<1>13. ev.sid # 0 => ev.sid \in Sid
  BY Bounds DEF Typed, TypeOK
<1>14. CASE EventThread
  BY <1>4, <1>6, <1>7, <1>8, <1>9, <1>13, <1>14, Threads DEF EventThread
<1>15. ASSUME NEW s \in Sid, ConnStep(s) PROVE ChildTyped'
  BY <1>4, <1>9, <1>10, <1>11, <1>15, Threads DEF ConnStep, ConnThread
<1> QED
  BY <1>2, <1>3, <1>4, <1>5, <1>12, <1>14, <1>15, StepKinds DEF RestStep

\* Every step keeps the types of the tables.
LEMMA TableStep ==
    ASSUME Typed, [Next]_vars
    PROVE  TableTyped'
<1> USE DEF kernelVars, childVars, tableVars, connVars, threadVars
<1>1. TableTyped
  BY TypedParts
<1>2. CASE Kernel
  <2>1. UNCHANGED <<sessions, byInst, connVars>> /\ (handle' = handle \/ \E i \in Inst : KernelRelease(i))
    BY <1>2 DEF Kernel, KernelActivate, KernelWithdraw, KernelRemove, KernelRelease, KernelEmit
  <2>2. ASSUME NEW i \in Inst, KernelRelease(i) PROVE handle' \in [Sid -> {"none", "kernel", "listed"}]
    BY <1>1, <2>2 DEF KernelRelease, TableTyped
  <2> QED
    BY <1>1, <2>1, <2>2 DEF TableTyped
<1>3. CASE UNCHANGED vars
  BY <1>1, <1>3 DEF vars, TableTyped
<1>4. CASE RetireKill \/ Shutdown
  BY <1>1, <1>4, KillMoves DEF RetireKill, Shutdown, TableTyped
<1>5. CASE ReplaceChild \/ QuiesceKill \/ \E s \in Sid : ActivateFailed(s)
  <2>1. UNCHANGED <<tableVars, connVars>>
    BY <1>5, KillMoves DEF ReplaceChild, QuiesceKill, ActivateFailed
  <2> QED
    BY <1>1, <2>1 DEF TableTyped
<1>6. CASE SpawnChild \/ ReapFinished \/ NextEvent \/ \E p \in Proc : ProcessExits(p)
  <2>1. UNCHANGED <<tableVars, connVars>>
    BY <1>6 DEF SpawnChild, ReapFinished, NextEvent, ProcessExits
  <2> QED
    BY <1>1, <2>1 DEF TableTyped
<1>7. CASE QuiesceUnbind
  BY <1>1, <1>7, Bounds DEF QuiesceUnbind, TableTyped
<1>8. ASSUME NEW t \in Thread, NEW s \in Sid, TransactOpen(t, s) \/ TransactWait(t, s)
      PROVE  TableTyped'
  BY <1>1, <1>8, TransactMoves DEF TableTyped
<1>9. ASSUME NEW t \in Thread, NEW s \in Sid, DropSession(t, s)
      PROVE  TableTyped'
  <2>1. CASE DropRemove(t, s)
    BY <1>1, <2>1 DEF DropRemove, TableTyped
  <2>2. CASE DropRelease(t, s)
    BY <1>1, <2>2, Bounds DEF DropRelease, TableTyped
  <2> QED
    BY <1>9, <2>1, <2>2 DEF DropSession
<1>10. ASSUME NEW s \in Sid, RegisterPublish(s) PROVE TableTyped'
  BY <1>1, <1>10, Bounds DEF RegisterPublish, TableTyped
<1>11. ASSUME NEW s \in Sid, NEW p \in Proc, Connect(s, p) PROVE TableTyped'
  <2>1. Binding \in 0..MaxInst
    BY Bounds DEF Binding, Typed, TypeOK
  <2>2. UNCHANGED <<tableVars, shut>> /\ peer' = [peer EXCEPT ![s] = p]
        /\ (bnd' = bnd \/ bnd' = [bnd EXCEPT ![s] = Binding])
    BY <1>11 DEF Connect
  <2> QED
    BY <1>1, <2>1, <2>2, Bounds DEF TableTyped
<1>12. ASSUME NEW s \in Sid, PushHandle(s) \/ AcquireExternal(s) \/ ReleaseHandle(s) PROVE TableTyped'
  <2>1. UNCHANGED <<sessions, byInst, connVars>>
        /\ \E h \in {"none", "kernel", "listed"} : handle' = [handle EXCEPT ![s] = h]
    BY <1>1, <1>12 DEF PushHandle, AcquireExternal, ReleaseHandle, TableTyped
  <2> QED
    BY <1>1, <2>1 DEF TableTyped
<1>13. ASSUME NEW s \in Sid, ReadEnds(s) \/ CloseSession(s) PROVE TableTyped'
  BY <1>1, <1>13 DEF ReadEnds, CloseSession, TableTyped
<1>14. ev.sid # 0 => ev.sid \in Sid
  BY Bounds DEF Typed, TypeOK
<1>15. CASE EventThread
  BY <1>5, <1>6, <1>7, <1>8, <1>9, <1>14, <1>15, Threads DEF EventThread
<1>16. ASSUME NEW s \in Sid, ConnStep(s) PROVE TableTyped'
  BY <1>5, <1>8, <1>9, <1>10, <1>11, <1>16, Threads DEF ConnStep, ConnThread
<1>17. ASSUME NEW s \in Sid, ReadStep(s) PROVE TableTyped'
  BY <1>9, <1>12, <1>13, <1>17, Threads DEF ReadStep, ReaderThread
<1> QED
  BY <1>2, <1>3, <1>4, <1>6, <1>15, <1>16, <1>17, StepKinds DEF RestStep

\* Every step keeps the types.
LEMMA TypedStep ==
    ASSUME Typed, [Next]_vars
    PROVE  Typed'
<1>1. KernelTyped' /\ ChildTyped' /\ TableTyped' /\ ThreadsTyped' /\ shutdown' \in BOOLEAN
  BY KernelStep, ChildStep, TableStep, ThreadsStep
<1>2. ThreadsTyped' => ev'.inst \in 0..MaxInst /\ ev'.sid \in 0..MaxSess
  BY DEF ThreadsTyped, EvType
<1> QED
  BY <1>1, <1>2 DEF Typed, TypeOK, KernelTyped, ChildTyped, TableTyped, ThreadsTyped, EvPc, ConnPc, ReadPc, EvType

\* What an append and a take leave in a queue.
LEMMA Queues ==
    ASSUME NEW q \in Seq(Event), NEW x
    PROVE  /\ \A e \in Event : (x = e \/ \E n \in DOMAIN q : q[n] = x) =>
                  \E n \in DOMAIN Append(q, e) : Append(q, e)[n] = x
           /\ (q # <<>> /\ \E n \in DOMAIN q : q[n] = x) =>
                  Head(q) = x \/ \E n \in DOMAIN Tail(q) : Tail(q)[n] = x
<1>1. ASSUME NEW e \in Event, x = e \/ \E n \in DOMAIN q : q[n] = x
      PROVE  \E n \in DOMAIN Append(q, e) : Append(q, e)[n] = x
  <2>1. CASE x = e
    <3>1. Len(q) + 1 \in DOMAIN Append(q, e) /\ Append(q, e)[Len(q) + 1] = e
      OBVIOUS
    <3> QED
      BY <2>1, <3>1
  <2>2. CASE \E n \in DOMAIN q : q[n] = x
    <3>1. PICK n \in DOMAIN q : q[n] = x
      BY <2>2
    <3>2. n \in DOMAIN Append(q, e) /\ Append(q, e)[n] = x
      BY <3>1
    <3> QED
      BY <3>2
  <2> QED
    BY <1>1, <2>1, <2>2
<1>2. ASSUME q # <<>>, \E n \in DOMAIN q : q[n] = x, Head(q) # x
      PROVE  \E n \in DOMAIN Tail(q) : Tail(q)[n] = x
  <2>1. PICK n \in DOMAIN q : q[n] = x
    BY <1>2
  <2>2. n # 1 /\ n \in 1..Len(q)
    BY <1>2, <2>1
  <2>3. n - 1 \in DOMAIN Tail(q) /\ Tail(q)[n - 1] = x
    BY <1>2, <2>1, <2>2
  <2> QED
    BY <2>3
<1> QED
  BY <1>1, <1>2

\* The event that kills stays on its way until the kill itself.
LEMMA WillKillKept ==
    ASSUME Typed, [Next]_vars, ~QuiesceKill, NEW i \in Inst, WillKill(i)
    PROVE  WillKill(i)'
<1> USE DEF kernelVars, childVars, tableVars, connVars, threadVars
<1>1. evq \in Seq(Event) /\ owed \subseteq Event /\ Withdrawn(i) \in Event /\ DOMAIN pc = Thread
  BY DEF Typed, TypeOK, Event
<1>2. ASSUME UNCHANGED <<evq, ev>>, owed \subseteq owed', pc'[Ev] = pc[Ev] PROVE WillKill(i)'
  BY <1>2 DEF WillKill
<1>3. CASE RestStep
  <2>1. CASE \E e \in Event : KernelEmit(e)
    <3>1. PICK e \in Event : KernelEmit(e)
      BY <2>1
    <3>2. CASE e = Withdrawn(i)
      <4>1. evq' = Append(evq, Withdrawn(i))
        BY <3>1, <3>2 DEF KernelEmit, Withdrawn
      <4> QED
        BY <1>1, <4>1, Queues DEF WillKill
    <3>3. CASE e # Withdrawn(i)
      <4>1. (Withdrawn(i) \in owed => Withdrawn(i) \in owed') /\ pc' = pc /\ ev' = ev
        BY <3>1, <3>3 DEF KernelEmit
      <4>2. evq' = evq \/ evq' = Append(evq, e)
        BY <3>1 DEF KernelEmit
      <4> QED
        BY <1>1, <4>1, <4>2, Queues DEF WillKill
    <3> QED
      BY <3>2, <3>3
  <2>2. CASE KernelRemove
    <3>1. Removed \in Event
      BY DEF Event
    <3>2. evq' = Append(evq, Removed) /\ UNCHANGED <<owed, pc, ev>>
      BY <2>2 DEF KernelRemove
    <3> QED
      BY <1>1, <3>1, <3>2, Queues DEF WillKill
  <2>3. CASE \/ KernelActivate \/ KernelWithdraw \/ \E j \in Inst : KernelRelease(j)
             \/ RetireKill \/ Shutdown \/ UNCHANGED vars \/ \E p \in Proc : ProcessExits(p)
    <3>1. UNCHANGED <<evq, ev, pc>> /\ owed \subseteq owed'
      BY <2>3 DEF KernelActivate, KernelWithdraw, KernelRelease, RetireKill, Shutdown, KillChild, vars, ProcessExits
    <3> QED
      BY <1>2, <3>1
  <2> QED
    BY <1>3, <2>1, <2>2, <2>3 DEF RestStep, Kernel
<1>4. ASSUME NEW s \in Sid, ConnStep(s) \/ ReadStep(s) PROVE WillKill(i)'
  <2>1. UNCHANGED <<evq, ev, owed>> /\ pc'[Ev] = pc[Ev]
    BY <1>4, ConnMoves, ReadMoves, Threads
  <2> QED
    BY <1>2, <2>1
<1>5. CASE NextEvent
  <2>1. owed' = owed /\ evq # <<>> /\ evq' = Tail(evq) /\ pc[Ev] = "idle"
    BY <1>5 DEF NextEvent
  <2>2. CASE Head(evq) = Withdrawn(i)
    <3>1. i # 0
      BY Bounds
    <3>2. ev' = [ty |-> "Withdrawn", inst |-> i, sid |-> 0] /\ Goto(Ev, "quiesce")
      BY <1>5, <2>2, <3>1 DEF NextEvent, Withdrawn
    <3>3. pc'[Ev] = "quiesce"
      BY <1>1, <3>2, Threads, GotoSets
    <3> QED
      BY <3>2, <3>3 DEF WillKill
  <2>3. CASE Head(evq) # Withdrawn(i)
    <3>1. (\E n \in DOMAIN evq : evq[n] = Withdrawn(i)) => \E n \in DOMAIN evq' : evq'[n] = Withdrawn(i)
      BY <1>1, <2>1, <2>3, Queues
    <3> QED
      BY <2>1, <3>1 DEF WillKill
  <2> QED
    BY <2>2, <2>3
<1>6. CASE EventThread /\ ~NextEvent
  <2>1. UNCHANGED <<owed, evq>>
    BY <1>6, KillMoves DEF EventThread, ReplaceChild, SpawnChild, ReapFinished, QuiesceUnbind, QuiesceKill,
       TransactOpen, TransactWait, DropSession, DropRemove, DropRelease
  <2>2. ASSUME pc[Ev] \in {"quiesce", "open", "wait", "drop", "unbind", "kill"}
        PROVE  /\ pc'[Ev] \in {"open", "wait", "drop", "unbind", "kill"}
               /\ ev'.ty = ev.ty /\ ev'.inst = ev.inst
    <3>1. CASE QuiesceUnbind
      <4>1. \E l \in {"open", "kill"} : Goto(Ev, l)
        BY <3>1 DEF QuiesceUnbind
      <4>2. ev' = [ev EXCEPT !.sid = byInst[ev.inst]] /\ ev \in EvType
        BY <3>1 DEF QuiesceUnbind, Typed, EvType
      <4>3. ev'.ty = ev.ty /\ ev'.inst = ev.inst
        BY <4>2 DEF EvType
      <4> QED
        BY <1>1, <4>1, <4>3, GotoSets, Threads
    <3>2. CASE ev.sid # 0 /\ (TransactOpen(Ev, ev.sid) \/ TransactWait(Ev, ev.sid) \/ DropSession(Ev, ev.sid))
      <4>1. ev.sid \in Sid /\ AfterDrop(Ev) = "kill" /\ Ev \in Thread
        BY <3>2, Bounds, Threads DEF Typed, TypeOK, AfterDrop
      <4> QED
        BY <3>2, <4>1, TransactMoves, DropMoves
    <3>3. CASE ReplaceChild \/ SpawnChild \/ ReapFinished
      BY <2>2, <3>3 DEF ReplaceChild, SpawnChild, ReapFinished
    <3> QED
      BY <1>6, <3>1, <3>2, <3>3 DEF EventThread
  <2> QED
    BY <2>1, <2>2 DEF WillKill
<1> QED
  BY <1>3, <1>4, <1>5, <1>6, StepKinds

\* The types follow from the invariant.
LEMMA HostTyped == HostInv => Typed
  BY DEF HostInv, Typed, EventInHand

\* After a kill no process runs but the ones that resisted one.
LEMMA KillLeavesNone ==
    ASSUME HostInv, NEW b, KillChild(b)
    PROVE  \A p \in Proc : up'[p] => p \in stuck' /\ up[p]
<1>1. ChildTyped
  BY HostTyped, TypedParts
<1>2. \A p \in Proc : up[p] /\ p \notin stuck => child = p
  BY DEF HostInv, ChildrenAccounted
<1>3. child # 0 => child \in Proc
  BY <1>1, Bounds DEF ChildTyped
<1>4. CASE child # 0 /\ up' = [up EXCEPT ![child] = FALSE] /\ stuck' = stuck
  BY <1>1, <1>2, <1>3, <1>4 DEF ChildTyped
<1>5. CASE child # 0 /\ up' = up /\ stuck' = stuck \cup {child}
  BY <1>1, <1>2, <1>3, <1>5 DEF ChildTyped
<1>6. CASE child = 0 /\ up' = up /\ stuck' = stuck
  BY <1>1, <1>2, <1>6, Bounds DEF ChildTyped
<1> QED
  BY <1>4, <1>5, <1>6 DEF KillChild

\* What a step may do to the processes.
LEMMA ChildKinds ==
    ASSUME Typed, [Next]_vars
    PROVE  \/ \E b \in BOOLEAN : KillChild(b)
           \/ SpawnChild
           \/ ReapFinished
           \/ \E p \in Proc : ProcessExits(p)
           \/ UNCHANGED <<up, stuck, pinst, child>> /\ ~QuiesceKill
<1> USE DEF kernelVars, childVars, tableVars, connVars, threadVars
<1>1. QuiesceKill => \E b \in BOOLEAN : KillChild(b)
  <2>1. (pc[Ev] = "forget") \in BOOLEAN
    OBVIOUS
  <2> QED
    BY <2>1 DEF QuiesceKill
<1>2. RetireKill \/ Shutdown \/ ReplaceChild \/ (\E s \in Sid : ActivateFailed(s)) => \E b \in BOOLEAN : KillChild(b)
  BY DEF RetireKill, Shutdown, ReplaceChild, ActivateFailed
<1>3. ASSUME NEW t \in Thread, NEW s \in Sid, TransactOpen(t, s) \/ TransactWait(t, s) \/ DropSession(t, s)
      PROVE  UNCHANGED <<up, stuck, pinst, child>>
  BY <1>3 DEF TransactOpen, TransactWait, DropSession, DropRemove, DropRelease
<1>4. ev.sid # 0 => ev.sid \in Sid
  BY Bounds DEF Typed, TypeOK
<1>5. CASE EventThread
  <2>1. NextEvent \/ QuiesceUnbind => UNCHANGED <<up, stuck, pinst, child>>
    BY DEF NextEvent, QuiesceUnbind
  <2> QED
    BY <1>1, <1>2, <1>3, <1>4, <1>5, <2>1, Threads DEF EventThread
<1>6. ASSUME NEW s \in Sid, ConnStep(s)
      PROVE  (\E b \in BOOLEAN : KillChild(b)) \/ UNCHANGED <<up, stuck, pinst, child>>
  <2>1. (RegisterPublish(s) \/ \E p \in Proc : Connect(s, p)) => UNCHANGED <<up, stuck, pinst, child>>
    BY DEF RegisterPublish, Connect
  <2> QED
    BY <1>2, <1>3, <1>6, <2>1, Threads DEF ConnStep, ConnThread
<1>7. ASSUME NEW s \in Sid, ReadStep(s) PROVE UNCHANGED <<up, stuck, pinst, child>>
  BY <1>7, ReadMoves
<1>8. Kernel \/ UNCHANGED vars => UNCHANGED <<up, stuck, pinst, child>>
  BY DEF Kernel, KernelActivate, KernelWithdraw, KernelRemove, KernelRelease, KernelEmit, vars
<1> QED
  BY <1>1, <1>2, <1>5, <1>6, <1>7, <1>8, StepKinds DEF RestStep

\* Processes are numbered in order: the next one has not been spawned.
LEMMA NextUnspawned ==
    ASSUME ProcessesInOrder
    PROVE  /\ Cardinality(Spawned) \in Nat
           /\ Cardinality(Spawned) + 1 \notin Spawned
           /\ 1..Cardinality(Spawned) \subseteq Spawned
<1>1. MaxProc \in Nat /\ Spawned \subseteq 1..MaxProc /\ IsFiniteSet(1..MaxProc)
  <2>1. MaxProc \in Nat
    BY HostAssumption
  <2> QED
    BY <2>1, FS_Interval DEF Spawned, Proc
<1>2. IsFiniteSet(Spawned) /\ Cardinality(Spawned) \in Nat
  BY <1>1, FS_Subset, FS_CardinalityType
<1>3. PICK n \in Nat : n = Cardinality(Spawned)
  BY <1>2
<1>4. n + 1 \notin Spawned
  <2>1. SUFFICES ASSUME n + 1 \in Spawned PROVE FALSE
    OBVIOUS
  <2>2. 1..(n + 1) \subseteq Spawned
    BY <2>1 DEF ProcessesInOrder
  <2>3. Cardinality(1..(n + 1)) <= Cardinality(Spawned)
    BY <1>2, <2>2, FS_Subset
  <2>4. Cardinality(1..(n + 1)) = n + 1
    BY FS_Interval
  <2> QED
    BY <1>3, <2>3, <2>4
<1>5. ASSUME NEW k \in 1..n, k \notin Spawned PROVE FALSE
  <2>1. \A l \in Spawned : l \in Nat /\ l < k /\ l >= 1
    BY <1>1, <1>5 DEF ProcessesInOrder
  <2>2. Spawned \subseteq 1..(k - 1)
    BY <2>1
  <2>3. IsFiniteSet(1..(k - 1)) /\ Cardinality(1..(k - 1)) = k - 1
    BY FS_Interval
  <2>4. Cardinality(Spawned) <= k - 1
    BY <2>2, <2>3, FS_Subset
  <2> QED
    BY <1>3, <2>4
<1> QED
  BY <1>3, <1>4, <1>5

\* What the event thread spawns is a new process of the current activation.
LEMMA SpawnEffect ==
    ASSUME HostInv, SpawnChild
    PROVE  /\ stuck' = stuck
           /\ \/ UNCHANGED <<pinst, up, child>>
              \/ \E p \in Proc : /\ p \notin Spawned /\ 1..p \subseteq Spawned \cup {p}
                                 /\ ev.inst \in Inst /\ IsActive(ev.inst)
                                 /\ pinst' = [pinst EXCEPT ![p] = ev.inst]
                                 /\ up' = [up EXCEPT ![p] = TRUE]
                                 /\ child' = p
<1>1. stuck' = stuck
  BY DEF SpawnChild
<1>2. ev.inst \in Inst
  BY HostTyped, Bounds DEF Typed, TypeOK, SpawnChild
<1>3. CASE UNCHANGED <<pinst, up, child>>
  BY <1>1, <1>3
<1>4. CASE ~UNCHANGED <<pinst, up, child>>
  <2>1. PICK n \in Nat : n = Cardinality(Spawned)
    BY NextUnspawned DEF HostInv
  <2>2. n + 1 \notin Spawned /\ 1..n \subseteq Spawned
    BY <2>1, NextUnspawned DEF HostInv
  <2>3. /\ IsActive(ev.inst) /\ n + 1 \in Proc
        /\ pinst' = [pinst EXCEPT ![n + 1] = ev.inst]
        /\ up' = [up EXCEPT ![n + 1] = TRUE]
        /\ child' = n + 1
    BY <1>4, <2>1 DEF SpawnChild, MaySpawn, Spawned
  <2>4. 1..(n + 1) \subseteq Spawned \cup {n + 1}
    BY <2>2
  <2> QED
    BY <1>1, <1>2, <2>2, <2>3, <2>4
<1> QED
  BY <1>3, <1>4

\* Every step keeps the processes in order, and only spawned ones run.
LEMMA OrderStep ==
    ASSUME HostInv, [Next]_vars
    PROVE  ProcessesInOrder'
<1>1. ProcessesInOrder /\ ChildTyped
  BY HostTyped, TypedParts DEF HostInv
<1>2. ASSUME pinst' = pinst, \A p \in Proc : up'[p] => up[p] PROVE ProcessesInOrder'
  BY <1>1, <1>2 DEF ProcessesInOrder, Spawned
<1>3. ASSUME NEW b \in BOOLEAN, KillChild(b) PROVE ProcessesInOrder'
  BY <1>2, <1>3, KillLeavesNone, KillMoves
<1>4. CASE SpawnChild
  <2>1. CASE UNCHANGED <<pinst, up, child>>
    BY <1>2, <2>1
  <2>2. CASE ~UNCHANGED <<pinst, up, child>>
    <3>1. PICK p \in Proc : /\ p \notin Spawned /\ 1..p \subseteq Spawned \cup {p}
                            /\ ev.inst \in Inst
                            /\ pinst' = [pinst EXCEPT ![p] = ev.inst]
                            /\ up' = [up EXCEPT ![p] = TRUE]
      BY <1>4, <2>2, SpawnEffect
    <3>2. Spawned' = Spawned \cup {p}
      BY <1>1, <3>1, Bounds DEF Spawned, ChildTyped
    <3>3. \A q \in Proc : up'[q] => q = p \/ up[q]
      BY <1>1, <3>1 DEF ChildTyped
    <3> QED
      BY <1>1, <3>1, <3>2, <3>3 DEF ProcessesInOrder
  <2> QED
    BY <2>1, <2>2
<1>5. CASE ReapFinished
  BY <1>2, <1>5 DEF ReapFinished
<1>6. ASSUME NEW p \in Proc, ProcessExits(p) PROVE ProcessesInOrder'
  BY <1>1, <1>2, <1>6 DEF ProcessExits, ChildTyped
<1>7. CASE UNCHANGED <<up, stuck, pinst, child>>
  BY <1>2, <1>7
<1> QED
  BY <1>3, <1>4, <1>5, <1>6, <1>7, ChildKinds, HostTyped

\* When the event thread is about to spawn, only processes run that resisted a kill.
LEMMA InHandStep ==
    ASSUME HostInv, [Next]_vars
    PROVE  EventInHand'
<1>1. Typed /\ Typed' /\ ChildTyped /\ EventInHand
  BY HostTyped, TypedStep, TypedParts DEF HostInv
<1>2. SUFFICES ASSUME pc'[Ev] = "spawn", NEW p \in Proc, up'[p] PROVE p \in stuck'
  BY <1>1 DEF EventInHand, Typed
<1>3. CASE pc[Ev] = "spawn"
  <2>1. \A q \in Proc : up[q] => q \in stuck
    BY <1>1, <1>3 DEF EventInHand
  <2>2. CASE \E b \in BOOLEAN : KillChild(b)
    BY <1>2, <2>2, KillLeavesNone
  <2>3. CASE SpawnChild \/ ReapFinished
    <3>1. pc'[Ev] = "reap"
      BY <1>1, <1>3, <2>3, GotoSets, Threads DEF SpawnChild, ReapFinished, Typed, TypeOK
    <3> QED
      BY <1>2, <3>1
  <2>4. CASE UNCHANGED <<up, stuck, pinst, child>>
    BY <1>2, <2>1, <2>4
  <2>5. ASSUME NEW q \in Proc, ProcessExits(q) PROVE p \in stuck'
    BY <1>1, <1>2, <2>1, <2>5 DEF ProcessExits, ChildTyped
  <2> QED
    BY <1>1, <2>2, <2>3, <2>4, <2>5, ChildKinds
<1>4. CASE pc[Ev] # "spawn"
  <2>1. EventThread
    BY <1>1, <1>2, <1>4, StepKinds, RestMoves, ConnMoves, ReadMoves, Threads
  <2>2. ReplaceChild
    <3>1. DOMAIN pc = Thread /\ Ev \in Thread
      BY <1>1, Threads DEF Typed, TypeOK
    <3>2. CASE NextEvent \/ ReapFinished \/ QuiesceUnbind \/ QuiesceKill \/ SpawnChild
      <4>1. \E l \in EvPc \ {"spawn"} : Goto(Ev, l)
        BY <3>2 DEF NextEvent, ReapFinished, QuiesceUnbind, QuiesceKill, SpawnChild, EvPc
      <4> QED
        BY <1>2, <3>1, <4>1, GotoSets
    <3>3. CASE ev.sid # 0 /\ (TransactOpen(Ev, ev.sid) \/ TransactWait(Ev, ev.sid) \/ DropSession(Ev, ev.sid))
      <4>1. ev.sid \in Sid /\ AfterDrop(Ev) = "kill"
        BY <1>1, <3>3, Bounds DEF Typed, TypeOK, AfterDrop
      <4> QED
        BY <1>1, <1>2, <3>1, <3>3, <4>1, TransactMoves, DropMoves
    <3> QED
      BY <2>1, <3>2, <3>3 DEF EventThread
  <2> QED
    BY <1>2, <2>2, KillLeavesNone DEF ReplaceChild
<1> QED
  BY <1>3, <1>4

\* Every step keeps the account of the children.
LEMMA ChildrenStep ==
    ASSUME HostInv, [Next]_vars
    PROVE  ChildrenAccounted'
<1> USE DEF kernelVars, childVars, tableVars, connVars, threadVars
<1>1. Typed /\ ChildTyped /\ KernelTyped /\ ProcessesInOrder /\ ChildrenAccounted
  BY HostTyped, TypedParts DEF HostInv
<1>2. \A p \in Proc : up[p] => pinst[p] \in Inst
  BY <1>1, Bounds DEF ProcessesInOrder, Spawned, ChildTyped
<1>3. ASSUME NEW b \in BOOLEAN, KillChild(b) PROVE ChildrenAccounted'
  BY <1>3, KillLeavesNone DEF ChildrenAccounted
<1>4. CASE ~\E b \in BOOLEAN : KillChild(b)
  <2>1. ~QuiesceKill
    BY <1>4 DEF QuiesceKill
  <2>2. ~Shutdown /\ ~RetireKill
    BY <1>4 DEF Shutdown, RetireKill
  <2>3. shutdown' = shutdown
    <3>1. Kernel \/ UNCHANGED vars \/ (\E p \in Proc : ProcessExits(p)) => shutdown' = shutdown
      BY DEF Kernel, KernelActivate, KernelWithdraw, KernelRemove, KernelRelease, KernelEmit, vars, ProcessExits
    <3> QED
      BY <1>1, <2>2, <3>1, StepKinds, EventMoves, ConnMoves, ReadMoves DEF RestStep
  <2>4. ASSUME NEW i \in Inst, kst'[i] = "Retired", kst[i] = "Retired" => WillKill(i)
        PROVE  WillKill(i)'
    <3>1. CASE kst[i] = "Retired"
      BY <1>1, <2>1, <2>4, <3>1, WillKillKept
    <3>2. CASE kst[i] # "Retired"
      <4>1. ~UNCHANGED kst
        BY <2>4, <3>2
      <4>2. Kernel
        <5>1. UNCHANGED vars \/ (\E p \in Proc : ProcessExits(p)) => kst' = kst
          BY DEF vars, ProcessExits
        <5> QED
          BY <1>1, <2>2, <4>1, <5>1, StepKinds, EventMoves, ConnMoves, ReadMoves DEF RestStep
      <4>3. KernelActivate \/ KernelWithdraw
        BY <4>1, <4>2 DEF Kernel, KernelRemove, KernelRelease, KernelEmit
      <4>4. CASE KernelActivate
        <5>1. PICK n \in Inst : n = cur + 1
          BY <1>1, <4>4, Bounds DEF KernelActivate, KernelTyped, Inst
        <5>2. kst' = [kst EXCEPT ![n] = "Active"]
          BY <4>4, <5>1 DEF KernelActivate
        <5> QED
          BY <1>1, <2>4, <3>2, <5>2 DEF KernelTyped
      <4>5. CASE KernelWithdraw
        <5>1. i = cur /\ Withdrawn(cur) \in owed'
          BY <1>1, <2>4, <3>2, <4>5, Bounds DEF KernelWithdraw, KernelTyped
        <5> QED
          BY <5>1 DEF WillKill
      <4> QED
        BY <4>3, <4>4, <4>5
    <3> QED
      BY <3>1, <3>2
  <2>5. ASSUME pinst' = pinst, stuck' = stuck,
               \A p \in Proc : up'[p] => up[p],
               child' = child \/ \A p \in Proc : up'[p] => child # p
        PROVE  ChildrenAccounted'
    <3>1. SUFFICES ASSUME NEW p \in Proc, up'[p], p \notin stuck'
                   PROVE  /\ child' = p
                          /\ (kst'[pinst'[p]] = "Retired" /\ ~shutdown') => WillKill(pinst[p])'
      <4>1. \A p \in Proc : pinst'[p] = pinst[p]
        BY <2>5
      <4> QED
        BY <2>5, <4>1, <3>1 DEF ChildrenAccounted
    <3>2. child = p /\ (kst[pinst[p]] = "Retired" /\ ~shutdown => WillKill(pinst[p]))
      BY <1>1, <2>5, <3>1 DEF ChildrenAccounted
    <3>3. PICK i \in Inst : i = pinst[p] /\ i = pinst'[p]
      BY <1>2, <2>5, <3>1
    <3>4. (kst'[i] = "Retired" /\ ~shutdown') => WillKill(i)'
      BY <2>3, <2>4, <3>2, <3>3
    <3> QED
      BY <2>5, <3>1, <3>2, <3>3, <3>4
  <2>6. CASE SpawnChild
    <3>1. CASE UNCHANGED <<pinst, up, child>>
      BY <2>5, <2>6, <3>1, SpawnEffect
    <3>2. CASE ~UNCHANGED <<pinst, up, child>>
      <4>1. PICK p \in Proc : /\ IsActive(ev.inst) /\ ev.inst \in Inst
                              /\ pinst' = [pinst EXCEPT ![p] = ev.inst]
                              /\ up' = [up EXCEPT ![p] = TRUE]
                              /\ child' = p
        BY <2>6, <3>2, SpawnEffect
      <4>2. stuck' = stuck /\ kst' = kst
        BY <2>6 DEF SpawnChild
      <4>3. \A q \in Proc : up[q] => q \in stuck
        BY <2>6 DEF SpawnChild, HostInv, EventInHand
      <4>4. \A q \in Proc : up'[q] /\ q \notin stuck' => q = p
        BY <1>1, <4>1, <4>2, <4>3 DEF ChildTyped
      <4>5. pinst'[p] = ev.inst /\ kst'[ev.inst] = "Active"
        BY <1>1, <4>1, <4>2 DEF ChildTyped, IsActive
      <4> QED
        BY <4>1, <4>4, <4>5 DEF ChildrenAccounted
    <3> QED
      BY <3>1, <3>2
  <2>7. CASE ReapFinished
    <3>1. UNCHANGED <<pinst, stuck, up>> /\ (child' = child \/ ~up[child])
      BY <2>7 DEF ReapFinished
    <3> QED
      BY <2>5, <3>1
  <2>8. ASSUME NEW p \in Proc, ProcessExits(p) PROVE ChildrenAccounted'
    BY <1>1, <2>5, <2>8 DEF ProcessExits, ChildTyped
  <2>9. CASE UNCHANGED <<up, stuck, pinst, child>>
    BY <2>5, <2>9
  <2> QED
    BY <1>1, <1>4, <2>6, <2>7, <2>8, <2>9, ChildKinds
<1> QED
  BY <1>3, <1>4

\* ListedHandlesEnd for one session.
Listed(s) == handle[s] = "listed" => s \in sessions \/ Dropping(s)

\* A step that lists no handle, drops no session and ends no drop keeps Listed.
LEMMA ListedSame ==
    ASSUME NEW s \in Sid, Listed(s),
           handle'[s] = "listed" => handle[s] = "listed",
           s \in sessions => s \in sessions',
           ev'.sid = ev.sid \/ pc[Ev] # "unbind",
           \A t \in {Ev, Conn(s), Reader(s)} : pc[t] = "unbind" => pc'[t] = "unbind"
    PROVE  Listed(s)'
<1>1. CASE s \in sessions
  BY <1>1 DEF Listed
<1>2. CASE handle'[s] = "listed" /\ s \notin sessions
  <2>1. PICK t \in {Ev, Conn(s), Reader(s)} : pc[t] = "unbind" /\ (t = Ev => ev.sid = s)
    BY <1>2 DEF Listed, Dropping
  <2>2. pc'[t] = "unbind" /\ (t = Ev => ev'.sid = s)
    BY <2>1
  <2> QED
    BY <2>1, <2>2 DEF Listed, Dropping
<1> QED
  BY <1>1, <1>2 DEF Listed

\* The threads that drop session r: its own two, and the event thread with it in hand.
DropsFor(t, r) == t \in {Ev, Conn(r), Reader(r)} /\ (t = Ev => ev.sid = r)

\* A drop keeps the handles of every session accounted for.
LEMMA ListedDrop ==
    ASSUME Typed, NEW s \in Sid, Listed(s), NEW r \in Sid, NEW t, DropsFor(t, r), DropSession(t, r)
    PROVE  Listed(s)'
<1>1. /\ t \in Thread /\ DOMAIN pc = Thread /\ handle \in [Sid -> {"none", "kernel", "listed"}]
      /\ Ev \in Thread /\ Conn(s) \in Thread /\ Reader(s) \in Thread
  BY Threads DEF DropsFor, Typed, TypeOK
<1>2. UNCHANGED ev /\ \A u \in Thread \ {t} : pc'[u] = pc[u]
  BY <1>1, DropMoves
<1>3. CASE DropRemove(t, r)
  <2>1. pc[t] = "drop" /\ sessions' = sessions \ {r} /\ handle' = handle
    BY <1>3 DEF DropRemove
  <2>2. \A u \in {Ev, Conn(s), Reader(s)} : pc[u] = "unbind" => pc'[u] = "unbind"
    BY <1>1, <1>2, <2>1
  <2>3. CASE s = r /\ r \in sessions
    <3>1. Goto(t, "unbind")
      BY <1>3, <2>3 DEF DropRemove
    <3>2. pc'[t] = "unbind"
      BY <1>1, <3>1, GotoSets
    <3> QED
      BY <1>2, <2>3, <3>2 DEF Listed, Dropping, DropsFor
  <2>4. CASE s # r \/ r \notin sessions
    BY <1>2, <2>1, <2>2, <2>4, ListedSame
  <2> QED
    BY <2>3, <2>4
<1>4. CASE DropRelease(t, r)
  <2>1. /\ pc[t] = "unbind" /\ sessions' = sessions
        /\ handle' = [handle EXCEPT ![r] = IF @ = "listed" THEN "none" ELSE @]
    BY <1>4 DEF DropRelease
  <2>2. CASE s = r
    <3>1. handle'[s] # "listed"
      BY <1>1, <2>1, <2>2
    <3> QED
      BY <3>1 DEF Listed
  <2>3. CASE s # r
    <3>1. handle'[s] = handle[s]
      BY <1>1, <2>1, <2>3
    <3>2. CASE s \in sessions
      BY <2>1, <3>2 DEF Listed
    <3>3. CASE handle'[s] = "listed" /\ s \notin sessions
      <4>1. PICK u \in {Ev, Conn(s), Reader(s)} : pc[u] = "unbind" /\ (u = Ev => ev.sid = s)
        BY <3>1, <3>3 DEF Listed, Dropping
      <4>2. u # t
        BY <2>3, <4>1, Threads DEF DropsFor
      <4>3. pc'[u] = "unbind"
        BY <1>1, <1>2, <4>1, <4>2
      <4> QED
        BY <1>2, <4>1, <4>3 DEF Listed, Dropping
    <3> QED
      BY <3>2, <3>3 DEF Listed
  <2> QED
    BY <2>2, <2>3
<1> QED
  BY <1>3, <1>4 DEF DropSession

\* Every step keeps the listed handles of a session accounted for.
LEMMA ListedStep ==
    ASSUME Typed, [Next]_vars, NEW s \in Sid, Listed(s), Registered(s)
    PROVE  Listed(s)'
<1> USE DEF kernelVars, childVars, tableVars, connVars, threadVars
<1>1. /\ DOMAIN pc = Thread /\ handle \in [Sid -> {"none", "kernel", "listed"}]
      /\ Ev \in Thread /\ Conn(s) \in Thread /\ Reader(s) \in Thread
  BY Threads DEF Typed, TypeOK
<1>2. CASE RestStep
  <2>1. handle'[s] = "listed" => handle[s] = "listed"
    BY <1>2 DEF RestStep, Kernel, KernelActivate, KernelWithdraw, KernelRemove, KernelRelease, KernelEmit,
       RetireKill, Shutdown, KillChild, ProcessExits, vars
  <2> QED
    BY <1>2, <2>1, RestMoves, ListedSame
<1>3. ASSUME NEW t \in Thread, NEW r \in Sid, TransactOpen(t, r) \/ TransactWait(t, r) PROVE Listed(s)'
  <2>1. /\ pc[t] \in {"open", "wait"} /\ \A u \in Thread \ {t} : pc'[u] = pc[u]
        /\ UNCHANGED <<handle, sessions, ev>>
    BY <1>3, TransactMoves
  <2>2. \A u \in {Ev, Conn(s), Reader(s)} : pc[u] = "unbind" => pc'[u] = "unbind"
    BY <1>1, <2>1
  <2> QED
    BY <2>1, <2>2, ListedSame
<1>4. CASE EventThread
  <2>1. CASE NextEvent \/ ReplaceChild \/ SpawnChild \/ ReapFinished \/ QuiesceUnbind \/ QuiesceKill
    <3>1. pc[Ev] # "unbind" /\ UNCHANGED <<handle, sessions>>
      BY <2>1, KillMoves DEF NextEvent, ReplaceChild, SpawnChild, ReapFinished, QuiesceUnbind, QuiesceKill
    <3>2. \A u \in {Ev, Conn(s), Reader(s)} : pc[u] = "unbind" => pc'[u] = "unbind"
      BY <1>1, <1>4, <3>1, EventMoves
    <3> QED
      BY <3>1, <3>2, ListedSame
  <2>2. CASE ev.sid # 0 /\ (TransactOpen(Ev, ev.sid) \/ TransactWait(Ev, ev.sid) \/ DropSession(Ev, ev.sid))
    <3>1. ev.sid \in Sid /\ DropsFor(Ev, ev.sid)
      BY <2>2, Bounds DEF Typed, TypeOK, DropsFor
    <3> QED
      BY <1>1, <1>3, <2>2, <3>1, ListedDrop
  <2> QED
    BY <1>4, <2>1, <2>2 DEF EventThread
<1>5. ASSUME NEW r \in Sid, ConnStep(r) PROVE Listed(s)'
  <2>1. DropsFor(Conn(r), r) /\ Conn(r) \in Thread
    BY Threads DEF DropsFor
  <2>2. CASE RegisterPublish(r)
    <3>1. pc[Conn(r)] = "publish" /\ handle' = handle /\ sessions' = sessions \cup {r} /\ ev' = ev
      BY <2>2 DEF RegisterPublish
    <3>2. CASE r = s
      BY <3>1, <3>2 DEF Listed
    <3>3. CASE r # s
      <4>1. \A u \in {Ev, Conn(s), Reader(s)} : pc'[u] = pc[u]
        BY <1>1, <1>5, <3>3, ConnMoves, Threads
      <4> QED
        BY <3>1, <4>1, ListedSame
    <3> QED
      BY <3>2, <3>3
  <2>3. CASE ActivateFailed(r)
    <3>1. pc[Conn(r)] = "kill" /\ UNCHANGED <<handle, sessions, ev>>
      BY <2>3, KillMoves DEF ActivateFailed
    <3>2. \A u \in Thread \ {Conn(r)} : pc'[u] = pc[u]
      BY <1>1, <2>1, <2>3, GotoSets DEF ActivateFailed
    <3>3. \A u \in {Ev, Conn(s), Reader(s)} : pc[u] = "unbind" => pc'[u] = "unbind"
      BY <1>1, <3>1, <3>2
    <3> QED
      BY <3>1, <3>3, ListedSame
  <2>4. ASSUME NEW p \in Proc, Connect(r, p) PROVE Listed(s)'
    <3>1. UNCHANGED <<handle, sessions, ev>> /\ \E l \in {"publish", "end"} : Goto(Conn(r), l)
      BY <2>4 DEF Connect
    <3>2. pc'[Conn(r)] \in {"publish", "end"} /\ \A u \in Thread \ {Conn(r)} : pc'[u] = pc[u]
      BY <1>1, <2>1, <3>1, GotoSets
    <3>3. pc[Conn(r)] # "unbind" \/ r # s
      BY <2>4 DEF Connect, Registered
    <3>4. \A u \in {Ev, Conn(s), Reader(s)} : pc[u] = "unbind" => pc'[u] = "unbind"
      BY <1>1, <3>2, <3>3, Threads
    <3> QED
      BY <3>1, <3>4, ListedSame
  <2> QED
    BY <1>3, <1>5, <2>1, <2>2, <2>3, <2>4, ListedDrop DEF ConnStep, ConnThread
<1>6. ASSUME NEW r \in Sid, ReadStep(r) PROVE Listed(s)'
  <2>1. DropsFor(Reader(r), r) /\ Reader(r) \in Thread
    BY Threads DEF DropsFor
  <2>2. CASE PushHandle(r) \/ AcquireExternal(r) \/ ReadEnds(r) \/ CloseSession(r) \/ ReleaseHandle(r)
    <3>1. pc[Reader(r)] \in {"run", "push"} /\ UNCHANGED <<sessions, ev>>
      BY <2>2 DEF PushHandle, AcquireExternal, ReadEnds, CloseSession, ReleaseHandle
    <3>2. \A u \in {Ev, Conn(s), Reader(s)} : pc[u] = "unbind" => pc'[u] = "unbind"
      BY <1>1, <1>6, <3>1, ReadMoves
    <3>3. handle'[s] = "listed" => handle[s] = "listed" \/ s \in sessions
      <4>1. ReadEnds(r) \/ CloseSession(r) => handle' = handle
        BY DEF ReadEnds, CloseSession
      <4>2. AcquireExternal(r) \/ ReleaseHandle(r) => \E h \in {"none", "kernel"} : handle' = [handle EXCEPT ![r] = h]
        BY DEF AcquireExternal, ReleaseHandle
      <4>3. PushHandle(r) => handle' = [handle EXCEPT ![r] = IF @ = "kernel" /\ r \in sessions THEN "listed" ELSE @]
        BY DEF PushHandle
      <4> QED
        BY <1>1, <2>2, <4>1, <4>2, <4>3
    <3>4. CASE s \in sessions
      BY <3>1, <3>4 DEF Listed
    <3>5. CASE s \notin sessions
      BY <3>1, <3>2, <3>3, <3>5, ListedSame
    <3> QED
      BY <3>4, <3>5
  <2> QED
    BY <1>6, <2>1, <2>2, ListedDrop DEF ReadStep, ReaderThread
<1> QED
  BY <1>2, <1>4, <1>5, <1>6, StepKinds

\* Connecting, a session is not in the table; registered, it is bound to the
\* activation of its process; and a thread that takes it out is left.
LEMMA RegisteredStep ==
    ASSUME HostInv, [Next]_vars, NEW s \in Sid
    PROVE  Registered(s)'
<1> USE DEF kernelVars, childVars, tableVars, connVars, threadVars
<1>1. Typed /\ ChildTyped /\ TableTyped /\ Registered(s) /\ DOMAIN pc = Thread
  BY HostTyped, TypedParts DEF HostInv, ThreadsTyped
<1>2. Ev \in Thread /\ Conn(s) \in Thread /\ Reader(s) \in Thread /\ Conn(s) # Reader(s)
  BY Threads
<1>3. ASSUME UNCHANGED <<pinst, bnd, peer>>, s \in sessions' => s \in sessions,
             pc'[Conn(s)] = pc[Conn(s)], pc'[Reader(s)] = pc[Reader(s)]
      PROVE  Registered(s)'
  BY <1>1, <1>3 DEF Registered
<1>4. CASE RestStep
  <2>1. pinst' = pinst
    BY <1>4, KillMoves DEF RestStep, Kernel, KernelActivate, KernelWithdraw, KernelRemove, KernelRelease, KernelEmit,
       RetireKill, Shutdown, ProcessExits, vars
  <2> QED
    BY <1>3, <1>4, <2>1, RestMoves
<1>5. CASE EventThread
  <2>1. UNCHANGED <<bnd, peer>> /\ pc'[Conn(s)] = pc[Conn(s)] /\ pc'[Reader(s)] = pc[Reader(s)]
    BY <1>1, <1>2, <1>5, EventMoves, Threads
  <2>2. sessions' \subseteq sessions
    BY <1>5, KillMoves DEF EventThread, NextEvent, ReplaceChild, SpawnChild, ReapFinished, QuiesceUnbind, QuiesceKill,
       TransactOpen, TransactWait, DropSession, DropRemove, DropRelease
  <2>3. CASE SpawnChild
    <3>1. CASE UNCHANGED <<pinst, up, child>>
      BY <1>3, <2>1, <2>2, <3>1
    <3>2. CASE ~UNCHANGED <<pinst, up, child>>
      <4>1. PICK p \in Proc : p \notin Spawned /\ pinst' = [pinst EXCEPT ![p] = ev.inst]
        BY <2>3, <3>2, SpawnEffect
      <4>2. pinst[p] = 0
        BY <4>1 DEF Spawned
      <4>3. peer[s] # 0 => peer[s] \in Proc
        BY <1>1, Bounds DEF TableTyped
      <4>4. bnd[s] # 0 /\ peer[s] # 0 /\ pinst[peer[s]] = bnd[s] => pinst'[peer[s]] = bnd[s]
        BY <1>1, <4>1, <4>2, <4>3 DEF ChildTyped
      <4> QED
        BY <1>1, <2>1, <2>2, <4>4 DEF Registered
    <3> QED
      BY <3>1, <3>2
  <2>4. CASE ~SpawnChild
    <3>1. pinst' = pinst
      BY <1>5, <2>4, KillMoves DEF EventThread, NextEvent, ReplaceChild, ReapFinished, QuiesceUnbind, QuiesceKill,
         TransactOpen, TransactWait, DropSession, DropRemove, DropRelease
    <3> QED
      BY <1>3, <2>1, <2>2, <3>1
  <2> QED
    BY <2>3, <2>4
<1>6. ASSUME NEW r \in Sid, r # s, ConnStep(r) PROVE Registered(s)'
  <2>1. pinst' = pinst /\ pc'[Conn(s)] = pc[Conn(s)] /\ pc'[Reader(s)] = pc[Reader(s)]
    BY <1>1, <1>2, <1>6, ConnMoves, Threads
  <2>2. (s \in sessions' => s \in sessions) /\ bnd'[s] = bnd[s] /\ peer'[s] = peer[s]
    BY <1>1, <1>6, KillMoves DEF ConnStep, ConnThread, RegisterPublish, ActivateFailed, Connect,
       TransactOpen, TransactWait, DropSession, DropRemove, DropRelease, TableTyped
  <2> QED
    BY <1>1, <2>1, <2>2 DEF Registered
<1>7. CASE ConnStep(s)
  <2>1. pinst' = pinst
    BY <1>1, <1>7, ConnMoves
  <2>2. ASSUME NEW p \in Proc, Connect(s, p) PROVE Registered(s)'
    <3>1. /\ s \notin sessions /\ sessions' = sessions
          /\ peer' = [peer EXCEPT ![s] = p] /\ p # 0 /\ peer'[s] = p
      BY <1>1, <2>2, Bounds DEF Connect, Registered, TableTyped
    <3>2. CASE Binding # 0 /\ pinst[p] = Binding /\ bnd' = [bnd EXCEPT ![s] = Binding]
      <4>1. bnd'[s] = Binding
        BY <1>1, <3>2 DEF TableTyped
      <4> QED
        BY <2>1, <3>1, <3>2, <4>1 DEF Registered
    <3>3. CASE Goto(Conn(s), "end")
      BY <1>1, <1>2, <3>1, <3>3, GotoSets DEF Registered
    <3> QED
      BY <2>2, <3>2, <3>3 DEF Connect
  <2>3. CASE RegisterPublish(s)
    <3>1. UNCHANGED <<bnd, peer>> /\ pc[Conn(s)] = "publish"
      BY <2>3 DEF RegisterPublish
    <3>2. \/ pc' = [pc EXCEPT ![Conn(s)] = "open", ![Reader(s)] = "run"]
          \/ pc' = [pc EXCEPT ![Conn(s)] = "drop"]
      BY <2>3 DEF RegisterPublish
    <3>3. pc'[Reader(s)] = "run" \/ pc'[Conn(s)] = "drop"
      BY <1>1, <1>2, <3>2
    <3> QED
      BY <1>1, <2>1, <3>1, <3>3 DEF Registered
  <2>4. CASE ActivateFailed(s) \/ TransactOpen(Conn(s), s) \/ TransactWait(Conn(s), s)
    <3>1. UNCHANGED <<bnd, peer, sessions>> /\ pc[Conn(s)] \in {"kill", "open", "wait"}
      BY <2>4, KillMoves DEF ActivateFailed, TransactOpen, TransactWait
    <3>2. ActivateFailed(s) => pc'[Conn(s)] # "publish" /\ pc'[Reader(s)] = pc[Reader(s)]
      BY <1>1, <1>2, GotoSets DEF ActivateFailed
    <3>3. TransactOpen(Conn(s), s) \/ TransactWait(Conn(s), s) =>
             pc'[Conn(s)] # "publish" /\ pc'[Reader(s)] = pc[Reader(s)]
      BY <1>1, <1>2, TransactMoves
    <3> QED
      BY <1>1, <2>1, <2>4, <3>1, <3>2, <3>3 DEF Registered
  <2>5. CASE DropSession(Conn(s), s)
    <3>1. /\ UNCHANGED <<bnd, peer>> /\ pc'[Reader(s)] = pc[Reader(s)] /\ pc'[Conn(s)] # "publish"
          /\ pc[Conn(s)] \in {"drop", "unbind"}
      BY <1>1, <1>2, <2>5, DropMoves DEF AfterDrop
    <3>2. s \in sessions' => s \in sessions /\ pc[Conn(s)] = "unbind"
      BY <2>5 DEF DropSession, DropRemove, DropRelease
    <3> QED
      BY <1>1, <2>1, <3>1, <3>2 DEF Registered
  <2> QED
    BY <1>7, <2>2, <2>3, <2>4, <2>5 DEF ConnStep, ConnThread
<1>8. ASSUME NEW r \in Sid, ReadStep(r) PROVE Registered(s)'
  <2>1. UNCHANGED <<pinst, bnd, peer>> /\ pc'[Conn(s)] = pc[Conn(s)] /\ (r # s => pc'[Reader(s)] = pc[Reader(s)])
    BY <1>1, <1>2, <1>8, ReadMoves, Threads
  <2>2. sessions' \subseteq sessions
    BY <1>8 DEF ReadStep, ReaderThread, PushHandle, AcquireExternal, ReadEnds, CloseSession, ReleaseHandle,
       DropSession, DropRemove, DropRelease
  <2>3. CASE r # s
    BY <1>3, <2>1, <2>2, <2>3
  <2>4. CASE r = s /\ DropSession(Reader(s), s)
    <3>1. s \in sessions' => s \in sessions /\ pc[Reader(s)] = "unbind"
      BY <2>4 DEF DropSession, DropRemove, DropRelease
    <3> QED
      BY <1>1, <2>1, <3>1 DEF Registered
  <2>5. CASE r = s /\ ~DropSession(Reader(s), s)
    <3>1. CASE ReleaseHandle(s)
      BY <1>3, <2>1, <2>2, <3>1 DEF ReleaseHandle
    <3>2. CASE ~ReleaseHandle(s)
      <4>1. \E l \in {"run", "push", "drop", "end"} : Goto(Reader(s), l) /\ (s \in sessions => l # "end")
        BY <1>8, <2>5, <3>2 DEF ReadStep, ReaderThread, PushHandle, AcquireExternal, ReadEnds, CloseSession
      <4>2. s \in sessions => pc'[Reader(s)] \in {"run", "push", "drop"}
        BY <1>1, <1>2, <4>1, GotoSets
      <4> QED
        BY <1>1, <2>1, <2>2, <4>2 DEF Registered
    <3> QED
      BY <3>1, <3>2
  <2> QED
    BY <2>3, <2>4, <2>5
<1> QED
  BY <1>4, <1>5, <1>6, <1>7, <1>8, StepKinds

\* The invariant holds when the host attaches.
LEMMA HostInit == Init => HostInv
<1> SUFFICES ASSUME Init PROVE HostInv
  OBVIOUS
<1>1. cur \in {0, 1} /\ cur \in 0..MaxInst /\ cur \in 0..MaxProc
  BY Bounds DEF Init, Inst, Proc
<1>2. evq \in Seq(Event) /\ owed \subseteq Event
  <2>1. Activated(1) \in Event
    BY Bounds DEF Event
  <2>2. evq = <<>> \/ evq = <<Activated(1)>>
    BY DEF Init
  <2>3. <<>> \in Seq(Event) /\ <<Activated(1)>> \in Seq(Event)
    BY <2>1
  <2>4. owed = {}
    BY DEF Init
  <2> QED
    BY <2>2, <2>3, <2>4
<1>3. pc[Ev] = "idle" /\ \A s \in Sid : pc[Conn(s)] = "none" /\ pc[Reader(s)] = "none"
  BY Threads DEF Init
<1>4. DOMAIN pc = Thread
  BY DEF Init
<1>5. \A p \in Proc : (up[p] <=> p = cur) /\ pinst[p] = (IF p = cur THEN cur ELSE 0)
  BY DEF Init
<1>6. TypeOK
  <2>1. /\ kst \in [Inst -> {"None", "Active", "Retired"}] /\ up \in [Proc -> BOOLEAN]
        /\ pinst \in [Proc -> 0..MaxInst]
    BY <1>1, Bounds DEF Init
  <2>2. byInst \in [Inst -> 0..MaxSess] /\ handle \in [Sid -> {"none", "kernel", "listed"}]
        /\ bnd \in [Sid -> 0..MaxInst] /\ peer \in [Sid -> 0..MaxProc]
    BY Bounds DEF Init
  <2>3. child \in 0..MaxProc /\ token \in 0..MaxProc /\ pact \in 0..MaxInst
        /\ stuck \subseteq Proc /\ sessions \subseteq Sid /\ shut \subseteq Sid
    BY <1>1 DEF Init
  <2>4. ev.inst \in 0..MaxInst /\ ev.sid \in 0..MaxSess
    BY Bounds DEF Init, NoEvent
  <2> QED
    BY <1>1, <1>2, <1>3, <1>4, <2>1, <2>2, <2>3, <2>4 DEF TypeOK
<1>7. /\ ev \in [ty : {"none", "Activated", "Withdrawn", "Removed"}, inst : 0..MaxInst, sid : 0..MaxSess]
      /\ fatal \subseteq {Conn(s) : s \in Sid} /\ shutdown \in BOOLEAN
  BY Bounds DEF Init, NoEvent
<1>8. ProcessesInOrder
  <2>1. Spawned = {cur} \ {0}
    BY <1>1, <1>5, Bounds DEF Spawned
  <2>2. 1..1 = {1}
    OBVIOUS
  <2> QED
    BY <1>1, <1>5, <2>1, <2>2, Bounds DEF ProcessesInOrder
<1>9. EventInHand
  BY <1>3 DEF EventInHand
<1>10. \A s \in Sid : Registered(s)
  BY <1>3 DEF Registered, Init
<1>11. ChildrenAccounted
  <2>1. \A p \in Proc : up[p] => child = p /\ pinst[p] = cur /\ cur \in Inst
    BY <1>1, <1>5, Bounds DEF Init
  <2>2. cur \in Inst => kst[cur] = "Active"
    BY DEF Init
  <2> QED
    BY <2>1, <2>2 DEF ChildrenAccounted
<1>12. ListedHandlesEnd
  BY DEF ListedHandlesEnd, Init
<1> QED
  BY <1>6, <1>7, <1>8, <1>9, <1>10, <1>11, <1>12 DEF HostInv

\* Every step keeps the invariant.
LEMMA HostStep == HostInv /\ [Next]_vars => HostInv'
<1> SUFFICES ASSUME HostInv, [Next]_vars PROVE HostInv'
  OBVIOUS
<1>1. Typed /\ Typed'
  BY HostTyped, TypedStep
<1>2. ProcessesInOrder' /\ EventInHand' /\ ChildrenAccounted'
  BY OrderStep, InHandStep, ChildrenStep
<1>3. \A s \in Sid : Registered(s)'
  BY RegisteredStep
<1>4. ASSUME NEW s \in Sid PROVE (handle[s] = "listed" => s \in sessions \/ Dropping(s))'
  <2>1. Listed(s) /\ Registered(s)
    BY DEF HostInv, ListedHandlesEnd, Listed
  <2> QED
    BY <1>1, <2>1, ListedStep DEF Listed
<1> QED
  BY <1>1, <1>2, <1>3, <1>4 DEF HostInv, Typed, ListedHandlesEnd

\* HostInv is an inductive invariant of the host's sessions and children.
THEOREM HostInvariance == Spec => []HostInv
  BY HostInit, HostStep, PTL DEF Spec

\* Every process that runs is the one in the table of children, and once its
\* activation is over the event that kills it is on its way (lib.rs 595-600).
THEOREM ChildrenSafety == Spec => []ChildrenAccounted
<1>1. HostInv => ChildrenAccounted
  BY DEF HostInv
<1> QED
  BY <1>1, HostInvariance, PTL

\* A handle that a session has listed does not outlive the session (lib.rs 779-783, 1535-1538).
THEOREM HandlesSafety == Spec => []ListedHandlesEnd
<1>1. HostInv => ListedHandlesEnd
  BY DEF HostInv
<1> QED
  BY <1>1, HostInvariance, PTL

\* A session of a withdrawn activation leaves the table: its process is about to be
\* killed, or is gone and a thread that drops the session is left (lib.rs 686-711, 1229-1244).
THEOREM SessionsLeave == Spec => []RetiredSessionLeaves
<1>1. ASSUME HostInv PROVE RetiredSessionLeaves
  <2>1. SUFFICES ASSUME NEW s \in sessions, kst[bnd[s]] = "Retired", peer[s] \notin stuck, ~shutdown
                 PROVE  \/ WillKill(bnd[s])
                        \/ ~up[peer[s]] /\ (pc[Reader(s)] \in {"run", "push", "drop"} \/ pc[Conn(s)] = "drop")
    BY DEF RetiredSessionLeaves
  <2>2. s \in Sid /\ TableTyped
    BY <1>1, HostTyped, TypedParts DEF TableTyped
  <2>3. Registered(s)
    BY <1>1, <2>2 DEF HostInv
  <2>4. peer[s] \in Proc /\ pinst[peer[s]] = bnd[s]
    BY <2>2, <2>3, Bounds DEF Registered, TableTyped
  <2>5. CASE up[peer[s]]
    BY <1>1, <2>1, <2>4, <2>5 DEF HostInv, ChildrenAccounted
  <2>6. CASE ~up[peer[s]]
    BY <2>3, <2>6 DEF Registered
  <2> QED
    BY <2>5, <2>6
<1> QED
  BY <1>1, HostInvariance, PTL
=============================================================================
