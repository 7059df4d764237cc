---------------------------- MODULE HostSessions ----------------------------
(***************************************************************************)
(* The component host: child processes and their sessions                  *)
(* (matrix-host/src/lib.rs 200-803, 1028-1580).                            *)
(*                                                                         *)
(* One event thread applies the kernel's lifecycle events, one connection  *)
(* thread registers each session and one reader thread serves it.  Every   *)
(* table has its own mutex, and an action is one critical section, or      *)
(* several where no other thread can tell.                                 *)
(*                                                                         *)
(* Simplifications: one logical component, as the tables of two components *)
(* are disjoint; a process opens one connection; the generations of the    *)
(* component do not overlap; a session holds at most one resource handle.  *)
(* The host is secured (policy.secure): a launch token is asked for.       *)
(* The calls of a session are in HostCalls.                                *)
(***************************************************************************)
EXTENDS Naturals, Sequences, FiniteSets

CONSTANTS MaxInst,      \* bound: activations of the component
          MaxProc,      \* bound: processes spawned
          MaxSess,      \* bound: connections accepted
          MaxFaults     \* bound: processes that exit, kills that fail, removals, shutdowns

ASSUME HostAssumption ==
    /\ {MaxInst, MaxProc, MaxSess} \subseteq Nat \ {0}
    /\ MaxFaults \in Nat

Inst == 1..MaxInst
Proc == 1..MaxProc
Sid == 1..MaxSess

Activated(i) == [ty |-> "Activated", inst |-> i]
Withdrawn(i) == [ty |-> "Withdrawn", inst |-> i]
Removed == [ty |-> "Removed", inst |-> 0]
Event == {Activated(i) : i \in Inst} \cup {Withdrawn(i) : i \in Inst} \cup {Removed}

Ev == <<"events", 0>>
Conn(s) == <<"conn", s>>
Reader(s) == <<"read", s>>
Thread == {Ev} \cup {Conn(s) : s \in Sid} \cup {Reader(s) : s \in Sid}

VARIABLES
    cur, kst, loaded, owed, evq,            \* the kernel and the event queue
    child, stuck, pinst, up, token, pact,   \* children, launch_tokens, pending_activation
    sessions, byInst, handle,               \* sessions, by_instance, ext_handles
    bnd, peer, shut,                        \* connections: instance, process, socket shut
    pc, ev, fatal,                          \* threads; event in hand; activations failed
    shutdown, faults                        \* faults counts what MaxFaults bounds

kernelVars == <<cur, kst, loaded, owed>>
childVars == <<child, stuck, pinst, up, token, pact>>
tableVars == <<sessions, byInst, handle>>
connVars == <<bnd, peer, shut>>
threadVars == <<pc, ev, fatal>>
vars == <<kernelVars, evq, childVars, tableVars, connVars, threadVars, shutdown, faults>>

NoEvent == [ty |-> "none", inst |-> 0, sid |-> 0]
IsActive(i) == cur = i /\ kst[i] = "Active"
Fault == faults < MaxFaults /\ faults' = faults + 1
Goto(t, l) == pc' = [pc EXCEPT ![t] = l]

-----------------------------------------------------------------------------
(* The kernel: it changes a context first and reports the change later.    *)

KernelActivate ==
    /\ loaded
    /\ cur < MaxInst
    /\ cur # 0 => kst[cur] = "Retired" /\ Withdrawn(cur) \notin owed
    /\ cur' = cur + 1
    /\ kst' = [kst EXCEPT ![cur + 1] = "Active"]
    /\ owed' = owed \cup {Activated(cur + 1)}
    /\ UNCHANGED <<loaded, evq, childVars, tableVars, connVars, threadVars, shutdown, faults>>

KernelWithdraw ==
    /\ cur # 0
    /\ kst[cur] = "Active"
    /\ kst' = [kst EXCEPT ![cur] = "Retired"]
    /\ owed' = owed \cup {Withdrawn(cur)}
    /\ UNCHANGED <<cur, loaded, evq, childVars, tableVars, connVars, threadVars, shutdown, faults>>

(* The end of the dispose: the handles of the instance are released. *)
KernelRelease(i) ==
    /\ kst[i] = "Retired"
    /\ \E s \in Sid : bnd[s] = i /\ handle[s] # "none"
    /\ handle' = [s \in Sid |-> IF bnd[s] = i THEN "none" ELSE handle[s]]
    /\ UNCHANGED <<cur, kst, owed, loaded, evq, childVars, sessions, byInst, connVars, threadVars, shutdown, faults>>

(* emit_activated reports nothing when the definition is gone by then. *)
KernelEmit(e) ==
    /\ e \in owed
    /\ owed' = owed \ {e}
    /\ evq' = IF e.ty = "Activated" /\ ~loaded THEN evq ELSE Append(evq, e)
    /\ UNCHANGED <<cur, kst, loaded, childVars, tableVars, connVars, threadVars, shutdown, faults>>

(* dispose_plugin: the definition goes first, the current instance is      *)
(* withdrawn afterwards (KernelWithdraw).                                  *)
KernelRemove ==
    /\ loaded
    /\ Fault
    /\ loaded' = FALSE
    /\ evq' = Append(evq, Removed)
    /\ UNCHANGED <<cur, kst, owed, childVars, tableVars, connVars, threadVars, shutdown>>

Kernel ==
    \/ KernelActivate \/ KernelWithdraw \/ KernelRemove
    \/ \E e \in Event : KernelEmit(e)
    \/ \E i \in Inst : KernelRelease(i)

-----------------------------------------------------------------------------
(* Children, under the children lock and by the name of the component.     *)

(* kill_child: a process group that cannot be killed stays in the table.   *)
(* The event Removed forgets the pending activation (forgets) in any case. *)
KillChild(forgets) ==
    /\ token' = 0
    /\ \/ /\ child # 0
          /\ up' = [up EXCEPT ![child] = FALSE]
          /\ child' = 0
          /\ pact' = 0
          /\ UNCHANGED <<stuck, faults>>
       \/ /\ child # 0
          /\ Fault
          /\ stuck' = stuck \cup {child}
          /\ pact' = IF forgets THEN 0 ELSE pact
          /\ UNCHANGED <<child, up>>
       \/ /\ child = 0
          /\ pact' = IF forgets THEN 0 ELSE pact
          /\ UNCHANGED <<child, up, stuck, faults>>
    /\ UNCHANGED <<kernelVars, evq, pinst, tableVars>>

(* Service::retire: once the definition and the instance are gone, the     *)
(* service kills the child itself, beside the event thread.                *)
RetireKill ==
    /\ ~loaded
    /\ cur # 0 /\ kst[cur] = "Retired"
    /\ KillChild(FALSE)
    /\ UNCHANGED <<connVars, threadVars, shutdown>>

\* Defect for mutation: a queued activation is not compared with the current context.
MaySpawnAlways(i) == TRUE
MaySpawn(i) == IsActive(i)

(* spawn_child: the token and the pending activation are published before  *)
(* the process runs; a failed spawn takes them back.                       *)
SpawnChild ==
    /\ pc[Ev] = "spawn"
    /\ LET p == Cardinality({q \in Proc : pinst[q] # 0}) + 1
       IN  \/ /\ MaySpawn(ev.inst)
              /\ p \in Proc
              /\ pinst' = [pinst EXCEPT ![p] = ev.inst]
              /\ up' = [up EXCEPT ![p] = TRUE]
              /\ child' = p
              /\ token' = p
              /\ pact' = ev.inst
           \/ /\ MaySpawn(ev.inst)
              /\ token' = 0
              /\ pact' = 0
              /\ UNCHANGED <<pinst, up, child>>
           \/ ~MaySpawn(ev.inst) /\ UNCHANGED <<pinst, up, child, token, pact>>
    /\ Goto(Ev, "reap")
    /\ UNCHANGED <<kernelVars, evq, stuck, tableVars, connVars, ev, fatal, shutdown, faults>>

(* reap_finished, after an event and when none comes: an exited child      *)
(* without a live session is forgotten.                                    *)
ReapFinished ==
    /\ pc[Ev] \in {"reap", "idle"}
    /\ child' = IF child # 0 /\ ~up[child] /\ \A i \in Inst : byInst[i] = 0 THEN 0 ELSE child
    /\ Goto(Ev, "idle")
    /\ <<child, pc>>' # <<child, pc>>
    /\ ev' = NoEvent
    /\ UNCHANGED <<kernelVars, evq, stuck, pinst, up, token, pact, tableVars, connVars, fatal, shutdown, faults>>

ProcessExits(p) ==
    /\ up[p]
    /\ Fault
    /\ up' = [up EXCEPT ![p] = FALSE]
    /\ UNCHANGED <<kernelVars, evq, child, stuck, pinst, token, pact, tableVars, connVars, threadVars, shutdown>>

-----------------------------------------------------------------------------
(* transact: a lifecycle request and its answer, with a deadline.  The     *)
(* host goes on after a quiesce in any case and gives an activation up     *)
(* without an answer; what the answer says is not looked at, so the notice *)
(* that drop_session leaves for a lost session counts as one.              *)

Sends(s) == s \in sessions /\ s \notin shut /\ up[peer[s]]

Returns(t, answered) ==
    /\ Goto(t, IF t # Ev /\ answered THEN "end" ELSE "drop")
    /\ fatal' = IF t # Ev /\ ~answered THEN fatal \cup {t} ELSE fatal

TransactOpen(t, s) ==
    /\ pc[t] = "open"
    /\ IF Sends(s) THEN Goto(t, "wait") /\ UNCHANGED fatal ELSE Returns(t, FALSE)
    /\ UNCHANGED <<kernelVars, evq, childVars, tableVars, connVars, ev, shutdown, faults>>

TransactWait(t, s) ==
    /\ pc[t] = "wait"
    /\ \/ (Sends(s) \/ s \in shut) /\ Returns(t, TRUE)
       \/ Returns(t, FALSE)
    /\ UNCHANGED <<kernelVars, evq, childVars, tableVars, connVars, ev, shutdown, faults>>

-----------------------------------------------------------------------------
(* drop_session: idempotent, because only one thread finds the session.    *)

AfterDrop(t) == IF t = Ev \/ t \in fatal THEN "kill" ELSE "end"

DropRemove(t, s) ==
    /\ pc[t] = "drop"
    /\ sessions' = sessions \ {s}
    /\ Goto(t, IF s \in sessions THEN "unbind" ELSE AfterDrop(t))
    /\ UNCHANGED <<kernelVars, evq, childVars, byInst, handle, connVars, ev, fatal, shutdown, faults>>

(* The binding goes by the key of the instance; handles and socket follow. *)
DropRelease(t, s) ==
    /\ pc[t] = "unbind"
    /\ byInst' = [byInst EXCEPT ![bnd[s]] = 0]
    /\ handle' = [handle EXCEPT ![s] = IF @ = "listed" THEN "none" ELSE @]
    /\ shut' = shut \cup {s}
    /\ Goto(t, AfterDrop(t))
    /\ UNCHANGED <<kernelVars, evq, childVars, sessions, bnd, peer, ev, fatal, shutdown, faults>>

DropSession(t, s) == DropRemove(t, s) \/ DropRelease(t, s)

-----------------------------------------------------------------------------
(* The event thread.                                                       *)

NextEvent ==
    /\ pc[Ev] = "idle"
    /\ ~shutdown
    /\ evq # <<>>
    /\ evq' = Tail(evq)
    /\ LET e == Head(evq)
           i == IF e.ty = "Removed" THEN cur ELSE e.inst
       IN  /\ ev' = [ty |-> e.ty, inst |-> i, sid |-> 0]
           /\ Goto(Ev, IF e.ty = "Activated" THEN "replace" ELSE IF i # 0 THEN "quiesce" ELSE "forget")
    /\ UNCHANGED <<kernelVars, childVars, tableVars, connVars, fatal, shutdown, faults>>

ReplaceChild == pc[Ev] = "replace" /\ KillChild(FALSE) /\ Goto(Ev, "spawn") /\ UNCHANGED <<connVars, ev, fatal, shutdown>>

(* quiesce_session: unbind, cancel the calls on the wire (HostCalls), then *)
(* quiesce, dispose and drop.  The two transactions are one here: both are *)
(* bounded waits whose answers are ignored.                                *)
QuiesceUnbind ==
    /\ pc[Ev] = "quiesce"
    /\ byInst' = [byInst EXCEPT ![ev.inst] = 0]
    /\ ev' = [ev EXCEPT !.sid = byInst[ev.inst]]
    /\ Goto(Ev, IF byInst[ev.inst] # 0 THEN "open" ELSE "kill")
    /\ UNCHANGED <<kernelVars, evq, childVars, sessions, handle, connVars, fatal, shutdown, faults>>

(* The child is killed in any case, and twice for a removed component.     *)
QuiesceKill ==
    /\ pc[Ev] \in {"kill", "forget"}
    /\ KillChild(pc[Ev] = "forget")
    /\ Goto(Ev, IF pc[Ev] = "kill" /\ ev.ty = "Removed" THEN "forget" ELSE "reap")
    /\ UNCHANGED <<connVars, ev, fatal, shutdown>>

EventThread ==
    \/ NextEvent \/ ReplaceChild \/ SpawnChild \/ ReapFinished
    \/ QuiesceUnbind \/ QuiesceKill
    \/ /\ ev.sid # 0
       /\ TransactOpen(Ev, ev.sid) \/ TransactWait(Ev, ev.sid) \/ DropSession(Ev, ev.sid)

-----------------------------------------------------------------------------
(* Connection threads: handshake, registration, activation.                *)

(* component.register binds to the pending activation or else to the       *)
(* current Active instance.                                                *)
Binding == IF pact # 0 THEN pact ELSE IF cur # 0 /\ IsActive(cur) THEN cur ELSE 0

(* accept_loop, hello, welcome, component.register: the process shows the  *)
(* latest launch token, and the instance has no session yet.               *)
Connect(s, p) ==
    /\ ~shutdown
    /\ up[p]
    /\ peer[s] = 0
    /\ \A r \in Sid : peer[r] # p /\ (r < s => peer[r] # 0)
    /\ peer' = [peer EXCEPT ![s] = p]
    /\ IF Binding # 0 /\ token = p /\ pinst[p] = Binding /\ byInst[Binding] = 0
       THEN bnd' = [bnd EXCEPT ![s] = Binding] /\ Goto(Conn(s), "publish")
       ELSE Goto(Conn(s), "end") /\ UNCHANGED bnd
    /\ UNCHANGED <<kernelVars, evq, childVars, tableVars, shut, ev, fatal, shutdown, faults>>

(* Nothing is checked again before the session is published.  A failed     *)
(* write of the answer drops it; else the reader starts.                   *)
RegisterPublish(s) ==
    /\ pc[Conn(s)] = "publish"
    /\ sessions' = sessions \cup {s}
    /\ byInst' = [byInst EXCEPT ![bnd[s]] = s]
    /\ pact' = 0
    /\ pc' = IF up[peer[s]]
             THEN [pc EXCEPT ![Conn(s)] = "open", ![Reader(s)] = "run"]
             ELSE [pc EXCEPT ![Conn(s)] = "drop"]
    /\ UNCHANGED <<kernelVars, evq, child, stuck, pinst, up, token, handle, connVars, ev, fatal, shutdown, faults>>

(* A failed activation drops the session and kills the child by name. *)
ActivateFailed(s) ==
    /\ pc[Conn(s)] = "kill"
    /\ KillChild(FALSE)
    /\ Goto(Conn(s), "end")
    /\ fatal' = fatal \ {Conn(s)}
    /\ UNCHANGED <<connVars, ev, shutdown>>

ConnThread(s) ==
    \/ RegisterPublish(s) \/ ActivateFailed(s)
    \/ TransactOpen(Conn(s), s) \/ TransactWait(Conn(s), s) \/ DropSession(Conn(s), s)

-----------------------------------------------------------------------------
(* Reader threads.                                                         *)

(* session.close, or a frame above the negotiated size: the session is     *)
(* dropped although the process lives.                                     *)
CloseSession(s) ==
    /\ pc[Reader(s)] = "run"
    /\ s \in sessions
    /\ Fault
    /\ Goto(Reader(s), "drop")
    /\ UNCHANGED <<kernelVars, evq, childVars, tableVars, connVars, ev, fatal, shutdown>>

(* resource.acquire: the kernel's record first, then the session's list;   *)
(* a session dropped in between leaves the record to the context.          *)
AcquireExternal(s) ==
    /\ pc[Reader(s)] = "run"
    /\ Sends(s)
    /\ handle[s] = "none"
    /\ IsActive(bnd[s])
    /\ handle' = [handle EXCEPT ![s] = "kernel"]
    /\ Goto(Reader(s), "push")
    /\ UNCHANGED <<kernelVars, evq, childVars, sessions, byInst, connVars, ev, fatal, shutdown, faults>>

\* Defect for mutation: the handle is listed without a look at the session table.
PushHandleBlind(s) ==
    /\ pc[Reader(s)] = "push"
    /\ handle' = [handle EXCEPT ![s] = IF @ = "kernel" THEN "listed" ELSE @]
    /\ Goto(Reader(s), "run")
    /\ UNCHANGED <<kernelVars, evq, childVars, sessions, byInst, connVars, ev, fatal, shutdown, faults>>
PushHandle(s) ==
    /\ pc[Reader(s)] = "push"
    /\ handle' = [handle EXCEPT ![s] = IF @ = "kernel" /\ s \in sessions THEN "listed" ELSE @]
    /\ Goto(Reader(s), "run")
    /\ UNCHANGED <<kernelVars, evq, childVars, sessions, byInst, connVars, ev, fatal, shutdown, faults>>

(* resource.release: the kernel's record, then the list. *)
ReleaseHandle(s) ==
    /\ pc[Reader(s)] = "run"
    /\ Sends(s)
    /\ handle[s] = "listed"
    /\ handle' = [handle EXCEPT ![s] = "none"]
    /\ UNCHANGED <<kernelVars, evq, childVars, sessions, byInst, connVars, threadVars, shutdown, faults>>

(* read_loop ends on EOF and shutdown. *)
ReadEnds(s) ==
    /\ pc[Reader(s)] = "run"
    /\ shutdown \/ s \in shut \/ ~up[peer[s]]
    /\ Goto(Reader(s), IF s \in sessions THEN "drop" ELSE "end")
    /\ UNCHANGED <<kernelVars, evq, childVars, tableVars, connVars, ev, fatal, shutdown, faults>>

\* Defect for mutation: a reader that ends leaves its session in the table.
ReaderThreadKeeps(s) ==
    \/ PushHandle(s)
    \/ /\ pc[Reader(s)] = "run"
       /\ shutdown \/ s \in shut \/ ~up[peer[s]]
       /\ Goto(Reader(s), "end")
       /\ UNCHANGED <<kernelVars, evq, childVars, tableVars, connVars, ev, fatal, shutdown, faults>>
ReaderThread(s) == PushHandle(s) \/ ReadEnds(s) \/ DropSession(Reader(s), s)

-----------------------------------------------------------------------------
(* Host::shutdown kills every child and shuts every socket of the table.   *)
Shutdown ==
    /\ ~shutdown
    /\ faults < MaxFaults
    /\ shutdown' = TRUE
    /\ KillChild(FALSE)
    /\ shut' = shut \cup sessions
    /\ UNCHANGED <<bnd, peer, threadVars>>

(* attach: the hook is registered before the backlog of Active instances   *)
(* is spawned, so an activation may be in the backlog and in the queue.    *)
Init ==
    /\ loaded = TRUE
    /\ owed = {}
    /\ \/ cur = 0 /\ evq = <<>>
       \/ cur = 1 /\ evq \in {<<>>, <<Activated(1)>>}
    /\ kst = [i \in Inst |-> IF i = cur THEN "Active" ELSE "None"]
    /\ child = cur
    /\ token = cur
    /\ pact = cur
    /\ pinst = [p \in Proc |-> IF p = cur THEN cur ELSE 0]
    /\ up = [p \in Proc |-> p = cur]
    /\ stuck = {}
    /\ sessions = {}
    /\ byInst = [i \in Inst |-> 0]
    /\ handle = [s \in Sid |-> "none"]
    /\ bnd = [s \in Sid |-> 0]
    /\ peer = [s \in Sid |-> 0]
    /\ shut = {}
    /\ pc = [t \in Thread |-> IF t = Ev THEN "idle" ELSE "none"]
    /\ ev = NoEvent
    /\ fatal = {}
    /\ shutdown = FALSE
    /\ faults = 0

Next ==
    \/ Kernel \/ EventThread \/ RetireKill \/ Shutdown
    \/ \E p \in Proc : ProcessExits(p) \/ \E s \in Sid : Connect(s, p)
    \/ \E s \in Sid : ConnThread(s) \/ ReaderThread(s) \/ AcquireExternal(s) \/ ReleaseHandle(s) \/ CloseSession(s)

Spec == Init /\ [][Next]_vars

-----------------------------------------------------------------------------
(* Types of the tables and of the program counters. *)
TypeOK ==
    /\ cur \in 0..MaxInst
    /\ kst \in [Inst -> {"None", "Active", "Retired"}]
    /\ owed \subseteq Event /\ evq \in Seq(Event)
    /\ child \in 0..MaxProc /\ token \in 0..MaxProc /\ pact \in 0..MaxInst
    /\ stuck \subseteq Proc
    /\ pinst \in [Proc -> 0..MaxInst] /\ up \in [Proc -> BOOLEAN]
    /\ sessions \subseteq Sid /\ shut \subseteq Sid
    /\ byInst \in [Inst -> 0..MaxSess]
    /\ handle \in [Sid -> {"none", "kernel", "listed"}]
    /\ bnd \in [Sid -> 0..MaxInst] /\ peer \in [Sid -> 0..MaxProc]
    /\ DOMAIN pc = Thread
    /\ pc[Ev] \in {"idle", "replace", "spawn", "reap", "quiesce", "open", "wait", "drop", "unbind", "kill", "forget"}
    /\ \A s \in Sid : /\ pc[Conn(s)] \in {"none", "publish", "open", "wait", "drop", "unbind", "kill", "end"}
                      /\ pc[Reader(s)] \in {"none", "run", "push", "drop", "unbind", "end"}
    /\ ev.inst \in 0..MaxInst /\ ev.sid \in 0..MaxSess

Dropping(s) == \E t \in {Ev, Conn(s), Reader(s)} : pc[t] = "unbind" /\ (t = Ev => ev.sid = s)

WillKill(i) ==
    \/ Withdrawn(i) \in owed
    \/ \E n \in DOMAIN evq : evq[n] = Withdrawn(i)
    \/ ev.ty = "Withdrawn" /\ ev.inst = i /\ pc[Ev] \in {"quiesce", "open", "wait", "drop", "unbind", "kill"}

(* Every process that runs is the one in the table of children, and when   *)
(* its activation is over the event that kills it is on its way: a late    *)
(* Activated event resurrects nothing (lib.rs 595-600).  Only a process    *)
(* group that resisted its kill is excepted.                               *)
ChildrenAccounted ==
    \A p \in Proc : (up[p] /\ p \notin stuck) =>
        /\ child = p
        /\ (kst[pinst[p]] = "Retired" /\ ~shutdown) => WillKill(pinst[p])

(* A handle that a session has listed does not outlive it: it is pushed    *)
(* under the lock of the table that drop_session took the session from     *)
(* before it drains the list (lib.rs 779-783, 1535-1538).                  *)
ListedHandlesEnd ==
    \A s \in Sid : handle[s] = "listed" => s \in sessions \/ Dropping(s)

(* A session of a withdrawn activation leaves the table, also one that     *)
(* registers while the withdraw runs or after it: the event that kills its *)
(* process is on its way, or the process is gone and a thread that drops   *)
(* the session is left (lib.rs 686-711, 1229-1244, 1326-1369).             *)
RetiredSessionLeaves ==
    \A s \in sessions :
        (kst[bnd[s]] = "Retired" /\ peer[s] \notin stuck /\ ~shutdown) =>
            \/ WillKill(bnd[s])
            \/ ~up[peer[s]] /\ (pc[Reader(s)] \in {"run", "push", "drop"} \/ pc[Conn(s)] = "drop")

(* The inductive invariant behind them.  Processes are numbered in order,  *)
(* none but stuck ones run when the event thread spawns, a session was     *)
(* bound to the activation that its process was spawned for, and as long   *)
(* as it is in the table a thread is left that takes it out.               *)
Spawned == {p \in Proc : pinst[p] # 0}
ProcessesInOrder ==
    /\ \A p \in Spawned : 1..p \subseteq Spawned
    /\ \A p \in Proc : up[p] => p \in Spawned
EventInHand ==
    /\ pc[Ev] \in {"replace", "spawn", "quiesce"} => ev.inst # 0
    /\ pc[Ev] = "spawn" => \A p \in Proc : up[p] => p \in stuck
Registered(s) ==
    /\ peer[s] = 0 => pc[Conn(s)] = "none"
    /\ pc[Conn(s)] = "publish" \/ s \in sessions =>
          bnd[s] # 0 /\ peer[s] # 0 /\ pinst[peer[s]] = bnd[s]
    /\ s \in sessions => pc[Reader(s)] \in {"run", "push", "drop"} \/ pc[Conn(s)] = "drop"
HostInv ==
    /\ TypeOK
    /\ ev \in [ty : {"none", "Activated", "Withdrawn", "Removed"}, inst : 0..MaxInst, sid : 0..MaxSess]
    /\ fatal \subseteq {Conn(s) : s \in Sid} /\ shutdown \in BOOLEAN
    /\ ProcessesInOrder /\ EventInHand
    /\ \A s \in Sid : Registered(s)
    /\ ChildrenAccounted /\ ListedHandlesEnd
=============================================================================
