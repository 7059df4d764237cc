---------------------- MODULE KernelLifecycle_proofs ----------------------
(***************************************************************************)
(* Proofs about KernelLifecycle, for every number of threads, plugins,     *)
(* instances and tickets.  TypeInv and ThreadsTypedInv are the types;      *)
(* ContextStep and CallStep say what any step does to the two tables the   *)
(* safety argument is about; ClosedStays and HoldersShrink are the two     *)
(* monotonicity facts that follow: a closed instance never reopens, and    *)
(* its set of holders only shrinks.  ThreadsKnowInv is the heart: what a   *)
(* disposer has established in one critical section still holds when it    *)
(* acts on it in the next.                                                 *)
(*                                                                         *)
(* Then: one withdraw and one cleanup of an instance at a time             *)
(* (ReleaseInvariant), the limit of the calls in flight, and the           *)
(* refinement of the abstract gate.                                        *)
(***************************************************************************)
EXTENDS KernelLifecycle, FiniteSetTheorems, TLAPS

\* A step that leaves a table alone keeps its type.
LEMMA FrameTypes ==
    /\ CtxType /\ UNCHANGED ctxVars => CtxType'
    /\ PlugType /\ UNCHANGED plugVars => PlugType'
    /\ ResType /\ UNCHANGED resVars => ResType'
    /\ CallType /\ UNCHANGED callVars => CallType'
    /\ ThreadType /\ UNCHANGED <<pc, localVars>> => ThreadType'
<1>1. CtxType /\ UNCHANGED ctxVars => CtxType'
  BY DEF CtxType, ctxVars
<1>2. PlugType /\ UNCHANGED plugVars => PlugType'
  BY DEF PlugType, plugVars
<1>3. ResType /\ UNCHANGED resVars => ResType'
  BY DEF ResType, resVars
<1>4. CallType /\ UNCHANGED callVars => CallType'
  BY DEF CallType, callVars
<1>5. ThreadType /\ UNCHANGED <<pc, localVars>> => ThreadType'
  BY DEF ThreadType, localVars
<1> QED
  BY <1>1, <1>2, <1>3, <1>4, <1>5

\* Moving a thread to another critical section keeps the thread types.
LEMMA GotoType ==
    ASSUME ThreadType, NEW th \in Thread, NEW p \in PC, Goto(th, p), UNCHANGED localVars
    PROVE  ThreadType'
  BY DEF ThreadType, Goto, localVars

\* Starting an operation on an instance, a ticket and a logical id keeps the types of
\* the thread locals it sets.
LEMMA EnterType ==
    ASSUME ThreadType, NEW th \in Thread, NEW p \in PC, NEW i \in 0..MaxInst,
           NEW t \in 0..MaxTickets, NEW l \in Logical \cup {NoLogical},
           Enter(th, p, i, t, l)
    PROVE  /\ pc' \in [Thread -> PC]
           /\ at' \in [Thread -> 0..MaxInst]
           /\ tk' \in [Thread -> 0..MaxTickets]
           /\ lo' \in [Thread -> Logical \cup {NoLogical}]
  BY DEF ThreadType, Enter, Goto

\* Forgetting the locals and continuing elsewhere keeps the thread types.
LEMMA ResumeType ==
    ASSUME ThreadType, NEW th \in Thread, NEW p \in PC,
           NEW l \in Logical \cup {NoLogical}, Resume(th, p, l)
    PROVE  ThreadType'
<1>1. 0 \in 0..MaxInst /\ 0 \in 0..MaxTickets
  BY SizeAssumption
<1>2. /\ pc' \in [Thread -> PC]
      /\ at' \in [Thread -> 0..MaxInst]
      /\ tk' \in [Thread -> 0..MaxTickets]
      /\ lo' \in [Thread -> Logical \cup {NoLogical}]
  BY <1>1, EnterType DEF Resume
<1>3. dl' \in [Thread -> SUBSET Ticket]
  BY DEF Resume, ThreadType
<1>4. cand' \in [Thread -> SUBSET (Logical \X {"create", "promote"})]
  BY DEF Resume, ThreadType
<1>5. then' \in [Thread -> {"none", "dispose", "load"}]
  BY DEF Resume, ThreadType
<1> QED
  BY <1>2, <1>3, <1>4, <1>5 DEF ThreadType

\* Returning from maybe_finalize, dispose_instance_inner or reconcile keeps the types.
LEMMA LeaveType ==
    ASSUME ThreadType, NEW th \in Thread, Leave(th)
    PROVE  ThreadType'
<1>1. {"idle", "rec_snapshot", "load_current"} \subseteq PC
  BY DEF PC
<1>2. lo[th] \in Logical \cup {NoLogical}
  BY DEF ThreadType
<1> QED
  BY <1>1, <1>2, ResumeType DEF Leave

\* CallsTable::remove keeps the type of the calls table.
LEMMA RemoveType ==
    ASSUME CallType, NEW t \in Ticket, Remove(t)
    PROVE  CallType'
  BY DEF CallType, Remove, Policy, TicketState

\* release_context_resources keeps the types of resources and registry.
LEMMA ReleaseType ==
    ASSUME ResType, NEW i \in Inst, ReleaseContextResources(i), UNCHANGED claims
    PROVE  ResType'
<1>1. cap' \in [Logical -> 0..MaxInst]
  BY SizeAssumption DEF ResType, ReleaseContextResources, RevokeIfOwned
<1> QED
  BY <1>1 DEF ResType, ReleaseContextResources

\* Mirroring a state into the plugin entry keeps the type of the plugins table.
LEMMA MirrorType ==
    ASSUME PlugType, NEW i, NEW s \in CtxState, MirrorPlugin(i, s)
    PROVE  PlugType'
  BY DEF PlugType, MirrorPlugin

\* mark_cleanup_pending keeps the type of the contexts.
LEMMA MarkCleanupType ==
    ASSUME CtxType, NEW i, NEW why \in {"inflight", "resource"}, MarkCleanupPending(i, why)
    PROVE  CtxType'
  BY DEF CtxType, MarkCleanupPending, CtxState

\* mark_disposed and its journal entry keep their types.
LEMMA MarkDisposedType ==
    ASSUME CtxType, unloaded \in [Inst -> 0..2], NEW i \in Inst, MarkDisposed(i)
    PROVE  CtxType' /\ unloaded' \in [Inst -> 0..2]
<1>1. unloaded[i] \in 0..2 /\ Saturate(unloaded[i]) \in 0..2
  BY DEF Saturate
<1>2. unloaded' \in [Inst -> 0..2]
  BY <1>1 DEF MarkDisposed
<1>3. CtxType'
  BY DEF CtxType, MarkDisposed, CtxState
<1> QED
  BY <1>2, <1>3

\* create_in numbers the new instance within the bound and keeps the types.
LEMMA CreateType ==
    ASSUME CtxType, NEW l \in Logical, NEW s \in {"Waiting", "Active"}, made < MaxInst,
           Create(l, s)
    PROVE  CtxType' /\ made + 1 \in Inst
  BY SizeAssumption DEF CtxType, Create, CtxState, Inst

\* Acquiring and publishing the definition handle keeps the types.
LEMMA AcquireType ==
    ASSUME ResType, NEW th \in Thread, NEW i \in Inst, Acquire(th, i)
    PROVE  ResType'
<1>1. i \in 0..MaxInst
  BY SizeAssumption DEF Inst
<1>2. cap' \in [Logical -> 0..MaxInst]
  BY <1>1 DEF ResType, Acquire
<1>3. held' \subseteq Inst \X Thread
  BY DEF ResType, Acquire
<1> QED
  BY <1>2, <1>3 DEF ResType, Acquire

\* The operations that a thread can start keep the types.
LEMMA StartType ==
    ASSUME TypeOK, NEW th \in Thread, Start(th)
    PROVE  TypeOK'
<1> USE DEF TypeOK
<1>0. /\ 0 \in 0..MaxInst /\ 0 \in 0..MaxTickets
      /\ Ticket \subseteq 0..MaxTickets /\ Inst \subseteq 0..MaxInst
      /\ NoLogical \in Logical \cup {NoLogical}
  BY SizeAssumption DEF Ticket, Inst
<1>p. {"open_admit", "commit_check", "fin_read", "disp_claim", "rec_snapshot",
       "load_current", "fault_context"} \subseteq PC
  BY DEF PC
<1>1. CASE OpenStart(th)
  BY <1>1, <1>p, FrameTypes, GotoType DEF OpenStart
<1>2. ASSUME NEW t \in Ticket, CommitRead(th, t) PROVE TypeOK'
  <2>1. tin[t] \in 0..MaxInst
    BY DEF CallType
  <2>2. /\ pc' \in [Thread -> PC]
        /\ at' \in [Thread -> 0..MaxInst]
        /\ tk' \in [Thread -> 0..MaxTickets]
        /\ lo' \in [Thread -> Logical \cup {NoLogical}]
    BY <1>2, <1>0, <1>p, <2>1, EnterType DEF CommitRead
  <2>3. dl' \in [Thread -> SUBSET Ticket]
    BY <1>2 DEF CommitRead, ThreadType
  <2>4. ThreadType'
    BY <1>2, <2>2, <2>3 DEF CommitRead, ThreadType
  <2> QED
    BY <1>2, <2>4, FrameTypes DEF CommitRead
<1>3. ASSUME NEW t \in Ticket, CallCancel(th, t) PROVE TypeOK'
  <2>1. CallType'
    BY <1>3 DEF CallCancel, CallType, TicketState
  <2> QED
    BY <1>3, <2>1, FrameTypes DEF CallCancel
<1>4. ASSUME NEW t \in Ticket, CallClose(th, t) \/ CallReap(th, t) PROVE TypeOK'
  <2>1. tin[t] \in 0..MaxInst
    BY DEF CallType
  <2>2. CallType'
    BY <1>4, RemoveType DEF CallClose, CallReap
  <2>3. /\ pc' \in [Thread -> PC]
        /\ at' \in [Thread -> 0..MaxInst]
        /\ tk' \in [Thread -> 0..MaxTickets]
        /\ lo' \in [Thread -> Logical \cup {NoLogical}]
    BY <1>4, <1>0, <1>p, <2>1, EnterType DEF CallClose, CallReap
  <2>4. ThreadType'
    BY <1>4, <2>3 DEF CallClose, CallReap, ThreadType
  <2> QED
    BY <1>4, <2>2, <2>4, FrameTypes DEF CallClose, CallReap
<1>5. ASSUME NEW i \in Inst, DisposeInstance(th, i) PROVE TypeOK'
  <2>1. /\ pc' \in [Thread -> PC]
        /\ at' \in [Thread -> 0..MaxInst]
        /\ tk' \in [Thread -> 0..MaxTickets]
        /\ lo' \in [Thread -> Logical \cup {NoLogical}]
    BY <1>5, <1>0, <1>p, EnterType DEF DisposeInstance
  <2>2. ThreadType'
    BY <1>5, <2>1 DEF DisposeInstance, ThreadType
  <2> QED
    BY <1>5, <2>2, FrameTypes DEF DisposeInstance
<1>6. ASSUME NEW l \in Logical, DisposePlugin(th, l) PROVE TypeOK'
  <2>1. cur[l] \in 0..MaxInst
    BY DEF CtxType
  <2>2. /\ pc' \in [Thread -> PC]
        /\ at' \in [Thread -> 0..MaxInst]
        /\ tk' \in [Thread -> 0..MaxTickets]
        /\ lo' \in [Thread -> Logical \cup {NoLogical}]
    BY <1>6, <1>0, <1>p, <2>1, EnterType DEF DisposePlugin
  <2>3. ThreadType'
    BY <1>6, <2>2 DEF DisposePlugin, ThreadType
  <2>4. PlugType'
    BY <1>6 DEF DisposePlugin, PlugType
  <2> QED
    BY <1>6, <2>3, <2>4, FrameTypes DEF DisposePlugin
<1>7. ASSUME NEW l \in Logical, LoadManifest(th, l) PROVE TypeOK'
  <2>1. cur[l] \in 0..MaxInst
    BY DEF CtxType
  <2>2. /\ pc' \in [Thread -> PC]
        /\ at' \in [Thread -> 0..MaxInst]
        /\ tk' \in [Thread -> 0..MaxTickets]
        /\ lo' \in [Thread -> Logical \cup {NoLogical}]
    BY <1>7, <1>0, <1>p, <2>1, EnterType DEF LoadManifest
  <2>3. ThreadType'
    BY <1>7, <2>2 DEF LoadManifest, ThreadType
  <2>4. PlugType'
    BY <1>7 DEF LoadManifest, PlugType
  <2> QED
    BY <1>7, <2>3, <2>4, FrameTypes DEF LoadManifest
<1>8. ASSUME NEW l \in Logical, AcquireStuck(th, l) PROVE TypeOK'
  <2>1. cur[l] \in Inst
    BY <1>8, SizeAssumption DEF AcquireStuck, RequireActive, CtxType, Inst
  <2>2. ResType'
    BY <1>8, <2>1 DEF AcquireStuck, ResType
  <2> QED
    BY <1>8, <2>2, FrameTypes DEF AcquireStuck
<1>9. ASSUME NEW l \in Logical, Fault(th, l) PROVE TypeOK'
  <2>1. /\ pc' \in [Thread -> PC]
        /\ at' \in [Thread -> 0..MaxInst]
        /\ tk' \in [Thread -> 0..MaxTickets]
        /\ lo' \in [Thread -> Logical \cup {NoLogical}]
    BY <1>9, <1>0, <1>p, EnterType DEF Fault
  <2>2. ThreadType'
    BY <1>9, <2>1 DEF Fault, ThreadType
  <2>3. PlugType'
    BY <1>9 DEF Fault, PlugType, CtxState
  <2> QED
    BY <1>9, <2>2, <2>3, FrameTypes DEF Fault
<1> QED
  BY <1>1, <1>2, <1>3, <1>4, <1>5, <1>6, <1>7, <1>8, <1>9 DEF Start

\* The instance of a thread that is inside an operation on one.
LEMMA AtInst ==
    ASSUME TypeOK, ThreadsTyped, NEW th \in Thread,
           pc[th] \notin {"idle", "open_admit", "load_current", "load_substitute",
                          "rec_snapshot", "rec_next", "fault_context"}
    PROVE  at[th] \in Inst
<1>1. at[th] \in 0..MaxInst /\ at[th] # 0
  BY DEF TypeOK, ThreadType, ThreadsTyped, ThreadTyped
<1> QED
  BY <1>1, SizeAssumption DEF Inst

\* The critical sections of an operation keep the types.
LEMMA StepType ==
    ASSUME TypeOK, ThreadsTyped, NEW th \in Thread, Step(th)
    PROVE  TypeOK'
<1> USE DEF TypeOK
<1>0. /\ 0 \in 0..MaxInst /\ 0 \in 0..MaxTickets
      /\ Ticket \subseteq 0..MaxTickets /\ Inst \subseteq 0..MaxInst
      /\ NoLogical \in Logical \cup {NoLogical}
      /\ at[th] \in 0..MaxInst /\ lo[th] \in Logical \cup {NoLogical}
      /\ tk[th] \in 0..MaxTickets
  BY SizeAssumption DEF Ticket, Inst, ThreadType
<1>1. CASE OpenAdmit(th)
  <2>1. PICK l \in Logical :
          \/ Admits(l) /\ Enter(th, "open_alloc", cap[l], 0, l) /\ UNCHANGED <<dl, cand, then>>
          \/ ~Admits(l) /\ Return(th)
    BY <1>1 DEF OpenAdmit
  <2>2. "open_alloc" \in PC /\ "idle" \in PC
    BY DEF PC
  <2>3. cap[l] \in 0..MaxInst
    BY DEF ResType
  <2>4. CASE Enter(th, "open_alloc", cap[l], 0, l) /\ UNCHANGED <<dl, cand, then>>
    <3>1. /\ pc' \in [Thread -> PC]
          /\ at' \in [Thread -> 0..MaxInst]
          /\ tk' \in [Thread -> 0..MaxTickets]
          /\ lo' \in [Thread -> Logical \cup {NoLogical}]
      BY <1>0, <2>2, <2>3, <2>4, EnterType
    <3> QED
      BY <3>1, <2>4, <1>1, FrameTypes DEF OpenAdmit, ThreadType
  <2>5. CASE Return(th)
    BY <2>5, <2>2, <1>0, <1>1, ResumeType, FrameTypes DEF OpenAdmit, Return
  <2> QED
    BY <2>1, <2>4, <2>5
<1>2. CASE OpenAlloc(th)
  <2>1. "open_revalidate" \in PC /\ "idle" \in PC
    BY DEF PC
  <2>2. CASE issued < MaxTickets
    <3>1. issued + 1 \in Ticket /\ issued + 1 \in 0..MaxTickets
      BY <2>2, SizeAssumption DEF CallType, Ticket
    <3>2. PICK p \in Policy :
            /\ tst' = [tst EXCEPT ![issued + 1] = "Admitted"]
            /\ tin' = [tin EXCEPT ![issued + 1] = at[th]]
            /\ tpol' = [tpol EXCEPT ![issued + 1] = p]
      BY <1>2, <2>2 DEF OpenAlloc
    <3>3. /\ issued' = issued + 1
          /\ Enter(th, "open_revalidate", at[th], issued + 1, lo[th])
          /\ UNCHANGED <<armed, due, eff, dl, cand, then>>
      BY <1>2, <2>2 DEF OpenAlloc
    <3>4. CallType'
      BY <1>0, <3>1, <3>2, <3>3 DEF CallType, TicketState
    <3>5. /\ pc' \in [Thread -> PC]
          /\ at' \in [Thread -> 0..MaxInst]
          /\ tk' \in [Thread -> 0..MaxTickets]
          /\ lo' \in [Thread -> Logical \cup {NoLogical}]
      BY <1>0, <2>1, <3>1, <3>3, EnterType
    <3> QED
      BY <3>3, <3>4, <3>5, <1>2, FrameTypes DEF OpenAlloc, ThreadType
  <2>3. CASE ~(issued < MaxTickets)
    BY <2>1, <2>3, <1>0, <1>2, ResumeType, FrameTypes DEF OpenAlloc, Return
  <2> QED
    BY <2>2, <2>3
<1>3. CASE OpenRevalidate(th)
  <2>1. "open_settle" \in PC /\ "idle" \in PC
    BY DEF PC
  <2> QED
    BY <2>1, <1>0, <1>3, ResumeType, GotoType, FrameTypes DEF OpenRevalidate, Return
<1>4. CASE OpenSettle(th)
  <2>1. "fin_read" \in PC /\ "idle" \in PC
    BY DEF PC
  <2>2. CASE Live(tk[th])
    <3>1. tk[th] \in Ticket
      BY <1>0, <1>4, SizeAssumption DEF ThreadsTyped, ThreadTyped, OpenSettle, Ticket
    <3>2. CallType'
      BY <1>4, <2>2, <3>1, RemoveType DEF OpenSettle
    <3>3. /\ pc' \in [Thread -> PC]
          /\ at' \in [Thread -> 0..MaxInst]
          /\ tk' \in [Thread -> 0..MaxTickets]
          /\ lo' \in [Thread -> Logical \cup {NoLogical}]
      BY <1>0, <1>4, <2>1, <2>2, EnterType DEF OpenSettle
    <3> QED
      BY <3>2, <3>3, <1>4, <2>2, FrameTypes DEF OpenSettle, ThreadType
  <2>3. CASE ~Live(tk[th])
    BY <2>1, <2>3, <1>0, <1>4, ResumeType, FrameTypes DEF OpenSettle, Return
  <2> QED
    BY <2>2, <2>3
<1>5. CASE CommitCheck(th)
  <2>1. "commit_push" \in PC /\ "idle" \in PC
    BY DEF PC
  <2> QED
    BY <2>1, <1>0, <1>5, ResumeType, GotoType, FrameTypes DEF CommitCheck, Return
<1>6. CASE CommitPush(th)
  <2>1. "commit_set" \in PC
    BY DEF PC
  <2>2. ThreadType'
    BY <1>6, <2>1, GotoType DEF CommitPush
  <2>3. \A t \in Ticket : Saturate(eff[t]) \in 0..2
    BY DEF CallType, Saturate
  <2>4. eff' \in [Ticket -> 0..2]
    BY <1>6, <2>3 DEF CommitPush, CallType
  <2>5. CallType'
    BY <1>6, <2>4 DEF CommitPush, CallType
  <2> QED
    BY <1>6, <2>2, <2>5, FrameTypes DEF CommitPush
<1>7. CASE CommitSet(th)
  <2>1. "idle" \in PC
    BY DEF PC
  <2>2. ThreadType'
    BY <1>0, <1>7, <2>1, ResumeType DEF CommitSet, Return
  <2>3. CallType'
    BY <1>7 DEF CommitSet, CallType, TicketState
  <2> QED
    BY <1>7, <2>2, <2>3, FrameTypes DEF CommitSet
<1>8. CASE FinRead(th) \/ RefreshRead(th) \/ DispRecheck(th)
  <2>1. {"fin_pending", "refresh_mark", "fin_read"} \subseteq PC
    BY DEF PC
  <2> QED
    BY <1>8, <2>1, LeaveType, GotoType, FrameTypes DEF FinRead, RefreshRead, DispRecheck
<1>9. CASE FinPending(th) \/ DispPending(th)
  <2>1. {"fin_claim", "refresh_read", "disp_release", "disp_park"} \subseteq PC
    BY DEF PC
  <2> QED
    BY <1>9, <2>1, GotoType, FrameTypes DEF FinPending, DispPending
<1>10. CASE RefreshMark(th)
  BY <1>10, LeaveType, MarkCleanupType, FrameTypes DEF RefreshMark
<1>11. CASE FinClaim(th)
  <2>1. "fin_release" \in PC
    BY DEF PC
  <2>2. ThreadType'
    BY <1>11, <2>1, LeaveType, GotoType DEF FinClaim
  <2>3. at[th] \in Inst
    BY <1>11, AtInst DEF FinClaim
  <2>4. ResType'
    BY <1>11, <2>3 DEF FinClaim, ResType
  <2> QED
    BY <1>11, <2>2, <2>4, FrameTypes DEF FinClaim
<1>12. CASE FinRelease(th) \/ DispRelease(th)
  <2>1. "fin_mark" \in PC /\ "disp_mark" \in PC
    BY DEF PC
  <2>2. at[th] \in Inst
    BY <1>12, AtInst DEF FinRelease, DispRelease
  <2> QED
    BY <1>12, <2>1, <2>2, ReleaseType, GotoType, FrameTypes DEF FinRelease, DispRelease
<1>13. CASE FinMark(th)
  <2>1. "rec_snapshot" \in PC /\ "Disposed" \in CtxState
    BY DEF PC, CtxState
  <2>2. at[th] \in Inst
    BY <1>13, AtInst DEF FinMark
  <2>3. ThreadType'
    BY <1>13, <2>1, LeaveType, GotoType DEF FinMark
  <2>4. ResType'
    BY <1>13 DEF FinMark, ResType
  <2> QED
    BY <1>13, <2>1, <2>2, <2>3, <2>4, MarkCleanupType, MarkDisposedType, MirrorType, FrameTypes
       DEF FinMark
<1>14. CASE DispMark(th)
  <2>1. "CleanupPending" \in CtxState /\ "Disposed" \in CtxState
    BY DEF CtxState
  <2>2. at[th] \in Inst
    BY <1>14, AtInst DEF DispMark
  <2>3. ThreadType'
    BY <1>14, LeaveType DEF DispMark
  <2> QED
    BY <1>14, <2>1, <2>2, <2>3, MarkCleanupType, MarkDisposedType, MirrorType, FrameTypes
       DEF DispMark
<1>15. CASE DispClaim(th)
  <2>1. "disp_revoke" \in PC
    BY DEF PC
  <2>2. ThreadType'
    BY <1>15, <2>1, LeaveType, GotoType DEF DispClaim
  <2>3. CtxType'
    BY <1>15, FrameTypes DEF DispClaim, CtxType, CtxState
  <2> QED
    BY <1>15, <2>2, <2>3, FrameTypes DEF DispClaim
<1>16. CASE DispRevoke(th)
  <2>1. "disp_tickets" \in PC /\ "Quiescing" \in CtxState
    BY DEF PC, CtxState
  <2>2. cap' \in [Logical -> 0..MaxInst]
    BY <1>0, <1>16 DEF DispRevoke, RevokeIfOwned, ResType
  <2>3. ResType'
    BY <1>16, <2>2 DEF DispRevoke, ResType
  <2> QED
    BY <1>16, <2>1, <2>3, MirrorType, GotoType, FrameTypes DEF DispRevoke
<1>17. CASE DispTickets(th)
  <2>1. "disp_wait" \in PC
    BY DEF PC
  <2>2. CallType'
    BY <1>17 DEF DispTickets, CallType, TicketState, Pending
  <2>3. dl' \in [Thread -> SUBSET Ticket]
    BY <1>17 DEF DispTickets, ThreadType, Pending
  <2>4. ThreadType'
    BY <1>17, <2>1, <2>3 DEF DispTickets, ThreadType, Goto
  <2> QED
    BY <1>17, <2>2, <2>4, FrameTypes DEF DispTickets
<1>18. CASE DispWait(th)
  <2>1. "disp_expire" \in PC
    BY DEF PC
  <2>2. ThreadType'
    BY <1>18, <2>1 DEF DispWait, ThreadType, Goto
  <2> QED
    BY <1>18, <2>2, FrameTypes DEF DispWait
<1>19. CASE DispExpire(th)
  <2>1. "disp_pending" \in PC
    BY DEF PC
  <2>2. CallType'
    BY <1>19 DEF DispExpire, CallType, TicketState
  <2> QED
    BY <1>19, <2>1, <2>2, GotoType, FrameTypes DEF DispExpire
<1>20. CASE DispPark(th)
  <2>1. "disp_recheck" \in PC /\ "CleanupPending" \in CtxState
    BY DEF PC, CtxState
  <2> QED
    BY <1>20, <2>1, MarkCleanupType, MirrorType, GotoType, FrameTypes DEF DispPark
<1>21. CASE LoadCurrent(th)
  <2>1. "load_substitute" \in PC /\ "rec_snapshot" \in PC
    BY DEF PC
  <2>2. CASE Goto(th, "load_substitute") /\ UNCHANGED localVars
    BY <1>21, <2>1, <2>2, GotoType, FrameTypes DEF LoadCurrent
  <2>3. CASE Enter(th, "rec_snapshot", 0, 0, NoLogical) /\ UNCHANGED <<dl, cand, then>>
    <3>1. /\ pc' \in [Thread -> PC]
          /\ at' \in [Thread -> 0..MaxInst]
          /\ tk' \in [Thread -> 0..MaxTickets]
          /\ lo' \in [Thread -> Logical \cup {NoLogical}]
      BY <1>0, <2>1, <2>3, EnterType
    <3> QED
      BY <3>1, <2>3, <1>21, FrameTypes DEF LoadCurrent, ThreadType
  <2> QED
    BY <1>21, <2>2, <2>3 DEF LoadCurrent
<1>22. CASE LoadSubstitute(th)
  <2>1. "rec_snapshot" \in PC
    BY DEF PC
  <2>2. /\ pc' \in [Thread -> PC]
        /\ at' \in [Thread -> 0..MaxInst]
        /\ tk' \in [Thread -> 0..MaxTickets]
        /\ lo' \in [Thread -> Logical \cup {NoLogical}]
    BY <1>0, <1>22, <2>1, EnterType DEF LoadSubstitute
  <2>3. ThreadType'
    BY <1>22, <2>2 DEF LoadSubstitute, ThreadType
  <2>4. CASE made < MaxInst
    <3>1. lo[th] \in Logical
      BY <1>22 DEF ThreadsTyped, ThreadTyped, LoadSubstitute
    <3>2. CtxType' /\ made + 1 \in Inst
      BY <1>22, <2>4, <3>1, CreateType DEF LoadSubstitute
    <3>3. PlugType'
      BY <1>0, <1>22, <2>4, <3>2 DEF LoadSubstitute, PlugType, CtxState
    <3> QED
      BY <1>22, <2>3, <3>2, <3>3, FrameTypes DEF LoadSubstitute
  <2>5. CASE ~(made < MaxInst)
    <3>1. PlugType'
      BY <1>22, <2>5 DEF LoadSubstitute, PlugType
    <3> QED
      BY <1>22, <2>3, <2>5, <3>1, FrameTypes DEF LoadSubstitute
  <2> QED
    BY <2>4, <2>5
<1>23. CASE RecSnapshot(th)
  <2>1. "rec_next" \in PC
    BY DEF PC
  <2> DEFINE create == {l \in defs : CurState(l) \in {"none", "Disposed"} /\ made < MaxInst}
             promote == {l \in defs : CurState(l) = "Waiting"}
             todo == (create \X {"create"}) \cup (promote \X {"promote"})
  <2>2. CASE Leave(th)
    BY <1>23, <2>2, LeaveType, FrameTypes DEF RecSnapshot
  <2>3. CASE ~Leave(th)
    <3>1. /\ cand' = [cand EXCEPT ![th] = todo]
          /\ Goto(th, "rec_next")
          /\ UNCHANGED <<at, tk, lo, dl, then>>
      BY <1>23, <2>3 DEF RecSnapshot
    <3>2. create \subseteq Logical /\ promote \subseteq Logical
      BY DEF PlugType
    <3>3. todo \in SUBSET (Logical \X {"create", "promote"})
      BY <3>2
    <3>4. cand' \in [Thread -> SUBSET (Logical \X {"create", "promote"})]
      BY <3>1, <3>3 DEF ThreadType
    <3>5. ThreadType'
      BY <2>1, <3>1, <3>4 DEF ThreadType, Goto
    <3> QED
      BY <1>23, <3>5, FrameTypes DEF RecSnapshot
  <2> QED
    BY <2>2, <2>3
<1>24. CASE RecDone(th)
  BY <1>24, LeaveType, FrameTypes DEF RecDone
<1>25. ASSUME NEW l \in Logical, RecCreate(th, l) PROVE TypeOK'
  <2>1. "create_acquire" \in PC
    BY DEF PC
  <2>2. CtxType' /\ made + 1 \in Inst
    BY <1>25, CreateType DEF RecCreate
  <2>3. ThreadType'
    BY <1>0, <1>25, <2>1, <2>2 DEF RecCreate, ThreadType, Goto
  <2> QED
    BY <1>25, <2>2, <2>3, FrameTypes DEF RecCreate
<1>26. ASSUME NEW l \in Logical, RecPromote(th, l) PROVE TypeOK'
  <2>1. "promote_acquire" \in PC /\ cur[l] \in 0..MaxInst
    BY DEF PC, CtxType
  <2>2. pc' \in [Thread -> PC] /\ at' \in [Thread -> 0..MaxInst]
    BY <1>26, <2>1 DEF RecPromote, ThreadType, Goto
  <2>3. cand' \in [Thread -> SUBSET (Logical \X {"create", "promote"})]
    BY <1>26 DEF RecPromote, ThreadType
  <2>4. ThreadType'
    BY <1>26, <2>2, <2>3 DEF RecPromote, ThreadType
  <2> QED
    BY <1>26, <2>4, FrameTypes DEF RecPromote
<1>27. CASE CreateAcquire(th) \/ PromoteAcquire(th)
  <2>1. "create_plugin" \in PC /\ "promote_plugin" \in PC
    BY DEF PC
  <2>2. at[th] \in Inst
    BY <1>27, AtInst DEF CreateAcquire, PromoteAcquire
  <2> QED
    BY <1>27, <2>1, <2>2, AcquireType, GotoType, FrameTypes DEF CreateAcquire, PromoteAcquire
<1>28. CASE CreatePlugin(th)
  <2>1. "rec_snapshot" \in PC
    BY DEF PC
  <2>2. PlugType'
    BY <1>0, <1>28 DEF CreatePlugin, PlugType, CtxState
  <2>3. ThreadType'
    BY <1>0, <1>28, <2>1 DEF CreatePlugin, ThreadType, Goto
  <2> QED
    BY <1>28, <2>2, <2>3, FrameTypes DEF CreatePlugin
<1>29. CASE PromotePlugin(th)
  <2>1. "promote_mark" \in PC /\ "rec_next" \in PC
    BY DEF PC
  <2>2. PlugType'
    BY <1>29 DEF PromotePlugin, PlugType, CtxState
  <2>3. ThreadType'
    BY <1>0, <1>29, <2>1 DEF PromotePlugin, ThreadType, Goto, localVars
  <2>4. RevokeIfOwned(at[th]) \in [Logical -> 0..MaxInst]
    BY <1>0 DEF RevokeIfOwned, ResType
  <2>5. ResType'
    BY <1>29, <2>4 DEF PromotePlugin, ResType, resVars
  <2> QED
    BY <1>29, <2>2, <2>3, <2>5, FrameTypes DEF PromotePlugin
<1>30. CASE PromoteMark(th)
  <2>1. "rec_snapshot" \in PC /\ "rec_next" \in PC
    BY DEF PC
  <2>2. CtxType'
    BY <1>30 DEF PromoteMark, CtxType, CtxState
  <2>3. ThreadType'
    BY <1>0, <1>30, <2>1 DEF PromoteMark, ThreadType, Goto
  <2> QED
    BY <1>30, <2>2, <2>3, FrameTypes DEF PromoteMark
<1>31. CASE FaultContext(th)
  <2>1. "idle" \in PC
    BY DEF PC
  <2>2. CtxType'
    BY <1>31 DEF FaultContext, CtxType, CtxState
  <2>3. PlugType'
    BY <1>31 DEF FaultContext, PlugType, CtxState
  <2>4. ThreadType'
    BY <1>0, <1>31, <2>1, ResumeType DEF FaultContext, Return
  <2> QED
    BY <1>31, <2>2, <2>3, <2>4, FrameTypes DEF FaultContext
<1> QED
  BY <1>1, <1>2, <1>3, <1>4, <1>5, <1>6, <1>7, <1>8, <1>9, <1>10, <1>11, <1>12, <1>13,
     <1>14, <1>15, <1>16, <1>17, <1>18, <1>19, <1>20, <1>21, <1>22, <1>23, <1>24, <1>25,
     <1>26, <1>27, <1>28, <1>29, <1>30, <1>31 DEF Step

----------------------------------------------------------------------------
\* A step of one thread leaves the others where they are.
LEMMA OthersStay ==
    ASSUME TypeOK, NEW th \in Thread, Start(th) \/ Step(th), NEW x \in Thread, x # th
    PROVE  /\ pc'[x] = pc[x] /\ at'[x] = at[x] /\ tk'[x] = tk[x]
           /\ lo'[x] = lo[x] /\ dl'[x] = dl[x] /\ then'[x] = then[x]
<1> USE DEF TypeOK, ThreadType, localVars, Goto, Enter, Resume, Return, Leave
<1>1. CASE Start(th)
  BY <1>1 DEF Start, OpenStart, CommitRead, CallCancel, CallClose, CallReap,
     DisposeInstance, LoadManifest, DisposePlugin, AcquireStuck, Fault
<1>2. CASE OpenAdmit(th) \/ OpenAlloc(th) \/ OpenRevalidate(th) \/ OpenSettle(th)
  BY <1>2 DEF OpenAdmit, OpenAlloc, OpenRevalidate, OpenSettle
<1>3. CASE CommitCheck(th) \/ CommitPush(th) \/ CommitSet(th)
  BY <1>3 DEF CommitCheck, CommitPush, CommitSet
<1>4. CASE FinRead(th) \/ FinPending(th) \/ FinClaim(th) \/ FinRelease(th) \/ FinMark(th)
           \/ RefreshRead(th) \/ RefreshMark(th)
  BY <1>4 DEF FinRead, FinPending, FinClaim, FinRelease, FinMark, RefreshRead, RefreshMark
<1>5. CASE DispClaim(th) \/ DispRevoke(th) \/ DispTickets(th) \/ DispWait(th) \/ DispExpire(th)
  BY <1>5 DEF DispClaim, DispRevoke, DispTickets, DispWait, DispExpire
<1>6. CASE DispPending(th) \/ DispPark(th) \/ DispRecheck(th) \/ DispRelease(th) \/ DispMark(th)
  BY <1>6 DEF DispPending, DispPark, DispRecheck, DispRelease, DispMark
<1>7. CASE LoadCurrent(th) \/ LoadSubstitute(th) \/ FaultContext(th)
  BY <1>7 DEF LoadCurrent, LoadSubstitute, FaultContext
<1>8. CASE RecSnapshot(th) \/ RecDone(th) \/ \E l \in Logical : RecCreate(th, l) \/ RecPromote(th, l)
  BY <1>8 DEF RecSnapshot, RecDone, RecCreate, RecPromote
<1>9. CASE CreateAcquire(th) \/ CreatePlugin(th) \/ PromoteAcquire(th) \/ PromotePlugin(th)
           \/ PromoteMark(th)
  BY <1>9 DEF CreateAcquire, CreatePlugin, PromoteAcquire, PromotePlugin, PromoteMark
<1> QED
  BY <1>1, <1>2, <1>3, <1>4, <1>5, <1>6, <1>7, <1>8, <1>9 DEF Step

\* Where Leave takes a thread.
LEMMA LeaveGoes ==
    ASSUME TypeOK, NEW th \in Thread, Leave(th)
    PROVE  /\ pc'[th] \in {"idle", "rec_snapshot", "load_current"}
           /\ at'[th] = 0
           /\ then'[th] = "none"
           /\ pc'[th] = "load_current" => then[th] = "load" /\ lo'[th] = lo[th]
  BY DEF TypeOK, ThreadType, Leave, Resume, Enter, Goto

\* Threads keep working on what they must.
LEMMA ThreadsTypedInv ==
    ASSUME TypeOK, ThreadsTyped, TablesTyped, [Next]_vars
    PROVE  ThreadsTyped'
<1> SUFFICES ASSUME NEW x \in Thread PROVE ThreadTyped(x)'
  BY DEF ThreadsTyped
<1>0. ThreadTyped(x)
  BY DEF ThreadsTyped
<1>1. ASSUME NEW th \in Thread, Start(th) \/ Step(th), x # th
      PROVE ThreadTyped(x)'
  <2>1. /\ pc'[x] = pc[x] /\ at'[x] = at[x] /\ tk'[x] = tk[x]
        /\ lo'[x] = lo[x] /\ then'[x] = then[x]
    BY <1>1, OthersStay
  <2>2. CASE OpenAlloc(th)
    <3>1. ASSUME pc[x] \in {"open_revalidate", "open_settle"}
          PROVE  tin'[tk[x]] = tin[tk[x]]
      <4>1. tk[x] \in Ticket /\ tin[tk[x]] = at[x] /\ at[x] # 0
        BY <1>0, <3>1, SizeAssumption DEF ThreadTyped, TypeOK, ThreadType, Ticket
      <4>2. tk[x] # issued + 1
        BY <4>1 DEF TablesTyped, TypeOK, CallType
      <4> QED
        BY <2>2, <4>1, <4>2 DEF OpenAlloc, callVars, TypeOK, CallType
    <3> QED
      BY <1>0, <2>1, <3>1 DEF ThreadTyped
  <2>3. CASE ~OpenAlloc(th)
    <3>1. tin' = tin
      BY <1>1, <2>3 DEF Start, Step, callVars, OpenStart, CommitRead, CallCancel, CallClose,
         CallReap, DisposeInstance, LoadManifest, DisposePlugin, AcquireStuck, Fault, Remove,
         OpenAdmit, OpenRevalidate, OpenSettle, CommitCheck, CommitPush, CommitSet,
         FinRead, FinPending, FinClaim, FinRelease, FinMark, RefreshRead, RefreshMark,
         DispClaim, DispRevoke, DispTickets, DispWait, DispExpire, DispPending, DispPark,
         DispRecheck, DispRelease, DispMark, LoadCurrent, LoadSubstitute, RecSnapshot, RecDone,
         RecCreate, RecPromote, CreateAcquire, CreatePlugin, PromoteAcquire, PromotePlugin,
         PromoteMark, FaultContext
    <3> QED
      BY <1>0, <2>1, <3>1 DEF ThreadTyped
  <2> QED
    BY <2>2, <2>3
<1>2. CASE Start(x)
  <2> USE DEF TypeOK, ThreadType, CallType, CtxType, Goto, Enter, ThreadTyped, localVars
  <2>1. CASE OpenStart(x)
    BY <1>0, <2>1 DEF OpenStart
  <2>2. ASSUME NEW t \in Ticket, CommitRead(x, t) \/ CallClose(x, t) \/ CallReap(x, t)
        PROVE ThreadTyped(x)'
    <3>1. tin[t] # 0
      BY <2>2 DEF TablesTyped, Live, TicketState, CommitRead, CallClose, CallReap
    <3> QED
      BY <1>0, <2>2, <3>1 DEF CommitRead, CallClose, CallReap
  <2>3. ASSUME NEW t \in Ticket, CallCancel(x, t) PROVE ThreadTyped(x)'
    BY <1>0, <2>3 DEF CallCancel
  <2>4. ASSUME NEW i \in Inst, DisposeInstance(x, i) PROVE ThreadTyped(x)'
    BY <1>0, <2>4 DEF DisposeInstance, Inst
  <2>5. ASSUME NEW l \in Logical, LoadManifest(x, l) PROVE ThreadTyped(x)'
    BY <1>0, <2>5 DEF LoadManifest, CurState
  <2>6. ASSUME NEW l \in Logical, DisposePlugin(x, l) PROVE ThreadTyped(x)'
    BY <1>0, <2>6 DEF DisposePlugin
  <2>7. ASSUME NEW l \in Logical, AcquireStuck(x, l) \/ Fault(x, l) PROVE ThreadTyped(x)'
    BY <1>0, <2>7, NoLogicalAssumption DEF AcquireStuck, Fault, callVars
  <2> QED
    BY <1>2, <2>1, <2>2, <2>3, <2>4, <2>5, <2>6, <2>7 DEF Start
<1>3. CASE Step(x)
  <2> USE DEF TypeOK, ThreadType, CallType, CtxType, Goto, Enter, Resume, Return, ThreadTyped,
              localVars, callVars
  <2>1. CASE OpenAdmit(x)
    BY <1>0, <2>1 DEF OpenAdmit, Admits, RequireActive
  <2>2. CASE OpenAlloc(x)
    BY <1>0, <2>2, SizeAssumption DEF OpenAlloc, Ticket
  <2>3. CASE OpenRevalidate(x)
    BY <1>0, <2>3 DEF OpenRevalidate
  <2>4. CASE OpenSettle(x)
    BY <1>0, <2>4 DEF OpenSettle, Remove
  <2>5. CASE CommitCheck(x) \/ CommitPush(x) \/ CommitSet(x)
    BY <1>0, <2>5 DEF CommitCheck, CommitPush, CommitSet
  <2>6. CASE Leave(x)
    BY <1>0, <2>6, LeaveGoes
  <2>7. CASE ~Leave(x) /\ (FinRead(x) \/ FinPending(x) \/ FinClaim(x) \/ FinRelease(x)
                           \/ FinMark(x) \/ RefreshRead(x) \/ RefreshMark(x))
    BY <1>0, <2>7 DEF FinRead, FinPending, FinClaim, FinRelease, FinMark, RefreshRead, RefreshMark
  <2>8. CASE ~Leave(x) /\ (DispClaim(x) \/ DispRevoke(x) \/ DispTickets(x) \/ DispWait(x)
                           \/ DispExpire(x))
    BY <1>0, <2>8 DEF DispClaim, DispRevoke, DispTickets, DispWait, DispExpire
  <2>9. CASE ~Leave(x) /\ (DispPending(x) \/ DispPark(x) \/ DispRecheck(x) \/ DispRelease(x)
                           \/ DispMark(x))
    BY <1>0, <2>9 DEF DispPending, DispPark, DispRecheck, DispRelease, DispMark
  <2>10. CASE LoadCurrent(x) \/ LoadSubstitute(x) \/ FaultContext(x)
    BY <1>0, <2>10 DEF LoadCurrent, LoadSubstitute, FaultContext
  <2>11. CASE ~Leave(x) /\ (RecSnapshot(x) \/ RecDone(x))
    BY <1>0, <2>11 DEF RecSnapshot, RecDone
  <2>12. ASSUME NEW l \in Logical, RecCreate(x, l) \/ RecPromote(x, l) PROVE ThreadTyped(x)'
    BY <1>0, <2>12 DEF RecCreate, RecPromote, CurState
  <2>13. CASE CreateAcquire(x) \/ CreatePlugin(x) \/ PromoteAcquire(x) \/ PromotePlugin(x)
              \/ PromoteMark(x)
    BY <1>0, <2>13 DEF CreateAcquire, CreatePlugin, PromoteAcquire, PromotePlugin, PromoteMark
  <2> QED
    BY <1>3, <2>1, <2>2, <2>3, <2>4, <2>5, <2>6, <2>7, <2>8, <2>9, <2>10, <2>11, <2>12, <2>13
       DEF Step
<1>4. CASE UNCHANGED <<tin, pc, localVars>>
  BY <1>0, <1>4 DEF ThreadTyped, localVars
<1>5. ASSUME NEW t \in Ticket, DeadlinePasses(t) PROVE ThreadTyped(x)'
  BY <1>4, <1>5 DEF DeadlinePasses
<1>6. CASE UNCHANGED vars
  BY <1>4, <1>6 DEF vars, callVars
<1> QED
  BY <1>1, <1>2, <1>3, <1>5, <1>6 DEF Next

----------------------------------------------------------------------------
\* What a step does to the contexts.
LEMMA ContextStep ==
    ASSUME Inv, [Next]_vars
    PROVE  \/ UNCHANGED <<st, cur, made>>
           \/ \E l \in Logical, s \in {"Waiting", "Active"} : made < MaxInst /\ Create(l, s)
           \/ \E i \in Inst, s \in {"Active", "Quiescing", "CleanupPending", "Disposed", "Failed"} :
                /\ st' = [st EXCEPT ![i] = s]
                /\ UNCHANGED <<cur, made>>
                /\ s = "Active" => st[i] \in {"Waiting", "Active"}
                /\ s = "Quiescing" => st[i] \in {"Waiting", "Active"}
                /\ s \in {"CleanupPending", "Disposed"} =>
                     /\ Closed(i)
                     /\ \E th \in Thread :
                          /\ at[th] = i
                          /\ pc[th] \in {"disp_park", "disp_mark", "refresh_mark", "fin_mark"}
                          /\ DispPark(th) \/ DispMark(th) \/ RefreshMark(th) \/ FinMark(th)
                /\ s = "Failed" => \E l \in Logical : i = cur[l]
<1> DEFINE Goal ==
           \/ UNCHANGED <<st, cur, made>>
           \/ \E l \in Logical, s \in {"Waiting", "Active"} : made < MaxInst /\ Create(l, s)
           \/ \E i \in Inst, s \in {"Active", "Quiescing", "CleanupPending", "Disposed", "Failed"} :
                /\ st' = [st EXCEPT ![i] = s]
                /\ UNCHANGED <<cur, made>>
                /\ s = "Active" => st[i] \in {"Waiting", "Active"}
                /\ s = "Quiescing" => st[i] \in {"Waiting", "Active"}
                /\ s \in {"CleanupPending", "Disposed"} =>
                     /\ Closed(i)
                     /\ \E th \in Thread :
                          /\ at[th] = i
                          /\ pc[th] \in {"disp_park", "disp_mark", "refresh_mark", "fin_mark"}
                          /\ DispPark(th) \/ DispMark(th) \/ RefreshMark(th) \/ FinMark(th)
                /\ s = "Failed" => \E l \in Logical : i = cur[l]
<1> SUFFICES Goal
  OBVIOUS
<1>1. CASE UNCHANGED ctxVars
  BY <1>1 DEF ctxVars
<1>2. ASSUME NEW th \in Thread, Start(th) PROVE UNCHANGED ctxVars
  BY <1>2 DEF Start, OpenStart, CommitRead, CallCancel, CallClose, CallReap,
     DisposeInstance, LoadManifest, DisposePlugin, AcquireStuck, Fault
<1>3. ASSUME NEW th \in Thread, Step(th) PROVE Goal
  <2>0. TypeOK /\ ThreadsTyped /\ ThreadKnows(th)
    BY DEF Inv, ThreadsKnow
  <2>1. CASE RefreshMark(th) \/ DispPark(th)
    <3>1. at[th] \in Inst /\ Closed(at[th])
      BY <2>0, <2>1, AtInst DEF RefreshMark, DispPark, ThreadKnows, Withdrawing
    <3> QED
      BY <2>1, <3>1 DEF RefreshMark, DispPark, MarkCleanupPending
  <2>2. CASE FinMark(th) \/ DispMark(th)
    <3>1. at[th] \in Inst /\ Closed(at[th])
      BY <2>0, <2>2, AtInst DEF FinMark, DispMark, ThreadKnows, Withdrawing
    <3> QED
      BY <2>2, <3>1 DEF FinMark, DispMark, MarkCleanupPending, MarkDisposed
  <2>3. CASE DispClaim(th)
    <3>1. at[th] \in Inst
      BY <2>0, <2>3, AtInst DEF DispClaim
    <3> QED
      BY <1>1, <2>3, <3>1 DEF DispClaim
  <2>4. CASE PromoteMark(th)
    <3>1. at[th] \in Inst
      BY <2>0, <2>4, AtInst DEF PromoteMark
    <3> QED
      BY <2>4, <3>1 DEF PromoteMark
  <2>5. CASE FaultContext(th)
    <3>1. CASE cur[lo[th]] \in Inst /\ lo[th] \in Logical
      BY <2>5, <3>1 DEF FaultContext
    <3>2. CASE ~(cur[lo[th]] \in Inst)
      <4>1. st' = st
        BY <2>0, <2>5, <3>2 DEF FaultContext, TypeOK, CtxType
      <4> QED
        BY <2>5, <4>1 DEF FaultContext
    <3>3. CASE lo[th] \notin Logical
      BY <2>0, <2>5, <3>3 DEF FaultContext, ThreadsTyped, ThreadTyped
    <3> QED
      BY <3>1, <3>2, <3>3
  <2>6. CASE LoadSubstitute(th)
    <3>1. lo[th] \in Logical
      BY <2>0, <2>6 DEF ThreadsTyped, ThreadTyped, LoadSubstitute
    <3> QED
      BY <1>1, <2>6, <3>1 DEF LoadSubstitute
  <2>7. ASSUME NEW l \in Logical, RecCreate(th, l) PROVE Goal
    BY <2>7 DEF RecCreate
  <2>8. CASE ~\/ RefreshMark(th) \/ DispPark(th) \/ FinMark(th) \/ DispMark(th)
              \/ DispClaim(th) \/ PromoteMark(th) \/ FaultContext(th) \/ LoadSubstitute(th)
              \/ \E l \in Logical : RecCreate(th, l)
    <3>1. UNCHANGED ctxVars
      BY <1>3, <2>8 DEF Step, OpenAdmit, OpenAlloc, OpenRevalidate, OpenSettle, CommitCheck,
         CommitPush, CommitSet, FinRead, FinPending, FinClaim, FinRelease, RefreshRead,
         DispRevoke, DispTickets, DispWait, DispExpire, DispPending, DispRecheck, DispRelease,
         LoadCurrent, RecSnapshot, RecDone, RecPromote, CreateAcquire, CreatePlugin,
         PromoteAcquire, PromotePlugin
    <3> QED
      BY <1>1, <3>1
  <2> QED
    BY <2>1, <2>2, <2>3, <2>4, <2>5, <2>6, <2>7, <2>8
<1>4. CASE \E t \in Ticket : DeadlinePasses(t)
  BY <1>1, <1>4 DEF DeadlinePasses
<1>5. CASE UNCHANGED vars
  BY <1>1, <1>5 DEF vars
<1> HIDE DEF Goal
<1> QED
  BY <1>1, <1>2, <1>3, <1>4, <1>5 DEF Next

\* An instance that left Active never becomes usable again.
LEMMA ClosedStays ==
    ASSUME Inv, [Next]_vars, NEW i \in Inst, Closed(i)
    PROVE  Closed(i)'
<1>1. st \in [Inst -> CtxState] /\ made \in 0..MaxInst
  BY DEF Inv, TypeOK, CtxType
<1>2. i <= made
  BY <1>1 DEF Inv, TablesTyped, Closed, Inst
<1>3. CASE UNCHANGED <<st, cur, made>>
  BY <1>3 DEF Closed
<1>4. ASSUME NEW l \in Logical, NEW s \in {"Waiting", "Active"}, Create(l, s)
      PROVE  Closed(i)'
  <2>1. st'[i] = st[i]
    BY <1>1, <1>2, <1>4 DEF Create
  <2> QED
    BY <2>1 DEF Closed
<1>5. ASSUME NEW j \in Inst,
             NEW s \in {"Active", "Quiescing", "CleanupPending", "Disposed", "Failed"},
             st' = [st EXCEPT ![j] = s],
             s = "Active" => st[j] \in {"Waiting", "Active"}
      PROVE  Closed(i)'
  <2>1. CASE i = j
    BY <1>1, <1>5, <2>1 DEF Closed
  <2>2. CASE i # j
    BY <1>1, <1>5, <2>2 DEF Closed
  <2> QED
    BY <2>1, <2>2
<1> QED
  BY <1>3, <1>4, <1>5, ContextStep

\* What a step does to the calls: a ticket of the table was there before, with at
\* least as much authority, or its opener has just allocated it.
LEMMA CallStep ==
    ASSUME Inv, [Next]_vars, NEW t \in Ticket
    PROVE  /\ t \in due => t \in due'
           /\ Live(t)' =>
                \/ /\ Live(t) /\ tin'[t] = tin[t]
                   /\ tst'[t] = "Admitted" => tst[t] = "Admitted"
                   /\ t \in armed => t \in armed'
                \/ /\ ~Live(t)
                   /\ \E th \in Thread : /\ OpenAlloc(th) /\ pc'[th] = "open_revalidate"
                                         /\ tk'[th] = t /\ tin'[t] = at[th]
<1> DEFINE Kept == /\ t \in due => t \in due'
                   /\ Live(t)' => /\ Live(t) /\ tin'[t] = tin[t]
                                  /\ tst'[t] = "Admitted" => tst[t] = "Admitted"
                                  /\ t \in armed => t \in armed'
<1>0. CallType /\ ThreadType /\ TablesTyped
  BY DEF Inv, TypeOK
<1>1. CASE UNCHANGED callVars
  BY <1>1 DEF callVars, Live
<1>2. ASSUME NEW th \in Thread, Start(th) PROVE Kept
  <2>1. ASSUME NEW u \in Ticket, Remove(u) PROVE Kept
    BY <1>0, <2>1 DEF Remove, Live, CallType, TicketState
  <2>2. ASSUME NEW u \in Ticket, CallCancel(th, u) PROVE Kept
    BY <1>0, <2>2 DEF CallCancel, Live, CallType, TicketState
  <2>3. CASE ~\E u \in Ticket : CallCancel(th, u) \/ CallClose(th, u) \/ CallReap(th, u)
    <3>1. UNCHANGED callVars
      BY <1>2, <2>3 DEF Start, OpenStart, CommitRead, DisposeInstance, LoadManifest,
         DisposePlugin, AcquireStuck, Fault
    <3> QED
      BY <3>1 DEF callVars, Live
  <2> QED
    BY <2>1, <2>2, <2>3 DEF CallClose, CallReap
<1>3. ASSUME NEW th \in Thread, Step(th), ~OpenAlloc(th) PROVE Kept
  <2>1. CASE OpenSettle(th)
    BY <1>0, <2>1 DEF OpenSettle, Remove, Live, CallType, TicketState, callVars
  <2>2. CASE CommitSet(th)
    BY <1>0, <2>2 DEF CommitSet, Live, CallType, TicketState
  <2>3. CASE CommitPush(th)
    BY <2>3 DEF CommitPush, Live
  <2>4. CASE DispTickets(th)
    BY <1>0, <2>4 DEF DispTickets, Live, CallType, TicketState, Pending
  <2>5. CASE DispExpire(th)
    BY <1>0, <2>5 DEF DispExpire, Live, CallType, TicketState
  <2>6. CASE ~\/ OpenSettle(th) \/ CommitSet(th) \/ CommitPush(th) \/ DispTickets(th)
              \/ DispExpire(th)
    <3>1. UNCHANGED callVars
      BY <1>3, <2>6 DEF Step, OpenAdmit, OpenRevalidate, CommitCheck, FinRead, FinPending,
         FinClaim, FinRelease, FinMark, RefreshRead, RefreshMark, DispClaim, DispRevoke,
         DispWait, DispPending, DispPark, DispRecheck, DispRelease, DispMark, LoadCurrent,
         LoadSubstitute, RecSnapshot, RecDone, RecCreate, RecPromote, CreateAcquire,
         CreatePlugin, PromoteAcquire, PromotePlugin, PromoteMark, FaultContext
    <3> QED
      BY <3>1 DEF callVars, Live
  <2> QED
    BY <2>1, <2>2, <2>3, <2>4, <2>5, <2>6
<1>4. ASSUME NEW th \in Thread, OpenAlloc(th), issued < MaxTickets, t = issued + 1
      PROVE  /\ t \in due => t \in due'
             /\ ~Live(t) /\ pc'[th] = "open_revalidate" /\ tk'[th] = t /\ tin'[t] = at[th]
  <2>1. ~Live(t)
    BY <1>0, <1>4 DEF TablesTyped, Live, TicketState, CallType
  <2>2. pc'[th] = "open_revalidate" /\ tk'[th] = t
    BY <1>0, <1>4 DEF OpenAlloc, Enter, Goto, ThreadType
  <2>3. tin'[t] = at[th] /\ due' = due
    BY <1>0, <1>4 DEF OpenAlloc, CallType
  <2> QED
    BY <2>1, <2>2, <2>3
<1>5. ASSUME NEW th \in Thread, OpenAlloc(th), ~(issued < MaxTickets /\ t = issued + 1)
      PROVE  Kept
  <2>1. CASE issued < MaxTickets
    BY <1>0, <1>5, <2>1 DEF OpenAlloc, Live, CallType
  <2>2. CASE ~(issued < MaxTickets)
    BY <1>1, <1>5, <2>2 DEF OpenAlloc, callVars, Live
  <2> QED
    BY <2>1, <2>2
<1>6. ASSUME NEW u \in Ticket, DeadlinePasses(u) PROVE Kept
  BY <1>6 DEF DeadlinePasses, Live
<1>7. CASE UNCHANGED vars
  BY <1>1, <1>7 DEF vars
<1> QED
  BY <1>1, <1>2, <1>3, <1>4, <1>5, <1>6, <1>7 DEF Next

\* The step in which call_open returns a ticket to its client.
Grants(x) == OpenRevalidate(x) /\ Admits(lo[x]) /\ cap[lo[x]] = at[x]

\* A client comes to hold a ticket only when call_open returns it, and a ticket that is
\* held gets no authority back.
LEMMA HoldersStep ==
    ASSUME Inv, [Next]_vars, NEW i \in Inst, NEW t \in Holders(i)',
           \A x \in Thread : Grants(x) => tk[x] # t
    PROVE  /\ t \in Holders(i)
           /\ tst'[t] = "Admitted" => tst[t] = "Admitted"
           /\ t \in armed => t \in armed'
           /\ t \in due => t \in due'
<1>1. t \in Ticket /\ Live(t)' /\ tin'[t] = i /\ ~Unreturned(t)'
  BY DEF Holders, Pending
<1>2. /\ Live(t) /\ tin[t] = i
      /\ tst'[t] = "Admitted" => tst[t] = "Admitted"
      /\ t \in armed => t \in armed'
      /\ t \in due => t \in due'
  <2>1. ASSUME NEW th \in Thread, pc'[th] = "open_revalidate", tk'[th] = t
        PROVE  FALSE
    BY <1>1, <2>1 DEF Unreturned
  <2> QED
    BY <1>1, <2>1, CallStep
<1>3. ASSUME NEW x \in Thread, pc[x] \in {"open_revalidate", "open_settle"}, tk[x] = t
      PROVE  FALSE
  <2>0. TypeOK /\ ThreadTyped(x)
    BY DEF Inv, ThreadsTyped
  <2>1. ~(pc'[x] \in {"open_revalidate", "open_settle"} /\ tk'[x] = t)
    BY <1>1 DEF Unreturned
  <2>2. Start(x) \/ Step(x)
    <3>1. CASE UNCHANGED vars
      BY <1>3, <2>1, <3>1 DEF vars, localVars
    <3>2. ASSUME NEW u \in Ticket, DeadlinePasses(u) PROVE FALSE
      BY <1>3, <2>1, <3>2 DEF DeadlinePasses, localVars
    <3>3. ASSUME NEW th \in Thread, Start(th) \/ Step(th), th # x PROVE FALSE
      BY <1>3, <2>0, <2>1, <3>3, OthersStay
    <3> QED
      BY <3>1, <3>2, <3>3 DEF Next
  <2>3. OpenRevalidate(x) \/ OpenSettle(x)
    BY <1>3, <2>2 DEF Start, OpenStart, CommitRead, CallCancel, CallClose, CallReap,
       DisposeInstance, LoadManifest, DisposePlugin, AcquireStuck, Fault,
       Step, OpenAdmit, OpenAlloc, CommitCheck, CommitPush, CommitSet,
       FinRead, FinPending, FinClaim, FinRelease, FinMark, RefreshRead, RefreshMark,
       DispClaim, DispRevoke, DispTickets, DispWait, DispExpire, DispPending, DispPark,
       DispRecheck, DispRelease, DispMark, LoadCurrent, LoadSubstitute, RecSnapshot, RecDone,
       RecCreate, RecPromote, CreateAcquire, CreatePlugin, PromoteAcquire, PromotePlugin,
       PromoteMark, FaultContext
  <2>4. CASE OpenRevalidate(x)
    <3>1. ~(Admits(lo[x]) /\ cap[lo[x]] = at[x])
      BY <1>3, <2>4 DEF Grants
    <3> QED
      BY <1>3, <2>0, <2>1, <2>4, <3>1
         DEF OpenRevalidate, Goto, localVars, TypeOK, ThreadType
  <2>5. CASE OpenSettle(x)
    <3>1. tst'[t] = "removed"
      BY <1>1, <1>2, <1>3, <2>0, <2>5 DEF OpenSettle, Remove, TypeOK, CallType
    <3> QED
      BY <1>1, <3>1 DEF Live, TicketState
  <2> QED
    BY <2>3, <2>4, <2>5
<1> QED
  BY <1>1, <1>2, <1>3 DEF Holders, Pending, Unreturned

\* A closed instance gets no new holder and its holders get no authority back.
LEMMA HoldersShrink ==
    ASSUME Inv, [Next]_vars, NEW i \in Inst, Closed(i), NEW t \in Holders(i)'
    PROVE  /\ t \in Holders(i)
           /\ tst'[t] = "Admitted" => tst[t] = "Admitted"
           /\ t \in armed => t \in armed'
           /\ t \in due => t \in due'
<1>1. ASSUME NEW x \in Thread, Grants(x), tk[x] = t PROVE FALSE
  <2>1. ThreadTyped(x)
    BY DEF Inv, ThreadsTyped
  <2>2. tin[t] = at[x] /\ st[at[x]] = "Active"
    BY <1>1, <2>1 DEF Grants, OpenRevalidate, ThreadTyped, Admits, RequireActive
  <2>3. tin'[t] = i /\ tin' = tin
    BY <1>1 DEF Holders, Pending, Grants, OpenRevalidate, callVars
  <2> QED
    BY <2>2, <2>3 DEF Closed
<1> QED
  BY <1>1, HoldersStep
----------------------------------------------------------------------------
\* Every step keeps the types.
LEMMA TypeInv ==
    ASSUME TypeOK, ThreadsTyped, [Next]_vars
    PROVE  TypeOK'
<1>1. ASSUME NEW t \in Ticket, DeadlinePasses(t) PROVE TypeOK'
  <2>1. CallType'
    BY <1>1 DEF DeadlinePasses, TypeOK, CallType
  <2> QED
    BY <1>1, <2>1, FrameTypes DEF DeadlinePasses, TypeOK
<1>2. CASE UNCHANGED vars
  BY <1>2, FrameTypes DEF vars, TypeOK
<1> QED
  BY <1>1, <1>2, StartType, StepType DEF Next

\* Contexts and tickets are numbered as they are created.
LEMMA TablesTypedInv ==
    ASSUME Inv, [Next]_vars
    PROVE  TablesTyped'
<1>0. TypeOK /\ ThreadsTyped /\ TablesTyped
  BY DEF Inv
<1>a. /\ st \in [Inst -> CtxState] /\ cur \in [Logical -> 0..MaxInst] /\ made \in 0..MaxInst
  BY <1>0 DEF TypeOK, CtxType
<1>b. CallType
  BY <1>0 DEF TypeOK
<1>1. /\ \A i \in Inst : i > made' => st'[i] = "none"
      /\ \A l \in Logical : cur'[l] <= made'
  <2>1. CASE UNCHANGED <<st, cur, made>>
    BY <1>0, <2>1 DEF TablesTyped
  <2>2. ASSUME NEW l \in Logical, NEW s \in {"Waiting", "Active"}, Create(l, s)
        PROVE  /\ \A i \in Inst : i > made' => st'[i] = "none"
               /\ \A k \in Logical : cur'[k] <= made'
    BY <1>0, <1>a, <2>2 DEF Create, TablesTyped, Inst
  <2>3. ASSUME NEW i \in Inst,
               NEW s \in {"Active", "Quiescing", "CleanupPending", "Disposed", "Failed"},
               st' = [st EXCEPT ![i] = s], UNCHANGED <<cur, made>>, st[i] # "none" \/ i <= made
        PROVE  /\ \A j \in Inst : j > made' => st'[j] = "none"
               /\ \A k \in Logical : cur'[k] <= made'
    BY <1>0, <1>a, <2>3 DEF TablesTyped, Inst
  <2>4. ASSUME NEW l \in Logical PROVE cur[l] <= made
    BY <1>0 DEF TablesTyped
  <2> QED
    BY <2>1, <2>2, <2>3, <2>4, ContextStep DEF Closed
<1>2. ASSUME NEW t \in Ticket, Live(t)' PROVE tin'[t] # 0
  <2>1. CASE Live(t) /\ tin'[t] = tin[t]
    BY <1>0, <2>1 DEF TablesTyped
  <2>2. ASSUME NEW th \in Thread, OpenAlloc(th), tin'[t] = at[th] PROVE tin'[t] # 0
    BY <1>0, <2>2 DEF OpenAlloc, ThreadsTyped, ThreadTyped
  <2> QED
    BY <1>2, <2>1, <2>2, CallStep
<1>3. ASSUME NEW t \in Ticket, t > issued'
      PROVE  tst'[t] = "unissued" /\ tin'[t] = 0
  <2>1. ASSUME t > issued PROVE tst[t] = "unissued" /\ tin[t] = 0 /\ ~Live(t)
    BY <1>0, <2>1 DEF TablesTyped, Live, TicketState
  <2>2. CASE UNCHANGED <<tst, tin, issued>>
    BY <1>3, <2>1, <2>2
  <2>3. ASSUME NEW u \in Ticket, Live(u), Remove(u) PROVE tst'[t] = "unissued" /\ tin'[t] = 0
    BY <1>b, <1>3, <2>1, <2>3 DEF Remove, CallType
  <2>4. ASSUME NEW th \in Thread, Start(th) PROVE tst'[t] = "unissued" /\ tin'[t] = 0
    <3>1. ASSUME NEW u \in Ticket, CallCancel(th, u) PROVE tst'[t] = "unissued" /\ tin'[t] = 0
      BY <1>b, <1>3, <2>1, <3>1 DEF CallCancel, CallType
    <3>2. CASE ~\E u \in Ticket : CallCancel(th, u) \/ CallClose(th, u) \/ CallReap(th, u)
      BY <2>2, <2>4, <3>2 DEF Start, OpenStart, CommitRead, DisposeInstance, LoadManifest,
         DisposePlugin, AcquireStuck, Fault, callVars
    <3> QED
      BY <2>3, <3>1, <3>2 DEF CallClose, CallReap
  <2>5. ASSUME NEW th \in Thread, Step(th) PROVE tst'[t] = "unissued" /\ tin'[t] = 0
    <3>1. CASE OpenAlloc(th)
      <4>1. CASE ~(issued < MaxTickets)
        BY <2>2, <3>1, <4>1 DEF OpenAlloc, callVars
      <4>2. CASE issued < MaxTickets
        <5>1. issued' = issued + 1 /\ t > issued /\ t # issued + 1
          BY <1>b, <1>3, <3>1, <4>2 DEF OpenAlloc, CallType, Ticket
        <5>2. tst'[t] = tst[t] /\ tin'[t] = tin[t]
          BY <1>b, <3>1, <4>2, <5>1 DEF OpenAlloc, CallType
        <5> QED
          BY <2>1, <5>1, <5>2
      <4> QED
        BY <4>1, <4>2
    <3>2. CASE OpenSettle(th)
      <4>1. tk[th] \in Ticket
        BY <1>0, <3>2, SizeAssumption
           DEF ThreadsTyped, ThreadTyped, OpenSettle, Ticket, TypeOK, ThreadType
      <4> QED
        BY <2>2, <2>3, <3>2, <4>1 DEF OpenSettle, callVars
    <3>3. CASE CommitSet(th)
      BY <1>b, <1>3, <2>1, <3>3 DEF CommitSet, CallType
    <3>4. CASE DispTickets(th) \/ DispExpire(th)
      BY <1>b, <1>3, <2>1, <3>4 DEF DispTickets, DispExpire, CallType
    <3>5. CASE ~(OpenAlloc(th) \/ OpenSettle(th) \/ CommitSet(th) \/ DispTickets(th)
                 \/ DispExpire(th))
      <4>1. UNCHANGED <<tst, tin, issued>>
        BY <2>5, <3>5 DEF Step, OpenAdmit, OpenRevalidate, CommitCheck, CommitPush, FinRead,
           FinPending, FinClaim, FinRelease, FinMark, RefreshRead, RefreshMark, DispClaim,
           DispRevoke, DispWait, DispPending, DispPark, DispRecheck, DispRelease, DispMark,
           LoadCurrent, LoadSubstitute, RecSnapshot, RecDone, RecCreate, RecPromote,
           CreateAcquire, CreatePlugin, PromoteAcquire, PromotePlugin, PromoteMark,
           FaultContext, callVars
      <4> QED
        BY <2>2, <4>1
    <3> QED
      BY <3>1, <3>2, <3>3, <3>4, <3>5
  <2>6. CASE \E u \in Ticket : DeadlinePasses(u)
    BY <2>2, <2>6 DEF DeadlinePasses
  <2>7. CASE UNCHANGED vars
    BY <2>2, <2>7 DEF vars, callVars
  <2> QED
    BY <2>4, <2>5, <2>6, <2>7 DEF Next
<1> QED
  BY <1>1, <1>2, <1>3 DEF TablesTyped

\* No call is opened on an instance that has not been Active: admission wants it Active.
LEMMA NoCallsBeforeActiveInv ==
    ASSUME Inv, [Next]_vars
    PROVE  NoCallsBeforeActive'
<1>0. TypeOK /\ ThreadsTyped /\ TablesTyped /\ NoCallsBeforeActive
  BY DEF Inv
<1> SUFFICES ASSUME NEW i \in Inst, st'[i] \in {"none", "Waiting"}
             PROVE  /\ \A t \in Ticket : tin'[t] # i
                    /\ \A th \in Thread : pc'[th] = "open_alloc" => at'[th] # i
  BY DEF NoCallsBeforeActive
<1>1. st[i] \in {"none", "Waiting"}
  <2>1. st \in [Inst -> CtxState] /\ made \in 0..MaxInst
    BY <1>0 DEF TypeOK, CtxType
  <2>2. ASSUME NEW l \in Logical, NEW s \in {"Waiting", "Active"}, made < MaxInst, Create(l, s)
        PROVE  st[i] \in {"none", "Waiting"}
    <3>1. made + 1 \in Inst
      BY <2>1, <2>2, SizeAssumption DEF Inst
    <3>2. st[made + 1] = "none"
      BY <1>0, <2>1, <3>1 DEF TablesTyped
    <3> QED
      BY <2>1, <2>2, <3>1, <3>2 DEF Create
  <2>3. ASSUME NEW j \in Inst,
               NEW s \in {"Active", "Quiescing", "CleanupPending", "Disposed", "Failed"},
               st' = [st EXCEPT ![j] = s]
        PROVE  st[i] \in {"none", "Waiting"}
    BY <2>1, <2>3
  <2> QED
    BY <2>2, <2>3, ContextStep
<1>2. /\ \A t \in Ticket : tin[t] # i
      /\ \A th \in Thread : pc[th] = "open_alloc" => at[th] # i
  BY <1>0, <1>1 DEF NoCallsBeforeActive
<1>3. ASSUME NEW t \in Ticket PROVE tin'[t] # i
  <2>1. CASE tin' = tin
    BY <1>2, <2>1
  <2>2. ASSUME NEW th \in Thread, OpenAlloc(th) PROVE tin'[t] # i
    BY <1>0, <1>2, <2>2 DEF OpenAlloc, callVars, TypeOK, CallType
  <2>3. ASSUME NEW th \in Thread, Start(th) \/ (Step(th) /\ ~OpenAlloc(th)) PROVE tin' = tin
    BY <2>3 DEF Start, OpenStart, CommitRead, CallCancel, CallClose, CallReap, Remove,
       DisposeInstance, LoadManifest, DisposePlugin, AcquireStuck, Fault,
       Step, OpenAdmit, OpenRevalidate, OpenSettle, CommitCheck, CommitPush, CommitSet, FinRead,
       FinPending, FinClaim, FinRelease, FinMark, RefreshRead, RefreshMark, DispClaim,
       DispRevoke, DispTickets, DispWait, DispExpire, DispPending, DispPark, DispRecheck,
       DispRelease, DispMark, LoadCurrent, LoadSubstitute, RecSnapshot, RecDone, RecCreate,
       RecPromote, CreateAcquire, CreatePlugin, PromoteAcquire, PromotePlugin, PromoteMark,
       FaultContext, callVars
  <2>4. CASE UNCHANGED vars \/ \E u \in Ticket : DeadlinePasses(u)
    BY <2>1, <2>4 DEF vars, callVars, DeadlinePasses
  <2> QED
    BY <2>1, <2>2, <2>3, <2>4 DEF Next
<1>4. ASSUME NEW x \in Thread, pc'[x] = "open_alloc" PROVE at'[x] # i
  <2>1. CASE pc'[x] = pc[x] /\ at'[x] = at[x]
    BY <1>2, <1>4, <2>1
  <2>2. ASSUME NEW th \in Thread, Start(th) \/ Step(th), x # th PROVE at'[x] # i
    BY <1>0, <2>1, <2>2, OthersStay
  <2>3. CASE Start(x)
    BY <1>0, <1>4, <2>1, <2>3 DEF Start, OpenStart, CommitRead, CallCancel, CallClose, CallReap,
       DisposeInstance, LoadManifest, DisposePlugin, AcquireStuck, Fault, Goto, Enter,
       localVars, TypeOK, ThreadType
  <2>4. CASE Step(x)
    <3>1. CASE OpenAdmit(x)
      BY <1>0, <1>1, <1>4, <3>1 DEF OpenAdmit, Admits, RequireActive, Enter, Goto, Return,
         Resume, TypeOK, ThreadType
    <3>2. CASE Leave(x)
      BY <1>0, <1>4, <3>2, LeaveGoes
    <3>3. CASE ~OpenAdmit(x) /\ ~Leave(x)
      BY <1>0, <1>4, <2>4, <3>3 DEF Step, OpenAlloc, OpenRevalidate, OpenSettle, CommitCheck,
         CommitPush, CommitSet, FinRead, FinPending, FinClaim, FinRelease, FinMark, RefreshRead,
         RefreshMark, DispClaim, DispRevoke, DispTickets, DispWait, DispExpire, DispPending,
         DispPark, DispRecheck, DispRelease, DispMark, LoadCurrent, LoadSubstitute, RecSnapshot,
         RecDone, RecCreate, RecPromote, CreateAcquire, CreatePlugin, PromoteAcquire,
         PromotePlugin, PromoteMark, FaultContext, Goto, Enter, Return, Resume,
         TypeOK, ThreadType
    <3> QED
      BY <3>1, <3>2, <3>3
  <2>5. CASE UNCHANGED vars \/ \E u \in Ticket : DeadlinePasses(u)
    BY <2>1, <2>5 DEF vars, localVars, DeadlinePasses
  <2> QED
    BY <2>2, <2>3, <2>4, <2>5 DEF Next
<1> QED
  BY <1>3, <1>4

\* What is known of the calls of a closed instance stays true.
LEMMA KnowledgeStays ==
    ASSUME Inv, [Next]_vars, NEW i \in Inst, Closed(i)
    PROVE  /\ Closed(i)'
           /\ NoAuthority(i) => NoAuthority(i)'
           /\ Holders(i) = {} => Holders(i)' = {}
<1>1. Closed(i)'
  BY ClosedStays
<1>2. ASSUME NoAuthority(i) PROVE NoAuthority(i)'
  BY <1>2, HoldersShrink DEF NoAuthority
<1>3. ASSUME Holders(i) = {} PROVE Holders(i)' = {}
  BY <1>3, HoldersShrink
<1> QED
  BY <1>1, <1>2, <1>3

\* What a thread knows stays true while other threads run.
LEMMA OthersKnow ==
    ASSUME Inv, [Next]_vars, NEW x \in Thread, pc'[x] = pc[x], at'[x] = at[x], dl'[x] = dl[x]
    PROVE  ThreadKnows(x)'
<1>0. TypeOK /\ ThreadsTyped /\ ThreadKnows(x)
  BY DEF Inv, ThreadsKnow
<1>1. CASE pc[x] \in Withdrawing \cup {"fin_pending", "refresh_read", "refresh_mark",
                                       "fin_claim", "fin_release", "fin_mark"}
  <2>1. at[x] \in Inst /\ Closed(at[x])
    BY <1>0, <1>1, AtInst DEF Withdrawing, ThreadKnows
  <2>2. /\ Closed(at[x])'
        /\ NoAuthority(at[x]) => NoAuthority(at[x])'
        /\ Holders(at[x]) = {} => Holders(at[x])' = {}
    BY <2>1, KnowledgeStays
  <2>3. ASSUME NEW t \in Holders(at[x])'
        PROVE  /\ t \in Holders(at[x])
               /\ tst'[t] = "Admitted" => tst[t] = "Admitted"
               /\ t \in armed => t \in armed'
               /\ t \in due => t \in due'
    BY <2>1, HoldersShrink
  <2> QED
    BY <1>0, <2>2, <2>3 DEF ThreadKnows
<1>2. CASE pc[x] \notin Withdrawing \cup {"fin_pending", "refresh_read", "refresh_mark",
                                          "fin_claim", "fin_release", "fin_mark"}
  BY <1>2 DEF ThreadKnows, Withdrawing
<1> QED
  BY <1>1, <1>2

\* The inductive step for what the threads know: each critical section of dispose
\* and maybe_finalize passes on what the next one relies on.
LEMMA ThreadsKnowInv ==
    ASSUME Inv, [Next]_vars
    PROVE  ThreadsKnow'
<1> SUFFICES ASSUME NEW x \in Thread PROVE ThreadKnows(x)'
  BY DEF ThreadsKnow
<1>0. TypeOK /\ ThreadsTyped /\ ThreadKnows(x) /\ AuthorityEndsAtCleanup
  BY DEF Inv, ThreadsKnow
<1> DEFINE Knowing == Withdrawing \cup {"fin_pending", "refresh_read", "refresh_mark",
                                        "fin_claim", "fin_release", "fin_mark"}
<1>k. pc'[x] \notin Knowing => ThreadKnows(x)'
  BY DEF ThreadKnows, Withdrawing
<1>1. ASSUME NEW th \in Thread, Start(th) \/ Step(th), x # th PROVE ThreadKnows(x)'
  BY <1>0, <1>1, OthersStay, OthersKnow
<1>2. CASE UNCHANGED vars \/ \E u \in Ticket : DeadlinePasses(u)
  BY <1>2, OthersKnow DEF vars, localVars, DeadlinePasses
<1>3. CASE Start(x)
  <2>1. pc'[x] \notin Knowing
    BY <1>0, <1>3 DEF Start, OpenStart, CommitRead, CallCancel, CallClose, CallReap, Withdrawing,
       DisposeInstance, LoadManifest, DisposePlugin, AcquireStuck, Fault, Goto, Enter,
       TypeOK, ThreadType
  <2> QED
    BY <1>k, <2>1
<1>4. CASE Step(x)
  <2>l. CASE Leave(x)
    BY <1>0, <1>k, <2>l, LeaveGoes DEF Withdrawing
  <2>p. PICK i \in 0..MaxInst : i = at[x]
    BY <1>0 DEF TypeOK, ThreadType
  <2>c. ASSUME i \in Inst, Closed(i)
        PROVE  /\ Closed(i)'
               /\ NoAuthority(i) => NoAuthority(i)'
               /\ Holders(i) = {} => Holders(i)' = {}
    BY <2>c, KnowledgeStays
  <2>h. ASSUME i \in Inst, Closed(i), NEW t \in Holders(i)'
        PROVE  /\ t \in Holders(i)
               /\ tst'[t] = "Admitted" => tst[t] = "Admitted"
               /\ t \in armed => t \in armed'
               /\ t \in due => t \in due'
    BY <2>h, HoldersShrink
  <2>e. Pending(i) = {} => Holders(i) = {} /\ NoAuthority(i)
    BY DEF Holders, NoAuthority
  <2> USE DEF Withdrawing, Goto, localVars
  <2>t. ThreadType
    BY <1>0 DEF TypeOK
  <2>a. /\ pc[x] \notin {"idle", "open_admit", "load_current", "load_substitute",
                         "rec_snapshot", "rec_next", "fault_context"} => i \in Inst
        /\ pc[x] \in Knowing => Closed(i)
        /\ pc[x] \in {"disp_pending", "disp_park", "disp_recheck", "fin_pending",
                      "refresh_read", "refresh_mark"} => NoAuthority(i)
        /\ pc[x] \in {"fin_claim", "fin_release", "fin_mark", "disp_release", "disp_mark"}
             => Holders(i) = {}
    BY <1>0, <2>p, AtInst DEF ThreadKnows
  <2>f. ASSUME at'[x] = i, i \in Inst, Closed(i)', pc'[x] \in {"disp_revoke", "disp_tickets"}
        PROVE  ThreadKnows(x)'
    BY <2>f DEF ThreadKnows
  <2>g. ASSUME at'[x] = i, i \in Inst, Closed(i)', NoAuthority(i)',
               pc'[x] \in {"disp_pending", "disp_park", "disp_recheck", "fin_pending",
                           "refresh_read", "refresh_mark"}
        PROVE  ThreadKnows(x)'
    BY <2>g DEF ThreadKnows
  <2>r. ASSUME at'[x] = i, i \in Inst, Closed(i)', Holders(i)' = {},
               pc'[x] \in {"fin_claim", "fin_release", "fin_mark", "disp_release", "disp_mark"}
        PROVE  ThreadKnows(x)'
    BY <2>r DEF ThreadKnows
  <2>1. CASE ~Leave(x) /\ FinRead(x)
    <3>1. i \in Inst /\ Closed(i) /\ NoAuthority(i)
      BY <1>0, <2>1, <2>a, <2>p DEF FinRead, Closed, AuthorityEndsAtCleanup, NoAuthority
    <3> QED
      BY <2>1, <2>c, <2>g, <2>p, <2>t, <3>1 DEF FinRead, ThreadType
  <2>2. CASE FinPending(x)
    BY <2>2, <2>a, <2>c, <2>e, <2>g, <2>p, <2>r, <2>t DEF FinPending, ThreadType
  <2>3. CASE ~Leave(x) /\ (RefreshRead(x) \/ RefreshMark(x))
    BY <2>3, <2>a, <2>c, <2>g, <2>p, <2>t DEF RefreshRead, RefreshMark, ThreadType
  <2>4. CASE ~Leave(x) /\ (FinClaim(x) \/ FinRelease(x))
    <3>1. pc[x] \in {"fin_claim", "fin_release"}
      BY <2>4 DEF FinClaim, FinRelease
    <3>2. pc'[x] \in {"fin_release", "fin_mark"} /\ at'[x] = i
      BY <2>4, <2>p, <2>t DEF FinClaim, FinRelease, ThreadType
    <3>3. i \in Inst /\ Closed(i) /\ Holders(i) = {}
      BY <2>a, <3>1
    <3> QED
      BY <2>c, <2>r, <3>2, <3>3
  <2>m. CASE ~Leave(x) /\ FinMark(x)
    <3>1. pc'[x] = "rec_snapshot"
      BY <2>m, <2>t DEF FinMark, ThreadType
    <3> QED
      BY <1>k, <3>1
  <2>5. CASE ~Leave(x) /\ DispClaim(x)
    <3>1. i \in Inst /\ st'[i] = "Quiescing"
      BY <1>0, <2>5, <2>a, <2>p DEF DispClaim, TypeOK, CtxType
    <3> QED
      BY <2>5, <2>f, <2>p, <2>t, <3>1 DEF DispClaim, ThreadType, Closed
  <2>6. CASE DispRevoke(x)
    BY <2>6, <2>a, <2>c, <2>f, <2>p, <2>t DEF DispRevoke, ThreadType
  <2>7. CASE DispTickets(x)
    <3>1. i \in Inst /\ Closed(i) /\ Closed(i)'
      BY <2>7, <2>a, <2>c DEF DispTickets
    <3>2. ASSUME NEW t \in Holders(i)', tst'[t] = "Admitted"
          PROVE  t \in armed' /\ t \in dl'[x]
      <4>1. t \in Ticket /\ t \in Pending(i) /\ tst[t] = "Admitted" /\ tpol[t] \in Policy
        BY <1>0, <2>h, <3>1, <3>2 DEF Holders, Pending, TypeOK, CallType
      <4>2. tpol[t] = "drain"
        BY <2>7, <2>p, <3>2, <4>1 DEF DispTickets, Policy
      <4> QED
        BY <2>7, <2>p, <2>t, <4>1, <4>2 DEF DispTickets, ThreadType
    <3>3. pc'[x] = "disp_wait" /\ at'[x] = i
      BY <2>7, <2>p, <2>t DEF DispTickets, ThreadType
    <3> QED
      BY <3>1, <3>2, <3>3 DEF ThreadKnows
  <2>8. CASE DispWait(x)
    <3>1. i \in Inst /\ Closed(i) /\ Closed(i)'
      BY <2>8, <2>a, <2>c DEF DispWait
    <3>2. ASSUME NEW t \in Holders(i)', tst'[t] = "Admitted"
          PROVE  t \in armed' /\ t \in due'
      <4>1. t \in Holders(i) /\ tst[t] = "Admitted"
        BY <2>h, <3>1, <3>2
      <4>2. t \in armed /\ t \in dl[x]
        BY <1>0, <2>8, <2>p, <4>1 DEF DispWait, ThreadKnows
      <4>3. t \in due
        BY <2>8, <2>e, <2>p, <4>1, <4>2 DEF DispWait
      <4> QED
        BY <2>8, <4>2, <4>3 DEF DispWait, callVars
    <3>3. pc'[x] = "disp_expire" /\ at'[x] = i
      BY <2>8, <2>p, <2>t DEF DispWait, ThreadType
    <3> QED
      BY <3>1, <3>2, <3>3 DEF ThreadKnows
  <2>9. CASE DispExpire(x)
    <3>1. i \in Inst /\ Closed(i) /\ Closed(i)'
      BY <2>9, <2>a, <2>c DEF DispExpire
    <3>2. ASSUME NEW t \in Holders(i)', tst'[t] = "Admitted" PROVE FALSE
      <4>1. t \in Ticket /\ t \in Holders(i) /\ tst[t] = "Admitted"
        BY <2>h, <3>1, <3>2 DEF Holders, Pending
      <4>2. t \in armed /\ t \in due
        BY <1>0, <2>9, <2>p, <4>1 DEF DispExpire, ThreadKnows
      <4> QED
        BY <2>9, <3>2, <4>1, <4>2 DEF DispExpire
    <3>3. pc'[x] = "disp_pending" /\ at'[x] = i
      BY <2>9, <2>p, <2>t DEF DispExpire, ThreadType
    <3>4. NoAuthority(i)'
      BY <3>2 DEF NoAuthority
    <3> QED
      BY <2>g, <3>1, <3>3, <3>4
  <2>10. CASE DispPending(x)
    BY <2>10, <2>a, <2>c, <2>e, <2>g, <2>p, <2>r, <2>t DEF DispPending, ThreadType
  <2>11. CASE DispPark(x)
    BY <2>11, <2>a, <2>c, <2>g, <2>p, <2>t DEF DispPark, ThreadType
  <2>12. CASE ~Leave(x) /\ DispRecheck(x)
    <3>1. pc'[x] = "fin_read"
      BY <2>12, <2>t DEF DispRecheck, ThreadType
    <3> QED
      BY <1>k, <3>1
  <2>13. CASE ~Leave(x) /\ (DispRelease(x) \/ DispMark(x))
    BY <2>13, <2>a, <2>c, <2>p, <2>r, <2>t DEF DispRelease, DispMark, ThreadType
  <2>14. CASE ~\/ Leave(x) \/ FinRead(x) \/ FinPending(x) \/ RefreshRead(x) \/ RefreshMark(x)
               \/ FinClaim(x) \/ FinRelease(x) \/ FinMark(x) \/ DispClaim(x) \/ DispRevoke(x)
               \/ DispTickets(x) \/ DispWait(x) \/ DispExpire(x) \/ DispPending(x) \/ DispPark(x)
               \/ DispRecheck(x) \/ DispRelease(x) \/ DispMark(x)
    <3>1. pc'[x] \notin Knowing
      <4>1. CASE \/ OpenAdmit(x) \/ OpenAlloc(x) \/ OpenRevalidate(x) \/ OpenSettle(x)
                 \/ CommitCheck(x) \/ CommitPush(x) \/ CommitSet(x)
        BY <2>t, <4>1 DEF OpenAdmit, OpenAlloc, OpenRevalidate, OpenSettle, CommitCheck,
           CommitPush, CommitSet, Enter, Return, Resume, ThreadType
      <4>2. CASE LoadCurrent(x) \/ LoadSubstitute(x) \/ FaultContext(x)
        BY <2>t, <4>2 DEF LoadCurrent, LoadSubstitute, FaultContext, Enter, Return, Resume,
           ThreadType
      <4>3. CASE RecSnapshot(x) \/ RecDone(x)
        <5>1. pc'[x] = "rec_next"
          BY <2>t, <2>14, <4>3 DEF RecSnapshot, RecDone, ThreadType
        <5> QED
          BY <5>1
      <4>5. ASSUME NEW l \in Logical, RecCreate(x, l) \/ RecPromote(x, l) PROVE pc'[x] \notin Knowing
        <5>1. pc'[x] \in {"create_acquire", "promote_acquire", "rec_next"}
          BY <2>t, <4>5 DEF RecCreate, RecPromote, ThreadType
        <5> QED
          BY <5>1
      <4>4. CASE \/ CreateAcquire(x) \/ CreatePlugin(x) \/ PromoteAcquire(x) \/ PromotePlugin(x)
                 \/ PromoteMark(x)
        BY <2>t, <4>4 DEF CreateAcquire, CreatePlugin, PromoteAcquire, PromotePlugin, PromoteMark,
           ThreadType
      <4> QED
        BY <1>4, <2>14, <4>1, <4>2, <4>3, <4>4, <4>5 DEF Step
    <3> QED
      BY <1>k, <3>1
  <2> QED
    BY <2>l, <2>m, <2>1, <2>2, <2>3, <2>4, <2>5, <2>6, <2>7, <2>8, <2>9, <2>10, <2>11, <2>12,
       <2>13, <2>14
<1> QED
  BY <1>1, <1>2, <1>3, <1>4 DEF Next

\* Resources are released only for a closed instance without holders, and neither
\* changes afterwards.
LEMMA ReleaseInv ==
    ASSUME Inv, [Next]_vars
    PROVE  CleanedIsClosed' /\ NoEarlyRelease'
<1>0. TypeOK /\ ThreadsTyped /\ ThreadsKnow /\ CleanedIsClosed /\ NoEarlyRelease
  BY DEF Inv
<1> SUFFICES ASSUME NEW i \in cleaned' PROVE Closed(i)' /\ Holders(i)' = {}
  BY DEF CleanedIsClosed, NoEarlyRelease
<1>1. CASE i \in cleaned
  <2>1. i \in Inst /\ Closed(i) /\ Holders(i) = {}
    BY <1>0, <1>1 DEF CleanedIsClosed, NoEarlyRelease, TypeOK, ResType
  <2> QED
    BY <2>1, KnowledgeStays
<1>2. ASSUME NEW th \in Thread, FinRelease(th) \/ DispRelease(th), i = at[th]
      PROVE  Closed(i)' /\ Holders(i)' = {}
  <2>1. i \in Inst /\ Closed(i) /\ Holders(i) = {}
    BY <1>0, <1>2, AtInst DEF ThreadsKnow, ThreadKnows, FinRelease, DispRelease, Withdrawing
  <2> QED
    BY <2>1, KnowledgeStays
<1>3. ASSUME NEW th \in Thread, FinRelease(th) \/ DispRelease(th)
      PROVE  i \in cleaned \/ i = at[th]
  BY <1>3 DEF FinRelease, DispRelease, ReleaseContextResources
<1>4. CASE ~\E th \in Thread : FinRelease(th) \/ DispRelease(th)
  <2>1. ASSUME NEW th \in Thread, Start(th) PROVE cleaned' = cleaned
    BY <2>1 DEF Start, OpenStart, CommitRead, CallCancel, CallClose, CallReap,
       DisposeInstance, LoadManifest, DisposePlugin, AcquireStuck, Fault, resVars
  <2>2. ASSUME NEW th \in Thread, Step(th) PROVE cleaned' = cleaned
    BY <1>4, <2>2 DEF Step, OpenAdmit, OpenAlloc, OpenRevalidate, OpenSettle, CommitCheck,
       CommitPush, CommitSet, FinRead, FinPending, FinClaim, FinMark, RefreshRead, RefreshMark,
       DispClaim, DispRevoke, DispTickets, DispWait, DispExpire, DispPending, DispPark,
       DispRecheck, DispMark, LoadCurrent, LoadSubstitute, RecSnapshot, RecDone, RecCreate,
       RecPromote, Acquire, CreateAcquire, CreatePlugin, PromoteAcquire, PromotePlugin,
       PromoteMark, FaultContext, resVars
  <2>3. ASSUME NEW u \in Ticket, DeadlinePasses(u) PROVE cleaned' = cleaned
    BY <2>3 DEF resVars, DeadlinePasses
  <2>s. ASSUME UNCHANGED vars PROVE cleaned' = cleaned
    BY <2>s DEF vars, resVars
  <2>4. cleaned' = cleaned
    BY <2>1, <2>2, <2>3, <2>s DEF Next
  <2> QED
    BY <1>1, <2>4
<1> QED
  BY <1>1, <1>2, <1>3, <1>4

\* An instance is marked CleanupPending or Disposed by a thread that knows that no
\* holder has authority.
LEMMA AuthorityInv ==
    ASSUME Inv, [Next]_vars
    PROVE  AuthorityEndsAtCleanup'
<1>0. TypeOK /\ ThreadsKnow /\ TablesTyped /\ AuthorityEndsAtCleanup
  BY DEF Inv
<1> SUFFICES ASSUME NEW i \in Inst, st'[i] \in {"CleanupPending", "Disposed"}
             PROVE  NoAuthority(i)'
  BY DEF AuthorityEndsAtCleanup, NoAuthority
<1>1. ASSUME Closed(i), NoAuthority(i) PROVE NoAuthority(i)'
  BY <1>1, KnowledgeStays
<1>2. CASE st[i] \in {"CleanupPending", "Disposed"}
  BY <1>0, <1>1, <1>2 DEF AuthorityEndsAtCleanup, NoAuthority, Closed
<1>3. CASE st[i] \notin {"CleanupPending", "Disposed"}
  <2>1. st \in [Inst -> CtxState] /\ made \in 0..MaxInst
    BY <1>0 DEF TypeOK, CtxType
  <2>2. ASSUME NEW l \in Logical, NEW s \in {"Waiting", "Active"}, made < MaxInst, Create(l, s)
        PROVE  FALSE
    <3>1. made + 1 \in Inst
      BY <2>1, <2>2, SizeAssumption DEF Inst
    <3> QED
      BY <1>3, <2>1, <2>2, <3>1 DEF Create
  <2>3. ASSUME NEW j \in Inst,
               NEW s \in {"Active", "Quiescing", "CleanupPending", "Disposed", "Failed"},
               st' = [st EXCEPT ![j] = s],
               s \in {"CleanupPending", "Disposed"} =>
                 /\ Closed(j)
                 /\ \E th \in Thread :
                      /\ at[th] = j
                      /\ pc[th] \in {"disp_park", "disp_mark", "refresh_mark", "fin_mark"}
        PROVE  NoAuthority(i)'
    <3>1. i = j /\ s \in {"CleanupPending", "Disposed"}
      BY <1>3, <2>1, <2>3
    <3>2. PICK th \in Thread :
            /\ at[th] = i
            /\ pc[th] \in {"disp_park", "disp_mark", "refresh_mark", "fin_mark"}
      BY <2>3, <3>1
    <3>3. NoAuthority(i)
      BY <1>0, <3>2 DEF ThreadsKnow, ThreadKnows, NoAuthority
    <3> QED
      BY <1>1, <2>3, <3>1, <3>3
  <2>4. ~UNCHANGED <<st, cur, made>>
    BY <1>3
  <2> QED
    BY <2>2, <2>3, <2>4, ContextStep
<1> QED
  BY <1>2, <1>3

\* The empty kernel satisfies the invariant.
LEMMA InitInv == Init => Inv
<1> SUFFICES ASSUME Init PROVE Inv
  OBVIOUS
<1>1. 0 \in 0..MaxInst /\ 0 \in 0..MaxTickets
  BY SizeAssumption
<1>2. CtxType /\ PlugType /\ unloaded \in [Inst -> 0..2]
  BY <1>1 DEF Init, CtxType, PlugType, CtxState
<1>3. ResType /\ CallType
  BY <1>1 DEF Init, ResType, CallType, Policy
<1>4. ThreadType
  BY <1>1 DEF Init, ThreadType, PC
<1>5. ThreadsTyped
  BY DEF Init, ThreadsTyped, ThreadTyped
<1>6. TablesTyped
  BY <1>1 DEF Init, TablesTyped, Live, TicketState
<1>7. NoCallsBeforeActive
  BY DEF Init, NoCallsBeforeActive, Inst
<1>8. ThreadsKnow
  BY DEF Init, ThreadsKnow, ThreadKnows, Withdrawing
<1>9. CleanedIsClosed /\ NoEarlyRelease /\ AuthorityEndsAtCleanup
  BY DEF Init, CleanedIsClosed, NoEarlyRelease, AuthorityEndsAtCleanup
<1> QED
  BY <1>2, <1>3, <1>4, <1>5, <1>6, <1>7, <1>8, <1>9 DEF Inv, TypeOK

\* Inv is an invariant of the kernel: the induction that the theorems below share.
THEOREM Invariance == Spec => []Inv
<1>1. Inv /\ [Next]_vars => Inv'
  <2> SUFFICES ASSUME Inv, [Next]_vars PROVE Inv'
    OBVIOUS
  <2>1. TypeOK' /\ ThreadsTyped'
    BY TypeInv, ThreadsTypedInv DEF Inv
  <2>2. TablesTyped' /\ NoCallsBeforeActive'
    BY TablesTypedInv, NoCallsBeforeActiveInv
  <2>3. ThreadsKnow' /\ CleanedIsClosed' /\ NoEarlyRelease' /\ AuthorityEndsAtCleanup'
    BY ThreadsKnowInv, ReleaseInv, AuthorityInv
  <2> QED
    BY <2>1, <2>2, <2>3 DEF Inv
<1> QED
  BY <1>1, InitInv, PTL DEF Spec

\* Every table of the kernel and every thread local keeps its type, whatever the
\* number of threads, plugins, instances and tickets.
THEOREM TypeCorrect == Spec => []TypeOK
<1>1. Inv => TypeOK
  BY DEF Inv
<1> QED
  BY <1>1, Invariance, PTL

\* release_context_resources never runs for an instance that a client still has a
\* ticket of, and no ticket of it is handed out afterwards, for any number of
\* threads: the pending check of dispose and maybe_finalize and the revalidation of
\* call_open make up for the missing lock.
THEOREM ReleaseSafety == Spec => []NoEarlyRelease
<1>1. Inv => NoEarlyRelease
  BY DEF Inv
<1> QED
  BY <1>1, Invariance, PTL

\* No ticket that a client holds has authority once its instance is reported
\* CleanupPending or Disposed.
THEOREM AuthoritySafety == Spec => []AuthorityEndsAtCleanup
<1>1. Inv => AuthorityEndsAtCleanup
  BY DEF Inv
<1> QED
  BY <1>1, Invariance, PTL

----------------------------------------------------------------------------
(* Withdrawal and release are exclusive.                                    *)

\* A thread enters the withdrawal of an instance by claiming one that is Active or
\* Waiting, and stays on that instance until the withdrawal is over.
LEMMA WithdrawStep ==
    ASSUME Inv, [Next]_vars, NEW x \in Thread, pc'[x] \in Withdrawing
    PROVE  /\ at'[x] = at[x]
           /\ \/ pc[x] \in Withdrawing
              \/ DispClaim(x) /\ st[at[x]] \in {"Active", "Waiting"}
<1>0. TypeOK
  BY DEF Inv
<1>1. CASE pc'[x] = pc[x] /\ at'[x] = at[x]
  BY <1>1
<1>2. ASSUME NEW th \in Thread, Start(th) \/ Step(th), x # th
      PROVE  pc'[x] = pc[x] /\ at'[x] = at[x]
  BY <1>0, <1>2, OthersStay
<1>3. CASE UNCHANGED vars \/ \E u \in Ticket : DeadlinePasses(u)
  BY <1>1, <1>3 DEF vars, localVars, DeadlinePasses
<1>t. ThreadType
  BY <1>0 DEF TypeOK
<1>4. CASE Start(x)
  <2>1. pc'[x] = pc[x] /\ at'[x] = at[x]
    BY <1>t, <1>4 DEF Start, OpenStart, CommitRead, CallCancel, CallClose, CallReap, Withdrawing,
       DisposeInstance, LoadManifest, DisposePlugin, AcquireStuck, Fault, Goto, Enter, localVars,
       ThreadType
  <2> QED
    BY <1>1, <2>1
<1>5. CASE Step(x)
  <2>l. CASE Leave(x)
    BY <1>0, <2>l, LeaveGoes DEF Withdrawing
  <2>1. CASE DispClaim(x) \/ DispRevoke(x) \/ DispTickets(x) \/ DispWait(x) \/ DispExpire(x)
    BY <1>t, <2>l, <2>1 DEF DispClaim, DispRevoke, DispTickets, DispWait, DispExpire, Withdrawing,
       Goto, localVars, ThreadType
  <2>2. CASE DispPending(x) \/ DispPark(x) \/ DispRecheck(x) \/ DispRelease(x) \/ DispMark(x)
    BY <1>t, <2>l, <2>2 DEF DispPending, DispPark, DispRecheck, DispRelease, DispMark, Withdrawing,
       Goto, localVars, ThreadType
  <2>3. CASE ~\/ DispClaim(x) \/ DispRevoke(x) \/ DispTickets(x) \/ DispWait(x) \/ DispExpire(x)
              \/ DispPending(x) \/ DispPark(x) \/ DispRecheck(x) \/ DispRelease(x) \/ DispMark(x)
              \/ Leave(x)
    <3>1. CASE \/ OpenAdmit(x) \/ OpenAlloc(x) \/ OpenRevalidate(x) \/ OpenSettle(x)
               \/ CommitCheck(x) \/ CommitPush(x) \/ CommitSet(x)
               \/ LoadCurrent(x) \/ LoadSubstitute(x) \/ FaultContext(x)
      BY <1>t, <3>1 DEF OpenAdmit, OpenAlloc, OpenRevalidate, OpenSettle, CommitCheck,
         CommitPush, CommitSet, LoadCurrent, LoadSubstitute, FaultContext, Goto, Enter, Return,
         Resume, Withdrawing, ThreadType
    <3>2. CASE \/ FinRead(x) \/ FinPending(x) \/ FinClaim(x) \/ FinRelease(x) \/ FinMark(x)
               \/ RefreshRead(x) \/ RefreshMark(x)
      BY <1>t, <2>3, <3>2 DEF FinRead, FinPending, FinClaim, FinRelease, FinMark, RefreshRead,
         RefreshMark, Goto, Withdrawing, ThreadType
    <3>3. CASE RecSnapshot(x) \/ RecDone(x)
      BY <1>t, <2>3, <3>3 DEF RecSnapshot, RecDone, Goto, Withdrawing, ThreadType
    <3>4. ASSUME NEW l \in Logical, RecCreate(x, l) \/ RecPromote(x, l) PROVE FALSE
      BY <1>t, <3>4 DEF RecCreate, RecPromote, Goto, Withdrawing, ThreadType
    <3>5. CASE \/ CreateAcquire(x) \/ CreatePlugin(x) \/ PromoteAcquire(x) \/ PromotePlugin(x)
               \/ PromoteMark(x)
      BY <1>t, <3>5 DEF CreateAcquire, CreatePlugin, PromoteAcquire, PromotePlugin, PromoteMark,
         Goto, Withdrawing, ThreadType
    <3> QED
      BY <1>5, <2>3, <3>1, <3>2, <3>3, <3>4, <3>5 DEF Step
  <2> QED
    BY <2>l, <2>1, <2>2, <2>3
<1> QED
  BY <1>1, <1>2, <1>3, <1>4, <1>5 DEF Next

\* A claim finds the instance open, and whoever withdraws an instance has closed it.
LEMMA SingleWithdrawInv ==
    ASSUME Inv, SingleWithdraw, [Next]_vars
    PROVE  SingleWithdraw'
<1>0. TypeOK /\ ThreadsTyped /\ ThreadsKnow
  BY DEF Inv
<1> SUFFICES ASSUME NEW t1 \in Thread, NEW t2 \in Thread, pc'[t1] \in Withdrawing,
                    pc'[t2] \in Withdrawing, at'[t1] = at'[t2], t1 # t2
             PROVE  FALSE
  BY DEF SingleWithdraw
<1>1. ASSUME NEW x \in Thread, NEW y \in Thread, x # y, DispClaim(x),
             pc'[y] \in Withdrawing, at'[x] = at'[y], pc'[x] \in Withdrawing,
             st[at[x]] \in {"Active", "Waiting"}
      PROVE  FALSE
  <2>1. pc'[y] = pc[y] /\ at'[y] = at[y] /\ at'[x] = at[x]
    BY <1>0, <1>1, OthersStay, WithdrawStep DEF Step
  <2>2. Closed(at[y])
    BY <1>0, <1>1, <2>1 DEF ThreadsKnow, ThreadKnows
  <2> QED
    BY <1>1, <2>1, <2>2 DEF Closed
<1>2. pc[t1] \in Withdrawing /\ pc[t2] \in Withdrawing /\ at[t1] = at[t2]
  BY <1>1, WithdrawStep
<1> QED
  BY <1>2 DEF SingleWithdraw

\* Two disposers of one instance never withdraw it both, for any number of threads.
THEOREM WithdrawExclusive == Spec => []SingleWithdraw
<1>1. Init => SingleWithdraw
  BY DEF Init, SingleWithdraw, Withdrawing
<1>2. Inv /\ SingleWithdraw /\ [Next]_vars => SingleWithdraw'
  BY SingleWithdrawInv
<1> QED
  BY <1>1, <1>2, Invariance, PTL DEF Spec

\* A thread enters maybe_finalize's critical sections by reading CleanupPending, and
\* stays on that instance; it gets past the claim only by taking it.
LEMMA FinalizeStep ==
    ASSUME Inv, [Next]_vars, NEW x \in Thread, pc'[x] \in Finalizing
    PROVE  /\ at'[x] = at[x]
           /\ \/ pc[x] \in Finalizing
              \/ FinRead(x) /\ st[at[x]] = "CleanupPending"
           /\ pc'[x] \in {"fin_release", "fin_mark"} =>
                \/ pc[x] \in {"fin_release", "fin_mark"}
                \/ FinClaim(x) /\ at[x] \notin claims /\ claims' = claims \cup {at[x]}
<1>0. TypeOK
  BY DEF Inv
<1>1. CASE pc'[x] = pc[x] /\ at'[x] = at[x]
  BY <1>1
<1>2. ASSUME NEW th \in Thread, Start(th) \/ Step(th), x # th
      PROVE  pc'[x] = pc[x] /\ at'[x] = at[x]
  BY <1>0, <1>2, OthersStay
<1>3. CASE UNCHANGED vars \/ \E u \in Ticket : DeadlinePasses(u)
  BY <1>1, <1>3 DEF vars, localVars, DeadlinePasses
<1>t. ThreadType
  BY <1>0 DEF TypeOK
<1>4. CASE Start(x)
  <2>1. pc'[x] = pc[x] /\ at'[x] = at[x]
    BY <1>t, <1>4 DEF Start, OpenStart, CommitRead, CallCancel, CallClose, CallReap, Finalizing,
       DisposeInstance, LoadManifest, DisposePlugin, AcquireStuck, Fault, Goto, Enter, localVars,
       ThreadType
  <2> QED
    BY <1>1, <2>1
<1>5. CASE Step(x)
  <2>l. CASE Leave(x)
    BY <1>0, <2>l, LeaveGoes DEF Finalizing
  <2>1. CASE \/ FinRead(x) \/ FinPending(x) \/ FinClaim(x) \/ FinRelease(x) \/ FinMark(x)
             \/ RefreshRead(x) \/ RefreshMark(x)
    BY <1>t, <2>l, <2>1 DEF FinRead, FinPending, FinClaim, FinRelease, FinMark, RefreshRead,
       RefreshMark, Goto, Finalizing, ThreadType, localVars, resVars
  <2>2. CASE ~\/ FinRead(x) \/ FinPending(x) \/ FinClaim(x) \/ FinRelease(x) \/ FinMark(x)
              \/ RefreshRead(x) \/ RefreshMark(x) \/ Leave(x)
    <3>1. CASE \/ OpenAdmit(x) \/ OpenAlloc(x) \/ OpenRevalidate(x) \/ OpenSettle(x)
               \/ CommitCheck(x) \/ CommitPush(x) \/ CommitSet(x)
               \/ LoadCurrent(x) \/ LoadSubstitute(x) \/ FaultContext(x)
      BY <1>t, <3>1 DEF OpenAdmit, OpenAlloc, OpenRevalidate, OpenSettle, CommitCheck,
         CommitPush, CommitSet, LoadCurrent, LoadSubstitute, FaultContext, Goto, Enter, Return,
         Resume, Finalizing, ThreadType
    <3>2. CASE DispClaim(x) \/ DispRevoke(x) \/ DispTickets(x) \/ DispWait(x) \/ DispExpire(x)
      BY <1>t, <2>2, <3>2 DEF DispClaim, DispRevoke, DispTickets, DispWait, DispExpire, Finalizing,
         Goto, ThreadType
    <3>3. CASE DispPending(x) \/ DispPark(x) \/ DispRecheck(x) \/ DispRelease(x) \/ DispMark(x)
      BY <1>t, <2>2, <3>3 DEF DispPending, DispPark, DispRecheck, DispRelease, DispMark, Finalizing,
         Goto, ThreadType
    <3>4. CASE RecSnapshot(x) \/ RecDone(x)
      BY <1>t, <2>2, <3>4 DEF RecSnapshot, RecDone, Goto, Finalizing, ThreadType
    <3>5. ASSUME NEW l \in Logical, RecCreate(x, l) \/ RecPromote(x, l) PROVE FALSE
      BY <1>t, <3>5 DEF RecCreate, RecPromote, Goto, Finalizing, ThreadType
    <3>6. CASE \/ CreateAcquire(x) \/ CreatePlugin(x) \/ PromoteAcquire(x) \/ PromotePlugin(x)
               \/ PromoteMark(x)
      BY <1>t, <3>6 DEF CreateAcquire, CreatePlugin, PromoteAcquire, PromotePlugin, PromoteMark,
         Goto, Finalizing, ThreadType
    <3> QED
      BY <1>5, <2>2, <3>1, <3>2, <3>3, <3>4, <3>5, <3>6 DEF Step
  <2> QED
    BY <2>l, <2>1, <2>2
<1> QED
  BY <1>1, <1>2, <1>3, <1>4, <1>5 DEF Next, Finalizing

\* Only maybe_finalize touches the claims: a taken claim is given back by its holder.
LEMMA ClaimsStep ==
    ASSUME Inv, [Next]_vars
    PROVE  \/ UNCHANGED claims
           \/ \E th \in Thread : FinClaim(th) /\ claims' = claims \cup {at[th]}
           \/ \E th \in Thread : FinMark(th) /\ claims' = claims \ {at[th]}
<1>1. ASSUME NEW th \in Thread, Start(th) PROVE UNCHANGED claims
  BY <1>1 DEF Start, OpenStart, CommitRead, CallCancel, CallClose, CallReap,
     DisposeInstance, LoadManifest, DisposePlugin, AcquireStuck, Fault, resVars
<1>2. ASSUME NEW th \in Thread, Step(th), ~FinClaim(th), ~FinMark(th) PROVE UNCHANGED claims
  BY <1>2 DEF Step, OpenAdmit, OpenAlloc, OpenRevalidate, OpenSettle, CommitCheck,
     CommitPush, CommitSet, FinRead, FinPending, FinRelease, RefreshRead, RefreshMark,
     DispClaim, DispRevoke, DispTickets, DispWait, DispExpire, DispPending, DispPark,
     DispRecheck, DispRelease, DispMark, LoadCurrent, LoadSubstitute, RecSnapshot, RecDone,
     RecCreate, RecPromote, Acquire, CreateAcquire, CreatePlugin, PromoteAcquire, PromotePlugin,
     PromoteMark, FaultContext, resVars
<1>3. CASE UNCHANGED vars \/ \E u \in Ticket : DeadlinePasses(u)
  BY <1>3 DEF vars, resVars, DeadlinePasses
<1>4. ASSUME NEW th \in Thread, FinClaim(th)
      PROVE  UNCHANGED claims \/ claims' = claims \cup {at[th]}
  BY <1>4 DEF FinClaim
<1>5. ASSUME NEW th \in Thread, FinMark(th) PROVE claims' = claims \ {at[th]}
  BY <1>5 DEF FinMark
<1> QED
  BY <1>1, <1>2, <1>3, <1>4, <1>5 DEF Next

\* The claim keeps a second finalizer out.
LEMMA ClaimHeldInv ==
    ASSUME Inv, ClaimHeld, [Next]_vars
    PROVE  ClaimHeld'
<1> DEFINE R == {"fin_release", "fin_mark"}
<1>r. R \subseteq Finalizing
  BY DEF Finalizing
<1>0. TypeOK
  BY DEF Inv
<1>h. /\ \A th \in Thread : pc[th] \in R => at[th] \in claims
      /\ \A t1, t2 \in Thread : pc[t1] \in R /\ pc[t2] \in R /\ at[t1] = at[t2] => t1 = t2
  BY DEF ClaimHeld
<1>s. ASSUME NEW x \in Thread, pc'[x] \in R
      PROVE  /\ at'[x] = at[x]
             /\ \/ pc[x] \in R
                \/ FinClaim(x) /\ at[x] \notin claims /\ claims' = claims \cup {at[x]}
  BY <1>r, <1>s, FinalizeStep
<1>1. ASSUME NEW x \in Thread, pc'[x] \in R PROVE at'[x] \in claims'
  <2>1. ASSUME NEW th \in Thread, FinMark(th), at[th] = at[x], pc[x] \in R PROVE FALSE
    <3>1. pc[th] \in R
      BY <2>1 DEF FinMark
    <3>2. th = x
      BY <1>h, <2>1, <3>1
    <3>3. pc'[x] \in {"idle", "rec_snapshot", "load_current"}
      BY <1>0, <2>1, <3>2, LeaveGoes DEF FinMark, Goto, TypeOK, ThreadType
    <3> QED
      BY <1>1, <3>3
  <2> QED
    BY <1>h, <1>s, <1>1, <2>1, ClaimsStep
<1>2. ASSUME NEW t1 \in Thread, NEW t2 \in Thread, pc'[t1] \in R, pc'[t2] \in R,
             at'[t1] = at'[t2], t1 # t2
      PROVE  FALSE
  <2>1. ASSUME NEW x \in Thread, NEW y \in Thread, x # y, pc'[y] \in R, at'[x] = at'[y],
               pc'[x] \in R, FinClaim(x), at[x] \notin claims
        PROVE  FALSE
    <3>1. pc'[y] = pc[y]
      BY <1>0, <2>1, OthersStay DEF Step
    <3> QED
      BY <1>h, <1>s, <2>1, <3>1
  <2> QED
    BY <1>h, <1>s, <1>2, <2>1
<1> QED
  BY <1>1, <1>2 DEF ClaimHeld

\* Nothing but the withdrawal itself marks a withdrawn instance CleanupPending.
LEMMA SoleWithdrawerInv ==
    ASSUME Inv, SingleWithdraw, SoleWithdrawer, [Next]_vars
    PROVE  SoleWithdrawer'
<1>0. TypeOK /\ ThreadsTyped /\ ThreadsKnow
  BY DEF Inv
<1> DEFINE W == Withdrawing \ {"disp_recheck"}
<1> SUFFICES ASSUME NEW w \in Thread, pc'[w] \in W
             PROVE  /\ st'[at'[w]] \in {"Quiescing", "Failed"}
                    /\ \A x \in Thread : pc'[x] \in Finalizing => at'[x] # at'[w]
  BY DEF SoleWithdrawer
<1>w. /\ at'[w] = at[w]
      /\ \/ pc[w] \in Withdrawing
         \/ DispClaim(w) /\ st[at[w]] \in {"Active", "Waiting"}
  BY WithdrawStep
<1>i. at[w] \in Inst
  BY <1>0, <1>w, AtInst DEF Withdrawing, DispClaim
<1>s. st \in [Inst -> CtxState] /\ made \in 0..MaxInst
  BY <1>0 DEF TypeOK, CtxType
<1>1. CASE DispClaim(w) /\ st[at[w]] \in {"Active", "Waiting"}
  <2>1. st'[at[w]] = "Quiescing"
    BY <1>i, <1>s, <1>1 DEF DispClaim
  <2>2. ASSUME NEW x \in Thread, pc'[x] \in Finalizing PROVE at'[x] # at'[w]
    <3>1. x # w
      BY <2>2 DEF Withdrawing, Finalizing
    <3>2. pc'[x] = pc[x] /\ at'[x] = at[x]
      BY <1>0, <1>1, <3>1, OthersStay DEF Step
    <3>3. Closed(at[x])
      BY <1>0, <2>2, <3>2 DEF ThreadsKnow, ThreadKnows, Finalizing
    <3> QED
      BY <1>w, <1>1, <3>2, <3>3 DEF Closed
  <2> QED
    BY <1>w, <2>1, <2>2
<1>2. CASE pc[w] \in Withdrawing
  <2>0. ~DispPark(w) /\ ~DispMark(w) /\ ~DispRecheck(w)
    <3>1. ASSUME DispPark(w) PROVE FALSE
      BY <1>0, <3>1 DEF DispPark, Goto, TypeOK, ThreadType
    <3>2. ASSUME DispMark(w) PROVE FALSE
      BY <1>0, <3>2, LeaveGoes DEF DispMark, Withdrawing
    <3>3. ASSUME DispRecheck(w) PROVE FALSE
      BY <1>0, <3>3, LeaveGoes DEF DispRecheck, Withdrawing, Goto, TypeOK, ThreadType
    <3> QED
      BY <3>1, <3>2, <3>3
  <2>1. pc[w] \in W
    <3>1. ASSUME pc[w] = "disp_recheck" PROVE FALSE
      <4>1. ASSUME NEW th \in Thread, Start(th) \/ Step(th) PROVE pc'[w] = pc[w]
        <5>1. CASE th = w
          BY <2>0, <3>1, <4>1, <5>1 DEF Start, OpenStart, CommitRead, CallCancel, CallClose, CallReap,
             DisposeInstance, LoadManifest, DisposePlugin, AcquireStuck, Fault,
             Step, OpenAdmit, OpenAlloc, OpenRevalidate, OpenSettle, CommitCheck, CommitPush,
             CommitSet, FinRead, FinPending, FinClaim, FinRelease, FinMark, RefreshRead,
             RefreshMark, DispClaim, DispRevoke, DispTickets, DispWait, DispExpire, DispPending,
             DispPark, DispRelease, DispMark, LoadCurrent, LoadSubstitute, RecSnapshot,
             RecDone, RecCreate, RecPromote, CreateAcquire, CreatePlugin, PromoteAcquire,
             PromotePlugin, PromoteMark, FaultContext
        <5> QED
          BY <1>0, <4>1, <5>1, OthersStay
      <4>2. CASE UNCHANGED vars \/ \E u \in Ticket : DeadlinePasses(u)
        BY <3>1, <4>2 DEF vars, DeadlinePasses
      <4> QED
        BY <3>1, <4>1, <4>2 DEF Next
    <3> QED
      BY <1>2, <3>1
  <2>2. /\ st[at[w]] \in {"Quiescing", "Failed"}
        /\ \A x \in Thread : pc[x] \in Finalizing => at[x] # at[w]
    BY <2>1 DEF SoleWithdrawer
  <2>3. ASSUME NEW x \in Thread, pc'[x] \in Finalizing PROVE at'[x] # at'[w]
    BY <1>w, <2>2, <2>3, FinalizeStep
  <2>4. st'[at[w]] \in {"Quiescing", "Failed"}
    <3>1. CASE UNCHANGED <<st, cur, made>>
      BY <2>2, <3>1
    <3>2. ASSUME NEW l \in Logical, NEW s \in {"Waiting", "Active"}, Create(l, s)
          PROVE  st'[at[w]] \in {"Quiescing", "Failed"}
      <4>1. at[w] <= made
        BY <1>i, <1>s, <2>2 DEF Inv, TablesTyped, Inst
      <4> QED
        BY <1>i, <1>s, <2>2, <3>2, <4>1 DEF Create
    <3>3. ASSUME NEW th \in Thread, at[th] = at[w],
                 DispPark(th) \/ DispMark(th) \/ RefreshMark(th) \/ FinMark(th)
          PROVE  FALSE
      <4>1. CASE RefreshMark(th) \/ FinMark(th)
        BY <2>2, <3>3, <4>1 DEF RefreshMark, FinMark, Finalizing
      <4>2. CASE DispPark(th) \/ DispMark(th)
        BY <1>2, <2>0, <3>3, <4>2 DEF DispPark, DispMark, Withdrawing, SingleWithdraw
      <4> QED
        BY <3>3, <4>1, <4>2
    <3>4. ASSUME NEW j \in Inst,
                 NEW s \in {"Active", "Quiescing", "CleanupPending", "Disposed", "Failed"},
                 st' = [st EXCEPT ![j] = s],
                 s = "Active" => st[j] \in {"Waiting", "Active"},
                 s \in {"CleanupPending", "Disposed"} =>
                   \E th \in Thread :
                     /\ at[th] = j
                     /\ DispPark(th) \/ DispMark(th) \/ RefreshMark(th) \/ FinMark(th)
          PROVE  st'[at[w]] \in {"Quiescing", "Failed"}
      <4>1. CASE j = at[w]
        <5>1. s \notin {"CleanupPending", "Disposed"}
          BY <3>3, <3>4, <4>1
        <5> QED
          BY <1>i, <1>s, <2>2, <3>4, <4>1, <5>1
      <4>2. CASE j # at[w]
        BY <1>i, <1>s, <2>2, <3>4, <4>2
      <4> QED
        BY <4>1, <4>2
    <3> QED
      BY <3>1, <3>2, <3>3, <3>4, ContextStep
  <2> QED
    BY <1>w, <2>3, <2>4
<1> QED
  BY <1>w, <1>1, <1>2

\* ReleaseInvariant holds: Inv together with the exclusion of disposers and finalizers.
THEOREM ReleaseInvariance == Spec => []ReleaseInvariant
<1>1. Init => SoleWithdrawer /\ ClaimHeld
  BY DEF Init, SoleWithdrawer, ClaimHeld, Withdrawing
<1>2. Inv /\ SingleWithdraw /\ SoleWithdrawer /\ ClaimHeld /\ [Next]_vars
        => SoleWithdrawer' /\ ClaimHeld'
  BY SoleWithdrawerInv, ClaimHeldInv
<1> QED
  BY <1>1, <1>2, Invariance, WithdrawExclusive, PTL DEF Spec, ReleaseInvariant

\* The resources of an instance are released by one thread at a time: the disposer
\* before anything has parked the instance, or after that the holder of its claim.
THEOREM ReleaseExclusive == Spec => []SingleRelease
<1>1. ReleaseInvariant => SingleRelease
  <2> SUFFICES ASSUME ReleaseInvariant, NEW t1 \in Thread, NEW t2 \in Thread,
                      pc[t1] \in Releasing, pc[t2] \in Releasing, at[t1] = at[t2]
               PROVE  t1 = t2
    BY DEF SingleRelease
  <2>1. CASE pc[t1] \in {"disp_release", "disp_mark"} /\ pc[t2] \in {"disp_release", "disp_mark"}
    BY <2>1 DEF ReleaseInvariant, SingleWithdraw, Withdrawing
  <2>2. CASE pc[t1] \in {"fin_release", "fin_mark"} /\ pc[t2] \in {"fin_release", "fin_mark"}
    BY <2>2 DEF ReleaseInvariant, ClaimHeld
  <2>3. ASSUME NEW x \in Thread, NEW y \in Thread, pc[x] \in {"fin_release", "fin_mark"},
               pc[y] \in {"disp_release", "disp_mark"}, at[x] = at[y]
        PROVE  FALSE
    BY <2>3 DEF ReleaseInvariant, SoleWithdrawer, Withdrawing, Finalizing
  <2> QED
    BY <2>1, <2>2, <2>3 DEF Releasing
<1> QED
  BY <1>1, ReleaseInvariance, PTL

----------------------------------------------------------------------------
(* The limit on calls in flight.                                            *)

\* Only an open takes a thread among those that passed the limit and have no ticket yet.
LEMMA OpenerStep ==
    ASSUME Inv, [Next]_vars, NEW x \in Thread, x \in Openers', x \notin Openers
    PROVE  OpenStart(x)
<1>0. TypeOK /\ ThreadType
  BY DEF Inv, TypeOK
<1>p. pc'[x] \in {"open_admit", "open_alloc"} /\ pc[x] \notin {"open_admit", "open_alloc"}
  BY DEF Openers
<1>1. ASSUME NEW th \in Thread, Start(th) \/ Step(th), x # th PROVE FALSE
  BY <1>0, <1>p, <1>1, OthersStay
<1>2. CASE UNCHANGED vars \/ \E u \in Ticket : DeadlinePasses(u)
  BY <1>p, <1>2 DEF vars, DeadlinePasses
<1>3. CASE Start(x)
  BY <1>0, <1>p, <1>3 DEF Start, CommitRead, CallCancel, CallClose, CallReap,
     DisposeInstance, LoadManifest, DisposePlugin, AcquireStuck, Fault, Goto, Enter, ThreadType
<1>4. CASE Step(x)
  <2>l. CASE Leave(x)
    BY <1>0, <1>p, <2>l, LeaveGoes
  <2>1. CASE ~Leave(x)
    BY <1>0, <1>p, <1>4, <2>1 DEF Step, OpenAdmit, OpenAlloc, OpenRevalidate, OpenSettle,
       CommitCheck, CommitPush, CommitSet, FinRead, FinPending, FinClaim, FinRelease, FinMark,
       RefreshRead, RefreshMark, DispClaim, DispRevoke, DispTickets, DispWait, DispExpire,
       DispPending, DispPark, DispRecheck, DispRelease, DispMark, LoadCurrent, LoadSubstitute,
       RecSnapshot, RecDone, RecCreate, RecPromote, CreateAcquire, CreatePlugin, PromoteAcquire,
       PromotePlugin, PromoteMark, FaultContext, Goto, Enter, Return, Resume, ThreadType
  <2> QED
    BY <2>l, <2>1
<1> QED
  BY <1>1, <1>2, <1>3, <1>4 DEF Next

\* The sets that the limit counts are finite.
LEMMA FiniteCalls ==
    /\ IsFiniteSet(InFlight) /\ Cardinality(InFlight) \in Nat
    /\ IsFiniteSet(Openers) /\ Cardinality(Openers) \in Nat
    /\ Cardinality(Openers) <= Cardinality(Thread) /\ Cardinality(Thread) \in Nat
<1>1. IsFiniteSet(Ticket)
  BY SizeAssumption, FS_Interval DEF Ticket
<1>2. InFlight \subseteq Ticket /\ Openers \subseteq Thread
  BY DEF InFlight, Openers
<1> QED
  BY <1>1, <1>2, ThreadAssumption, FS_Subset, FS_CardinalityType

\* A set grows by at most one when an element is added.
LEMMA AddOne ==
    ASSUME NEW S, NEW x, IsFiniteSet(S)
    PROVE  IsFiniteSet(S \cup {x}) /\ Cardinality(S \cup {x}) <= Cardinality(S) + 1
<1>1. Cardinality(S) \in Nat
  BY FS_CardinalityType
<1> QED
  BY <1>1, FS_AddElement

\* What a step does to the count: an open that passed the check becomes an opener, an
\* opener becomes a ticket, and everything else only takes away.
LEMMA InflightInv ==
    ASSUME Inv, InflightOvershoot, [Next]_vars
    PROVE  InflightOvershoot'
<1>0. TypeOK /\ ThreadType /\ CallType /\ TablesTyped
  BY DEF Inv, TypeOK
<1>c. /\ IsFiniteSet(InFlight) /\ Cardinality(InFlight) \in Nat
      /\ IsFiniteSet(Openers) /\ Cardinality(Openers) \in Nat
      /\ Cardinality(Openers) <= Cardinality(Thread) /\ Cardinality(Thread) \in Nat
      /\ MaxInflight \in Nat
      /\ Cardinality(InFlight) + Cardinality(Openers) <= MaxInflight + Cardinality(Thread) - 1
  BY FiniteCalls, SizeAssumption DEF InflightOvershoot
<1>d. /\ IsFiniteSet(InFlight') /\ Cardinality(InFlight') \in Nat
      /\ IsFiniteSet(Openers') /\ Cardinality(Openers') \in Nat
      /\ Cardinality(Openers') <= Cardinality(Thread)
  <2>1. IsFiniteSet(Ticket)
    BY SizeAssumption, FS_Interval DEF Ticket
  <2>2. InFlight' \subseteq Ticket /\ Openers' \subseteq Thread
    BY DEF InFlight, Openers
  <2> QED
    BY <2>1, <2>2, ThreadAssumption, FS_Subset, FS_CardinalityType
<1> SUFFICES Cardinality(InFlight') + Cardinality(Openers') <= MaxInflight + Cardinality(Thread) - 1
  BY DEF InflightOvershoot
<1>1. ASSUME InFlight' \subseteq InFlight, Openers' \subseteq Openers
      PROVE  Cardinality(InFlight') + Cardinality(Openers') <= MaxInflight + Cardinality(Thread) - 1
  <2>1. Cardinality(InFlight') <= Cardinality(InFlight)
    BY <1>c, <1>1, FS_Subset
  <2>2. Cardinality(Openers') <= Cardinality(Openers)
    BY <1>c, <1>1, FS_Subset
  <2> QED
    BY <1>c, <1>d, <2>1, <2>2
<1>2. ASSUME NEW th \in Thread, OpenStart(th)
      PROVE  Cardinality(InFlight') + Cardinality(Openers') <= MaxInflight + Cardinality(Thread) - 1
  <2>1. InFlight' = InFlight /\ Cardinality(InFlight) < MaxInflight
    BY <1>2 DEF OpenStart, InFlight, Live, callVars
  <2>2. Cardinality(InFlight') < MaxInflight
    BY <2>1
  <2> QED
    BY <1>c, <1>d, <2>2
<1>3. ASSUME NEW th \in Thread, OpenAlloc(th), issued < MaxTickets
      PROVE  Cardinality(InFlight') + Cardinality(Openers') <= MaxInflight + Cardinality(Thread) - 1
  <2>1. issued + 1 \in Ticket
    BY <1>0, <1>3, SizeAssumption DEF Ticket, CallType
  <2>2. InFlight' \subseteq InFlight \cup {issued + 1}
    BY <1>0, <1>3, <2>1 DEF OpenAlloc, InFlight, Live, CallType
  <2>3. Openers' \subseteq Openers \ {th} /\ th \in Openers
    <3>1. ASSUME NEW x \in Openers' PROVE x \in Openers /\ x # th
      <4>1. x \in Thread /\ pc'[x] \in {"open_admit", "open_alloc"}
        BY DEF Openers
      <4>2. pc'[th] = "open_revalidate"
        BY <1>0, <1>3 DEF OpenAlloc, Enter, Goto, ThreadType
      <4>3. pc'[x] = pc[x]
        BY <1>0, <1>3, <4>1, <4>2, OthersStay DEF Step
      <4> QED
        BY <4>1, <4>2, <4>3 DEF Openers
    <3> QED
      BY <1>3, <3>1 DEF OpenAlloc, Openers
  <2>4. Cardinality(Openers \ {th}) = Cardinality(Openers) - 1 /\ IsFiniteSet(Openers \ {th})
    BY <1>c, <2>3, FS_RemoveElement
  <2>5. Cardinality(Openers') <= Cardinality(Openers) - 1
    BY <2>3, <2>4, FS_Subset
  <2>6. /\ Cardinality(InFlight \cup {issued + 1}) <= Cardinality(InFlight) + 1
        /\ IsFiniteSet(InFlight \cup {issued + 1})
    BY <1>c, AddOne
  <2>7. /\ Cardinality(InFlight') <= Cardinality(InFlight \cup {issued + 1})
        /\ Cardinality(InFlight \cup {issued + 1}) \in Nat
    BY <2>2, <2>6, FS_Subset, FS_CardinalityType
  <2> QED
    BY <1>c, <1>d, <2>5, <2>6, <2>7
<1>4. CASE ~\E th \in Thread : OpenStart(th) \/ (OpenAlloc(th) /\ issued < MaxTickets)
  <2>1. Openers' \subseteq Openers
    BY <1>4, OpenerStep DEF Openers
  <2>2. ASSUME NEW t \in Ticket, Live(t)' PROVE Live(t)
    <3>1. ASSUME NEW th \in Thread, OpenAlloc(th), pc'[th] = "open_revalidate" PROVE FALSE
      <4>1. ~(issued < MaxTickets)
        BY <1>4, <3>1
      <4>2. pc'[th] = "idle"
        BY <1>0, <3>1, <4>1 DEF OpenAlloc, Return, Resume, Enter, Goto, ThreadType
      <4> QED
        BY <3>1, <4>2
    <3> QED
      BY <2>2, <3>1, CallStep
  <2>3. InFlight' \subseteq InFlight
    BY <2>2 DEF InFlight
  <2> QED
    BY <1>1, <2>1, <2>3
<1> QED
  BY <1>2, <1>3, <1>4

\* call_open overshoots MAX_INFLIGHT_CALLS by less than the number of threads.
THEOREM InflightBounded == Spec => []InflightOvershoot
<1>1. Init => InflightOvershoot
  <2> SUFFICES ASSUME Init PROVE InflightOvershoot
    OBVIOUS
  <2>1. InFlight = {} /\ Openers = {}
    BY DEF Init, InFlight, Openers, Live, TicketState
  <2>2. Cardinality(Thread) \in Nat /\ Cardinality(Thread) # 0
    BY ThreadAssumption, FS_EmptySet, FS_CardinalityType
  <2> QED
    BY <2>1, <2>2, FS_EmptySet, SizeAssumption DEF InflightOvershoot
<1>2. Inv /\ InflightOvershoot /\ [Next]_vars => InflightOvershoot'
  BY InflightInv
<1> QED
  BY <1>1, <1>2, Invariance, PTL DEF Spec

----------------------------------------------------------------------------
(* The kernel implements AdmissionGate.                                     *)

\* Critical sections in which a thread has a ticket that its client does not know of.
Opening == {"open_revalidate", "open_settle"}

\* The holders are the same when the calls are and no thread hands a ticket out.
LEMMA HoldersFrame ==
    ASSUME UNCHANGED <<tst, tin>>,
           \A x \in Thread : /\ pc[x] \in Opening <=> pc'[x] \in Opening
                             /\ pc[x] \in Opening => tk'[x] = tk[x],
           NEW i \in Inst
    PROVE  Holders(i)' = Holders(i)
<1>1. ASSUME NEW t \in Ticket PROVE Unreturned(t)' <=> Unreturned(t)
  BY DEF Unreturned, Opening
<1>2. Pending(i)' = Pending(i)
  BY DEF Pending, Live
<1> QED
  BY <1>1, <1>2 DEF Holders, Pending

\* A step that changes a context or releases resources leaves the calls alone.
LEMMA TablesApart ==
    ASSUME Inv, [Next]_vars, ~UNCHANGED <<st, cleaned>>
    PROVE  /\ UNCHANGED <<tst, tin>>
           /\ \A i \in Inst : Holders(i)' = Holders(i)
           /\ ~UNCHANGED st => UNCHANGED cleaned
           /\ ~UNCHANGED cleaned => \E th \in Thread : FinRelease(th) \/ DispRelease(th)
<1>0. TypeOK /\ ThreadType
  BY DEF Inv, TypeOK
<1> DEFINE Marks(th) == \/ FinRelease(th) \/ DispRelease(th)
                        \/ RefreshMark(th) \/ DispPark(th) \/ FinMark(th) \/ DispMark(th)
                        \/ DispClaim(th) \/ PromoteMark(th) \/ FaultContext(th)
                        \/ LoadSubstitute(th) \/ \E l \in Logical : RecCreate(th, l)
<1>1. PICK th \in Thread : Marks(th)
  <2>1. ASSUME NEW th \in Thread, Start(th) PROVE UNCHANGED <<st, cleaned>>
    BY <2>1 DEF Start, OpenStart, CommitRead, CallCancel, CallClose, CallReap,
       DisposeInstance, LoadManifest, DisposePlugin, AcquireStuck, Fault, resVars, ctxVars
  <2>2. ASSUME NEW th \in Thread, Step(th), ~Marks(th) PROVE UNCHANGED <<st, cleaned>>
    BY <2>2 DEF Step, OpenAdmit, OpenAlloc, OpenRevalidate, OpenSettle, CommitCheck,
       CommitPush, CommitSet, FinRead, FinPending, FinClaim, RefreshRead,
       DispRevoke, DispTickets, DispWait, DispExpire, DispPending,
       DispRecheck, LoadCurrent, RecSnapshot, RecDone,
       RecPromote, Acquire, CreateAcquire, CreatePlugin, PromoteAcquire, PromotePlugin,
       resVars, ctxVars
  <2>3. CASE UNCHANGED vars \/ \E u \in Ticket : DeadlinePasses(u)
    BY <2>3 DEF vars, resVars, ctxVars, DeadlinePasses
  <2> QED
    BY <2>1, <2>2, <2>3 DEF Next
<1>2. UNCHANGED <<tst, tin>>
  BY <1>1 DEF FinRelease, DispRelease, RefreshMark, DispPark, FinMark, DispMark, DispClaim,
     PromoteMark, FaultContext, LoadSubstitute, RecCreate, callVars
<1>3. /\ ~UNCHANGED st => UNCHANGED cleaned
      /\ ~UNCHANGED cleaned => FinRelease(th) \/ DispRelease(th)
  BY <1>1 DEF FinRelease, DispRelease, RefreshMark, DispPark, FinMark, DispMark, DispClaim,
     PromoteMark, FaultContext, LoadSubstitute, RecCreate, resVars, ctxVars
<1>4. pc[th] \notin Opening /\ pc'[th] \notin Opening
  <2>1. pc[th] \notin Opening
    BY <1>1 DEF FinRelease, DispRelease, RefreshMark, DispPark, FinMark, DispMark, DispClaim,
       PromoteMark, FaultContext, LoadSubstitute, RecCreate, Opening
  <2>2. CASE Leave(th)
    BY <1>0, <2>1, <2>2, LeaveGoes DEF Opening
  <2>3. CASE ~Leave(th)
    BY <1>0, <1>1, <2>1, <2>3 DEF FinRelease, DispRelease, RefreshMark, DispPark, FinMark,
       DispMark, DispClaim, PromoteMark, FaultContext, LoadSubstitute, RecCreate, Opening, Goto,
       Enter, Return, Resume, ThreadType
  <2> QED
    BY <2>2, <2>3
<1>5. Start(th) \/ Step(th)
  BY <1>1 DEF Step
<1>6. \A x \in Thread : /\ pc[x] \in Opening <=> pc'[x] \in Opening
                        /\ pc[x] \in Opening => tk'[x] = tk[x]
  <2> TAKE x \in Thread
  <2>1. CASE x = th
    BY <1>4, <2>1
  <2>2. CASE x # th
    <3>1. pc'[x] = pc[x] /\ tk'[x] = tk[x]
      BY <1>0, <1>5, <2>2, OthersStay
    <3> QED
      BY <3>1
  <2> QED
    BY <2>1, <2>2
<1>7. \A i \in Inst : Holders(i)' = Holders(i)
  BY <1>2, <1>6, HoldersFrame
<1> QED
  BY <1>2, <1>3, <1>7

\* Every step of the kernel is a step of the gate or leaves what the gate sees alone.
LEMMA GateStep ==
    ASSUME Inv, Inv', [Next]_vars
    PROVE  [Gate!Next]_(Gate!vars)
<1> DEFINE ph == [i \in Inst |-> PhaseOf(st[i])]
           hs == [i \in Inst |-> Holders(i)]
           au == [i \in Inst |-> {t \in Holders(i) : tst[t] = "Admitted"}]
<1>0. /\ st \in [Inst -> CtxState] /\ made \in 0..MaxInst
      /\ st' \in [Inst -> CtxState]
      /\ TypeOK /\ ThreadsTyped /\ TablesTyped /\ ThreadsKnow
  BY DEF Inv, TypeOK, CtxType
<1>s. ASSUME UNCHANGED <<ph, hs, au, cleaned>> PROVE UNCHANGED Gate!vars
  BY <1>s DEF Gate!vars
<1>1. CASE st' # st
  <2>1. /\ UNCHANGED <<tst, tin, cleaned>>
        /\ \A i \in Inst : Holders(i)' = Holders(i)
    BY <1>1, TablesApart
  <2>2. UNCHANGED <<hs, au, cleaned>>
    BY <2>1
  <2>3. ASSUME NEW l \in Logical, NEW s \in {"Waiting", "Active"}, made < MaxInst, Create(l, s)
        PROVE  [Gate!Next]_(Gate!vars)
    <3>1. PICK i \in Inst : i = made + 1
      BY <1>0, <2>3, SizeAssumption DEF Inst
    <3>2. st[i] = "none" /\ st' = [st EXCEPT ![i] = s]
      BY <1>0, <2>3, <3>1 DEF TablesTyped, Create
    <3>3. CASE s = "Waiting"
      <4>1. ph' = ph
        BY <1>0, <3>2, <3>3 DEF PhaseOf
      <4> QED
        BY <1>s, <2>2, <4>1
    <3>4. CASE s = "Active"
      <4>1. ph[i] = "shut" /\ ph' = [ph EXCEPT ![i] = "open"]
        BY <1>0, <3>2, <3>4 DEF PhaseOf
      <4> QED
        BY <2>2, <4>1 DEF Gate!Next, Gate!Activate
    <3> QED
      BY <3>3, <3>4
  <2>4. ASSUME NEW i \in Inst, st' = [st EXCEPT ![i] = "Active"], st[i] \in {"Waiting", "Active"}
        PROVE  [Gate!Next]_(Gate!vars)
    <3>1. ph[i] = "shut" /\ ph' = [ph EXCEPT ![i] = "open"]
      BY <1>0, <1>1, <2>4 DEF PhaseOf
    <3> QED
      BY <2>2, <3>1 DEF Gate!Next, Gate!Activate
  <2>5. ASSUME NEW i \in Inst, st' = [st EXCEPT ![i] = "Quiescing"],
               st[i] \in {"Waiting", "Active"}
        PROVE  [Gate!Next]_(Gate!vars)
    <3>1. ph[i] \in {"shut", "open"} /\ ph' = [ph EXCEPT ![i] = "closing"]
      BY <1>0, <2>5 DEF PhaseOf
    <3> QED
      BY <2>2, <3>1 DEF Gate!Next, Gate!Withdraw
  <2>6. ASSUME NEW i \in Inst, NEW s \in {"CleanupPending", "Disposed"},
               st' = [st EXCEPT ![i] = s], Closed(i)
        PROVE  [Gate!Next]_(Gate!vars)
    <3>1. CASE st[i] \in {"CleanupPending", "Disposed"}
      <4>1. ph' = ph
        BY <1>0, <2>6, <3>1 DEF PhaseOf
      <4> QED
        BY <1>s, <2>2, <4>1
    <3>2. CASE st[i] \in {"Quiescing", "Failed"}
      <4>1. ph[i] \in {"closing", "failed"} /\ ph' = [ph EXCEPT ![i] = "withdrawn"]
        BY <1>0, <2>6, <3>2 DEF PhaseOf
      <4>2. st'[i] = s
        BY <1>0, <2>6
      <4>3. \A t \in Holders(i)' : tst'[t] # "Admitted"
        BY <4>2 DEF Inv, AuthorityEndsAtCleanup
      <4>4. au[i] = {}
        BY <2>1, <4>3
      <4> QED
        BY <2>2, <4>1, <4>4 DEF Gate!Next, Gate!Settle
    <3> QED
      BY <2>6, <3>1, <3>2 DEF Closed
  <2>7. ASSUME NEW i \in Inst, st' = [st EXCEPT ![i] = "Failed"]
        PROVE  [Gate!Next]_(Gate!vars)
    <3>1. ph' = [ph EXCEPT ![i] = "failed"]
      BY <1>0, <2>7 DEF PhaseOf
    <3> QED
      BY <2>2, <3>1 DEF Gate!Next, Gate!Fail
  <2> QED
    BY <1>1, <2>3, <2>4, <2>5, <2>6, <2>7, ContextStep
<1>2. CASE st' = st /\ cleaned' # cleaned
  <2>1. /\ \A i \in Inst : Holders(i)' = Holders(i)
        /\ UNCHANGED tst
        /\ \E th \in Thread : FinRelease(th) \/ DispRelease(th)
    BY <1>2, TablesApart
  <2>2. UNCHANGED <<ph, hs, au>>
    BY <1>2, <2>1
  <2>3. PICK th \in Thread : FinRelease(th) \/ DispRelease(th)
    BY <2>1
  <2>4. at[th] \in Inst /\ Closed(at[th]) /\ Holders(at[th]) = {}
    BY <1>0, <2>3, AtInst DEF ThreadsKnow, ThreadKnows, FinRelease, DispRelease, Withdrawing
  <2>5. cleaned' = cleaned \cup {at[th]}
    BY <2>3 DEF FinRelease, DispRelease, ReleaseContextResources
  <2>6. ph[at[th]] \notin {"shut", "open"} /\ hs[at[th]] = {}
    BY <2>4 DEF Closed, PhaseOf
  <2> QED
    BY <2>2, <2>4, <2>5, <2>6 DEF Gate!Next, Gate!Release
<1>3. CASE st' = st /\ cleaned' = cleaned
  <2>p. ph' = ph
    BY <1>3
  <2>1. ASSUME NEW x \in Thread, Grants(x) PROVE [Gate!Next]_(Gate!vars)
    <3>1. /\ at[x] \in Inst /\ tk[x] \in Ticket /\ tin[tk[x]] = at[x]
          /\ st[at[x]] = "Active"
      BY <1>0, <2>1, AtInst, SizeAssumption DEF Grants, OpenRevalidate, Admits, RequireActive,
         ThreadsTyped, ThreadTyped, TypeOK, ThreadType, Ticket
    <3>2. UNCHANGED <<tst, tin>>
      BY <2>1 DEF Grants, OpenRevalidate, callVars
    <3>3. \A y \in Thread : y # x => pc'[y] = pc[y] /\ tk'[y] = tk[y]
      BY <1>0, <2>1, OthersStay DEF Grants, Step
    <3>4. pc'[x] = "idle" /\ pc[x] = "open_revalidate"
      BY <1>0, <2>1 DEF Grants, OpenRevalidate, Return, Resume, Enter, Goto, TypeOK, ThreadType
    <3>5. ASSUME NEW t \in Ticket, t # tk[x] PROVE Unreturned(t)' <=> Unreturned(t)
      BY <3>3, <3>4, <3>5 DEF Unreturned
    <3>6. ASSUME NEW i \in Inst PROVE Pending(i)' = Pending(i)
      BY <3>2 DEF Pending, Live
    <3>a. PICK a \in Inst : a = at[x]
      BY <3>1
    <3>7. ASSUME NEW i \in Inst, i # a PROVE Holders(i)' = Holders(i)
      BY <3>a, <3>1, <3>5, <3>6, <3>7 DEF Holders, Pending
    <3>8. \/ Holders(a)' = Holders(a)
          \/ Holders(a)' = Holders(a) \cup {tk[x]}
      <4>1. Unreturned(tk[x])
        BY <3>4 DEF Unreturned
      <4> QED
        BY <3>a, <3>1, <3>5, <3>6, <4>1 DEF Holders, Pending
    <3>9. CASE Holders(a)' = Holders(a)
      <4>1. UNCHANGED <<hs, au>>
        BY <3>2, <3>7, <3>9
      <4> QED
        BY <1>s, <1>3, <2>p, <4>1
    <3>10. CASE Holders(a)' = Holders(a) \cup {tk[x]}
      <4>1. hs' = [hs EXCEPT ![a] = @ \cup {tk[x]}]
        BY <3>7, <3>10
      <4>2. au' \in {au, [au EXCEPT ![a] = @ \cup {tk[x]}]}
        <5>1. CASE tst[tk[x]] = "Admitted"
          <6>1. au'[a] = au[a] \cup {tk[x]}
            BY <3>2, <3>10, <5>1
          <6>2. \A i \in Inst : i # a => au'[i] = au[i]
            BY <3>2, <3>7
          <6>3. au' = [au EXCEPT ![a] = @ \cup {tk[x]}]
            BY <6>1, <6>2
          <6> QED
            BY <6>3
        <5>2. CASE tst[tk[x]] # "Admitted"
          <6>1. au' = au
            BY <3>2, <3>7, <3>10, <5>2
          <6> QED
            BY <6>1
        <5> QED
          BY <5>1, <5>2
      <4>3. ph[a] = "open"
        BY <3>a, <3>1 DEF PhaseOf
      <4> QED
        BY <1>3, <2>p, <3>1, <4>1, <4>2, <4>3 DEF Gate!Next, Gate!Grant
    <3> QED
      BY <3>8, <3>9, <3>10
  <2>2. CASE \A x \in Thread : ~Grants(x)
    <3>1. ASSUME NEW i \in Inst, NEW t \in Holders(i)'
          PROVE  t \in Holders(i) /\ (tst'[t] = "Admitted" => tst[t] = "Admitted")
      BY <2>2, <3>1, HoldersStep
    <3>2. \A i \in Inst : hs'[i] \subseteq hs[i] /\ au'[i] \subseteq au[i]
      BY <3>1
    <3> QED
      BY <1>3, <2>p, <3>2 DEF Gate!Next, Gate!Spend
  <2> QED
    BY <2>1, <2>2
<1> QED
  BY <1>1, <1>2, <1>3

\* The kernel implements the gate.
THEOREM GateRefinement == Spec => ImplementsGate
<1>1. Init => Gate!Init
  <2> SUFFICES ASSUME Init PROVE Gate!Init
    OBVIOUS
  <2>1. \A i \in Inst : Holders(i) = {}
    BY DEF Init, Holders, Pending, Live, TicketState
  <2> QED
    BY <2>1 DEF Init, Gate!Init, PhaseOf
<1>2. Inv /\ Inv' /\ [Next]_vars => [Gate!Next]_(Gate!vars)
  BY GateStep
<1> QED
  BY <1>1, <1>2, Invariance, PTL DEF Spec, ImplementsGate, Gate!Spec
=============================================================================
