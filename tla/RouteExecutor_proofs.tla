------------------------ MODULE RouteExecutor_proofs ------------------------
(***************************************************************************)
(* Proofs about RouteExecutor: the ledger when unary requests and the legs *)
(* of any number of sessions are served against it, for any number of      *)
(* workers, principals, components, operations and boots.                  *)
(*                                                                         *)
(* A step changes at most one row.  RowChange is the argument for all of   *)
(* them: the row and the worker that owns it are looked at, the others     *)
(* keep what they have.                                                    *)
(*                                                                         *)
(* On it rest the refinement of OperationLedger and, together with what    *)
(* ManagedService_proofs knows of leases, the fences, the revocations and  *)
(* the types of the whole service.                                         *)
(***************************************************************************)
EXTENDS RouteExecutor, ManagedService_proofs

\* Where a worker is from the admission of its row until the row is settled.
Serving == Past \cup {"leg_current", "leg_wait", "leg_recheck", "leg_finish"}

\* The call of an operation is with a thread that has not reached the kernel.
Waiting(k) == \E q \in queue : q[1] = k

\* What holds of a row: nothing has happened without it, its call is handed over and
\* started once at most, and only what was started ends with a success.
RowOK(k) ==
    /\ led[k] = "absent" => starts[k] = 0 /\ ~Waiting(k)
    /\ Waiting(k) => starts[k] = 0
    /\ \A q, r \in queue : q[1] = k /\ r[1] = k => q = r
    /\ exec[k] \in {"running", "over"} => starts[k] = 1
    /\ starts[k] <= 1
    /\ res[k] = "ok" => starts[k] = 1
    /\ "store_fails" \notin Acts /\ told[k] \cap {"ok", "err"} # {} => led[k] = "completed"

\* What holds of a worker past the admission.
WorkerOK(w) ==
    /\ pc[w] \in Serving => led[Id(w)] = "admitted"
    /\ pc[w] \in {"current", "run", "leg_current"} => starts[Id(w)] = 0 /\ ~Waiting(Id(w))
    /\ pc[w] \in {"recheck", "finish", "leg_recheck", "leg_finish"} /\ out[w] = "ok" => starts[Id(w)] = 1
    /\ pc[w] \in {"leg_recheck", "leg_finish"} => out[w] # "none"

RowOwner == \A v, w \in Worker : pc[v] \in Serving /\ pc[w] \in Serving /\ Id(v) = Id(w) => v = w

QueueTyped == queue \subseteq Key \X Component \X (1..MaxInst)

\* The inductive invariant.
RouteInv ==
    /\ Shape
    /\ QueueTyped
    /\ \A k \in Key : RowOK(k)
    /\ \A w \in Worker : WorkerOK(w)
    /\ RowOwner

----------------------------------------------------------------------------
(* What a step may change.                                                  *)

LedState == {"absent", "admitted", "completed", "unknown"}
ResState == {"none", "ok", "err", "unknown"}
ExecState == {"no", "refused", "running", "over"}

\* A worker that goes on knows its request, and the others do not move.
LEMMA WorkerGoes ==
    ASSUME Shape, NEW w \in Worker, pc[w] # "idle", NEW q \in PC \ {"idle"}, Goto(w, q), UNCHANGED job,
           NEW r \in Outcome, out' = [out EXCEPT ![w] = r]
    PROVE  /\ WorkTyped' /\ JobTyped'
           /\ pc'[w] = q /\ out'[w] = r
           /\ \A v \in Worker : v # w => pc'[v] = pc[v] /\ out'[v] = out[v]
           /\ job' = job
    BY DEF Goto, Shape, TypeOK, WorkTyped, JobTyped

\* The types of the rows follow from those of the one that changes.
LEMMA RowTyped ==
    ASSUME Shape, NEW k \in Key,
           NEW a \in LedState, led' = [led EXCEPT ![k] = a],
           NEW r \in ResState, res' = [res EXCEPT ![k] = r], a = "completed" => r \in {"ok", "err"},
           NEW e \in ExecState, exec' = [exec EXCEPT ![k] = e],
           NEW n \in 0..2, starts' = [starts EXCEPT ![k] = n],
           NEW T \in SUBSET {"ok", "err", "unknown"}, told' = [told EXCEPT ![k] = T],
           req' \in [Key -> Request \cup {<<"none">>}],
           UNCHANGED <<fence, barred, epoch, stateVars, kernelVars>>,
           eff' \in [Component -> 0..MaxFence],
           WorkTyped', JobTyped'
    PROVE  /\ Shape'
           /\ led'[k] = a /\ res'[k] = r /\ exec'[k] = e /\ starts'[k] = n /\ told'[k] = T
           /\ \A j \in Key : j # k => /\ led'[j] = led[j] /\ res'[j] = res[j] /\ exec'[j] = exec[j]
                                      /\ starts'[j] = starts[j] /\ told'[j] = told[j]
<1>1. /\ led \in [Key -> LedState] /\ res \in [Key -> ResState] /\ exec \in [Key -> ExecState]
      /\ starts \in [Key -> 0..2] /\ told \in [Key -> SUBSET {"ok", "err", "unknown"}]
    BY DEF Shape, TypeOK, StoreTyped, ExecTyped, LedState, ResState, ExecState
<1>2. /\ led' \in [Key -> LedState] /\ res' \in [Key -> ResState] /\ exec' \in [Key -> ExecState]
      /\ starts' \in [Key -> 0..2] /\ told' \in [Key -> SUBSET {"ok", "err", "unknown"}]
    BY <1>1
<1>3. /\ led'[k] = a /\ res'[k] = r /\ exec'[k] = e /\ starts'[k] = n /\ told'[k] = T
      /\ \A j \in Key : j # k => /\ led'[j] = led[j] /\ res'[j] = res[j] /\ exec'[j] = exec[j]
                                 /\ starts'[j] = starts[j] /\ told'[j] = told[j]
    BY <1>1
<1>4. ExecTyped'
    BY <1>2 DEF ExecTyped, ExecState
<1>5. ResultStored'
    BY <1>1, <1>3 DEF ResultStored, Shape
<1>6. StoreTyped'
    BY <1>2 DEF Shape, TypeOK, StoreTyped, LedState, ResState
<1>7. LeasesTyped' /\ KernelTyped'
    BY Zenon DEF Shape, TypeOK, LeasesTyped, KernelTyped, stateVars, kernelVars
<1> QED
    BY <1>3, <1>4, <1>5, <1>6, <1>7 DEF Shape, TypeOK

\* The invariant is kept when one row changes: by that row, and by the workers that
\* are not past the admission of another row.
LEMMA RowChange ==
    ASSUME RouteInv, Shape', QueueTyped', NEW k \in Key, RowOK(k)',
           \A j \in Key : j # k => /\ led'[j] = led[j] /\ res'[j] = res[j] /\ exec'[j] = exec[j]
                                   /\ starts'[j] = starts[j] /\ told'[j] = told[j],
           \A q : q[1] # k => (q \in queue' <=> q \in queue),
           \A v \in Worker : \/ /\ pc'[v] = pc[v] /\ job'[v] = job[v] /\ out'[v] = out[v]
                                /\ pc[v] \in Serving => Id(v) # k
                             \/ WorkerOK(v)',
           RowOwner'
    PROVE  RouteInv'
<1>1. ASSUME NEW j \in Key PROVE RowOK(j)'
    <2>1. CASE j = k
        BY <2>1
    <2>2. CASE j # k
        <3>1. Waiting(j)' <=> Waiting(j)
            BY <2>2 DEF Waiting
        <3>2. RowOK(j)
            BY DEF RouteInv
        <3>3. \A q, r \in queue' : q[1] = j /\ r[1] = j => q = r
            BY <2>2, <3>2 DEF RowOK
        <3> QED
            BY <2>2, <3>1, <3>2, <3>3 DEF RowOK
    <2> QED
        BY <2>1, <2>2
<1>2. ASSUME NEW v \in Worker, pc'[v] = pc[v], job'[v] = job[v], out'[v] = out[v],
             pc[v] \in Serving => Id(v) # k
      PROVE  WorkerOK(v)'
    <2>1. CASE pc[v] \in Serving
        <3>1. pc[v] # "idle"
            BY <2>1 DEF Serving, Past
        <3>2. PICK j \in Key : j = Id(v) /\ j = Id(v)' /\ j # k
            BY <1>2, <2>1, <3>1, IdType DEF RouteInv, Id
        <3>3. Waiting(j)' <=> Waiting(j)
            BY <3>2 DEF Waiting
        <3>4. WorkerOK(v)
            BY DEF RouteInv
        <3> QED
            BY <1>2, <3>2, <3>3, <3>4 DEF WorkerOK
    <2>2. CASE pc[v] \notin Serving
        BY <1>2, <2>2 DEF WorkerOK, Serving, Past
    <2> QED
        BY <2>1, <2>2
<1> QED
    BY <1>1, <1>2 DEF RouteInv

\* A step that leaves the rows, the queue and the workers alone.
LEMMA RouteQuiet ==
    ASSUME RouteInv, Shape', UNCHANGED ledgerVars, UNCHANGED queue
    PROVE  RouteInv'
    BY DEF RouteInv, ledgerVars, QueueTyped, RowOK, WorkerOK, RowOwner, Waiting, Id

\* Workers go on or are done, and the rows stay but for what clients are told.
LEMMA RowsStay ==
    ASSUME RouteInv, Shape', UNCHANGED <<led, res, exec, starts, queue>>,
           "store_fails" \notin Acts => \A k \in Key :
               told'[k] \cap {"ok", "err"} # {} => told[k] \cap {"ok", "err"} # {} \/ led[k] = "completed",
           \A v \in Worker : \/ pc'[v] = pc[v] /\ job'[v] = job[v] /\ out'[v] = out[v]
                             \/ pc'[v] \notin Serving
                             \/ pc[v] \in Serving /\ job'[v] = job[v] /\ WorkerOK(v)'
    PROVE  RouteInv'
<1>1. QueueTyped' /\ \A k \in Key : RowOK(k)'
    BY DEF RouteInv, QueueTyped, RowOK, Waiting
<1>2. ASSUME NEW v \in Worker PROVE WorkerOK(v)'
    <2>1. CASE pc'[v] = pc[v] /\ job'[v] = job[v] /\ out'[v] = out[v]
        BY <2>1 DEF RouteInv, WorkerOK, Id, Waiting
    <2>2. CASE pc'[v] \notin Serving
        BY <2>2 DEF WorkerOK, Serving, Past
    <2> QED
        BY <2>1, <2>2
<1>3. RowOwner'
    BY DEF RouteInv, RowOwner, Id
<1> QED
    BY <1>1, <1>2, <1>3 DEF RouteInv

\* A worker changes the row that it owns, or creates it.
LEMMA OwnRow ==
    ASSUME RouteInv, Shape', QueueTyped', NEW w \in Worker, NEW k \in Key, k = Id(w), RowOK(k)',
           pc[w] \in Serving \/ led[k] = "absent",
           \A j \in Key : j # k => /\ led'[j] = led[j] /\ res'[j] = res[j] /\ exec'[j] = exec[j]
                                   /\ starts'[j] = starts[j] /\ told'[j] = told[j],
           \A q : q[1] # k => (q \in queue' <=> q \in queue),
           \A v \in Worker : v # w => pc'[v] = pc[v] /\ job'[v] = job[v] /\ out'[v] = out[v],
           pc'[w] \in Serving => job'[w] = job[w],
           WorkerOK(w)'
    PROVE  RouteInv'
<1>1. \A v \in Worker : v # w /\ pc[v] \in Serving => Id(v) # k
    BY DEF RouteInv, WorkerOK, RowOwner
<1>2. \A v \in Worker : v # w => Id(v)' = Id(v)
    BY DEF Id
<1>3. pc'[w] \in Serving => Id(w)' = k
    BY DEF Id
<1>4. RowOwner'
    BY <1>1, <1>2, <1>3 DEF RouteInv, RowOwner
<1> QED
    BY <1>1, <1>4, RowChange

----------------------------------------------------------------------------
(* The steps of a worker.                                                   *)

\* The rows do not change and neither do their types.
LEMMA RowsStayTyped ==
    ASSUME Shape, UNCHANGED <<led, req, res, fence, eff, barred, epoch, stateVars, kernelVars, execVars>>,
           WorkTyped', JobTyped'
    PROVE  Shape'
    BY StoreStutters, ExecStutters, WorkerTyped

\* Only told changes.
LEMMA ToldTyped ==
    ASSUME Shape, UNCHANGED <<led, req, res, fence, eff, barred, epoch, stateVars, kernelVars, exec, starts>>,
           NEW k \in Key, NEW x \in {"ok", "err", "unknown"}, Tell(k, x), WorkTyped', JobTyped'
    PROVE  /\ Shape'
           /\ told'[k] = told[k] \cup {x} /\ \A j \in Key : j # k => told'[j] = told[j]
<1>1. ExecTyped'
    BY DEF Tell, Shape, TypeOK, ExecTyped
<1>2. told'[k] = told[k] \cup {x} /\ \A j \in Key : j # k => told'[j] = told[j]
    BY DEF Tell, Shape, TypeOK, ExecTyped
<1> QED
    BY <1>1, <1>2, StoreStutters, WorkerTyped

\* A worker that is idle is given a request or a leg.
LEMMA OpenedRoute ==
    ASSUME RouteInv, NEW w \in Worker, pc[w] = "idle", NEW q \in {"admit", "leg_admit"}, Goto(w, q),
           NEW p \in Principal, NEW o \in Op, NEW t \in Token, Held(t),
           job' = [job EXCEPT ![w] = [p |-> p, o |-> o, c |-> lease[t].c, f |-> lease[t].f,
                                      i |-> lease[t].i]],
           UNCHANGED <<led, req, res, fence, eff, barred, epoch, stateVars, kernelVars, execVars, out, queue>>
    PROVE  RouteInv'
<1>1. lease[t] \in Lease
    BY LeaseType DEF RouteInv, Shape, TypeOK
<1> DEFINE m == [p |-> p, o |-> o, c |-> lease[t].c, f |-> lease[t].f, i |-> lease[t].i]
<1>2. m \in Job
    BY <1>1 DEF Lease, Job
<1>3. job' = [job EXCEPT ![w] = m]
    OBVIOUS
<1> HIDE DEF m
<1>4. WorkTyped' /\ JobTyped'
    BY <1>2, <1>3 DEF Goto, RouteInv, Shape, TypeOK, WorkTyped, JobTyped, PC
<1>5. Shape'
    BY <1>4, RowsStayTyped DEF RouteInv
<1>6. \A v \in Worker : \/ pc'[v] = pc[v] /\ job'[v] = job[v] /\ out'[v] = out[v]
                        \/ pc'[v] \notin Serving
    BY <1>3 DEF Goto, RouteInv, Shape, TypeOK, WorkTyped, Serving, Past
<1> QED
    BY <1>5, <1>6, RowsStay DEF execVars

\* A worker is done and changes nothing else.
LEMMA DoneRoute ==
    ASSUME RouteInv, NEW w \in Worker, Done(w),
           UNCHANGED <<led, req, res, fence, eff, barred, epoch, stateVars, kernelVars, execVars, queue>>
    PROVE  RouteInv'
<1>1. /\ WorkTyped' /\ JobTyped' /\ pc'[w] = "idle"
      /\ \A v \in Worker : v # w => pc'[v] = pc[v] /\ job'[v] = job[v] /\ out'[v] = out[v]
    BY DoneTyped DEF RouteInv
<1>2. Shape'
    BY <1>1, RowsStayTyped DEF RouteInv
<1>3. pc'[w] \notin Serving
    BY <1>1 DEF Serving, Past
<1> QED
    BY <1>1, <1>2, <1>3, RowsStay DEF execVars

\* A worker is done and tells its client something: a success or an error only when
\* the row is completed, unless the store fails.
LEMMA DoneTold ==
    ASSUME RouteInv, NEW w \in Worker, Done(w), NEW k \in Key, NEW x \in {"ok", "err", "unknown"}, Tell(k, x),
           x = "unknown" \/ led[k] = "completed" \/ "store_fails" \in Acts,
           UNCHANGED <<led, req, res, fence, eff, barred, epoch, stateVars, kernelVars, exec, starts, queue>>
    PROVE  RouteInv'
<1>1. /\ WorkTyped' /\ JobTyped' /\ pc'[w] = "idle"
      /\ \A v \in Worker : v # w => pc'[v] = pc[v] /\ job'[v] = job[v] /\ out'[v] = out[v]
    BY DoneTyped DEF RouteInv
<1>2. Shape' /\ told'[k] = told[k] \cup {x} /\ \A j \in Key : j # k => told'[j] = told[j]
    BY <1>1, ToldTyped DEF RouteInv
<1>3. pc'[w] \notin Serving
    BY <1>1 DEF Serving, Past
<1> QED
    BY <1>1, <1>2, <1>3, RowsStay

\* Store::admit, for a request and for a leg.
LEMMA AdmitRoute ==
    ASSUME RouteInv, NEW w \in Worker, pc[w] \in {"admit", "leg_admit"}, NEW q \in {"current", "leg_current"},
           Admit(w, q, res[Id(w)]),
           UNCHANGED <<fence, eff, barred, epoch, stateVars, kernelVars, exec, starts, queue>>
    PROVE  RouteInv'
<1>1. Id(w) \in Key /\ job[w].c \in Component
    BY IdType DEF RouteInv
<1>2. PICK k \in Key : k = Id(w)
    BY <1>1
<1>3. CASE /\ led[k] = "absent"
           /\ led' = [led EXCEPT ![k] = "admitted"]
           /\ req' = [req EXCEPT ![k] = <<"call", job[w].c>>]
           /\ Goto(w, q)
           /\ UNCHANGED <<res, job, out, told>>
    <2>1. /\ WorkTyped' /\ JobTyped' /\ pc'[w] = q
          /\ \A v \in Worker : v # w => pc'[v] = pc[v] /\ out'[v] = out[v]
          /\ job' = job
        BY <1>3 DEF Goto, RouteInv, Shape, TypeOK, WorkTyped, JobTyped, PC
    <2>2. led' \in [Key -> {"absent", "admitted", "completed", "unknown"}]
          /\ \A j \in Key : led'[j] = IF j = k THEN "admitted" ELSE led[j]
        BY <1>3 DEF RouteInv, Shape, TypeOK, StoreTyped
    <2>3. req' \in [Key -> Request \cup {<<"none">>}] /\ res' \in [Key -> {"none", "ok", "err", "unknown"}]
        BY <1>1, <1>3 DEF RouteInv, Shape, TypeOK, StoreTyped, Request
    <2>4. ExecTyped' /\ ResultStored'
        BY <1>3, <2>2 DEF RouteInv, Shape, TypeOK, ExecTyped, ResultStored
    <2>5. Shape'
        BY <2>1, <2>2, <2>3, <2>4, WorkerTyped DEF RouteInv
    <2>6. RowOK(k) /\ ~Waiting(k) /\ starts[k] = 0
        BY <1>3 DEF RouteInv, RowOK
    <2>7. RowOK(k)' /\ ~Waiting(k)'
        BY <1>3, <2>2, <2>6 DEF RowOK, Waiting
    <2>8. WorkerOK(w)'
        BY <1>2, <1>3, <2>1, <2>2, <2>6, <2>7 DEF WorkerOK, Id
    <2> QED
        BY <1>2, <1>3, <2>1, <2>2, <2>5, <2>7, <2>8, OwnRow DEF RouteInv, QueueTyped
<1>4. CASE Done(w) /\ LedgerUnchanged /\ UNCHANGED told
    BY <1>4, DoneRoute DEF LedgerUnchanged, execVars
<1>5. CASE Done(w) /\ LedgerUnchanged /\ led[k] = "completed" /\ Tell(k, res[k])
    <2>1. res[k] \in {"ok", "err", "unknown"}
        BY <1>5 DEF RouteInv, Shape, ResultStored
    <2> QED
        BY <1>5, <2>1, DoneTold DEF LedgerUnchanged
<1>6. CASE Done(w) /\ LedgerUnchanged /\ Tell(k, "unknown")
    BY <1>6, DoneTold DEF LedgerUnchanged
<1> QED
    BY <1>2, <1>3, <1>4, <1>5, <1>6 DEF Admit

\* A worker past the admission goes on with an outcome, and no row changes.
LEMMA GoesRoute ==
    ASSUME RouteInv, NEW w \in Worker, pc[w] \in Serving, NEW q \in Serving, Goto(w, q), UNCHANGED job,
           NEW r \in Outcome, out' = [out EXCEPT ![w] = r],
           q \in {"current", "run", "leg_current"} => pc[w] \in {"current", "run", "leg_current"},
           q \in {"recheck", "finish", "leg_recheck", "leg_finish"} /\ r = "ok" => starts[Id(w)] = 1,
           q \in {"leg_recheck", "leg_finish"} => r # "none",
           UNCHANGED <<led, req, res, fence, eff, barred, epoch, stateVars, kernelVars, execVars, queue>>
    PROVE  RouteInv'
<1>1. pc[w] # "idle" /\ q \in PC \ {"idle"}
    BY DEF Serving, Past, PC
<1>2. /\ WorkTyped' /\ JobTyped' /\ pc'[w] = q /\ out'[w] = r /\ job' = job
      /\ \A v \in Worker : v # w => pc'[v] = pc[v] /\ out'[v] = out[v]
    BY <1>1, WorkerGoes DEF RouteInv
<1>3. Shape'
    BY <1>2, RowsStayTyped DEF RouteInv
<1>4. WorkerOK(w)'
    BY <1>2 DEF RouteInv, WorkerOK, Id, Waiting, execVars
<1> QED
    BY <1>2, <1>3, <1>4, RowsStay DEF execVars

\* Service::invoke looks whether the activation is current.
LEMMA CurrentRoute ==
    ASSUME RouteInv, NEW w \in Worker, InvokeCurrent(w), UNCHANGED queue
    PROVE  RouteInv'
<1>1. UNCHANGED <<led, req, res, fence, eff, barred, epoch, stateVars, kernelVars, execVars>> /\ pc[w] = "current"
    BY DEF InvokeCurrent, storeVars
<1>2. CASE Done(w)
    BY <1>1, <1>2, DoneRoute
<1>3. CASE Goto(w, "run") /\ UNCHANGED <<job, out>>
    <2>1. out[w] \in Outcome /\ out' = [out EXCEPT ![w] = out[w]]
        BY <1>3 DEF RouteInv, Shape, TypeOK, WorkTyped
    <2>2. PICK r \in Outcome : out' = [out EXCEPT ![w] = r]
        BY <2>1
    <2>3. pc[w] \in Serving
        BY <1>1 DEF Serving, Past
    <2>4. PICK q \in Serving : q = "run"
        BY DEF Serving, Past
    <2>5. /\ q \in {"current", "run", "leg_current"} => pc[w] \in {"current", "run", "leg_current"}
          /\ q \notin {"recheck", "finish", "leg_recheck", "leg_finish"}
          /\ q \notin {"leg_recheck", "leg_finish"}
        BY <1>1, <2>4
    <2>6. Goto(w, q) /\ UNCHANGED job
        BY <1>3, <2>4
    <2> QED
        BY <1>1, <2>2, <2>3, <2>5, <2>6, GoesRoute
<1> QED
    BY <1>2, <1>3 DEF InvokeCurrent

\* Kernel::invoke_for_ref for a unary request.
LEMMA RunRoute ==
    ASSUME RouteInv, NEW w \in Worker, InvokeRun(w), UNCHANGED queue
    PROVE  RouteInv'
<1>1. /\ UNCHANGED <<led, req, res, fence, eff, barred, epoch, stateVars, kernelVars, told>>
      /\ pc[w] = "run" /\ job' = job
    BY DEF InvokeRun, Dispatch, storeVars
<1>2. PICK k \in Key : k = Id(w)
    BY <1>1, IdType DEF RouteInv
<1>3. CASE /\ exec' = [exec EXCEPT ![k] = "running"]
           /\ starts' = [starts EXCEPT ![k] = Saturate(@)]
           /\ Goto(w, "wait")
           /\ UNCHANGED out
    <2>1. out[w] \in Outcome /\ out' = [out EXCEPT ![w] = out[w]]
        BY <1>3 DEF RouteInv, Shape, TypeOK, WorkTyped
    <2>2. /\ WorkTyped' /\ JobTyped' /\ pc'[w] = "wait"
          /\ \A v \in Worker : v # w => pc'[v] = pc[v] /\ out'[v] = out[v]
        BY <1>1, <1>3, <2>1, WorkerGoes DEF RouteInv, PC
    <2>3. led[k] = "admitted" /\ starts[k] = 0 /\ ~Waiting(k) /\ RowOK(k)
        BY <1>1, <1>2 DEF RouteInv, WorkerOK, Serving, Past
    <2>4. starts' = [starts EXCEPT ![k] = 1]
        BY <1>3, <2>3 DEF Saturate, RouteInv, Shape, TypeOK, ExecTyped
    <2>5. ExecTyped'
        BY <1>1, <1>3, <2>4 DEF RouteInv, Shape, TypeOK, ExecTyped
    <2>6. Shape'
        BY <1>1, <2>2, <2>5, StoreStutters, WorkerTyped DEF RouteInv
    <2>7. \A j \in Key : /\ exec'[j] = IF j = k THEN "running" ELSE exec[j]
                         /\ starts'[j] = IF j = k THEN 1 ELSE starts[j]
        BY <1>3, <2>4 DEF RouteInv, Shape, TypeOK, ExecTyped
    <2>8. RowOK(k)'
        BY <1>1, <2>3, <2>7 DEF RowOK, Waiting
    <2>9. WorkerOK(w)'
        BY <1>1, <1>2, <2>2, <2>3 DEF WorkerOK, Id
    <2> QED
        BY <1>1, <1>2, <2>2, <2>6, <2>7, <2>8, <2>9, OwnRow DEF RouteInv, QueueTyped, Serving, Past
<1>4. CASE Goto(w, "recheck") /\ out' = [out EXCEPT ![w] = "err"] /\ UNCHANGED <<exec, starts>>
    BY <1>1, <1>4, GoesRoute DEF Serving, Past, Outcome, execVars
<1> QED
    BY <1>1, <1>2, <1>3, <1>4 DEF InvokeRun, Dispatch

\* The wait for the provider, of a request and of a leg.
LEMMA WaitRoute ==
    ASSUME RouteInv, NEW w \in Worker, InvokeWait(w) \/ LegWait(w), UNCHANGED queue
    PROVE  RouteInv'
<1>1. /\ UNCHANGED <<led, req, res, fence, eff, barred, epoch, stateVars, kernelVars, execVars, job>>
      /\ pc[w] \in {"wait", "leg_wait"}
    BY DEF InvokeWait, LegWait, Await, storeVars
<1>2. PICK k \in Key : k = Id(w)
    BY <1>1, IdType DEF RouteInv
<1>3. PICK q \in {"recheck", "leg_recheck"}, r \in Outcome \ {"none"} :
          /\ Goto(w, q) /\ out' = [out EXCEPT ![w] = r]
          /\ r = "ok" => exec[k] = "over"
    BY <1>2 DEF InvokeWait, LegWait, Await, Outcome
<1>4. exec[k] = "over" => starts[k] = 1
    BY DEF RouteInv, RowOK
<1> QED
    BY <1>1, <1>2, <1>3, <1>4, GoesRoute DEF Serving, Past

\* The lease, and for a leg the cancel mark, are looked at again.
LEMMA RecheckRoute ==
    ASSUME RouteInv, NEW w \in Worker, InvokeRecheck(w) \/ LegRecheck(w), UNCHANGED queue
    PROVE  RouteInv'
<1>1. /\ UNCHANGED <<led, req, res, fence, eff, barred, epoch, stateVars, kernelVars, execVars, job>>
      /\ pc[w] \in {"recheck", "leg_recheck"}
    BY DEF InvokeRecheck, LegRecheck, storeVars
<1>2. PICK q \in {"finish", "leg_finish"}, r \in Outcome :
          /\ Goto(w, q) /\ out' = [out EXCEPT ![w] = r]
          /\ r \in {out[w], "unknown"} /\ (q = "leg_finish" => pc[w] = "leg_recheck")
    BY DEF InvokeRecheck, LegRecheck, Outcome, RouteInv, Shape, TypeOK, WorkTyped
<1>3. WorkerOK(w)
    BY DEF RouteInv
<1> QED
    BY <1>1, <1>2, <1>3, GoesRoute DEF Serving, Past, WorkerOK

\* A worker stores an outcome in its row, tells it and is done.
LEMMA FinishRoute ==
    ASSUME RouteInv, NEW w \in Worker, pc[w] \in Serving, NEW k \in Key, k = Id(w),
           NEW r \in {"ok", "err", "unknown"}, r = "ok" => starts[k] = 1,
           Finish(k, r = "unknown", r), Tell(k, r), Done(w),
           UNCHANGED <<fence, eff, barred, epoch, stateVars, kernelVars, exec, starts, queue>>
    PROVE  RouteInv'
<1>1. /\ WorkTyped' /\ JobTyped' /\ pc'[w] = "idle"
      /\ \A v \in Worker : v # w => pc'[v] = pc[v] /\ job'[v] = job[v] /\ out'[v] = out[v]
    BY DoneTyped DEF RouteInv
<1>2. PICK a \in LedState : /\ led' = [led EXCEPT ![k] = a]
                            /\ a = IF r = "unknown" THEN "unknown" ELSE "completed"
    BY DEF Finish, LedState
<1>3. res' = [res EXCEPT ![k] = r] /\ req' = req /\ led[k] = "admitted"
    BY DEF Finish
<1>4. /\ led \in [Key -> LedState] /\ res \in [Key -> ResState]
      /\ told \in [Key -> SUBSET {"ok", "err", "unknown"}]
    BY DEF RouteInv, Shape, TypeOK, StoreTyped, ExecTyped, LedState, ResState
<1>5. \A j \in Key : /\ led'[j] = IF j = k THEN a ELSE led[j]
                     /\ res'[j] = IF j = k THEN r ELSE res[j]
                     /\ told'[j] = IF j = k THEN told[k] \cup {r} ELSE told[j]
    BY <1>2, <1>3, <1>4 DEF Tell
<1>6. led' \in [Key -> LedState] /\ res' \in [Key -> ResState]
    BY <1>2, <1>3, <1>4 DEF ResState
<1>7. ExecTyped'
    BY <1>4 DEF Tell, RouteInv, Shape, TypeOK, ExecTyped
<1>8. ResultStored'
    BY <1>2, <1>5 DEF ResultStored, RouteInv, Shape
<1>9. Shape'
    <2>1. req' \in [Key -> Request \cup {<<"none">>}]
        BY <1>3 DEF RouteInv, Shape, TypeOK, StoreTyped
    <2> QED
        BY <1>1, <1>6, <1>7, <1>8, <2>1, WorkerTyped DEF LedState, ResState, RouteInv
<1>10. RowOK(k)'
    <2>1. RowOK(k)
        BY DEF RouteInv
    <2>2. "store_fails" \notin Acts => told[k] \cap {"ok", "err"} = {}
        BY <1>3, <2>1 DEF RowOK
    <2> QED
        BY <1>2, <1>3, <1>5, <2>1, <2>2 DEF RowOK, Waiting
<1>11. WorkerOK(w)' /\ pc'[w] \notin Serving
    BY <1>1 DEF WorkerOK, Serving, Past
<1> QED
    BY <1>1, <1>5, <1>9, <1>10, <1>11, OwnRow DEF RouteInv, QueueTyped

\* The end of Service::invoke.
LEMMA InvokeFinishRoute ==
    ASSUME RouteInv, NEW w \in Worker, InvokeFinish(w), UNCHANGED queue
    PROVE  RouteInv'
<1>1. pc[w] = "finish" /\ UNCHANGED <<fence, eff, barred, epoch, stateVars, kernelVars, exec, starts>>
    BY DEF InvokeFinish
<1>2. PICK k \in Key : k = Id(w)
    BY <1>1, IdType DEF RouteInv
<1>3. PICK r \in {"ok", "err", "unknown"} :
          r = (IF out[w] \in {"ok", "err"} THEN out[w] ELSE "unknown")
    OBVIOUS
<1>4. Finish(k, r = "unknown", r) /\ Tell(k, r) /\ Done(w)
    BY <1>2, <1>3 DEF InvokeFinish
<1>5. pc[w] \in Serving /\ (r = "ok" => starts[k] = 1)
    BY <1>1, <1>2, <1>3 DEF RouteInv, WorkerOK, Serving, Past
<1> QED
    BY <1>1, <1>2, <1>4, <1>5, FinishRoute

\* The end of run_leg, stored or not.
LEMMA SettleRoute ==
    ASSUME RouteInv, NEW w \in Worker, pc[w] \in Serving, NEW r \in {"ok", "err", "unknown"},
           r = "ok" => starts[Id(w)] = 1, Settle(w, r), UNCHANGED queue
    PROVE  RouteInv'
<1>1. /\ UNCHANGED <<fence, eff, barred, epoch, stateVars, kernelVars, exec, starts>>
      /\ Done(w) /\ Tell(Id(w), r)
    BY DEF Settle
<1>2. PICK k \in Key : k = Id(w)
    BY IdType DEF RouteInv, Serving, Past
<1>3. CASE Finish(k, r = "unknown", r)
    BY <1>1, <1>2, <1>3, FinishRoute
<1>4. CASE "store_fails" \in Acts /\ LedgerUnchanged
    BY <1>1, <1>2, <1>4, DoneTold DEF LedgerUnchanged
<1> QED
    BY <1>2, <1>3, <1>4 DEF Settle

\* The refusal and the end of a leg.
LEMMA LegEndRoute ==
    ASSUME RouteInv, NEW w \in Worker, LegRefuse(w) \/ LegFinish(w)
    PROVE  RouteInv'
<1>1. CASE LegRefuse(w)
    <2>1. pc[w] \in Serving /\ queue' = queue /\ \E r \in {"err", "unknown"} : Settle(w, r)
        BY <1>1 DEF LegRefuse, Serving
    <2> QED
        BY <2>1, SettleRoute
<1>2. CASE LegFinish(w)
    <2>1. pc[w] = "leg_finish" /\ queue' = queue /\ Settle(w, LegResult(out[w]))
        BY <1>2 DEF LegFinish
    <2>2. WorkerOK(w) /\ out[w] \in Outcome
        BY DEF RouteInv, Shape, TypeOK, WorkTyped
    <2>3. LegResult(out[w]) \in {"ok", "err", "unknown"} /\ (LegResult(out[w]) = "ok" => out[w] = "ok")
        BY <2>1, <2>2 DEF LegResult, Outcome, WorkerOK
    <2>4. pc[w] \in Serving /\ (out[w] = "ok" => starts[Id(w)] = 1)
        BY <2>1, <2>2 DEF WorkerOK, Serving
    <2> QED
        BY <2>1, <2>3, <2>4, SettleRoute
<1> QED
    BY <1>1, <1>2

\* The call of a leg is handed to a thread of its own.
LEMMA DispatchRoute ==
    ASSUME RouteInv, NEW w \in Worker, LegDispatch(w)
    PROVE  RouteInv'
<1>1. /\ UNCHANGED <<led, req, res, fence, eff, barred, epoch, stateVars, kernelVars, execVars, job, out>>
      /\ pc[w] = "leg_current" /\ Goto(w, "leg_wait")
    BY DEF LegDispatch, storeVars
<1>2. PICK k \in Key : k = Id(w)
    BY <1>1, IdType DEF RouteInv
<1>3. job[w] \in Job
    BY <1>1 DEF RouteInv, Shape, JobTyped
<1>4. PICK z \in Key \X Component \X (1..MaxInst) : z[1] = k /\ queue' = queue \cup {z}
    BY <1>2, <1>3 DEF LegDispatch, Job
<1>5. out[w] \in Outcome /\ out' = [out EXCEPT ![w] = out[w]]
    BY <1>1 DEF RouteInv, Shape, TypeOK, WorkTyped
<1>6. /\ WorkTyped' /\ JobTyped' /\ pc'[w] = "leg_wait"
      /\ \A v \in Worker : v # w => pc'[v] = pc[v] /\ out'[v] = out[v]
    <2>1. PICK r \in Outcome : out' = [out EXCEPT ![w] = r]
        BY <1>5
    <2>2. PICK q \in PC \ {"idle"} : q = "leg_wait"
        BY DEF PC
    <2>3. Goto(w, q) /\ UNCHANGED job /\ pc[w] # "idle" /\ Shape
        BY <1>1, <2>2 DEF RouteInv
    <2> QED
        BY <2>1, <2>2, <2>3, WorkerGoes
<1>7. Shape' /\ QueueTyped'
    BY <1>1, <1>4, <1>6, RowsStayTyped DEF RouteInv, QueueTyped
<1>8. led[k] = "admitted" /\ starts[k] = 0 /\ ~Waiting(k) /\ RowOK(k)
    BY <1>1, <1>2 DEF RouteInv, WorkerOK, Serving
<1>9. RowOK(k)'
    <2>1. \A q \in queue' : q[1] = k => q = z
        BY <1>4, <1>8 DEF Waiting
    <2> QED
        BY <1>1, <1>8, <2>1 DEF RowOK, execVars
<1>10. WorkerOK(w)'
    BY <1>1, <1>2, <1>6, <1>8 DEF WorkerOK, Id
<1>11. \A q : q[1] # k => (q \in queue' <=> q \in queue)
    BY <1>4
<1> QED
    BY <1>1, <1>2, <1>6, <1>7, <1>9, <1>10, <1>11, OwnRow DEF Serving, execVars

----------------------------------------------------------------------------
(* The other steps.                                                         *)

\* The thread that has the call of a leg reaches the kernel, however late.
LEMMA ExecuteRoute ==
    ASSUME RouteInv, NEW z \in queue, LegExecute(z)
    PROVE  RouteInv'
<1>1. /\ UNCHANGED <<led, req, res, fence, eff, barred, epoch, stateVars, kernelVars, told, pc, job, out>>
      /\ queue' = queue \ {z}
    BY DEF LegExecute, storeVars, workVars
<1>2. PICK k \in Key : k = z[1]
    BY DEF RouteInv, QueueTyped
<1>3. RowOK(k) /\ Waiting(k) /\ starts[k] = 0
    BY <1>2 DEF RouteInv, RowOK, Waiting
<1>4. ~Waiting(k)' /\ led[k] # "absent"
    BY <1>1, <1>2, <1>3 DEF RowOK, Waiting
<1>5. PICK e \in {"running", "refused"}, n \in {0, 1} :
          /\ exec' = [exec EXCEPT ![k] = e] /\ starts' = [starts EXCEPT ![k] = n]
          /\ e = "running" => n = 1
    <2>1. starts \in [Key -> 0..2]
        BY DEF RouteInv, Shape, TypeOK, ExecTyped
    <2>2. CASE /\ exec' = [exec EXCEPT ![k] = "running"]
               /\ starts' = [starts EXCEPT ![k] = Saturate(@)]
        <3>1. starts' = [starts EXCEPT ![k] = 1]
            BY <1>3, <2>1, <2>2 DEF Saturate
        <3> QED
            BY <2>2, <3>1
    <2>3. CASE exec' = [exec EXCEPT ![k] = "refused"] /\ starts' = starts
        <3>1. starts' = [starts EXCEPT ![k] = 0]
            BY <1>3, <2>1, <2>3
        <3> QED
            BY <2>3, <3>1
    <2> QED
        BY <1>2, <2>2, <2>3 DEF LegExecute
<1>6. \A j \in Key : /\ exec'[j] = IF j = k THEN e ELSE exec[j]
                     /\ starts'[j] = IF j = k THEN n ELSE starts[j]
    BY <1>5 DEF RouteInv, Shape, TypeOK, ExecTyped
<1>7. ExecTyped'
    BY <1>1, <1>5 DEF RouteInv, Shape, TypeOK, ExecTyped
<1>8. Shape' /\ QueueTyped'
    <2>1. WorkTyped' /\ JobTyped'
        BY <1>1 DEF RouteInv, Shape, TypeOK, WorkTyped, JobTyped
    <2> QED
        BY <1>1, <1>7, <2>1, StoreStutters, WorkerTyped DEF RouteInv, QueueTyped
<1>9. RowOK(k)'
    <2>1. \A q, r \in queue' : q[1] = k /\ r[1] = k => q = r
        BY <1>4 DEF Waiting
    <2>2. exec'[k] = e /\ starts'[k] = n
        BY <1>6
    <2> QED
        BY <1>1, <1>3, <1>4, <1>5, <2>1, <2>2 DEF RowOK
<1>10. ASSUME NEW v \in Worker, pc[v] \in Serving, Id(v) = k PROVE WorkerOK(v)'
    BY <1>1, <1>3, <1>10 DEF RouteInv, WorkerOK, Id
<1>11. RowOwner'
    BY <1>1 DEF RouteInv, RowOwner, Id
<1>12. \A q : q[1] # k => (q \in queue' <=> q \in queue)
    BY <1>1, <1>2
<1> QED
    BY <1>1, <1>6, <1>8, <1>9, <1>10, <1>11, <1>12, RowChange

\* The provider finishes.
LEMMA ExecOverRoute ==
    ASSUME RouteInv, NEW k \in Key, ExecOver(k), UNCHANGED queue
    PROVE  RouteInv'
<1>1. UNCHANGED <<led, req, res, fence, eff, barred, epoch, stateVars, kernelVars, starts, told, pc, job, out>>
    BY DEF ExecOver, storeVars, workVars
<1>2. /\ exec[k] = "running" /\ exec'[k] = "over"
      /\ \A j \in Key : j # k => exec'[j] = exec[j]
    BY DEF ExecOver, RouteInv, Shape, TypeOK, ExecTyped
<1>3. ExecTyped' /\ WorkTyped' /\ JobTyped'
    BY <1>1 DEF ExecOver, RouteInv, Shape, TypeOK, ExecTyped, WorkTyped, JobTyped
<1>4. Shape'
    BY <1>1, <1>3, StoreStutters, WorkerTyped DEF RouteInv
<1>5. RowOK(k)'
    BY <1>1, <1>2 DEF RouteInv, RowOK, Waiting
<1>6. \A v \in Worker : WorkerOK(v)'
    BY <1>1 DEF RouteInv, WorkerOK, Id, Waiting
<1>7. RowOwner' /\ QueueTyped'
    BY <1>1 DEF RouteInv, RowOwner, QueueTyped, Id
<1> QED
    BY <1>1, <1>2, <1>4, <1>5, <1>6, <1>7, RowChange

\* An effect is committed, or answered again.
LEMMA EffectRoute ==
    ASSUME RouteInv, NEW p \in Principal, NEW o \in Op, NEW t \in Token, CommitEffect(p, o, t), UNCHANGED queue
    PROVE  RouteInv'
<1>1. UNCHANGED <<fence, barred, epoch, stateVars, kernelVars, exec, pc, job, out>>
    BY DEF CommitEffect, workVars
<1>2. /\ <<p, o>> \in Key /\ lease[t].c \in Component /\ lease[t].f \in 0..MaxFence
    BY LeaseType, BoundAssumption DEF CommitEffect, Valid, Key, RouteInv, Shape, TypeOK, Lease
<1>3. PICK k \in Key : k = <<p, o>>
    BY <1>2
<1>4. PICK c \in Component : c = lease[t].c
    BY <1>2
<1>5. WorkTyped' /\ JobTyped'
    BY <1>1 DEF RouteInv, Shape, TypeOK, WorkTyped, JobTyped
<1>6. CASE /\ led[k] = "absent"
           /\ led' = [led EXCEPT ![k] = "completed"]
           /\ req' = [req EXCEPT ![k] = <<"effect", c>>]
           /\ res' = [res EXCEPT ![k] = "ok"]
           /\ eff' = [eff EXCEPT ![c] = lease[t].f]
           /\ starts' = [starts EXCEPT ![k] = Saturate(@)]
           /\ Tell(k, "ok")
    <2>1. RowOK(k) /\ starts[k] = 0 /\ ~Waiting(k)
        BY <1>6 DEF RouteInv, RowOK
    <2>2. starts' = [starts EXCEPT ![k] = 1]
        BY <1>6, <2>1 DEF Saturate, RouteInv, Shape, TypeOK, ExecTyped
    <2>3. /\ exec[k] \in ExecState /\ exec' = [exec EXCEPT ![k] = exec[k]]
          /\ told[k] \cup {"ok"} \in SUBSET {"ok", "err", "unknown"}
          /\ told' = [told EXCEPT ![k] = told[k] \cup {"ok"}]
        BY <1>1, <1>6 DEF Tell, RouteInv, Shape, TypeOK, ExecTyped, ExecState
    <2>4. /\ req' \in [Key -> Request \cup {<<"none">>}]
          /\ eff' \in [Component -> 0..MaxFence]
        BY <1>2, <1>4, <1>6 DEF RouteInv, Shape, TypeOK, StoreTyped, Request
    <2>5. PICK e \in ExecState, T \in SUBSET {"ok", "err", "unknown"} :
              /\ e = exec[k] /\ exec' = [exec EXCEPT ![k] = e]
              /\ T = told[k] \cup {"ok"} /\ told' = [told EXCEPT ![k] = T]
        BY <2>3
    <2>6. "completed" \in LedState /\ "ok" \in ResState /\ 1 \in 0..2
        BY DEF LedState, ResState
    <2>7. /\ Shape'
          /\ led'[k] = "completed" /\ res'[k] = "ok" /\ exec'[k] = e /\ starts'[k] = 1 /\ told'[k] = T
          /\ \A j \in Key : j # k => /\ led'[j] = led[j] /\ res'[j] = res[j] /\ exec'[j] = exec[j]
                                     /\ starts'[j] = starts[j] /\ told'[j] = told[j]
        <3>1. PICK a \in LedState, r \in ResState, n \in 0..2 : a = "completed" /\ r = "ok" /\ n = 1
            BY <2>6
        <3>2. /\ led' = [led EXCEPT ![k] = a] /\ res' = [res EXCEPT ![k] = r]
              /\ starts' = [starts EXCEPT ![k] = n] /\ Shape
              /\ a = "completed" => r \in {"ok", "err"}
            BY <1>6, <2>2, <3>1 DEF RouteInv
        <3>3. UNCHANGED <<fence, barred, epoch, stateVars, kernelVars>>
            BY <1>1
        <3>4. /\ Shape'
              /\ led'[k] = a /\ res'[k] = r /\ exec'[k] = e /\ starts'[k] = n /\ told'[k] = T
              /\ \A j \in Key : j # k => /\ led'[j] = led[j] /\ res'[j] = res[j] /\ exec'[j] = exec[j]
                                         /\ starts'[j] = starts[j] /\ told'[j] = told[j]
            BY <1>5, <2>4, <2>5, <3>2, <3>3, RowTyped, ZenonT(60)
        <3> QED
            BY <3>1, <3>4
    <2>8. RowOK(k)'
        BY <2>1, <2>5, <2>7 DEF RowOK, Waiting
    <2>9. \A v \in Worker : pc[v] \in Serving => Id(v) # k
        BY <1>6 DEF RouteInv, WorkerOK
    <2>10. RowOwner' /\ QueueTyped'
        BY <1>1 DEF RouteInv, RowOwner, QueueTyped, Id
    <2> QED
        BY <1>1, <2>7, <2>8, <2>9, <2>10, RowChange
<1>7. CASE led[k] = "completed" /\ Tell(k, res[k]) /\ LedgerUnchanged /\ UNCHANGED <<eff, starts>>
    <2>1. PICK x \in {"ok", "err", "unknown"} : x = res[k]
        BY <1>7 DEF RouteInv, Shape, ResultStored
    <2>2. Shape' /\ told'[k] = told[k] \cup {x} /\ \A j \in Key : j # k => told'[j] = told[j]
        BY <1>1, <1>5, <1>7, <2>1, ToldTyped DEF LedgerUnchanged, RouteInv
    <2> QED
        BY <1>1, <1>7, <2>2, RowsStay DEF LedgerUnchanged
<1> QED
    BY <1>3, <1>4, <1>6, <1>7 DEF CommitEffect

\* A repeated call.open of a leg in the table.
LEMMA ReplayRoute ==
    ASSUME RouteInv, NEW s \in Session, NEW p \in Principal, NEW o \in Op, LegReplay(s, p, o)
    PROVE  RouteInv'
<1>1. UNCHANGED <<led, req, res, fence, eff, barred, epoch, stateVars, kernelVars, exec, starts, pc, job, out, queue>>
    BY DEF LegReplay, storeVars, workVars, routeVars
<1>2. PICK k \in Key : k = <<p, o>>
    BY DEF Key
<1>3. PICK x \in {"ok", "err", "unknown"} : Tell(k, x) /\ (x = "unknown" \/ led[k] = "completed")
    BY <1>2 DEF LegReplay
<1>4. WorkTyped' /\ JobTyped'
    BY <1>1 DEF RouteInv, Shape, TypeOK, WorkTyped, JobTyped
<1>5. Shape' /\ told'[k] = told[k] \cup {x} /\ \A j \in Key : j # k => told'[j] = told[j]
    BY <1>1, <1>3, <1>4, ToldTyped DEF RouteInv
<1> QED
    BY <1>1, <1>3, <1>5, RowsStay

\* A boot.
LEMMA RestartRoute ==
    ASSUME RouteInv, RouteRestart
    PROVE  RouteInv'
<1>1. /\ UNCHANGED <<res, starts, told>> /\ queue' = {}
      /\ \A w \in Worker : pc'[w] = "idle"
    BY DEF RouteRestart, Restart
<1>2. /\ Shape'
      /\ \A k \in Key : /\ led'[k] = IF led[k] = "admitted" THEN "unknown" ELSE led[k]
                        /\ exec'[k] \in {exec[k], "over"}
                        /\ (exec[k] # "running" => exec'[k] = exec[k])
    BY RestartShape DEF RouteInv, RouteRestart
<1>3. ASSUME NEW k \in Key PROVE RowOK(k)'
    BY <1>1, <1>2 DEF RouteInv, RowOK, Waiting
<1>4. \A w \in Worker : WorkerOK(w)'
    BY <1>1 DEF WorkerOK, Serving, Past
<1>5. RowOwner' /\ QueueTyped'
    BY <1>1 DEF RowOwner, QueueTyped, Serving, Past
<1> QED
    BY <1>2, <1>3, <1>4, <1>5 DEF RouteInv

----------------------------------------------------------------------------
(* Every step, and the theorems.                                            *)

\* Requests under the lock of the service, rounds of the supervisor, leases and
\* children that end.
LEMMA BesideRoute ==
    ASSUME RouteInv, Control \/ Tick \/ Environment, UNCHANGED queue
    PROVE  RouteInv'
<1>1. Shape
    BY DEF RouteInv
<1>2. CASE Shape' /\ UNCHANGED ledgerVars
    BY <1>2, RouteQuiet
<1>3. CASE Control
    <2>1. CASE Shutdown
        BY <1>1, <1>2, <2>1, ShutdownStep
    <2>2. ASSUME NEW p \in Principal, Revoke(p) \/ Grant(p) PROVE RouteInv'
        BY <1>1, <1>2, <2>2, RevokeStep, GrantStep
    <2>3. ASSUME NEW p \in Principal, NEW c \in Component, Activate(p, c) \/ ActivateFails(p, c)
          PROVE  RouteInv'
        BY <1>1, <1>2, <2>3, ActivateStep, ActivateFailsStep
    <2>4. ASSUME NEW p \in Principal, NEW t \in Token,
                 Renew(p, t) \/ Release(p, t) \/ \E s \in 1..MaxSeq : RenewSeq(p, t, s)
          PROVE  RouteInv'
        BY <1>1, <1>2, <2>4, RenewStep, ReleaseStep
    <2>5. ASSUME NEW p \in Principal, NEW t \in Token, NEW o \in Op, CommitEffect(p, o, t)
          PROVE  RouteInv'
        BY <2>5, EffectRoute
    <2> QED
        BY <1>3, <2>1, <2>2, <2>3, <2>4, <2>5 DEF Control
<1>4. CASE Tick
    <2>1. CASE TickExpire
        BY <1>1, <1>2, <2>1, TickExpireStep
    <2>2. ASSUME NEW t \in Token, TickChildGone(t) \/ TickRestart(t) PROVE RouteInv'
        BY <1>1, <1>2, <2>2, TickChildGoneStep, TickRestartStep
    <2> QED
        BY <1>4, <2>1, <2>2 DEF Tick
<1>5. CASE Environment
    <2>1. ASSUME NEW t \in Token, LeaseLate(t) PROVE RouteInv'
        BY <1>1, <1>2, <2>1, LeaseLateStep
    <2>2. ASSUME NEW c \in Component, ChildDies(c) PROVE RouteInv'
        BY <1>1, <1>2, <2>2, ChildDiesStep
    <2>3. ASSUME NEW k \in Key, ExecOver(k) PROVE RouteInv'
        BY <2>3, ExecOverRoute
    <2> QED
        BY <1>5, <2>1, <2>2, <2>3 DEF Environment
<1> QED
    BY <1>3, <1>4, <1>5

\* A worker that serves a unary request.
LEMMA UnaryRoute ==
    ASSUME RouteInv, NEW w \in Worker, Receive(w) \/ Serve(w), UNCHANGED queue
    PROVE  RouteInv'
<1>1. ASSUME NEW p \in Principal, NEW o \in Op, NEW t \in Token, InvokeValidate(w, p, o, t)
      PROVE  RouteInv'
    <2>1. UNCHANGED <<led, req, res, fence, eff, barred, epoch, stateVars, kernelVars, execVars, out, queue>>
        BY <1>1 DEF InvokeValidate, storeVars
    <2>2. Goto(w, "admit") /\ Held(t) /\ pc[w] = "idle"
        BY <1>1 DEF InvokeValidate, Valid
    <2>3. PICK q \in {"admit", "leg_admit"} : Goto(w, q)
        BY <2>2
    <2>4. job' = [job EXCEPT ![w] = [p |-> p, o |-> o, c |-> lease[t].c, f |-> lease[t].f,
                                     i |-> lease[t].i]]
        BY <1>1 DEF InvokeValidate
    <2> QED
        BY <2>1, <2>2, <2>3, <2>4, OpenedRoute
<1>2. CASE InvokeAdmit(w)
    <2>1. /\ UNCHANGED <<fence, eff, barred, epoch, stateVars, kernelVars, exec, starts, queue>>
          /\ pc[w] \in {"admit", "leg_admit"} /\ Admit(w, "current", res[Id(w)])
        BY <1>2 DEF InvokeAdmit
    <2>2. PICK q \in {"current", "leg_current"} : Admit(w, q, res[Id(w)])
        BY <2>1
    <2> QED
        BY <2>1, <2>2, AdmitRoute
<1>3. CASE InvokeFinishFails(w)
    <2>1. /\ UNCHANGED <<led, req, res, fence, eff, barred, epoch, stateVars, kernelVars, execVars, queue>>
          /\ Done(w)
        BY <1>3 DEF InvokeFinishFails, storeVars
    <2> QED
        BY <2>1, DoneRoute
<1>4. CASE InvokeCurrent(w) \/ InvokeRun(w) \/ InvokeFinish(w)
    BY <1>4, CurrentRoute, RunRoute, InvokeFinishRoute
<1>5. CASE InvokeWait(w) \/ InvokeRecheck(w)
    BY <1>5, WaitRoute, RecheckRoute
<1> QED
    BY <1>1, <1>2, <1>3, <1>4, <1>5 DEF Receive, Serve

\* A worker that serves a leg.
LEMMA LegRoute ==
    ASSUME RouteInv, NEW w \in Worker, LegReceive(w) \/ LegServe(w)
    PROVE  RouteInv'
<1>1. ASSUME NEW s \in Session, NEW p \in Principal, NEW o \in Op, NEW t \in Token, LegOpen(w, s, p, o, t)
      PROVE  RouteInv'
    <2>1. UNCHANGED <<led, req, res, fence, eff, barred, epoch, stateVars, kernelVars, execVars, out, queue>>
        BY <1>1 DEF LegOpen, storeVars
    <2>2. Goto(w, "leg_admit") /\ Held(t) /\ pc[w] = "idle"
        BY <1>1 DEF LegOpen, Valid
    <2>3. PICK q \in {"admit", "leg_admit"} : Goto(w, q)
        BY <2>2
    <2>4. job' = [job EXCEPT ![w] = [p |-> p, o |-> o, c |-> lease[t].c, f |-> lease[t].f,
                                     i |-> lease[t].i]]
        BY <1>1 DEF LegOpen
    <2> QED
        BY <2>1, <2>2, <2>3, <2>4, OpenedRoute
<1>2. CASE LegAdmit(w)
    <2>1. /\ UNCHANGED <<fence, eff, barred, epoch, stateVars, kernelVars, exec, starts, queue>>
          /\ pc[w] \in {"admit", "leg_admit"} /\ Admit(w, "leg_current", res[Id(w)])
        BY <1>2 DEF LegAdmit
    <2>2. PICK q \in {"current", "leg_current"} : Admit(w, q, res[Id(w)])
        BY <2>1
    <2> QED
        BY <2>1, <2>2, AdmitRoute
<1>3. CASE LegRefuse(w) \/ LegFinish(w) \/ LegDispatch(w)
    BY <1>3, LegEndRoute, DispatchRoute
<1>4. CASE LegWait(w) \/ LegRecheck(w)
    <2>1. UNCHANGED queue
        BY <1>4 DEF LegWait, LegRecheck, routeVars
    <2> QED
        BY <1>4, <2>1, WaitRoute, RecheckRoute
<1> QED
    BY <1>1, <1>2, <1>3, <1>4 DEF LegReceive, LegServe

\* Every step keeps the invariant.
LEMMA RouteStep == RouteInv /\ [RouteNext]_allVars => RouteInv'
<1> SUFFICES ASSUME RouteInv, [RouteNext]_allVars PROVE RouteInv'
    OBVIOUS
<1>1. CASE UNCHANGED vars /\ UNCHANGED queue
    <2>1. /\ UNCHANGED <<led, req, res, fence, eff, barred, epoch, stateVars, kernelVars, execVars>>
          /\ UNCHANGED <<pc, job, out>>
        BY <1>1 DEF vars, storeVars, workVars
    <2>2. WorkTyped' /\ JobTyped'
        BY <2>1 DEF RouteInv, Shape, TypeOK, WorkTyped, JobTyped
    <2>3. Shape'
        BY <2>1, <2>2, RowsStayTyped DEF RouteInv
    <2>4. UNCHANGED ledgerVars
        BY <2>1 DEF execVars, ledgerVars
    <2> QED
        BY <1>1, <2>3, <2>4, RouteQuiet
<1>2. CASE ServiceStep /\ UNCHANGED routeVars
    <2>1. UNCHANGED queue
        BY <1>2 DEF routeVars
    <2>2. CASE Control \/ Tick \/ Environment
        BY <2>1, <2>2, BesideRoute
    <2>3. ASSUME NEW w \in Worker, Receive(w) \/ Serve(w) PROVE RouteInv'
        BY <2>1, <2>3, UnaryRoute
    <2> QED
        BY <1>2, <2>2, <2>3 DEF ServiceStep
<1>3. CASE RouteRestart
    BY <1>3, RestartRoute
<1>4. ASSUME NEW w \in Worker, LegReceive(w) \/ LegServe(w) PROVE RouteInv'
    BY <1>4, LegRoute
<1>5. ASSUME NEW q \in queue, LegExecute(q) PROVE RouteInv'
    BY <1>5, ExecuteRoute
<1>6. ASSUME NEW s \in Session, NEW p \in Principal, NEW o \in Op, LegReplay(s, p, o) PROVE RouteInv'
    BY <1>6, ReplayRoute
<1>7. ASSUME NEW s \in Session, NEW p \in Principal, NEW o \in Op, Cancel(s, p, o) PROVE RouteInv'
    BY <1>1, <1>7 DEF Cancel
<1>8. CASE UNCHANGED allVars
    BY <1>1, <1>8 DEF allVars, routeVars
<1> QED
    BY <1>2, <1>3, <1>4, <1>5, <1>6, <1>7, <1>8 DEF RouteNext

\* A service that starts has no rows, no requests and no calls.
LEMMA RouteStart == RouteInit => RouteInv
<1> SUFFICES ASSUME RouteInit PROVE RouteInv
    OBVIOUS
<1>1. Shape
    BY InitShape DEF RouteInit
<1>2. queue = {} /\ \A k \in Key : led[k] = "absent" /\ starts[k] = 0 /\ exec[k] = "no" /\ res[k] = "none" /\ told[k] = {}
    BY DEF RouteInit, Init
<1>3. \A w \in Worker : pc[w] = "idle"
    BY DEF RouteInit, Init
<1>4. \A k \in Key : RowOK(k)
    BY <1>2 DEF RowOK, Waiting
<1>5. \A w \in Worker : WorkerOK(w)
    BY <1>3 DEF WorkerOK, Serving, Past
<1> QED
    BY <1>1, <1>2, <1>3, <1>4, <1>5 DEF RouteInv, QueueTyped, RowOwner, Serving, Past

\* RouteInv holds in every state that unary requests and legs reach together.
THEOREM RouteInvariance == RouteSpec => []RouteInv
    BY RouteStart, RouteStep, PTL DEF RouteSpec

\* A row holds a success only when its provider was started (run_leg,
\* invoke_with_budget, Store::finish), however late the thread of the call reaches the
\* kernel and whoever else is served.
THEOREM LegOkStarted == RouteSpec => []OkMeansStarted
<1>1. RouteInv => OkMeansStarted
    BY DEF RouteInv, RowOK, OkMeansStarted
<1> QED
    BY <1>1, RouteInvariance, PTL

\* No operation is started twice (Store::admit), also when it is sent as a unary request
\* and as legs of several sessions, and across boots.
THEOREM LegStartedOnce == RouteSpec => []StartedAtMostOnce
<1>1. RouteInv => StartedAtMostOnce
    BY DEF RouteInv, RowOK, StartedAtMostOnce
<1> QED
    BY <1>1, RouteInvariance, PTL

\* As long as the store works, an answer other than unknown is given only for a
\* completed row (Settle, commit_effect, on_call_open).
THEOREM LegAnswersStored == RouteSpec => []("store_fails" \notin Acts => AnsweredIsStored)
<1>1. RouteInv => ("store_fails" \notin Acts => AnsweredIsStored)
    BY DEF RouteInv, RowOK, AnsweredIsStored
<1> QED
    BY <1>1, RouteInvariance, PTL

----------------------------------------------------------------------------
(* The refinement of OperationLedger.                                       *)

\* No result is stored before a row is settled, and the call of a lost row is with
\* no thread.
LostInv ==
    \A k \in Key : /\ led[k] \in {"absent", "admitted"} => res[k] = "none"
                   /\ Lost(k) => ~Waiting(k)

\* What a step does to the rows and the executions.
RowsMove ==
    \/ UNCHANGED <<led, res, starts>>
    \/ \E k \in Key : /\ led[k] = "absent"
                      /\ led' = [led EXCEPT ![k] = "admitted"] /\ UNCHANGED <<res, starts>>
    \/ \E k \in Key : /\ led[k] # "absent" /\ ~Lost(k) /\ starts[k] = 0
                      /\ starts' = [starts EXCEPT ![k] = 1] /\ UNCHANGED <<led, res>>
    \/ \E k \in Key, r \in {"ok", "err", "unknown"} :
          /\ led[k] = "admitted" /\ (r = "ok" => starts[k] = 1)
          /\ led' = [led EXCEPT ![k] = IF r = "unknown" THEN "unknown" ELSE "completed"]
          /\ res' = [res EXCEPT ![k] = r] /\ UNCHANGED starts
    \/ \E k \in Key : /\ led[k] = "absent" /\ starts[k] = 0
                      /\ led' = [led EXCEPT ![k] = "completed"]
                      /\ res' = [res EXCEPT ![k] = "ok"] /\ starts' = [starts EXCEPT ![k] = 1]

RowsBoot ==
    /\ led' = [k \in Key |-> IF led[k] = "admitted" THEN "unknown" ELSE led[k]]
    /\ UNCHANGED <<res, starts>>
    /\ queue' = {}

\* Calls are handed over for admitted rows only.
CallsMove == \A q \in queue' : q \in queue \/ led[q[1]] = "admitted"

\* The steps that leave the rows alone.
LEMMA RowsQuiet ==
    ASSUME RouteInv,
           \/ Tick
           \/ Environment
           \/ \E p \in Principal : Revoke(p) \/ Grant(p)
           \/ \E p \in Principal, c \in Component : Activate(p, c) \/ ActivateFails(p, c)
           \/ \E p \in Principal, t \in Token :
                 Renew(p, t) \/ Release(p, t) \/ \E s \in 1..MaxSeq : RenewSeq(p, t, s)
           \/ Shutdown
           \/ \E w \in Worker : Receive(w) \/ LegReceive(w)
           \/ \E w \in Worker : InvokeCurrent(w) \/ InvokeWait(w) \/ InvokeRecheck(w) \/ InvokeFinishFails(w)
           \/ \E w \in Worker : LegWait(w) \/ LegRecheck(w) \/ LegDispatch(w)
           \/ \E s \in Session, p \in Principal, o \in Op : LegReplay(s, p, o) \/ Cancel(s, p, o)
    PROVE  UNCHANGED <<led, res, starts>>
<1>1. CASE Tick
    BY <1>1 DEF Tick, TickExpire, TickChildGone, TickRestart, storeVars, execVars
<1>2. CASE Environment
    BY <1>2 DEF Environment, LeaseLate, ChildDies, ExecOver, storeVars, execVars
<1>3. CASE \E p \in Principal : Revoke(p) \/ Grant(p)
    BY <1>3 DEF Revoke, Grant, execVars
<1>4. CASE \E p \in Principal, c \in Component : Activate(p, c) \/ ActivateFails(p, c)
    BY <1>4 DEF Activate, ActivateFails, execVars
<1>5. CASE \E p \in Principal, t \in Token :
              Renew(p, t) \/ Release(p, t) \/ \E s \in 1..MaxSeq : RenewSeq(p, t, s)
    BY <1>5 DEF Renew, Release, RenewSeq, Rotate, storeVars, execVars
<1>6. CASE Shutdown
    BY <1>6 DEF Shutdown, storeVars, execVars
<1>7. CASE \E w \in Worker : Receive(w) \/ LegReceive(w)
    BY <1>7 DEF Receive, InvokeValidate, LegReceive, LegOpen, storeVars, execVars
<1>8. CASE \E w \in Worker : InvokeCurrent(w) \/ InvokeWait(w) \/ InvokeRecheck(w) \/ InvokeFinishFails(w)
    BY <1>8 DEF InvokeCurrent, InvokeWait, InvokeRecheck, InvokeFinishFails, storeVars, execVars
<1>9. CASE \E w \in Worker : LegWait(w) \/ LegRecheck(w) \/ LegDispatch(w)
    BY <1>9 DEF LegWait, LegRecheck, LegDispatch, storeVars, execVars
<1>10. CASE \E s \in Session, p \in Principal, o \in Op : LegReplay(s, p, o) \/ Cancel(s, p, o)
    BY <1>10 DEF LegReplay, Cancel, vars, storeVars, execVars
<1> QED
    BY <1>1, <1>2, <1>3, <1>4, <1>5, <1>6, <1>7, <1>8, <1>9, <1>10

\* Store::admit creates a row or leaves the rows alone.
LEMMA AdmitMoves ==
    ASSUME RouteInv, NEW w \in Worker, InvokeAdmit(w) \/ LegAdmit(w)
    PROVE  RowsMove
<1>1. pc[w] # "idle" /\ UNCHANGED starts
    BY DEF InvokeAdmit, LegAdmit
<1>2. Id(w) \in Key
    BY <1>1, IdType DEF RouteInv
<1>3. \/ UNCHANGED <<led, res>>
      \/ led[Id(w)] = "absent" /\ led' = [led EXCEPT ![Id(w)] = "admitted"] /\ UNCHANGED res
    BY DEF InvokeAdmit, LegAdmit, Admit, LedgerUnchanged
<1> QED
    BY <1>1, <1>2, <1>3 DEF RowsMove

\* Kernel::invoke_for_ref, in the worker's thread or in the one of the call.
LEMMA StartMoves ==
    ASSUME RouteInv, LostInv, NEW k \in Key,
           \/ \E w \in Worker : k = Id(w) /\ InvokeRun(w)
           \/ \E q \in queue : k = q[1] /\ LegExecute(q)
    PROVE  RowsMove
<1>1. UNCHANGED <<led, res>> /\ (UNCHANGED starts \/ starts' = [starts EXCEPT ![k] = Saturate(@)])
    BY DEF InvokeRun, Dispatch, LegExecute, storeVars
<1>2. led[k] # "absent" /\ ~Lost(k) /\ starts[k] = 0
    <2>1. CASE \E w \in Worker : k = Id(w) /\ InvokeRun(w)
        BY <2>1 DEF InvokeRun, RouteInv, WorkerOK, Serving, Past, Lost
    <2>2. CASE \E q \in queue : k = q[1] /\ LegExecute(q)
        <3>1. Waiting(k)
            BY <2>2 DEF Waiting
        <3> QED
            BY <3>1 DEF RouteInv, RowOK, LostInv
    <2> QED
        BY <2>1, <2>2
<1>3. UNCHANGED starts \/ starts' = [starts EXCEPT ![k] = 1]
    BY <1>1, <1>2 DEF Saturate, RouteInv, Shape, TypeOK, ExecTyped
<1> QED
    BY <1>1, <1>2, <1>3 DEF RowsMove

\* Store::finish settles an admitted row, with a success only after a start.
LEMMA FinishMoves ==
    ASSUME RouteInv, NEW w \in Worker, InvokeFinish(w) \/ LegRefuse(w) \/ LegFinish(w)
    PROVE  RowsMove
<1>1. pc[w] \in {"finish", "leg_current", "leg_finish"} /\ UNCHANGED starts
    BY DEF InvokeFinish, LegRefuse, LegFinish, Settle
<1>2. PICK k \in Key : k = Id(w)
    BY <1>1, IdType DEF RouteInv
<1>3. WorkerOK(w) /\ out[w] \in Outcome
    BY DEF RouteInv, Shape, TypeOK, WorkTyped
<1>4. PICK r \in {"ok", "err", "unknown"} :
          /\ Finish(k, r = "unknown", r) \/ LedgerUnchanged
          /\ r = "ok" => starts[k] = 1
    <2>1. CASE InvokeFinish(w)
        <3>1. PICK r \in {"ok", "err", "unknown"} :
                  r = (IF out[w] \in {"ok", "err"} THEN out[w] ELSE "unknown")
            OBVIOUS
        <3>2. Finish(k, r = "unknown", r)
            BY <1>2, <2>1, <3>1 DEF InvokeFinish
        <3>3. r = "ok" => starts[k] = 1
            BY <1>2, <1>3, <2>1, <3>1 DEF InvokeFinish, WorkerOK
        <3> QED
            BY <3>2, <3>3
    <2>2. CASE LegRefuse(w)
        BY <1>2, <2>2 DEF LegRefuse, Settle
    <2>3. CASE LegFinish(w)
        <3>1. LegResult(out[w]) \in {"ok", "err", "unknown"}
              /\ (LegResult(out[w]) = "ok" => out[w] = "ok")
            BY <1>3, <2>3 DEF LegFinish, LegResult, Outcome, WorkerOK
        <3>2. PICK r \in {"ok", "err", "unknown"} : r = LegResult(out[w]) /\ (r = "ok" => out[w] = "ok")
            BY <3>1
        <3>3. Finish(k, r = "unknown", r) \/ LedgerUnchanged
            BY <1>2, <2>3, <3>2 DEF LegFinish, Settle
        <3>4. r = "ok" => starts[k] = 1
            BY <1>2, <1>3, <2>3, <3>2 DEF LegFinish, WorkerOK
        <3> QED
            BY <3>3, <3>4
    <2> QED
        BY <2>1, <2>2, <2>3
<1>5. CASE LedgerUnchanged
    BY <1>1, <1>5 DEF LedgerUnchanged, RowsMove
<1>6. CASE Finish(k, r = "unknown", r)
    BY <1>1, <1>4, <1>6 DEF Finish, RowsMove
<1> QED
    BY <1>4, <1>5, <1>6

\* An effect.
LEMMA EffectMoves ==
    ASSUME RouteInv, NEW p \in Principal, NEW o \in Op, NEW t \in Token, CommitEffect(p, o, t)
    PROVE  RowsMove
<1>1. PICK k \in Key : k = <<p, o>>
    BY DEF Key
<1>2. CASE UNCHANGED <<led, res, starts>>
    BY <1>2 DEF RowsMove
<1>3. CASE /\ led[k] = "absent" /\ led' = [led EXCEPT ![k] = "completed"]
           /\ res' = [res EXCEPT ![k] = "ok"] /\ starts' = [starts EXCEPT ![k] = Saturate(@)]
    <2>1. starts[k] = 0
        BY <1>3 DEF RouteInv, RowOK
    <2>2. starts' = [starts EXCEPT ![k] = 1]
        BY <1>3, <2>1 DEF Saturate, RouteInv, Shape, TypeOK, ExecTyped
    <2> QED
        BY <1>3, <2>1, <2>2 DEF RowsMove
<1> QED
    BY <1>1, <1>2, <1>3 DEF CommitEffect, LedgerUnchanged

\* Every step is one of these.
LEMMA RowSteps ==
    ASSUME RouteInv, LostInv, [RouteNext]_allVars
    PROVE  RowsBoot \/ (RowsMove /\ CallsMove)
<1>1. CASE RouteRestart
    BY <1>1 DEF RouteRestart, Restart, RowsBoot
<1>2. CASE ~RouteRestart
    <2>1. CallsMove
        <3>1. CASE UNCHANGED queue
            BY <3>1 DEF CallsMove
        <3>2. ASSUME NEW w \in Worker, LegDispatch(w) PROVE CallsMove
            <4>1. led[Id(w)] = "admitted"
                BY <3>2 DEF LegDispatch, RouteInv, WorkerOK, Serving
            <4> QED
                BY <3>2, <4>1 DEF LegDispatch, CallsMove
        <3>3. ASSUME NEW q \in queue, LegExecute(q) PROVE CallsMove
            BY <3>3 DEF LegExecute, CallsMove
        <3>4. ASSUME NEW w \in Worker, LegReceive(w) \/ LegServe(w), ~LegDispatch(w) PROVE UNCHANGED queue
            BY <3>4 DEF LegReceive, LegOpen, LegServe, LegAdmit, LegRefuse, LegWait, LegRecheck, LegFinish, routeVars
        <3>5. ASSUME NEW s \in Session, NEW p \in Principal, NEW o \in Op, LegReplay(s, p, o) \/ Cancel(s, p, o)
              PROVE  UNCHANGED queue
            BY <3>5 DEF LegReplay, Cancel, routeVars
        <3> QED
            BY <1>2, <3>1, <3>2, <3>3, <3>4, <3>5 DEF RouteNext, allVars, routeVars
    <2>2. RowsMove
        <3>1. CASE UNCHANGED <<led, res, starts>>
            BY <3>1 DEF RowsMove
        <3>2. CASE Control
            <4>1. ASSUME NEW p \in Principal, NEW o \in Op, NEW t \in Token, CommitEffect(p, o, t)
                  PROVE  RowsMove
                BY <4>1, EffectMoves
            <4> QED
                BY <3>1, <3>2, <4>1, RowsQuiet DEF Control
        <3>3. ASSUME NEW w \in Worker, Serve(w) PROVE RowsMove
            <4>1. CASE InvokeAdmit(w)
                BY <4>1, AdmitMoves
            <4>2. CASE InvokeRun(w)
                <5>1. Id(w) \in Key
                    BY <4>2, IdType DEF InvokeRun, RouteInv
                <5> QED
                    BY <4>2, <5>1, StartMoves
            <4>3. CASE InvokeFinish(w)
                BY <4>3, FinishMoves
            <4>4. CASE InvokeCurrent(w) \/ InvokeWait(w) \/ InvokeRecheck(w) \/ InvokeFinishFails(w)
                BY <3>1, <4>4, RowsQuiet
            <4> QED
                BY <3>3, <4>1, <4>2, <4>3, <4>4 DEF Serve
        <3>4. ASSUME NEW w \in Worker, LegServe(w) PROVE RowsMove
            <4>1. CASE LegAdmit(w)
                BY <4>1, AdmitMoves
            <4>2. CASE LegRefuse(w) \/ LegFinish(w)
                BY <4>2, FinishMoves
            <4>3. CASE LegWait(w) \/ LegRecheck(w) \/ LegDispatch(w)
                BY <3>1, <4>3, RowsQuiet
            <4> QED
                BY <3>4, <4>1, <4>2, <4>3 DEF LegServe
        <3>5. ASSUME NEW q \in queue, LegExecute(q) PROVE RowsMove
            <4>1. PICK k \in Key : k = q[1]
                BY DEF RouteInv, QueueTyped
            <4> QED
                BY <3>5, <4>1, StartMoves
        <3>6. CASE Tick \/ Environment \/ \E w \in Worker : Receive(w) \/ LegReceive(w)
            BY <3>1, <3>6, RowsQuiet
        <3>7. CASE \E s \in Session, p \in Principal, o \in Op : LegReplay(s, p, o) \/ Cancel(s, p, o)
            BY <3>1, <3>7, RowsQuiet
        <3>8. CASE UNCHANGED allVars
            BY <3>1, <3>8 DEF allVars, vars, storeVars, execVars
        <3> QED
            BY <1>2, <3>2, <3>3, <3>4, <3>5, <3>6, <3>7, <3>8 DEF RouteNext, ServiceStep
    <2> QED
        BY <2>1, <2>2
<1> QED
    BY <1>1, <1>2

\* LostInv is inductive beside RouteInv.
LEMMA LostStep == RouteInv /\ LostInv /\ [RouteNext]_allVars => LostInv'
<1> SUFFICES ASSUME RouteInv, LostInv, [RouteNext]_allVars, NEW k \in Key
             PROVE  /\ led'[k] \in {"absent", "admitted"} => res'[k] = "none"
                    /\ Lost(k)' => ~Waiting(k)'
    BY DEF LostInv
<1>1. led \in [Key -> LedState] /\ res \in [Key -> ResState]
    BY DEF RouteInv, Shape, TypeOK, StoreTyped, LedState, ResState
<1>2. CASE RowsBoot
    BY <1>1, <1>2 DEF RowsBoot, LostInv, Waiting
<1>3. CASE RowsMove /\ CallsMove
    <2>1. \/ led'[k] = led[k] /\ res'[k] = res[k]
          \/ led[k] = "absent" /\ led'[k] = "admitted" /\ res'[k] = res[k]
          \/ led'[k] = "unknown" /\ res'[k] = "unknown"
          \/ led'[k] = "completed"
        BY <1>1, <1>3 DEF RowsMove
    <2>2. Lost(k)' => Lost(k)
        BY <2>1 DEF Lost
    <2>3. Lost(k) => ~Waiting(k)'
        BY <1>3 DEF CallsMove, LostInv, Lost, Waiting
    <2> QED
        BY <2>1, <2>2, <2>3 DEF LostInv
<1> QED
    BY <1>2, <1>3, RowSteps

\* Every step of the ledger, the workers, the threads and the boots is one of
\* OperationLedger, or none.
LEMMA LedgerMoves == RouteInv /\ LostInv /\ [RouteNext]_allVars => [Operations!Next]_(Operations!vars)
<1> SUFFICES ASSUME RouteInv, LostInv, [RouteNext]_allVars PROVE [Operations!Next]_(Operations!vars)
    OBVIOUS
<1> DEFINE row == [k \in Key |-> RowOf(k)]
           begun == [k \in Key |-> starts[k] = 1]
<1>1. led \in [Key -> LedState] /\ res \in [Key -> ResState] /\ starts \in [Key -> 0..2]
    BY DEF RouteInv, Shape, TypeOK, StoreTyped, ExecTyped, LedState, ResState
<1>2. \A k \in Key : row[k] = RowOf(k) /\ row'[k] = RowOf(k)'
    OBVIOUS
<1>3. \A k \in Key : begun[k] = (starts[k] = 1) /\ begun'[k] = (starts'[k] = 1)
    OBVIOUS
<1>4. row = [k \in Key |-> row[k]] /\ row' = [k \in Key |-> row'[k]]
      /\ begun = [k \in Key |-> begun[k]] /\ begun' = [k \in Key |-> begun'[k]]
    OBVIOUS
<1>5. CASE UNCHANGED <<led, res, starts>>
    <2>1. row' = row /\ begun' = begun
        BY <1>5 DEF RowOf, Lost
    <2> QED
        BY <2>1 DEF Operations!vars
<1>6. ASSUME NEW k \in Key, led[k] = "absent", led' = [led EXCEPT ![k] = "admitted"], UNCHANGED <<res, starts>>
      PROVE  Operations!Admit(k)
    <2>1. begun' = begun
        BY <1>6
    <2>2. \A j \in Key : RowOf(j)' = IF j = k THEN "admitted" ELSE RowOf(j)
        BY <1>1, <1>6 DEF RowOf, Lost
    <2>3. RowOf(k) = "absent"
        BY <1>6 DEF RowOf, Lost
    <2>4. row' = [row EXCEPT ![k] = "admitted"]
        BY <2>2
    <2> QED
        BY <2>1, <2>3, <2>4 DEF Operations!Admit
<1>7. ASSUME NEW k \in Key, led[k] # "absent", ~Lost(k), starts[k] = 0, starts' = [starts EXCEPT ![k] = 1],
             UNCHANGED <<led, res>>
      PROVE  Operations!Begin(k)
    <2>1. row' = row
        BY <1>7 DEF RowOf, Lost
    <2>2. RowOf(k) \notin {"absent", "lost"}
        BY <1>1, <1>7 DEF RowOf, RouteInv, Shape, ResultStored, Lost, LedState
    <2>3. \A j \in Key : (starts'[j] = 1) = (IF j = k THEN TRUE ELSE starts[j] = 1)
        BY <1>1, <1>7
    <2>4. begun' = [begun EXCEPT ![k] = TRUE]
        BY <2>3
    <2>5. ~(starts[k] = 1)
        BY <1>7
    <2> QED
        BY <2>1, <2>2, <2>4, <2>5 DEF Operations!Begin
<1>8. ASSUME NEW k \in Key, NEW r \in {"ok", "err", "unknown"}, led[k] = "admitted", r = "ok" => starts[k] = 1,
             led' = [led EXCEPT ![k] = IF r = "unknown" THEN "unknown" ELSE "completed"],
             res' = [res EXCEPT ![k] = r], UNCHANGED starts
      PROVE  Operations!Settle(k, r)
    <2>1. begun' = begun
        BY <1>8
    <2>2. /\ led'[k] = IF r = "unknown" THEN "unknown" ELSE "completed"
          /\ res'[k] = r /\ \A j \in Key : j # k => led'[j] = led[j] /\ res'[j] = res[j]
        BY <1>1, <1>8
    <2>3. \A j \in Key : RowOf(j)' = IF j = k THEN r ELSE RowOf(j)
        BY <2>2 DEF RowOf, Lost
    <2>4. RowOf(k) = "admitted"
        BY <1>8 DEF RowOf, Lost
    <2>5. row' = [row EXCEPT ![k] = r]
        BY <2>3
    <2> QED
        BY <1>8, <2>1, <2>4, <2>5 DEF Operations!Settle
<1>9. ASSUME NEW k \in Key, led[k] = "absent", starts[k] = 0, led' = [led EXCEPT ![k] = "completed"],
             res' = [res EXCEPT ![k] = "ok"], starts' = [starts EXCEPT ![k] = 1]
      PROVE  Operations!Effect(k)
    <2>1. /\ led'[k] = "completed" /\ res'[k] = "ok"
          /\ \A j \in Key : j # k => led'[j] = led[j] /\ res'[j] = res[j]
        BY <1>1, <1>9
    <2>2. \A j \in Key : RowOf(j)' = IF j = k THEN "ok" ELSE RowOf(j)
        BY <2>1 DEF RowOf, Lost
    <2>3. RowOf(k) = "absent"
        BY <1>9 DEF RowOf, Lost
    <2>4. \A j \in Key : (starts'[j] = 1) = (IF j = k THEN TRUE ELSE starts[j] = 1)
        BY <1>1, <1>9
    <2>5. row' = [row EXCEPT ![k] = "ok"] /\ begun' = [begun EXCEPT ![k] = TRUE]
        BY <2>2, <2>4
    <2> QED
        BY <2>3, <2>5 DEF Operations!Effect
<1>10. CASE RowsBoot
    <2>1. begun' = begun
        BY <1>10 DEF RowsBoot
    <2>2. \A k \in Key : RowOf(k)' = IF RowOf(k) = "admitted" THEN "lost" ELSE RowOf(k)
        BY <1>1, <1>10 DEF RowsBoot, RowOf, Lost, LostInv, RouteInv, Shape, ResultStored
    <2>3. row' = [k \in Key |-> IF row[k] = "admitted" THEN "lost" ELSE row[k]]
        BY <2>2
    <2> QED
        BY <2>1, <2>3 DEF Operations!Boot, Operations!Next
<1>11. CASE RowsMove
    BY <1>5, <1>6, <1>7, <1>8, <1>9, <1>11 DEF RowsMove, Operations!Next
<1> QED
    BY <1>10, <1>11, RowSteps

\* The ledger under unary requests and legs implements OperationLedger (store.rs,
\* service.rs, route_executor.rs): for any number of workers, sessions, operations and
\* boots, every step of the service is one the abstract ledger allows.
THEOREM LedgerRefinement == RouteSpec => ImplementsLedger
<1>1. RouteInit => LostInv /\ Operations!Init
    <2> SUFFICES ASSUME RouteInit PROVE LostInv /\ Operations!Init
        OBVIOUS
    <2>1. \A k \in Key : led[k] = "absent" /\ starts[k] = 0 /\ res[k] = "none"
        BY DEF RouteInit, Init
    <2>2. LostInv
        BY <2>1 DEF LostInv, Lost
    <2>3. \A k \in Key : RowOf(k) = "absent" /\ (starts[k] = 1) = FALSE
        BY <2>1 DEF RowOf, Lost
    <2> QED
        BY <2>2, <2>3 DEF Operations!Init
<1> QED
    BY <1>1, RouteInvariance, LostStep, LedgerMoves, PTL DEF RouteSpec, ImplementsLedger, Operations!Spec

\* A completed or unknown row never changes again (I10), also when legs of several
\* sessions and threads that come late use the ledger.
THEOREM LegLedgerFinal == RouteSpec => LedgerFinal
<1>1. RouteInit => LostInv
    BY DEF RouteInit, Init, LostInv, Lost
<1>2. RouteInv /\ LostInv /\ [RouteNext]_allVars =>
        [\A k \in Key : led[k] \in {"completed", "unknown"} => led'[k] = led[k] /\ res'[k] = res[k]]_vars
    <2> SUFFICES ASSUME RouteInv, LostInv, [RouteNext]_allVars, NEW k \in Key, led[k] \in {"completed", "unknown"}
                 PROVE  led'[k] = led[k] /\ res'[k] = res[k]
        OBVIOUS
    <2>1. led \in [Key -> LedState] /\ res \in [Key -> ResState]
        BY DEF RouteInv, Shape, TypeOK, StoreTyped, LedState, ResState
    <2>2. CASE RowsBoot
        BY <2>1, <2>2 DEF RowsBoot
    <2>3. CASE RowsMove
        BY <2>1, <2>3 DEF RowsMove
    <2> QED
        BY <2>2, <2>3, RowSteps
<1> QED
    BY <1>1, <1>2, RouteInvariance, LostStep, PTL DEF RouteSpec, LedgerFinal

----------------------------------------------------------------------------
(* Leases, fences and the tables of the routes beside the legs.             *)

\* Legs give no lease, move no fence and commit no effect.
LEMMA LegFence ==
    ASSUME RouteInv, FenceInv, [RouteNext]_allVars
    PROVE  /\ FenceInv'
           /\ \A c \in Component : eff'[c] # eff[c] => eff'[c] > eff[c]
<1>1. CASE [Next]_vars
    BY <1>1, FenceStep DEF RouteInv
<1>2. CASE ServiceStep \/ RouteRestart
    <2>1. Next
        BY <1>2 DEF ServiceStep, RouteRestart, Next
    <2> QED
        BY <1>1, <2>1
<1>3. CASE UNCHANGED <<fence, eff, barred, revoked, lease>>
    <2>1. \A p \in barred : p \in revoked
        BY DEF FenceInv, RevocationHolds
    <2>2. FenceInv'
        BY <1>3, <2>1, FenceKept DEF Held, Same
    <2> QED
        BY <1>3, <2>2
<1>4. ASSUME NEW w \in Worker, LegReceive(w) \/ LegServe(w) PROVE UNCHANGED <<fence, eff, barred, revoked, lease>>
    BY <1>4 DEF LegReceive, LegOpen, LegServe, LegAdmit, LegRefuse, LegDispatch, LegWait, LegRecheck, LegFinish,
                Settle, storeVars, stateVars
<1>5. ASSUME NEW q \in queue, LegExecute(q) PROVE UNCHANGED <<fence, eff, barred, revoked, lease>>
    BY <1>5 DEF LegExecute, storeVars, stateVars
<1>6. ASSUME NEW s \in Session, NEW p \in Principal, NEW o \in Op, LegReplay(s, p, o) \/ Cancel(s, p, o)
      PROVE  UNCHANGED <<fence, eff, barred, revoked, lease>>
    BY <1>6 DEF LegReplay, Cancel, vars, storeVars, stateVars
<1>7. CASE UNCHANGED allVars
    BY <1>1, <1>7 DEF allVars
<1> QED
    BY <1>2, <1>3, <1>4, <1>5, <1>6, <1>7 DEF RouteNext

\* The leases' invariant holds while legs are served.
LEMMA LegFenceInvariance == RouteSpec => []FenceInv
<1>1. RouteInit => FenceInv
    BY DEF RouteInit, Init, FenceInv, LeaseHoldsFence, RevocationHolds, Held
<1>2. RouteInv /\ FenceInv /\ [RouteNext]_allVars => FenceInv'
    BY LegFence
<1> QED
    BY <1>1, <1>2, RouteInvariance, PTL DEF RouteSpec

\* One lease for a component, with the fence of the store (service.rs, store.rs),
\* whatever legs are open on its activations.
THEOREM LegFenceSafety == RouteSpec => []LeaseHoldsFence
<1>1. FenceInv => LeaseHoldsFence
    BY DEF FenceInv
<1> QED
    BY <1>1, LegFenceInvariance, PTL

\* A stored revocation (Service::revoke) leaves the principal no lease through which
\* a session could open a leg, after a boot as before.
THEOREM LegRevocationSafety == RouteSpec => []RevocationHolds
<1>1. FenceInv => RevocationHolds
    BY DEF FenceInv
<1> QED
    BY <1>1, LegFenceInvariance, PTL

\* Effects stay in the order of the leases (Service::commit_effect) beside the legs.
THEOREM LegEffectOrder == RouteSpec => EffectsInFenceOrder
<1>1. RouteInv /\ FenceInv /\ [RouteNext]_allVars =>
        [\A c \in Component : eff'[c] # eff[c] => eff'[c] > eff[c]]_vars
    BY LegFence
<1> QED
    BY <1>1, RouteInvariance, LegFenceInvariance, PTL DEF RouteSpec, EffectsInFenceOrder

\* The tables of the routes: a worker that serves a leg knows its session.
LegPC == {"leg_admit", "leg_current", "leg_wait", "leg_recheck", "leg_finish"}

TablesTyped ==
    /\ legs \subseteq Leg
    /\ cancelled \subseteq Leg
    /\ via \in [Worker -> Session \cup {NoSession}]
    /\ \A w \in Worker : pc[w] \in LegPC => via[w] \in Session

\* The leg of a worker that serves one.
LEMMA LegOfType ==
    ASSUME RouteInv, TablesTyped, NEW w \in Worker, pc[w] \in LegPC
    PROVE  LegOf(w) \in Leg
<1>1. job[w] \in Job /\ via[w] \in Session
    BY DEF RouteInv, Shape, JobTyped, TablesTyped, LegPC
<1> QED
    BY <1>1 DEF LegOf, Leg, Job

\* A worker ends its leg, or goes on with it.
LEMMA ViaTyped ==
    ASSUME RouteInv, TablesTyped, NEW w \in Worker, NEW q \in PC, Goto(w, q),
           \/ via' = via /\ (q \in LegPC => via[w] \in Session)
           \/ \E s \in Session \cup {NoSession} : via' = [via EXCEPT ![w] = s] /\ (q \in LegPC => s \in Session)
    PROVE  /\ via' \in [Worker -> Session \cup {NoSession}]
           /\ \A v \in Worker : pc'[v] \in LegPC => via'[v] \in Session
<1>1. \A v \in Worker : pc'[v] = IF v = w THEN q ELSE pc[v]
    BY DEF Goto, RouteInv, Shape, TypeOK, WorkTyped
<1> QED
    BY <1>1 DEF TablesTyped

\* The tables keep their types.
LEMMA TablesStep == RouteInv /\ TablesTyped /\ [RouteNext]_allVars => TablesTyped'
<1> SUFFICES ASSUME RouteInv, TablesTyped, [RouteNext]_allVars PROVE TablesTyped'
    OBVIOUS
<1>1. ASSUME NEW w \in Worker, NEW q \in PC \ LegPC, Goto(w, q), UNCHANGED <<legs, cancelled, via>> PROVE TablesTyped'
    BY <1>1, ViaTyped DEF TablesTyped
<1>2. CASE UNCHANGED <<pc, legs, cancelled, via>>
    BY <1>2 DEF TablesTyped
<1>3. CASE ServiceStep /\ UNCHANGED routeVars
    <2>1. UNCHANGED <<legs, cancelled, via>>
        BY <1>3 DEF routeVars
    <2>2. CASE Control \/ Tick \/ Environment
        <3>1. ASSUME Control PROVE pc' = pc
            <4>1. ASSUME NEW p \in Principal PROVE Revoke(p) \/ Grant(p) => pc' = pc
                BY DEF Revoke, Grant, workVars
            <4>2. ASSUME NEW p \in Principal, NEW c \in Component
                  PROVE  Activate(p, c) \/ ActivateFails(p, c) => pc' = pc
                BY DEF Activate, ActivateFails, workVars
            <4>3. ASSUME NEW p \in Principal, NEW t \in Token PROVE Renew(p, t) \/ Release(p, t) => pc' = pc
                BY DEF Renew, Release, Rotate, workVars
            <4>4. ASSUME NEW p \in Principal, NEW t \in Token, NEW s \in 1..MaxSeq
                  PROVE  RenewSeq(p, t, s) => pc' = pc
                BY DEF RenewSeq, Rotate, workVars
            <4>5. ASSUME NEW p \in Principal, NEW t \in Token, NEW o \in Op
                  PROVE  CommitEffect(p, o, t) => pc' = pc
                BY DEF CommitEffect, workVars
            <4>6. Shutdown => pc' = pc
                BY DEF Shutdown, workVars
            <4> QED
                BY ONLY <3>1, <4>1, <4>2, <4>3, <4>4, <4>5, <4>6 DEF Control
        <3>2. ASSUME Tick PROVE pc' = pc
            BY <3>2 DEF Tick, TickExpire, TickChildGone, TickRestart, workVars
        <3>3. ASSUME Environment PROVE pc' = pc
            BY <3>3 DEF Environment, LeaseLate, ChildDies, ExecOver, workVars
        <3> QED
            BY <1>2, <2>1, <2>2, <3>1, <3>2, <3>3
    <2>3. ASSUME NEW w \in Worker, Receive(w) \/ Serve(w) PROVE TablesTyped'
        <3>1. \E q \in PC \ LegPC : Goto(w, q)
            BY <2>3 DEF Receive, InvokeValidate, Serve, InvokeAdmit, Admit, InvokeCurrent, InvokeRun, Dispatch,
                        InvokeWait, Await, InvokeRecheck, InvokeFinish, InvokeFinishFails, Done, PC, LegPC
        <3> QED
            BY <1>1, <2>1, <3>1
    <2> QED
        BY <1>3, <2>2, <2>3 DEF ServiceStep
<1>4. CASE RouteRestart
    BY <1>4 DEF RouteRestart, Restart, TablesTyped, LegPC
<1>5. ASSUME NEW w \in Worker, LegReceive(w) PROVE TablesTyped'
    <2>1. PICK s \in Session : via' = [via EXCEPT ![w] = s] /\ Goto(w, "leg_admit") /\ UNCHANGED <<legs, cancelled>>
        BY <1>5 DEF LegReceive, LegOpen
    <2>2. "leg_admit" \in PC
        BY DEF PC
    <2> QED
        BY <2>1, <2>2, ViaTyped DEF TablesTyped
<1>6. ASSUME NEW w \in Worker, LegAdmit(w) PROVE TablesTyped'
    <2>1. pc[w] = "leg_admit" /\ UNCHANGED <<legs, cancelled>>
          /\ via' = [via EXCEPT ![w] = IF pc'[w] = "idle" THEN NoSession ELSE @]
        BY <1>6 DEF LegAdmit
    <2>2. via[w] \in Session /\ via \in [Worker -> Session \cup {NoSession}]
        BY <2>1 DEF TablesTyped, LegPC
    <2>3. PICK q \in {"idle", "leg_current"} : Goto(w, q)
        BY <1>6 DEF LegAdmit, Admit, Done
    <2>4. pc'[w] = q
        BY <2>3 DEF Goto, RouteInv, Shape, TypeOK, WorkTyped
    <2>5. \E s \in Session \cup {NoSession} : via' = [via EXCEPT ![w] = s] /\ (q \in LegPC => s \in Session)
        BY <2>1, <2>2, <2>3, <2>4 DEF LegPC
    <2>6. q \in PC
        BY <2>3 DEF PC
    <2> QED
        BY <2>1, <2>3, <2>5, <2>6, ViaTyped DEF TablesTyped
<1>7. ASSUME NEW w \in Worker, LegDispatch(w) \/ LegWait(w) \/ LegRecheck(w) PROVE TablesTyped'
    <2>1. PICK q \in LegPC : pc[w] \in LegPC /\ Goto(w, q) /\ UNCHANGED <<legs, cancelled, via>>
        BY <1>7 DEF LegDispatch, LegWait, Await, LegRecheck, LegPC, routeVars
    <2>2. q \in PC /\ via[w] \in Session
        BY <2>1 DEF PC, LegPC, TablesTyped
    <2> QED
        BY <2>1, <2>2, ViaTyped DEF TablesTyped
<1>8. ASSUME NEW w \in Worker, LegRefuse(w) \/ LegFinish(w) PROVE TablesTyped'
    <2>1. pc[w] \in LegPC /\ Goto(w, "idle") /\ via' = [via EXCEPT ![w] = NoSession]
        BY <1>8 DEF LegRefuse, LegFinish, Settle, Done, LegPC
    <2>2. LegOf(w) \in Leg
        BY <2>1, LegOfType
    <2>3. cancelled' \subseteq cancelled /\ legs' \subseteq legs \cup {LegOf(w)}
        BY <1>8 DEF LegRefuse, LegFinish
    <2>4. "idle" \in PC /\ "idle" \notin LegPC
        BY DEF PC, LegPC
    <2>5. /\ via' \in [Worker -> Session \cup {NoSession}]
          /\ \A v \in Worker : pc'[v] \in LegPC => via'[v] \in Session
        BY <2>1, <2>4, ViaTyped
    <2> QED
        BY <2>2, <2>3, <2>5 DEF TablesTyped
<1>9. ASSUME NEW q \in queue, LegExecute(q) PROVE TablesTyped'
    BY <1>2, <1>9 DEF LegExecute, workVars
<1>10. ASSUME NEW s \in Session, NEW p \in Principal, NEW o \in Op, LegReplay(s, p, o) PROVE TablesTyped'
    BY <1>2, <1>10 DEF LegReplay, workVars, routeVars
<1>11. ASSUME NEW s \in Session, NEW p \in Principal, NEW o \in Op, Cancel(s, p, o) PROVE TablesTyped'
    <2>1. UNCHANGED <<pc, legs, via>> /\ cancelled' = cancelled \cup {<<s, p, o>>}
        BY <1>11 DEF Cancel, vars, workVars
    <2>2. <<s, p, o>> \in Leg
        BY DEF Leg
    <2> QED
        BY <2>1, <2>2 DEF TablesTyped
<1>12. CASE UNCHANGED allVars
    BY <1>2, <1>12 DEF allVars, vars, workVars, routeVars
<1> QED
    BY <1>3, <1>4, <1>5, <1>6, <1>7, <1>8, <1>9, <1>10, <1>11, <1>12 DEF RouteNext, LegServe

\* The types of the service and of the tables of its routes (Route::legs,
\* Route::cancelled, the calls handed to threads).
THEOREM RouteTypeCorrect == RouteSpec => []RouteTypeOK
<1>1. RouteInit => TablesTyped
    BY DEF RouteInit, Init, TablesTyped, LegPC
<1>2. RouteInv /\ TablesTyped => RouteTypeOK
    BY DEF RouteInv, Shape, QueueTyped, TablesTyped, RouteTypeOK
<1> QED
    BY <1>1, <1>2, RouteInvariance, TablesStep, PTL DEF RouteSpec
=============================================================================
