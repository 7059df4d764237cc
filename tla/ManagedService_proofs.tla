------------------------ MODULE ManagedService_proofs ------------------------
(***************************************************************************)
(* Proofs about the ledger and the leases of ManagedService, for any       *)
(* number of workers, principals, components, operations and boots.        *)
(* LedgerInv is the inductive invariant of the ledger, FenceInv that of    *)
(* the leases.                                                             *)
(***************************************************************************)
EXTENDS ManagedService, TLAPS

\* Where a worker is from the admission of its row until the row is settled.
Past == {"current", "run", "wait", "recheck", "finish"}

\* A worker that serves a request or a leg knows it.
JobTyped == \A w \in Worker : pc[w] # "idle" => job[w] \in Job

ResultStored == \A k \in Key : led[k] = "completed" => res[k] \in {"ok", "err"}

\* Nothing has happened to an operation that has no row.
FreshIsUntouched ==
    \A k \in Key : led[k] = "absent" => starts[k] = 0 /\ exec[k] = "no"

\* A worker past the admission has a row that nobody else settles.
OwnerHoldsRow == \A w \in Worker : pc[w] \in Past => led[Id(w)] = "admitted"

OneOwner ==
    \A v, w \in Worker : pc[v] \in Past /\ pc[w] \in Past /\ Id(v) = Id(w) => v = w

NotYetStarted ==
    \A w \in Worker :
        pc[w] \in {"current", "run"} => starts[Id(w)] = 0 /\ exec[Id(w)] = "no"

\* A worker that knows a result has it from a provider that no longer executes.
KnownIsSettled ==
    \A w \in Worker :
        pc[w] \in {"recheck", "finish"} /\ out[w] \in {"ok", "err"} =>
            exec[Id(w)] # "running"

Shape == TypeOK /\ JobTyped /\ ResultStored

Ledger ==
    /\ FreshIsUntouched
    /\ OwnerHoldsRow
    /\ OneOwner
    /\ NotYetStarted
    /\ KnownIsSettled
    /\ StartedAtMostOnce
    /\ AnswersAreDurable
    /\ CompletedIsSettled

\* The inductive invariant.
LedgerInv == Shape /\ Ledger

----------------------------------------------------------------------------
(* Facts that hold of every state.                                          *)

\* A worker that serves a request serves an operation of a principal.
LEMMA IdType ==
    ASSUME Shape, NEW w \in Worker, pc[w] # "idle"
    PROVE  Id(w) \in Key /\ job[w].c \in Component
    BY DEF Shape, JobTyped, Id, Key, Job

LEMMA InitShape == Init => Shape
<1> SUFFICES ASSUME Init PROVE Shape
    OBVIOUS
<1>1. StoreTyped
    BY BoundAssumption DEF Init, StoreTyped
<1>2. lease \in [Token -> Lease \cup {NoLease}] /\ newer \in [Token -> 0..MaxToken]
    BY BoundAssumption DEF Init
<1>3. tokens \in 0..MaxToken /\ revoked \subseteq Principal
    BY BoundAssumption DEF Init
<1>4. stopped \in BOOLEAN
    BY Zenon DEF Init
<1>5. KernelTyped /\ ExecTyped
    BY BoundAssumption DEF Init, KernelTyped, ExecTyped
<1>6. WorkTyped
    BY DEF Init, WorkTyped, PC, Outcome
<1>7. JobTyped /\ ResultStored
    BY DEF Init, JobTyped, ResultStored
<1> QED
    BY <1>1, <1>2, <1>3, <1>4, <1>5, <1>6, <1>7 DEF Shape, TypeOK, LeasesTyped

LEMMA InitLedger == Init => Ledger
    BY DEF Init, Ledger, FreshIsUntouched, OwnerHoldsRow, OneOwner, NotYetStarted,
           KnownIsSettled, StartedAtMostOnce, AnswersAreDurable, CompletedIsSettled, Past

----------------------------------------------------------------------------
(* Steps that leave the ledger, the executions and the workers alone.       *)

\* What the invariants of the ledger are about.
ledgerVars == <<led, res, exec, starts, told, pc, job, out>>

LEMMA LedgerStutters == Ledger /\ UNCHANGED ledgerVars => Ledger'
    BY DEF ledgerVars, Ledger, FreshIsUntouched, OwnerHoldsRow, OneOwner, NotYetStarted,
           KnownIsSettled, StartedAtMostOnce, AnswersAreDurable, CompletedIsSettled, Id

LEMMA WorkersStutter ==
    (JobTyped /\ ResultStored) /\ UNCHANGED ledgerVars => (JobTyped /\ ResultStored)'
    BY DEF ledgerVars, JobTyped, ResultStored

\* The type of the ledger, the executions and the workers is kept.
LEMMA QuietTyped ==
    ASSUME Shape, UNCHANGED ledgerVars, UNCHANGED <<req, eff, epoch>>,
           fence' \in [Component -> 0..MaxFence], barred' \subseteq Principal,
           LeasesTyped', KernelTyped'
    PROVE  Shape'
<1>1. StoreTyped'
    BY DEF ledgerVars, Shape, TypeOK, StoreTyped
<1>2. ExecTyped' /\ WorkTyped'
    BY DEF ledgerVars, Shape, TypeOK, ExecTyped, WorkTyped
<1>3. (JobTyped /\ ResultStored)'
    BY WorkersStutter DEF Shape
<1> QED
    BY <1>1, <1>2, <1>3 DEF Shape, TypeOK

LEMMA LeaseType ==
    ASSUME LeasesTyped, NEW t \in Token, Held(t)
    PROVE  lease[t] \in Lease
    BY DEF LeasesTyped, Held

LEMMA RetireType ==
    ASSUME Shape, NEW T \in SUBSET Token, Retire(T)
    PROVE  KernelTyped' /\ lease' \in [Token -> Lease \cup {NoLease}]
    BY DEF Shape, TypeOK, KernelTyped, LeasesTyped, Retire

LEMMA LoadType ==
    ASSUME Shape, NEW c \in Component, Load(c)
    PROVE  KernelTyped' /\ made + 1 \in 1..MaxInst
    BY BoundAssumption DEF Shape, TypeOK, KernelTyped, Load

LEMMA RotateType ==
    ASSUME Shape, NEW t \in Token, Held(t), NEW s \in 0..MaxSeq, Rotate(t, s)
    PROVE  Shape' /\ UNCHANGED ledgerVars
<1>1. UNCHANGED <<ledgerVars, req, eff, epoch, fence, barred, kernelVars, revoked, stopped>>
    BY DEF Rotate, storeVars, execVars, workVars, ledgerVars
<1>2. tokens + 1 \in Token /\ tokens' \in 0..MaxToken
    BY BoundAssumption DEF Rotate, Shape, TypeOK, LeasesTyped, Token
<1>3. [lease[t] EXCEPT !.late = FALSE, !.seq = s] \in Lease
    BY LeaseType DEF Shape, TypeOK, Lease
<1>4. lease' \in [Token -> Lease \cup {NoLease}] /\ newer' \in [Token -> 0..MaxToken]
    BY <1>2, <1>3, BoundAssumption DEF Rotate, Shape, TypeOK, LeasesTyped, Token
<1>5. LeasesTyped'
    BY <1>1, <1>2, <1>4, Zenon DEF Shape, TypeOK, LeasesTyped
<1>6. KernelTyped'
    BY <1>1 DEF Shape, TypeOK, KernelTyped, kernelVars
<1> QED
    BY <1>1, <1>5, <1>6, QuietTyped DEF Shape, TypeOK, StoreTyped

----------------------------------------------------------------------------
(* The actions under the lock and of the supervisor.                        *)

LEMMA ActivateStep ==
    ASSUME Shape, NEW p \in Principal, NEW c \in Component, Activate(p, c)
    PROVE  Shape' /\ UNCHANGED ledgerVars
<1>1. UNCHANGED <<ledgerVars, req, eff, epoch, barred, revoked, stopped, newer>>
    BY DEF Activate, execVars, workVars, ledgerVars
<1>2. KernelTyped' /\ made + 1 \in 1..MaxInst
    BY LoadType DEF Activate
<1>3. fence' \in [Component -> 0..MaxFence] /\ fence[c] + 1 \in 1..MaxFence
    BY BoundAssumption DEF Activate, Shape, TypeOK, StoreTyped
<1>4. tokens + 1 \in Token /\ tokens' \in 0..MaxToken
    BY BoundAssumption DEF Activate, Shape, TypeOK, LeasesTyped, Token
<1>5. [p |-> p, c |-> c, f |-> fence[c] + 1, i |-> made + 1, health |-> "ok",
       late |-> FALSE, seq |-> 0] \in Lease
    BY <1>2, <1>3, BoundAssumption DEF Lease
<1>6. lease' \in [Token -> Lease \cup {NoLease}]
    BY <1>4, <1>5 DEF Activate, Shape, TypeOK, LeasesTyped
<1>7. LeasesTyped'
    BY <1>1, <1>4, <1>6, Zenon DEF Shape, TypeOK, LeasesTyped
<1>8. barred' \subseteq Principal
    BY <1>1 DEF Shape, TypeOK, StoreTyped
<1> QED
    BY <1>1, <1>2, <1>3, <1>7, <1>8, QuietTyped

LEMMA ActivateFailsStep ==
    ASSUME Shape, NEW p \in Principal, NEW c \in Component, ActivateFails(p, c)
    PROVE  Shape' /\ UNCHANGED ledgerVars
<1>1. UNCHANGED <<ledgerVars, req, eff, epoch, barred, stateVars, inst, made, dead>>
    BY DEF ActivateFails, execVars, workVars, ledgerVars
<1>2. KernelTyped'
    BY <1>1 DEF ActivateFails, Shape, TypeOK, KernelTyped
<1>3. fence' \in [Component -> 0..MaxFence] /\ barred' \subseteq Principal
    BY <1>1, BoundAssumption DEF ActivateFails, Shape, TypeOK, StoreTyped
<1>4. LeasesTyped'
    BY <1>1, Zenon DEF Shape, TypeOK, LeasesTyped, stateVars
<1> QED
    BY <1>1, <1>2, <1>3, <1>4, QuietTyped

LEMMA RenewStep ==
    ASSUME Shape, NEW p \in Principal, NEW t \in Token,
           Renew(p, t) \/ \E s \in 1..MaxSeq : RenewSeq(p, t, s)
    PROVE  Shape' /\ UNCHANGED ledgerVars
<1>1. Held(t)
    BY DEF Renew, RenewSeq, Valid
<1>2. lease[t].seq \in 0..MaxSeq
    BY <1>1, LeaseType DEF Shape, TypeOK, Lease
<1>3. PICK s \in 0..MaxSeq : Rotate(t, s)
    BY <1>2, BoundAssumption DEF Renew, RenewSeq
<1> QED
    BY <1>1, <1>3, RotateType

\* A lease is changed in place, or leases are retired, and the store stays, but for the
\* revocations.
LEMMA LeaseStep ==
    ASSUME Shape, lease' \in [Token -> Lease \cup {NoLease}], KernelTyped',
           UNCHANGED <<ledgerVars, req, fence, eff, epoch, tokens, newer>>,
           barred' \subseteq Principal, revoked' \subseteq Principal, stopped' \in BOOLEAN
    PROVE  Shape'
<1>1. LeasesTyped'
    BY Zenon DEF Shape, TypeOK, LeasesTyped
<1>2. fence' \in [Component -> 0..MaxFence]
    BY DEF Shape, TypeOK, StoreTyped
<1> QED
    BY <1>1, <1>2, QuietTyped

LEMMA KernelStutters == KernelTyped /\ UNCHANGED kernelVars => KernelTyped'
    BY DEF KernelTyped, kernelVars

LEMMA SetsTyped ==
    ASSUME Shape PROVE barred \subseteq Principal /\ revoked \subseteq Principal /\ stopped \in BOOLEAN
    BY Zenon DEF Shape, TypeOK, StoreTyped, LeasesTyped

LEMMA LeaseLateStep ==
    ASSUME Shape, NEW t \in Token, LeaseLate(t)
    PROVE  Shape' /\ UNCHANGED ledgerVars
<1>1. UNCHANGED <<ledgerVars, storeVars, tokens, revoked, stopped, newer, kernelVars>>
    BY DEF LeaseLate, storeVars, execVars, workVars, ledgerVars
<1>2. [lease[t] EXCEPT !.late = TRUE] \in Lease
    BY LeaseType DEF LeaseLate, Shape, TypeOK, Lease
<1>3. lease' \in [Token -> Lease \cup {NoLease}]
    BY <1>2 DEF LeaseLate, Shape, TypeOK, LeasesTyped
<1>4. KernelTyped'
    BY <1>1, KernelStutters DEF Shape, TypeOK
<1> QED
    BY <1>1, <1>3, <1>4, LeaseStep, SetsTyped DEF storeVars

LEMMA ReleaseStep ==
    ASSUME Shape, NEW p \in Principal, NEW t \in Token, Release(p, t)
    PROVE  Shape' /\ UNCHANGED ledgerVars
<1>1. UNCHANGED <<ledgerVars, storeVars, tokens, revoked, stopped, newer>>
    BY DEF Release, storeVars, execVars, workVars, ledgerVars
<1>2. KernelTyped' /\ lease' \in [Token -> Lease \cup {NoLease}]
    BY RetireType DEF Release
<1> QED
    BY <1>1, <1>2, LeaseStep, SetsTyped DEF storeVars

LEMMA RevokeStep ==
    ASSUME Shape, NEW p \in Principal, Revoke(p)
    PROVE  Shape' /\ UNCHANGED ledgerVars
<1>1. UNCHANGED <<ledgerVars, req, fence, eff, epoch, tokens, stopped, newer>>
    BY DEF Revoke, execVars, workVars, ledgerVars
<1>2. KernelTyped' /\ lease' \in [Token -> Lease \cup {NoLease}]
    BY RetireType DEF Revoke
<1>3. barred' \subseteq Principal /\ revoked' \subseteq Principal
    BY SetsTyped DEF Revoke
<1> QED
    BY <1>1, <1>2, <1>3, LeaseStep, SetsTyped

LEMMA GrantStep ==
    ASSUME Shape, NEW p \in Principal, Grant(p)
    PROVE  Shape' /\ UNCHANGED ledgerVars
<1>1. UNCHANGED <<ledgerVars, req, fence, eff, epoch, lease, tokens, stopped, newer, kernelVars>>
    BY DEF Grant, execVars, workVars, ledgerVars
<1>2. KernelTyped' /\ lease' \in [Token -> Lease \cup {NoLease}]
    BY <1>1, KernelStutters DEF Shape, TypeOK, LeasesTyped
<1>3. barred' \subseteq Principal /\ revoked' \subseteq Principal
    BY SetsTyped DEF Grant
<1> QED
    BY <1>1, <1>2, <1>3, LeaseStep, SetsTyped

LEMMA TickExpireStep ==
    ASSUME Shape, TickExpire
    PROVE  Shape' /\ UNCHANGED ledgerVars
<1>1. UNCHANGED <<ledgerVars, storeVars, tokens, revoked, stopped, newer>>
    BY DEF TickExpire, storeVars, execVars, workVars, ledgerVars
<1>2. KernelTyped' /\ lease' \in [Token -> Lease \cup {NoLease}]
    BY RetireType DEF TickExpire
<1> QED
    BY <1>1, <1>2, LeaseStep, SetsTyped DEF storeVars

LEMMA ShutdownStep ==
    ASSUME Shape, Shutdown
    PROVE  Shape' /\ UNCHANGED ledgerVars
<1>1. UNCHANGED <<ledgerVars, storeVars, tokens, revoked, newer>>
    BY DEF Shutdown, storeVars, execVars, workVars, ledgerVars
<1>2. KernelTyped' /\ lease' \in [Token -> Lease \cup {NoLease}]
    BY RetireType DEF Shutdown
<1>3. stopped' \in BOOLEAN
    BY Zenon DEF Shutdown
<1> QED
    BY <1>1, <1>2, <1>3, LeaseStep, SetsTyped DEF storeVars

LEMMA TickChildGoneStep ==
    ASSUME Shape, NEW t \in Token, TickChildGone(t)
    PROVE  Shape' /\ UNCHANGED ledgerVars
<1>1. UNCHANGED <<ledgerVars, storeVars, tokens, revoked, stopped, newer, inst, made, dead>>
    BY DEF TickChildGone, storeVars, execVars, workVars, ledgerVars
<1>2. PICK h \in {"retry", "failed"} : lease' = [lease EXCEPT ![t].health = h]
    BY DEF TickChildGone
<1>3. [lease[t] EXCEPT !.health = h] \in Lease
    BY LeaseType DEF TickChildGone, Shape, TypeOK, Lease
<1>4. lease' \in [Token -> Lease \cup {NoLease}]
    BY <1>2, <1>3 DEF Shape, TypeOK, LeasesTyped
<1>5. KernelTyped'
    BY <1>1 DEF TickChildGone, Shape, TypeOK, KernelTyped
<1> QED
    BY <1>1, <1>4, <1>5, LeaseStep, SetsTyped DEF storeVars

LEMMA TickRestartStep ==
    ASSUME Shape, NEW t \in Token, TickRestart(t)
    PROVE  Shape' /\ UNCHANGED ledgerVars
<1>1. UNCHANGED <<ledgerVars, storeVars, tokens, revoked, stopped, newer>>
    BY DEF TickRestart, storeVars, execVars, workVars, ledgerVars
<1>2. lease[t] \in Lease
    BY LeaseType DEF TickRestart, Shape, TypeOK
<1>3. KernelTyped' /\ lease' \in [Token -> Lease \cup {NoLease}]
    <2>1. CASE Load(lease[t].c) /\ lease' = [lease EXCEPT ![t].health = "ok", ![t].i = made + 1]
        <3>1. KernelTyped' /\ made + 1 \in 1..MaxInst
            BY <1>2, <2>1, LoadType DEF Lease
        <3>2. [lease[t] EXCEPT !.health = "ok", !.i = made + 1] \in Lease
            BY <1>2, <3>1 DEF Lease
        <3> QED
            BY <2>1, <3>1, <3>2 DEF Shape, TypeOK, LeasesTyped
    <2>2. CASE lease' = [lease EXCEPT ![t].health = "ok"] /\ UNCHANGED kernelVars
        <3>1. [lease[t] EXCEPT !.health = "ok"] \in Lease
            BY <1>2 DEF Lease
        <3>2. lease' \in [Token -> Lease \cup {NoLease}]
            BY <2>2, <3>1 DEF Shape, TypeOK, LeasesTyped
        <3> QED
            BY <2>2, <3>2, KernelStutters DEF Shape, TypeOK
    <2> QED
        BY <2>1, <2>2 DEF TickRestart
<1> QED
    BY <1>1, <1>3, LeaseStep, SetsTyped DEF storeVars

LEMMA ChildDiesStep ==
    ASSUME Shape, NEW c \in Component, ChildDies(c)
    PROVE  Shape' /\ UNCHANGED ledgerVars
<1>1. UNCHANGED <<ledgerVars, storeVars, stateVars, inst, active, made>>
    BY DEF ChildDies, storeVars, execVars, workVars, ledgerVars
<1>2. KernelTyped' /\ lease' \in [Token -> Lease \cup {NoLease}]
    BY <1>1 DEF ChildDies, Shape, TypeOK, KernelTyped, LeasesTyped, stateVars
<1> QED
    BY <1>1, <1>2, LeaseStep, SetsTyped DEF storeVars, stateVars

----------------------------------------------------------------------------
(* The steps of a worker.                                                   *)

\* A step of a worker that leaves the leases and the kernel alone.
LEMMA WorkerTyped ==
    ASSUME Shape, UNCHANGED <<fence, eff, barred, epoch, stateVars, kernelVars>>,
           led' \in [Key -> {"absent", "admitted", "completed", "unknown"}],
           req' \in [Key -> Request \cup {<<"none">>}],
           res' \in [Key -> {"none", "ok", "err", "unknown"}],
           ExecTyped', WorkTyped', JobTyped', ResultStored'
    PROVE  Shape'
<1>1. StoreTyped'
    BY DEF Shape, TypeOK, StoreTyped
<1>2. LeasesTyped'
    BY Zenon DEF Shape, TypeOK, LeasesTyped, stateVars
<1>3. KernelTyped'
    BY KernelStutters DEF Shape, TypeOK
<1> QED
    BY <1>1, <1>2, <1>3 DEF Shape, TypeOK

LEMMA StoreStutters ==
    ASSUME Shape, UNCHANGED <<led, req, res>>
    PROVE  /\ led' \in [Key -> {"absent", "admitted", "completed", "unknown"}]
           /\ req' \in [Key -> Request \cup {<<"none">>}]
           /\ res' \in [Key -> {"none", "ok", "err", "unknown"}]
           /\ ResultStored'
    BY DEF Shape, TypeOK, StoreTyped, ResultStored

LEMMA ExecStutters ==
    ASSUME Shape, UNCHANGED execVars
    PROVE  ExecTyped'
    BY DEF Shape, TypeOK, ExecTyped, execVars

LEMMA InvokeValidateStep ==
    ASSUME LedgerInv, NEW w \in Worker, NEW p \in Principal, NEW o \in Op, NEW t \in Token,
           InvokeValidate(w, p, o, t)
    PROVE  LedgerInv'
<1> USE DEF LedgerInv
<1>1. UNCHANGED <<led, req, res, fence, eff, barred, epoch, stateVars, kernelVars, execVars, out>>
    BY DEF InvokeValidate, storeVars
<1>2. lease[t] \in Lease
    BY LeaseType DEF InvokeValidate, Valid, Shape, TypeOK
<1>3. [p |-> p, o |-> o, c |-> lease[t].c, f |-> lease[t].f, i |-> lease[t].i] \in Job
    BY <1>2 DEF Lease, Job
<1>4. WorkTyped' /\ JobTyped'
    BY <1>1, <1>3 DEF InvokeValidate, Goto, Shape, TypeOK, WorkTyped, JobTyped, PC
<1>5. Shape'
    BY <1>1, <1>4, StoreStutters, ExecStutters, WorkerTyped
<1>6. Ledger'
    BY <1>1 DEF InvokeValidate, Goto, Shape, TypeOK, WorkTyped, Ledger, FreshIsUntouched,
        OwnerHoldsRow, OneOwner, NotYetStarted, KnownIsSettled, StartedAtMostOnce,
        AnswersAreDurable, CompletedIsSettled, Id, Past, execVars
<1> QED
    BY <1>5, <1>6

\* A worker that is done owns no row.
LEMMA DoneTyped ==
    ASSUME Shape, NEW w \in Worker, Done(w)
    PROVE  /\ WorkTyped' /\ JobTyped'
           /\ pc'[w] = "idle"
           /\ \A v \in Worker : v # w => pc'[v] = pc[v] /\ job'[v] = job[v] /\ out'[v] = out[v]
    BY DEF Done, Goto, Shape, TypeOK, WorkTyped, JobTyped, PC, Outcome

\* A worker goes on with its request.
LEMMA GotoTyped ==
    ASSUME Shape, NEW w \in Worker, pc[w] # "idle", NEW q \in Past, Goto(w, q), UNCHANGED job,
           NEW r \in Outcome, out' = [out EXCEPT ![w] = r]
    PROVE  /\ WorkTyped' /\ JobTyped'
           /\ pc'[w] = q /\ out'[w] = r
           /\ \A v \in Worker : Id(v)' = Id(v) /\ (v # w => pc'[v] = pc[v] /\ out'[v] = out[v])
    BY DEF Goto, Shape, TypeOK, WorkTyped, JobTyped, PC, Past, Id

\* The same without an outcome.
LEMMA GoesOn ==
    ASSUME Shape, NEW w \in Worker, pc[w] # "idle", NEW q \in Past, Goto(w, q),
           UNCHANGED <<job, out>>
    PROVE  /\ WorkTyped' /\ JobTyped'
           /\ pc'[w] = q
           /\ \A v \in Worker :
                Id(v)' = Id(v) /\ out'[v] = out[v] /\ (v # w => pc'[v] = pc[v])
    BY DEF Goto, Shape, TypeOK, WorkTyped, JobTyped, PC, Past, Id

\* What a worker that leaves the ledger alone has to see to.
LEMMA LedgerKept ==
    ASSUME LedgerInv, NEW w \in Worker, UNCHANGED <<led, res, told>>, Done(w),
           UNCHANGED <<exec, starts>>
    PROVE  Ledger'
<1>1. \A v \in Worker : pc'[v] # "idle" =>
        v # w /\ pc'[v] = pc[v] /\ out'[v] = out[v] /\ Id(v)' = Id(v)
    BY DoneTyped DEF LedgerInv, Id
<1> QED
    BY <1>1 DEF LedgerInv, Ledger, FreshIsUntouched, OwnerHoldsRow, OneOwner, NotYetStarted,
        KnownIsSettled, StartedAtMostOnce, AnswersAreDurable, CompletedIsSettled, Past

LEMMA InvokeAdmitStep ==
    ASSUME LedgerInv, NEW w \in Worker, InvokeAdmit(w)
    PROVE  LedgerInv'
<1> USE DEF LedgerInv
<1> DEFINE k == Id(w)
<1>1. UNCHANGED <<fence, eff, barred, epoch, stateVars, kernelVars, exec, starts>>
    BY DEF InvokeAdmit
<1>2. k \in Key /\ job[w].c \in Component /\ pc[w] = "admit"
    BY IdType DEF InvokeAdmit
<1>3. CASE /\ led[k] = "absent"
           /\ led' = [led EXCEPT ![k] = "admitted"]
           /\ req' = [req EXCEPT ![k] = <<"call", job[w].c>>]
           /\ Goto(w, "current")
           /\ UNCHANGED <<res, job, out, told>>
    <2>1. /\ WorkTyped' /\ JobTyped'
          /\ pc'[w] = "current"
          /\ \A v \in Worker :
                Id(v)' = Id(v) /\ out'[v] = out[v] /\ (v # w => pc'[v] = pc[v])
        BY <1>2, <1>3, GoesOn DEF Past
    <2>2. <<"call", job[w].c>> \in Request
        BY <1>2 DEF Request
    <2>3. /\ led' \in [Key -> {"absent", "admitted", "completed", "unknown"}]
          /\ req' \in [Key -> Request \cup {<<"none">>}]
          /\ res' \in [Key -> {"none", "ok", "err", "unknown"}]
        BY <1>3, <2>2 DEF Shape, TypeOK, StoreTyped
    <2>4. ResultStored' /\ ExecTyped'
        BY <1>1, <1>3 DEF Shape, TypeOK, StoreTyped, ExecTyped, ResultStored
    <2>5. Shape'
        BY <1>1, <2>1, <2>3, <2>4, WorkerTyped
    <2>6. \A j \in Key : led'[j] = IF j = k THEN "admitted" ELSE led[j]
        BY <1>3 DEF Shape, TypeOK, StoreTyped
    <2>7. \A v \in Worker : pc[v] \in Past => Id(v) \in Key /\ Id(v) # k
        BY <1>3, IdType DEF Ledger, OwnerHoldsRow, Past
    <2>8. FreshIsUntouched' /\ StartedAtMostOnce' /\ CompletedIsSettled'
        BY <1>1, <2>6 DEF Ledger, FreshIsUntouched, StartedAtMostOnce, CompletedIsSettled
    <2>9. AnswersAreDurable'
        BY <1>3, <2>6 DEF Ledger, AnswersAreDurable
    <2>10. OwnerHoldsRow' /\ OneOwner'
        BY <1>2, <2>1, <2>6, <2>7 DEF Ledger, OwnerHoldsRow, OneOwner
    <2>11. NotYetStarted' /\ KnownIsSettled'
        BY <1>1, <1>2, <1>3, <2>1, <2>7 DEF Ledger, NotYetStarted, KnownIsSettled,
            FreshIsUntouched, Past
    <2> QED
        BY <2>5, <2>8, <2>9, <2>10, <2>11 DEF Ledger
<1>4. CASE Done(w) /\ LedgerUnchanged /\ UNCHANGED told
    <2>1. Shape'
        BY <1>1, <1>4, DoneTyped, StoreStutters, ExecStutters, WorkerTyped
            DEF LedgerUnchanged, execVars
    <2> QED
        BY <1>1, <1>4, <2>1, LedgerKept DEF LedgerUnchanged
<1>5. CASE /\ Done(w) /\ LedgerUnchanged
           /\ \/ led[k] = "completed" /\ Tell(k, res[k])
              \/ Tell(k, "unknown")
    <2>1. PICK r \in {"ok", "err", "unknown"} :
            Tell(k, r) /\ (r # "unknown" => led[k] = "completed" /\ res[k] = r)
        BY <1>2, <1>5 DEF Shape, ResultStored
    <2>2. ExecTyped'
        BY <1>1, <1>2, <2>1 DEF Tell, Shape, TypeOK, ExecTyped
    <2>3. Shape'
        BY <1>1, <1>5, <2>2, DoneTyped, StoreStutters, WorkerTyped DEF LedgerUnchanged
    <2>4. \A v \in Worker : pc'[v] # "idle" =>
            v # w /\ pc'[v] = pc[v] /\ out'[v] = out[v] /\ Id(v)' = Id(v)
        BY <1>5, DoneTyped DEF Id
    <2>5. AnswersAreDurable'
        BY <1>2, <1>5, <2>1 DEF Tell, LedgerUnchanged, Ledger, AnswersAreDurable, Shape,
            TypeOK, ExecTyped
    <2>6. Ledger'
        BY <1>1, <1>5, <2>4, <2>5 DEF LedgerUnchanged, Ledger, FreshIsUntouched, OwnerHoldsRow,
            OneOwner, NotYetStarted, KnownIsSettled, StartedAtMostOnce, CompletedIsSettled, Past
    <2> QED
        BY <2>3, <2>6
<1> QED
    BY <1>3, <1>4, <1>5 DEF InvokeAdmit, Admit

LEMMA InvokeCurrentStep ==
    ASSUME LedgerInv, NEW w \in Worker, InvokeCurrent(w)
    PROVE  LedgerInv'
<1> USE DEF LedgerInv
<1>1. UNCHANGED <<led, req, res, fence, eff, barred, epoch, stateVars, kernelVars, execVars>>
    BY DEF InvokeCurrent, storeVars
<1>2. CASE Goto(w, "run") /\ UNCHANGED <<job, out>>
    <2>1. /\ WorkTyped' /\ JobTyped'
          /\ pc'[w] = "run"
          /\ \A v \in Worker :
                Id(v)' = Id(v) /\ out'[v] = out[v] /\ (v # w => pc'[v] = pc[v])
        BY <1>2, GoesOn DEF InvokeCurrent, Past
    <2>2. Shape'
        BY <1>1, <2>1, StoreStutters, ExecStutters, WorkerTyped
    <2>3. Ledger'
        BY <1>1, <2>1 DEF InvokeCurrent, Ledger, FreshIsUntouched, OwnerHoldsRow, OneOwner,
            NotYetStarted, KnownIsSettled, StartedAtMostOnce, AnswersAreDurable,
            CompletedIsSettled, Past, execVars
    <2> QED
        BY <2>2, <2>3
<1>3. CASE Done(w)
    BY <1>1, <1>3, DoneTyped, StoreStutters, ExecStutters, WorkerTyped, LedgerKept DEF execVars
<1> QED
    BY <1>2, <1>3 DEF InvokeCurrent

LEMMA InvokeRunStep ==
    ASSUME LedgerInv, NEW w \in Worker, InvokeRun(w)
    PROVE  LedgerInv'
<1> USE DEF LedgerInv
<1> DEFINE k == Id(w)
<1>1. UNCHANGED <<led, req, res, fence, eff, barred, epoch, stateVars, kernelVars, told>>
    BY DEF InvokeRun, Dispatch, storeVars
<1>2. k \in Key /\ pc[w] = "run"
    BY IdType DEF InvokeRun
<1>3. led[k] = "admitted" /\ starts[k] = 0 /\ exec[k] = "no"
    BY <1>2 DEF Ledger, OwnerHoldsRow, NotYetStarted, Past
<1>4. CASE /\ exec' = [exec EXCEPT ![k] = "running"]
           /\ starts' = [starts EXCEPT ![k] = Saturate(@)]
           /\ Goto(w, "wait")
           /\ UNCHANGED <<job, out>>
    <2>1. /\ WorkTyped' /\ JobTyped'
          /\ pc'[w] = "wait"
          /\ \A v \in Worker :
                Id(v)' = Id(v) /\ out'[v] = out[v] /\ (v # w => pc'[v] = pc[v])
        BY <1>2, <1>4, GoesOn DEF Past
    <2>2. starts' = [starts EXCEPT ![k] = 1]
        BY <1>2, <1>3, <1>4 DEF Saturate, Shape, TypeOK, ExecTyped
    <2> HIDE DEF k
    <2>3. /\ ExecTyped'
          /\ \A j \in Key : /\ exec'[j] = IF j = k THEN "running" ELSE exec[j]
                            /\ starts'[j] = IF j = k THEN 1 ELSE starts[j]
        BY <1>1, <1>2, <1>4, <2>2 DEF Shape, TypeOK, ExecTyped
    <2>4. Shape'
        BY <1>1, <2>1, <2>3, StoreStutters, WorkerTyped
    <2>5. \A v \in Worker : v # w /\ pc[v] \in Past => Id(v) \in Key /\ Id(v) # k
        BY <1>2, IdType DEF Ledger, OneOwner, Past, k
    <2>6. FreshIsUntouched' /\ StartedAtMostOnce' /\ CompletedIsSettled'
        BY <1>1, <1>3, <2>3 DEF Ledger, FreshIsUntouched, StartedAtMostOnce, CompletedIsSettled
    <2>7. OwnerHoldsRow' /\ OneOwner' /\ AnswersAreDurable'
        BY <1>1, <1>2, <2>1 DEF Ledger, OwnerHoldsRow, OneOwner, AnswersAreDurable, Past
    <2>8. NotYetStarted' /\ KnownIsSettled'
        BY <2>1, <2>3, <2>5 DEF Ledger, NotYetStarted, KnownIsSettled, Past
    <2> QED
        BY <2>4, <2>6, <2>7, <2>8 DEF Ledger
<1>5. CASE /\ Goto(w, "recheck")
           /\ out' = [out EXCEPT ![w] = "err"]
           /\ UNCHANGED <<exec, starts, job>>
    <2>1. /\ WorkTyped' /\ JobTyped'
          /\ pc'[w] = "recheck"
          /\ \A v \in Worker : Id(v)' = Id(v) /\ (v # w => pc'[v] = pc[v] /\ out'[v] = out[v])
        BY <1>2, <1>5, GotoTyped DEF Past, Outcome
    <2>2. Shape'
        BY <1>1, <1>5, <2>1, StoreStutters, ExecStutters, WorkerTyped DEF execVars
    <2>3. Ledger'
        BY <1>1, <1>2, <1>3, <1>5, <2>1 DEF Ledger, FreshIsUntouched, OwnerHoldsRow, OneOwner,
            NotYetStarted, KnownIsSettled, StartedAtMostOnce, AnswersAreDurable,
            CompletedIsSettled, Past
    <2> QED
        BY <2>2, <2>3
<1> QED
    BY <1>4, <1>5 DEF InvokeRun, Dispatch

LEMMA ExecOverStep ==
    ASSUME LedgerInv, NEW k \in Key, ExecOver(k)
    PROVE  LedgerInv'
<1> USE DEF LedgerInv
<1>1. UNCHANGED <<led, req, res, fence, eff, barred, epoch, stateVars, kernelVars, starts, told,
                  pc, job, out>>
    BY DEF ExecOver, storeVars, workVars
<1>2. exec[k] = "running" /\ \A j \in Key : exec'[j] = IF j = k THEN "over" ELSE exec[j]
    BY DEF ExecOver, Shape, TypeOK, ExecTyped
<1>3. ExecTyped' /\ WorkTyped' /\ JobTyped'
    BY <1>1 DEF ExecOver, Shape, TypeOK, ExecTyped, WorkTyped, JobTyped
<1>4. Shape'
    BY <1>1, <1>3, StoreStutters, WorkerTyped
<1>5. \A v \in Worker : Id(v)' = Id(v) /\ (pc[v] \in Past => Id(v) \in Key)
    BY <1>1, IdType DEF Id, Past
<1>6. Ledger'
    BY <1>1, <1>2, <1>5 DEF Ledger, FreshIsUntouched, OwnerHoldsRow, OneOwner, NotYetStarted,
        KnownIsSettled, StartedAtMostOnce, AnswersAreDurable, CompletedIsSettled, Past
<1> QED
    BY <1>4, <1>6

LEMMA InvokeWaitStep ==
    ASSUME LedgerInv, NEW w \in Worker, InvokeWait(w)
    PROVE  LedgerInv'
<1> USE DEF LedgerInv
<1>1. UNCHANGED <<led, req, res, fence, eff, barred, epoch, stateVars, kernelVars, execVars>>
    BY DEF InvokeWait, storeVars
<1>2. PICK r \in Outcome \ {"none"} :
        /\ exec[Id(w)] = "over" \/ r \in {"unknown", "timeout"}
        /\ out' = [out EXCEPT ![w] = r]
    BY DEF InvokeWait, Await
<1>3. pc[w] = "wait" /\ Goto(w, "recheck") /\ UNCHANGED job
    BY DEF InvokeWait, Await
<1>4. /\ WorkTyped' /\ JobTyped'
      /\ pc'[w] = "recheck" /\ out'[w] = r
      /\ \A v \in Worker : Id(v)' = Id(v) /\ (v # w => pc'[v] = pc[v] /\ out'[v] = out[v])
    BY <1>2, <1>3, GotoTyped DEF Past
<1>5. Shape'
    BY <1>1, <1>4, StoreStutters, ExecStutters, WorkerTyped
<1>6. Ledger'
    BY <1>1, <1>2, <1>3, <1>4 DEF Ledger, FreshIsUntouched, OwnerHoldsRow, OneOwner,
        NotYetStarted, KnownIsSettled, StartedAtMostOnce, AnswersAreDurable,
        CompletedIsSettled, Past, execVars
<1> QED
    BY <1>5, <1>6

LEMMA InvokeRecheckStep ==
    ASSUME LedgerInv, NEW w \in Worker, InvokeRecheck(w)
    PROVE  LedgerInv'
<1> USE DEF LedgerInv
<1>1. UNCHANGED <<led, req, res, fence, eff, barred, epoch, stateVars, kernelVars, execVars>>
    BY DEF InvokeRecheck, storeVars
<1>2. PICK r \in Outcome : r \in {out[w], "unknown"} /\ out' = [out EXCEPT ![w] = r]
    BY DEF InvokeRecheck, Shape, TypeOK, WorkTyped, Outcome
<1>3. pc[w] = "recheck" /\ Goto(w, "finish") /\ UNCHANGED job
    BY DEF InvokeRecheck
<1>4. /\ WorkTyped' /\ JobTyped'
      /\ pc'[w] = "finish" /\ out'[w] = r
      /\ \A v \in Worker : Id(v)' = Id(v) /\ (v # w => pc'[v] = pc[v] /\ out'[v] = out[v])
    BY <1>2, <1>3, GotoTyped DEF Past
<1>5. Shape'
    BY <1>1, <1>4, StoreStutters, ExecStutters, WorkerTyped
<1>6. Ledger'
    BY <1>1, <1>2, <1>3, <1>4 DEF Ledger, FreshIsUntouched, OwnerHoldsRow, OneOwner,
        NotYetStarted, KnownIsSettled, StartedAtMostOnce, AnswersAreDurable,
        CompletedIsSettled, Past, execVars
<1> QED
    BY <1>5, <1>6

LEMMA InvokeFinishStep ==
    ASSUME LedgerInv, NEW w \in Worker, InvokeFinish(w)
    PROVE  LedgerInv'
<1> USE DEF LedgerInv
<1> DEFINE k == Id(w)
           r == IF out[w] \in {"ok", "err"} THEN out[w] ELSE "unknown"
<1>1. UNCHANGED <<req, fence, eff, barred, epoch, stateVars, kernelVars, exec, starts>>
    BY DEF InvokeFinish, Finish
<1>2. k \in Key /\ pc[w] = "finish" /\ led[k] = "admitted" /\ Done(w)
    BY IdType DEF InvokeFinish, Finish
<1>3. /\ r \in {"ok", "err", "unknown"}
      /\ \A j \in Key :
            /\ led'[j] = IF j = k THEN IF r = "unknown" THEN "unknown" ELSE "completed" ELSE led[j]
            /\ res'[j] = IF j = k THEN r ELSE res[j]
            /\ told'[j] = IF j = k THEN told[j] \cup {r} ELSE told[j]
    BY DEF InvokeFinish, Finish, Tell, Shape, TypeOK, StoreTyped, ExecTyped
<1>4. /\ led' \in [Key -> {"absent", "admitted", "completed", "unknown"}]
      /\ res' \in [Key -> {"none", "ok", "err", "unknown"}]
      /\ req' \in [Key -> Request \cup {<<"none">>}]
    BY <1>1 DEF InvokeFinish, Finish, Shape, TypeOK, StoreTyped
<1>5. ExecTyped'
    BY <1>1 DEF InvokeFinish, Tell, Shape, TypeOK, ExecTyped
<1>6. ResultStored'
    BY <1>3 DEF Shape, ResultStored
<1>7. Shape'
    BY <1>1, <1>2, <1>4, <1>5, <1>6, DoneTyped, WorkerTyped
<1> HIDE DEF k
<1>8. \A v \in Worker : pc'[v] # "idle" =>
        v # w /\ pc'[v] = pc[v] /\ out'[v] = out[v] /\ Id(v)' = Id(v)
    BY <1>2, DoneTyped DEF Id
<1>9. \A v \in Worker : v # w /\ pc[v] \in Past => Id(v) \in Key /\ Id(v) # k
    BY <1>2, IdType DEF Ledger, OneOwner, Past, k
<1>10. FreshIsUntouched' /\ StartedAtMostOnce'
    BY <1>1, <1>3 DEF Ledger, FreshIsUntouched, StartedAtMostOnce
<1>11. AnswersAreDurable'
    <2>1. told[k] \cap {"ok", "err"} = {}
        BY <1>2 DEF Ledger, AnswersAreDurable
    <2> HIDE DEF r
    <2>2. SUFFICES ASSUME NEW j \in Key, NEW x \in told'[j] \cap {"ok", "err"}
                   PROVE  led'[j] = "completed" /\ res'[j] = x
        BY DEF AnswersAreDurable
    <2>3. CASE j = k
        BY <1>3, <2>1, <2>2, <2>3
    <2>4. CASE j # k
        BY <1>3, <2>2, <2>4 DEF Ledger, AnswersAreDurable
    <2> QED
        BY <2>3, <2>4
<1>12. CompletedIsSettled'
    <2>1. r # "unknown" => exec[k] # "running"
        BY <1>2 DEF Ledger, KnownIsSettled, k
    <2> HIDE DEF r
    <2> QED
        BY <1>1, <1>3, <2>1 DEF Ledger, CompletedIsSettled
<1>13. OwnerHoldsRow' /\ OneOwner' /\ NotYetStarted' /\ KnownIsSettled'
    <2> HIDE DEF r
    <2>1. \A v \in Worker : pc'[v] \in Past =>
            v # w /\ pc[v] \in Past /\ Id(v)' \in Key /\ led'[Id(v)'] = led[Id(v)]
        BY <1>3, <1>8, <1>9 DEF Past
    <2> QED
        BY <1>1, <1>8, <2>1 DEF Ledger, OwnerHoldsRow, OneOwner, NotYetStarted, KnownIsSettled,
            Past
<1> QED
    BY <1>7, <1>10, <1>11, <1>12, <1>13 DEF Ledger

LEMMA InvokeFinishFailsStep ==
    ASSUME LedgerInv, NEW w \in Worker, InvokeFinishFails(w)
    PROVE  LedgerInv'
<1>1. Done(w) /\ UNCHANGED <<led, req, res, fence, eff, barred, epoch, stateVars, kernelVars,
                             execVars, exec, starts, told>>
    BY DEF InvokeFinishFails, storeVars, execVars
<1> QED
    BY <1>1, DoneTyped, StoreStutters, ExecStutters, WorkerTyped, LedgerKept DEF LedgerInv

----------------------------------------------------------------------------
(* Effects and restarts.                                                    *)

LEMMA CommitEffectStep ==
    ASSUME LedgerInv, NEW p \in Principal, NEW o \in Op, NEW t \in Token, CommitEffect(p, o, t)
    PROVE  LedgerInv'
<1> USE DEF LedgerInv
<1> DEFINE k == <<p, o>>
           c == lease[t].c
<1>1. UNCHANGED <<fence, barred, epoch, stateVars, kernelVars, exec, pc, job, out>>
    BY DEF CommitEffect, workVars
<1>2. k \in Key /\ c \in Component /\ lease[t].f \in 0..MaxFence
    BY LeaseType, BoundAssumption DEF CommitEffect, Valid, Key, Shape, TypeOK, Lease
<1>3. LeasesTyped'
    BY <1>1, Zenon DEF Shape, TypeOK, LeasesTyped, stateVars
<1>4. KernelTyped' /\ WorkTyped' /\ JobTyped'
    BY <1>1, KernelStutters DEF Shape, TypeOK, WorkTyped, JobTyped
<1>5. \A v \in Worker : Id(v)' = Id(v)
    BY <1>1 DEF Id
<1>6. CASE /\ led[k] = "absent"
           /\ led' = [led EXCEPT ![k] = "completed"]
           /\ req' = [req EXCEPT ![k] = <<"effect", c>>]
           /\ res' = [res EXCEPT ![k] = "ok"]
           /\ eff' = [eff EXCEPT ![c] = lease[t].f]
           /\ starts' = [starts EXCEPT ![k] = Saturate(@)]
           /\ Tell(k, "ok")
    <2>1. starts[k] = 0 /\ exec[k] = "no"
        BY <1>2, <1>6 DEF Ledger, FreshIsUntouched
    <2>11. starts' = [starts EXCEPT ![k] = 1]
        BY <1>2, <1>6, <2>1 DEF Saturate, Shape, TypeOK, ExecTyped
    <2> HIDE DEF k
    <2>2. \A j \in Key : /\ led'[j] = IF j = k THEN "completed" ELSE led[j]
                         /\ res'[j] = IF j = k THEN "ok" ELSE res[j]
                         /\ starts'[j] = IF j = k THEN 1 ELSE starts[j]
                         /\ told'[j] = IF j = k THEN told[j] \cup {"ok"} ELSE told[j]
        BY <1>2, <1>6, <2>11 DEF Tell, Shape, TypeOK, StoreTyped, ExecTyped
    <2>3. <<"effect", c>> \in Request
        BY <1>2 DEF Request
    <2>4. StoreTyped'
        BY <1>1, <1>2, <1>6, <2>3 DEF Shape, TypeOK, StoreTyped
    <2>5. ExecTyped'
        BY <1>1, <1>2, <1>6, <2>11 DEF Tell, Shape, TypeOK, ExecTyped
    <2>6. ResultStored'
        BY <2>2 DEF Shape, ResultStored
    <2>7. \A v \in Worker : pc[v] \in Past => Id(v) \in Key /\ Id(v) # k
        BY <1>6, IdType DEF Ledger, OwnerHoldsRow, Past
    <2>8. FreshIsUntouched' /\ StartedAtMostOnce' /\ CompletedIsSettled'
        <3>1. FreshIsUntouched'
            BY <1>1, <2>2 DEF Ledger, FreshIsUntouched
        <3>2. StartedAtMostOnce'
            BY <2>2, <2>5 DEF Ledger, StartedAtMostOnce, Shape, TypeOK, ExecTyped
        <3>3. CompletedIsSettled'
            <4>1. \A j \in Key : exec'[j] = exec[j]
                BY <1>1
            <4>2. \A j \in Key : led'[j] = "completed" => j = k \/ led[j] = "completed"
                BY <2>2
            <4> QED
                BY <2>1, <4>1, <4>2 DEF Ledger, CompletedIsSettled
        <3> QED
            BY <3>1, <3>2, <3>3
    <2>9. AnswersAreDurable'
        <3>1. told[k] \cap {"ok", "err"} = {}
            BY <1>2, <1>6 DEF Ledger, AnswersAreDurable
        <3>2. SUFFICES ASSUME NEW j \in Key, NEW x \in told'[j] \cap {"ok", "err"}
                       PROVE  led'[j] = "completed" /\ res'[j] = x
            BY DEF AnswersAreDurable
        <3>3. CASE j = k
            BY <2>2, <3>1, <3>2, <3>3
        <3>4. CASE j # k
            BY <2>2, <3>2, <3>4 DEF Ledger, AnswersAreDurable
        <3> QED
            BY <3>3, <3>4
    <2>10. OwnerHoldsRow' /\ OneOwner' /\ NotYetStarted' /\ KnownIsSettled'
        <3>1. \A v \in Worker : pc'[v] \in Past =>
                /\ Id(v)' = Id(v)
                /\ led'[Id(v)] = led[Id(v)] /\ starts'[Id(v)] = starts[Id(v)]
            BY <1>1, <1>5, <2>2, <2>7
        <3>2. OwnerHoldsRow' /\ OneOwner'
            BY <1>1, <1>5, <3>1 DEF Ledger, OwnerHoldsRow, OneOwner
        <3>3. NotYetStarted' /\ KnownIsSettled'
            BY <1>1, <1>5, <3>1 DEF Ledger, NotYetStarted, KnownIsSettled, Past
        <3> QED
            BY <3>2, <3>3
    <2> QED
        BY <1>3, <1>4, <2>4, <2>5, <2>6, <2>8, <2>9, <2>10 DEF Shape, TypeOK, Ledger
<1>7. CASE /\ led[k] = "completed"
           /\ Tell(k, res[k])
           /\ LedgerUnchanged
           /\ UNCHANGED <<eff, starts>>
    <2>1. res[k] \in {"ok", "err"}
        BY <1>2, <1>7 DEF Shape, ResultStored
    <2>2. StoreTyped' /\ ResultStored'
        BY <1>1, <1>7 DEF LedgerUnchanged, Shape, TypeOK, StoreTyped, ResultStored
    <2>3. ExecTyped'
        BY <1>1, <1>7, <2>1 DEF Tell, Shape, TypeOK, ExecTyped
    <2>4. AnswersAreDurable'
        BY <1>7 DEF Tell, LedgerUnchanged, Ledger, AnswersAreDurable, Shape, TypeOK, ExecTyped
    <2>5. Ledger'
        BY <1>1, <1>5, <1>7, <2>4 DEF LedgerUnchanged, Ledger, FreshIsUntouched, OwnerHoldsRow,
            OneOwner, NotYetStarted, KnownIsSettled, StartedAtMostOnce, CompletedIsSettled
    <2> QED
        BY <1>3, <1>4, <2>2, <2>3, <2>5 DEF Shape, TypeOK
<1> QED
    BY <1>6, <1>7 DEF CommitEffect

\* A boot keeps the types.
LEMMA RestartShape ==
    ASSUME Shape, Restart
    PROVE  /\ Shape'
           /\ \A k \in Key : /\ led'[k] = IF led[k] = "admitted" THEN "unknown" ELSE led[k]
                             /\ exec'[k] \in {exec[k], "over"}
                             /\ (exec[k] # "running" => exec'[k] = exec[k])
<1>1. UNCHANGED <<req, res, fence, eff, barred, tokens, newer, made, starts, told>>
    BY DEF Restart
<1>2. \A k \in Key : /\ led'[k] = IF led[k] = "admitted" THEN "unknown" ELSE led[k]
                     /\ exec'[k] \in {exec[k], "over"}
                     /\ (exec[k] # "running" => exec'[k] = exec[k])
    BY DEF Restart, InProcess
<1>4. StoreTyped'
    BY <1>1 DEF Restart, Shape, TypeOK, StoreTyped
<1>5. lease' \in [Token -> Lease \cup {NoLease}] /\ newer' \in [Token -> 0..MaxToken]
    BY <1>1 DEF Restart, Shape, TypeOK, LeasesTyped
<1>6. tokens' \in 0..MaxToken /\ revoked' \subseteq Principal
    BY <1>1 DEF Restart, Shape, TypeOK, LeasesTyped, StoreTyped
<1>7. stopped' \in BOOLEAN
    BY Zenon DEF Restart
<1>8. KernelTyped'
    BY <1>1, BoundAssumption DEF Restart, Shape, TypeOK, KernelTyped
<1>9. ExecTyped'
    BY <1>1 DEF Restart, Shape, TypeOK, ExecTyped
<1>10. WorkTyped' /\ JobTyped'
    BY DEF Restart, WorkTyped, JobTyped, PC, Outcome
<1>11. ResultStored'
    BY <1>1, <1>2 DEF Shape, ResultStored
<1> QED
    BY <1>2, <1>4, <1>5, <1>6, <1>7, <1>8, <1>9, <1>10, <1>11 DEF Shape, TypeOK, LeasesTyped

\* A boot settles the rows that were admitted, and has no workers yet.
LEMMA RestartStep ==
    ASSUME LedgerInv, Restart
    PROVE  LedgerInv'
<1>1. UNCHANGED <<res, starts, told>> /\ \A w \in Worker : pc'[w] = "idle"
    BY DEF Restart
<1>2. /\ Shape'
      /\ \A k \in Key : /\ led'[k] = IF led[k] = "admitted" THEN "unknown" ELSE led[k]
                        /\ exec'[k] \in {exec[k], "over"}
                        /\ (exec[k] # "running" => exec'[k] = exec[k])
    BY RestartShape DEF LedgerInv
<1>3. Ledger'
    BY <1>1, <1>2 DEF LedgerInv, Ledger, FreshIsUntouched, OwnerHoldsRow, OneOwner, NotYetStarted,
        KnownIsSettled, StartedAtMostOnce, AnswersAreDurable, CompletedIsSettled, Past
<1> QED
    BY <1>2, <1>3 DEF LedgerInv

----------------------------------------------------------------------------
(* The theorems.                                                            *)

LEMMA QuietStep ==
    ASSUME LedgerInv, Shape', UNCHANGED ledgerVars
    PROVE  LedgerInv'
    BY LedgerStutters DEF LedgerInv

LEMMA ControlStep ==
    ASSUME LedgerInv, Control
    PROVE  LedgerInv'
<1>1. CASE Shutdown
    BY <1>1, ShutdownStep, QuietStep DEF LedgerInv
<1>2. CASE \E p \in Principal :
              \/ Revoke(p) \/ Grant(p)
              \/ \E c \in Component : Activate(p, c) \/ ActivateFails(p, c)
              \/ \E t \in Token :
                  \/ Renew(p, t) \/ Release(p, t)
                  \/ \E s \in 1..MaxSeq : RenewSeq(p, t, s)
                  \/ \E o \in Op : CommitEffect(p, o, t)
    <2>1. PICK p \in Principal :
              \/ Revoke(p) \/ Grant(p)
              \/ \E c \in Component : Activate(p, c) \/ ActivateFails(p, c)
              \/ \E t \in Token :
                  \/ Renew(p, t) \/ Release(p, t)
                  \/ \E s \in 1..MaxSeq : RenewSeq(p, t, s)
                  \/ \E o \in Op : CommitEffect(p, o, t)
        BY <1>2
    <2>2. CASE Revoke(p) \/ Grant(p)
        BY <2>2, RevokeStep, GrantStep, QuietStep DEF LedgerInv
    <2>3. CASE \E c \in Component : Activate(p, c) \/ ActivateFails(p, c)
        BY <2>3, ActivateStep, ActivateFailsStep, QuietStep DEF LedgerInv
    <2>4. ASSUME NEW t \in Token, Renew(p, t) \/ \E s \in 1..MaxSeq : RenewSeq(p, t, s)
          PROVE  LedgerInv'
        BY <2>4, RenewStep, QuietStep DEF LedgerInv
    <2>5. ASSUME NEW t \in Token, Release(p, t)
          PROVE  LedgerInv'
        BY <2>5, ReleaseStep, QuietStep DEF LedgerInv
    <2>6. ASSUME NEW t \in Token, NEW o \in Op, CommitEffect(p, o, t)
          PROVE  LedgerInv'
        BY <2>6, CommitEffectStep
    <2> QED
        BY <2>1, <2>2, <2>3, <2>4, <2>5, <2>6
<1> QED
    BY <1>1, <1>2 DEF Control

LEMMA TickStep ==
    ASSUME LedgerInv, Tick
    PROVE  LedgerInv'
    BY TickExpireStep, TickChildGoneStep, TickRestartStep, QuietStep DEF Tick, LedgerInv

LEMMA EnvironmentStep ==
    ASSUME LedgerInv, Environment
    PROVE  LedgerInv'
    BY LeaseLateStep, ChildDiesStep, ExecOverStep, QuietStep DEF Environment, LedgerInv

LEMMA ServeStep ==
    ASSUME LedgerInv, NEW w \in Worker, Receive(w) \/ Serve(w)
    PROVE  LedgerInv'
    BY InvokeValidateStep, InvokeAdmitStep, InvokeCurrentStep, InvokeRunStep, InvokeWaitStep,
       InvokeRecheckStep, InvokeFinishStep, InvokeFinishFailsStep DEF Receive, Serve

LEMMA LedgerStep == LedgerInv /\ [Next]_vars => LedgerInv'
<1> SUFFICES ASSUME LedgerInv, [Next]_vars PROVE LedgerInv'
    OBVIOUS
<1>1. CASE UNCHANGED vars
    <2>1. UNCHANGED <<ledgerVars, req, fence, eff, barred, epoch, stateVars, kernelVars>>
        BY <1>1 DEF vars, ledgerVars, storeVars, execVars, workVars
    <2>2. LeasesTyped'
        BY <2>1, Zenon DEF LedgerInv, Shape, TypeOK, LeasesTyped, stateVars
    <2>3. KernelTyped'
        BY <2>1, KernelStutters DEF LedgerInv, Shape, TypeOK
    <2>4. fence' \in [Component -> 0..MaxFence] /\ barred' \subseteq Principal
        BY <2>1 DEF LedgerInv, Shape, TypeOK, StoreTyped
    <2> QED
        BY <2>1, <2>2, <2>3, <2>4, QuietTyped, QuietStep DEF LedgerInv
<1>2. CASE Next
    BY <1>2, ControlStep, TickStep, EnvironmentStep, RestartStep, ServeStep DEF Next
<1> QED
    BY <1>1, <1>2

\* The inductive invariant holds of every reachable state.
THEOREM LedgerInvariance == Spec => []LedgerInv
<1>1. Init => LedgerInv
    BY InitShape, InitLedger DEF LedgerInv
<1> QED
    BY <1>1, LedgerStep, PTL DEF Spec

\* The service stays within its types, for all constants.
THEOREM ServiceTypeCorrect == Spec => []TypeOK
<1>1. LedgerInv => TypeOK
    BY DEF LedgerInv, Shape
<1> QED
    BY <1>1, LedgerInvariance, PTL

\* No operation is started twice: with any number of workers that are given the same
\* operation id, and any number of restarts, retries and failures of the store
\* (Store::admit is the only gate before Kernel::invoke_for_ref).
THEOREM ExecutionSafety == Spec => []StartedAtMostOnce
<1>1. LedgerInv => StartedAtMostOnce
    BY DEF LedgerInv, Ledger
<1> QED
    BY <1>1, LedgerInvariance, PTL

\* What a client of Service::invoke was told is stored and stays so.
THEOREM AnswerSafety == Spec => []AnswersAreDurable
<1>1. LedgerInv => AnswersAreDurable
    BY DEF LedgerInv, Ledger
<1> QED
    BY <1>1, LedgerInvariance, PTL

\* Service::invoke completes a row only when the provider is done with it.
THEOREM SettledSafety == Spec => []CompletedIsSettled
<1>1. LedgerInv => CompletedIsSettled
    BY DEF LedgerInv, Ledger
<1> QED
    BY <1>1, LedgerInvariance, PTL

----------------------------------------------------------------------------
(* Rows are final.                                                          *)

\* A step keeps every completed or unknown row.
RowsFinal ==
    \A k \in Key : led[k] \in {"completed", "unknown"} => led'[k] = led[k] /\ res'[k] = res[k]

LEMMA RowsFinalStep == LedgerInv /\ [Next]_vars => RowsFinal
<1> SUFFICES ASSUME LedgerInv, [Next]_vars PROVE RowsFinal
    OBVIOUS
<1> USE DEF LedgerInv
<1>1. CASE UNCHANGED <<led, res>>
    BY <1>1 DEF RowsFinal
<1>2. ASSUME NEW k \in Key, led[k] \in {"absent", "admitted"},
             NEW a, led' = [led EXCEPT ![k] = a],
             NEW b, res' = [res EXCEPT ![k] = b] \/ res' = res
      PROVE  RowsFinal
    BY <1>2 DEF RowsFinal, Shape, TypeOK, StoreTyped
<1>3. ASSUME NEW w \in Worker, InvokeAdmit(w)
      PROVE  RowsFinal
    <2>1. Id(w) \in Key
        BY <1>3, IdType DEF InvokeAdmit
    <2> QED
        BY <1>1, <1>2, <1>3, <2>1 DEF InvokeAdmit, Admit, LedgerUnchanged
<1>4. ASSUME NEW w \in Worker, InvokeFinish(w)
      PROVE  RowsFinal
    <2>1. Id(w) \in Key
        BY <1>4, IdType DEF InvokeFinish
    <2> QED
        BY <1>2, <1>4, <2>1 DEF InvokeFinish, Finish
<1>5. ASSUME NEW p \in Principal, NEW o \in Op, NEW t \in Token, CommitEffect(p, o, t)
      PROVE  RowsFinal
    <2>1. <<p, o>> \in Key
        BY DEF Key
    <2> QED
        BY <1>1, <1>2, <1>5, <2>1 DEF CommitEffect, LedgerUnchanged
<1>6. CASE Restart
    BY <1>6 DEF Restart, RowsFinal
<1>7. CASE Control
    <2>1. CASE UNCHANGED ledgerVars
        BY <1>1, <2>1 DEF ledgerVars
    <2> QED
        BY <1>5, <1>7, <2>1, ShutdownStep, RevokeStep, GrantStep, ActivateStep,
            ActivateFailsStep, RenewStep, ReleaseStep DEF Control
<1>8. CASE Tick
    BY <1>1, <1>8, TickExpireStep, TickChildGoneStep, TickRestartStep DEF Tick, ledgerVars
<1>9. CASE Environment
    BY <1>1, <1>9, LeaseLateStep, ChildDiesStep DEF Environment, ExecOver, ledgerVars, storeVars
<1>10. ASSUME NEW w \in Worker, Receive(w) \/ Serve(w)
       PROVE  RowsFinal
    BY <1>1, <1>3, <1>4, <1>10 DEF Receive, Serve, InvokeValidate, InvokeCurrent, InvokeRun,
        InvokeWait, InvokeRecheck, InvokeFinishFails, storeVars
<1>11. CASE UNCHANGED vars
    BY <1>1, <1>11 DEF vars, storeVars
<1> QED
    BY <1>6, <1>7, <1>8, <1>9, <1>10, <1>11 DEF Next

\* No step of the service, a restart included, changes a row that is completed or
\* unknown, so no operation becomes admissible again and no unknown outcome turns into
\* a known one.
THEOREM LedgerIsFinal == Spec => LedgerFinal
<1>1. LedgerInv /\ [Next]_vars => [RowsFinal]_vars
    BY RowsFinalStep
<1> QED
    BY <1>1, LedgerInvariance, PTL DEF Spec, LedgerFinal, RowsFinal

----------------------------------------------------------------------------
(* Leases, fences and revocations.                                          *)

\* The inductive invariant of the leases: beside the two properties, no effect is
\* ahead of the fence of its component.
FenceInv ==
    /\ LeaseHoldsFence
    /\ RevocationHolds
    /\ \A c \in Component : eff[c] <= fence[c]

\* What a lease is about.
Same(l, m) == l.p = m.p /\ l.c = m.c /\ l.f = m.f

\* A step that gives no lease, moves no fence and bars nobody.
LEMMA FenceKept ==
    ASSUME FenceInv, UNCHANGED <<fence, eff>>, barred' \subseteq barred,
           \A p \in barred' : p \in revoked',
           \A u \in Token : Held(u)' => Held(u) /\ Same(lease'[u], lease[u])
    PROVE  FenceInv'
<1>1. LeaseHoldsFence'
    BY DEF FenceInv, LeaseHoldsFence, Same
<1>2. RevocationHolds'
    BY DEF FenceInv, RevocationHolds, Same
<1> QED
    BY <1>1, <1>2 DEF FenceInv

\* Leases that are retired, and what becomes of the others.
LEMMA RetireKeeps ==
    ASSUME NEW T, Retire(T)
    PROVE  \A u \in Token : Held(u)' => Held(u) /\ u \notin T /\ Same(lease'[u], lease[u])
    BY DEF Retire, Held, Same

\* A renewal keeps holder, component and fence.
LEMMA RotateFence ==
    ASSUME Shape, FenceInv, NEW t \in Token, Held(t), NEW s \in 0..MaxSeq, Rotate(t, s)
    PROVE  FenceInv'
<1>1. tokens + 1 \in Token
    BY BoundAssumption DEF Rotate, Shape, TypeOK, LeasesTyped, Token
<1>2. PICK n \in Token : n = tokens + 1
    BY <1>1
<1>3. lease \in [Token -> Lease \cup {NoLease}] /\ lease[t] \in Lease
    BY LeaseType DEF Shape, TypeOK, LeasesTyped
<1> DEFINE m == [lease[t] EXCEPT !.late = FALSE, !.seq = s]
<1>4. Same(m, lease[t])
    BY <1>3 DEF Same, Lease
<1>5. lease' = [lease EXCEPT ![t] = NoLease, ![n] = m]
    BY <1>2 DEF Rotate
<1> HIDE DEF m
<1>6. \A u \in Token : Held(u)' => \/ u = n /\ Same(lease'[u], lease[t])
                                   \/ u # n /\ u # t /\ Held(u) /\ lease'[u] = lease[u]
    BY <1>3, <1>4, <1>5 DEF Held
<1>7. UNCHANGED <<fence, eff, barred, revoked>>
    BY DEF Rotate, storeVars
<1>8. LeaseHoldsFence'
    BY <1>6, <1>7 DEF FenceInv, LeaseHoldsFence, Same
<1>9. RevocationHolds'
    BY <1>6, <1>7 DEF FenceInv, RevocationHolds, Same
<1> QED
    BY <1>7, <1>8, <1>9 DEF FenceInv

\* An activation gives the only lease of its component the fence that it stores.
LEMMA ActivateFence ==
    ASSUME Shape, FenceInv, NEW p \in Principal, NEW c \in Component, Activate(p, c)
    PROVE  FenceInv'
<1>1. tokens + 1 \in Token
    BY BoundAssumption DEF Activate, Shape, TypeOK, LeasesTyped, Token
<1>2. PICK n \in Token : n = tokens + 1
    BY <1>1
<1>3. lease \in [Token -> Lease \cup {NoLease}] /\ fence \in [Component -> 0..MaxFence]
    BY DEF Shape, TypeOK, LeasesTyped, StoreTyped
<1> DEFINE m == [p |-> p, c |-> c, f |-> fence[c] + 1, i |-> made + 1,
                 health |-> "ok", late |-> FALSE, seq |-> 0]
<1>4. m.p = p /\ m.c = c /\ m.f = fence[c] + 1
    OBVIOUS
<1>5. lease' = [lease EXCEPT ![n] = m]
    BY <1>2 DEF Activate
<1> HIDE DEF m
<1>6. fence' = [fence EXCEPT ![c] = fence[c] + 1]
    BY DEF Activate
<1>7. \A d \in Component : fence'[d] = IF d = c THEN fence[c] + 1 ELSE fence[d]
    BY <1>3, <1>6
<1>8. \A u \in Token : Held(u)' => \/ u = n /\ lease'[u] = m
                                   \/ /\ Held(u) /\ lease'[u] = lease[u]
                                      /\ lease[u].c # c /\ lease[u].c \in Component
    <2>1. ASSUME NEW u \in Token, Held(u) PROVE lease[u].c # c /\ lease[u].c \in Component
        BY <2>1, LeaseType DEF Activate, Shape, TypeOK, Lease
    <2> QED
        BY <1>3, <1>5, <2>1 DEF Held
<1>9. p \notin revoked /\ UNCHANGED <<eff, barred, revoked>>
    BY DEF Activate
<1>10. LeaseHoldsFence'
    <2>1. \A u \in Token : Held(u)' => lease'[u].f = fence'[lease'[u].c]
        BY <1>4, <1>7, <1>8 DEF FenceInv, LeaseHoldsFence
    <2>2. \A u, v \in Token : Held(u)' /\ Held(v)' /\ lease'[u].c = lease'[v].c => u = v
        BY <1>4, <1>8 DEF FenceInv, LeaseHoldsFence
    <2> QED
        BY <2>1, <2>2 DEF LeaseHoldsFence, Held
<1>11. RevocationHolds'
    BY <1>4, <1>8, <1>9 DEF FenceInv, RevocationHolds
<1>12. \A d \in Component : eff'[d] <= fence'[d]
    <2>1. \A d \in Component : eff[d] \in Nat /\ fence[d] \in Nat /\ eff[d] <= fence[d]
        BY DEF Shape, TypeOK, StoreTyped, FenceInv
    <2> QED
        BY <1>7, <1>9, <2>1
<1> QED
    BY <1>10, <1>11, <1>12 DEF FenceInv

\* An activation that fails leaves a fence that no lease holds.
LEMMA ActivateFailsFence ==
    ASSUME Shape, FenceInv, NEW p \in Principal, NEW c \in Component, ActivateFails(p, c)
    PROVE  FenceInv'
<1>1. fence \in [Component -> 0..MaxFence] /\ fence' = [fence EXCEPT ![c] = fence[c] + 1]
    BY DEF Shape, TypeOK, StoreTyped, ActivateFails
<1>2. \A d \in Component : fence'[d] = IF d = c THEN fence[c] + 1 ELSE fence[d]
    BY <1>1
<1>3. UNCHANGED <<eff, barred, revoked, lease>>
    BY DEF ActivateFails, stateVars
<1>4. ASSUME NEW u \in Token, Held(u) PROVE lease[u].c # c /\ lease[u].c \in Component
    BY <1>4, LeaseType DEF ActivateFails, Shape, TypeOK, Lease
<1>5. LeaseHoldsFence'
    BY <1>2, <1>3, <1>4 DEF FenceInv, LeaseHoldsFence, Held
<1>6. RevocationHolds'
    BY <1>3 DEF FenceInv, RevocationHolds, Held
<1>7. \A d \in Component : eff[d] \in Nat /\ fence[d] \in Nat /\ eff[d] <= fence[d]
    BY DEF Shape, TypeOK, StoreTyped, FenceInv
<1> QED
    BY <1>2, <1>3, <1>5, <1>6, <1>7 DEF FenceInv

\* An effect is committed under the fence of its component.
LEMMA EffectFence ==
    ASSUME Shape, FenceInv, NEW p \in Principal, NEW o \in Op, NEW t \in Token, CommitEffect(p, o, t)
    PROVE  /\ FenceInv'
           /\ \A c \in Component : eff'[c] # eff[c] => eff'[c] > eff[c]
<1>1. UNCHANGED <<fence, barred, lease, revoked>>
    BY DEF CommitEffect, stateVars
<1>2. lease[t] \in Lease /\ lease[t].c \in Component /\ lease[t].f = fence[lease[t].c]
    BY LeaseType DEF CommitEffect, Valid, Shape, TypeOK, Lease
<1>3. \A d \in Component : eff[d] \in Nat /\ fence[d] \in Nat /\ eff[d] <= fence[d]
    BY DEF Shape, TypeOK, StoreTyped, FenceInv
<1>4. PICK c \in Component : c = lease[t].c
    BY <1>2
<1>5. eff' = eff \/ eff' = [eff EXCEPT ![c] = fence[c]]
    BY <1>2, <1>4 DEF CommitEffect
<1>6. \A d \in Component : eff'[d] = eff[d] \/ eff'[d] = fence[d]
    BY <1>5 DEF Shape, TypeOK, StoreTyped
<1>7. LeaseHoldsFence' /\ RevocationHolds'
    BY <1>1 DEF FenceInv, LeaseHoldsFence, RevocationHolds, Held
<1> QED
    BY <1>1, <1>3, <1>6, <1>7 DEF FenceInv

\* Every step keeps the invariant, and moves the fence of an effect forward only.
LEMMA FenceStep ==
    ASSUME Shape, FenceInv, [Next]_vars
    PROVE  /\ FenceInv'
           /\ \A c \in Component : eff'[c] # eff[c] => eff'[c] > eff[c]
<1> USE DEF storeVars, stateVars, kernelVars, execVars, workVars
<1>0. barred \subseteq revoked
    BY DEF FenceInv, RevocationHolds
<1>1. ASSUME UNCHANGED <<fence, eff, barred, revoked>>,
             \A u \in Token : Held(u)' => Held(u) /\ Same(lease'[u], lease[u])
      PROVE  FenceInv'
    BY <1>0, <1>1, FenceKept
<1>2. ASSUME UNCHANGED <<fence, eff, barred, revoked, lease>> PROVE FenceInv'
    BY <1>1, <1>2 DEF Held, Same
<1>3. ASSUME NEW p \in Principal, Revoke(p) PROVE FenceInv' /\ eff' = eff
    <2>1. Retire({t \in Token : Held(t) /\ lease[t].p = p}) /\ UNCHANGED <<fence, eff>>
        BY <1>3 DEF Revoke
    <2>2. \A u \in Token : Held(u)' => Held(u) /\ lease[u].p # p /\ Same(lease'[u], lease[u])
        BY <2>1, RetireKeeps
    <2>3. revoked' = revoked \cup {p} /\ barred' \subseteq barred \cup {p}
        BY <1>3 DEF Revoke
    <2>4. LeaseHoldsFence'
        BY <2>1, <2>2 DEF FenceInv, LeaseHoldsFence, Same
    <2>5. RevocationHolds'
        BY <1>0, <2>2, <2>3 DEF FenceInv, RevocationHolds, Same
    <2> QED
        BY <2>1, <2>4, <2>5 DEF FenceInv
<1>4. ASSUME NEW p \in Principal, Grant(p) PROVE FenceInv' /\ eff' = eff
    <2>1. /\ UNCHANGED <<fence, eff, lease>> /\ barred' \subseteq barred
          /\ \A q \in barred' : q \in revoked'
        BY <1>0, <1>4 DEF Grant
    <2> QED
        BY <2>1, FenceKept DEF Held, Same
<1>5. ASSUME NEW p \in Principal, NEW t \in Token, Release(p, t) PROVE FenceInv' /\ eff' = eff
    BY <1>1, <1>5, RetireKeeps DEF Release
<1>6. CASE Shutdown \/ TickExpire
    BY <1>1, <1>6, RetireKeeps DEF Shutdown, TickExpire
<1>7. ASSUME NEW p \in Principal, NEW t \in Token, Renew(p, t) \/ \E s \in 1..MaxSeq : RenewSeq(p, t, s)
      PROVE  FenceInv' /\ eff' = eff
    <2>1. Held(t)
        BY <1>7 DEF Renew, RenewSeq, Valid
    <2>2. lease[t].seq \in 0..MaxSeq
        BY <2>1, LeaseType DEF Shape, TypeOK, Lease
    <2>3. \E s \in 0..MaxSeq : Rotate(t, s)
        BY <1>7, <2>2 DEF Renew, RenewSeq
    <2> QED
        BY <2>1, <2>3, RotateFence DEF Rotate
<1>8. ASSUME NEW t \in Token,
             \/ LeaseLate(t)
             \/ TickChildGone(t)
             \/ TickRestart(t)
      PROVE  FenceInv' /\ eff' = eff
    <2>1. Held(t) /\ UNCHANGED <<fence, eff, barred, revoked>>
        BY <1>8 DEF LeaseLate, TickChildGone, TickRestart
    <2>2. lease[t] \in Lease /\ lease \in [Token -> Lease \cup {NoLease}]
        BY <2>1, LeaseType DEF Shape, TypeOK, LeasesTyped
    <2>3. PICK l : lease' = [lease EXCEPT ![t] = l] /\ Same(l, lease[t])
        <3>1. CASE LeaseLate(t)
            <4> DEFINE l == [lease[t] EXCEPT !.late = TRUE]
            <4>1. lease' = [lease EXCEPT ![t] = l]
                BY <3>1, <2>2 DEF LeaseLate
            <4>2. Same(l, lease[t])
                BY <2>2 DEF Same, Lease
            <4> HIDE DEF l
            <4> QED
                BY <4>1, <4>2
        <3>2. CASE TickChildGone(t)
            <4>1. \E h \in {"retry", "failed"} : lease' = [lease EXCEPT ![t] = [lease[t] EXCEPT !.health = h]]
                BY <3>2, <2>2 DEF TickChildGone
            <4> QED
                BY <2>2, <4>1 DEF Same, Lease
        <3>3. CASE TickRestart(t)
            <4>1. CASE lease' = [lease EXCEPT ![t].health = "ok", ![t].i = made + 1]
                <5> DEFINE l == [lease[t] EXCEPT !.health = "ok", !.i = made + 1]
                <5>1. lease' = [lease EXCEPT ![t] = l]
                    BY <2>2, <4>1
                <5>2. Same(l, lease[t])
                    BY <2>2 DEF Same, Lease
                <5> HIDE DEF l
                <5> QED
                    BY <5>1, <5>2
            <4>2. CASE lease' = [lease EXCEPT ![t].health = "ok"]
                <5> DEFINE l == [lease[t] EXCEPT !.health = "ok"]
                <5>1. lease' = [lease EXCEPT ![t] = l]
                    BY <2>2, <4>2
                <5>2. Same(l, lease[t])
                    BY <2>2 DEF Same, Lease
                <5> HIDE DEF l
                <5> QED
                    BY <5>1, <5>2
            <4> QED
                BY <3>3, <4>1, <4>2 DEF TickRestart
        <3> QED
            BY <1>8, <3>1, <3>2, <3>3
    <2>4. \A u \in Token : Held(u)' => Held(u) /\ Same(lease'[u], lease[u])
        BY <2>1, <2>2, <2>3 DEF Held, Same
    <2> QED
        BY <1>1, <2>1, <2>4
<1>9. CASE Restart
    <2>1. UNCHANGED <<fence, eff, barred>> /\ revoked' = barred /\ \A u \in Token : ~Held(u)'
        BY <1>9 DEF Restart, Held
    <2> QED
        BY <2>1, FenceKept
<1>10. ASSUME \/ \E w \in Worker : Receive(w) \/ Serve(w)
              \/ \E c \in Component : ChildDies(c)
              \/ \E k \in Key : ExecOver(k)
              \/ UNCHANGED vars
       PROVE  FenceInv' /\ eff' = eff
    <2>1. UNCHANGED <<fence, eff, barred, revoked, lease>>
        BY <1>10 DEF Receive, InvokeValidate, Serve, InvokeAdmit, InvokeCurrent, InvokeRun, InvokeWait,
           InvokeRecheck, InvokeFinish, InvokeFinishFails, ChildDies, ExecOver, vars
    <2> QED
        BY <1>2, <2>1
<1>11. ASSUME NEW p \in Principal, NEW c \in Component, Activate(p, c) \/ ActivateFails(p, c)
       PROVE  FenceInv' /\ eff' = eff
    BY <1>11, ActivateFence, ActivateFailsFence DEF Activate, ActivateFails
<1>12. eff' = eff => \A c \in Component : eff'[c] # eff[c] => eff'[c] > eff[c]
    OBVIOUS
<1>13. CASE Control
    BY <1>3, <1>4, <1>5, <1>6, <1>7, <1>11, <1>12, <1>13, EffectFence DEF Control, Shutdown
<1>14. CASE Tick \/ Environment \/ Restart
    BY <1>6, <1>8, <1>9, <1>10, <1>12, <1>14 DEF Tick, Environment, TickExpire, Restart
<1> QED
    BY <1>10, <1>12, <1>13, <1>14 DEF Next

\* The leases' invariant holds of the service.
THEOREM FenceInvariance == Spec => []FenceInv
<1>1. Init => FenceInv
    BY DEF Init, FenceInv, LeaseHoldsFence, RevocationHolds, Held
<1>2. LedgerInv /\ FenceInv /\ [Next]_vars => FenceInv'
    BY FenceStep DEF LedgerInv
<1> QED
    BY <1>1, <1>2, LedgerInvariance, PTL DEF Spec

\* A component has one lease, with the fence that the store has for it, through
\* renewals, failed activations and restarts.
THEOREM FenceSafety == Spec => []LeaseHoldsFence
<1>1. FenceInv => LeaseHoldsFence
    BY DEF FenceInv
<1> QED
    BY <1>1, FenceInvariance, PTL

\* A principal whose revocation is stored has no lease and is refused, after a restart
\* as before.
THEOREM RevocationSafety == Spec => []RevocationHolds
<1>1. FenceInv => RevocationHolds
    BY DEF FenceInv
<1> QED
    BY <1>1, FenceInvariance, PTL

\* Effects of a component are committed in the order of its leases, across restarts.
THEOREM EffectOrder == Spec => EffectsInFenceOrder
<1>1. LedgerInv /\ FenceInv /\ [Next]_vars =>
        [\A c \in Component : eff'[c] # eff[c] => eff'[c] > eff[c]]_vars
    BY FenceStep DEF LedgerInv
<1> QED
    BY <1>1, LedgerInvariance, FenceInvariance, PTL DEF Spec, EffectsInFenceOrder

=============================================================================
