-------------------------- MODULE HostCalls_proofs --------------------------
(***************************************************************************)
(* Proofs about HostCalls, for any number of calls, any depth of the chain *)
(* of components and any limits.  CallsInv is inductive; its parts are     *)
(* proved in turn: the types, the shape of a call at each point of its     *)
(* way, the replies, the cancels, the authority of a call about to be      *)
(* accepted, and the counts of the quotas.                                 *)
(***************************************************************************)
EXTENDS HostCalls, FiniteSetTheorems, TLAPS

\* What the components are.
LEMMA Components ==
    /\ 1 \in Comp /\ 1 \in Local /\ 0 \notin Comp /\ Local \subseteq Comp /\ Comp \subseteq Nat
    /\ 0 \notin Call /\ Call \subseteq 0..MaxCall /\ Call \subseteq Nat
    /\ \A s \in Comp : s <= MaxDepth => s + 1 \in Comp
  BY CallsAssumption DEF Comp, Local, Call

States == {"none", "Admitted", "Cancelled", "Expired", "Committed", "closed"}
Points == {"idle", "insert", "register", "revalidate", "map", "dispatch", "send", "wait", "accept",
           "mark", "close", "done"}
Outs == {"none", "ok", "gone", "unknown", "exhausted", "cancelled", "timeout", "denied", "deadline",
         "silent"}

\* The types of the kernel's tables, of the calls, of the host's tables and of the workers.
KernelTyped ==
    /\ live \subseteq Comp
    /\ wd \in [Comp -> {"none", "claimed", "revoked", "parked", "disposed"}]
    /\ tk \in [Call -> States] /\ owed \subseteq Call
    /\ DOMAIN grant = Comp
CallTyped ==
    /\ parent \in [Call -> 0..MaxCall] /\ comp \in [Call -> {0} \cup Comp] /\ DOMAIN rev = Call
HostTyped ==
    /\ sessions \subseteq Local /\ dropping \subseteq Local \ sessions
    /\ pending \subseteq Call /\ mail \in [Call -> {"none", "answer", "gone"}]
    /\ mapped \subseteq Call /\ wanted \subseteq Call /\ ops \subseteq Call
    /\ told \in [Call -> {"none", "revoked", "terminal"}]
    /\ held \in [Call -> SUBSET {"charge", "count"}]
WorkTyped == pc \in [Call -> Points] /\ out \in [Call -> Outs]
Typed == KernelTyped /\ CallTyped /\ HostTyped /\ WorkTyped

\* The counters, as the limits bound them.
CountersTyped ==
    /\ depUse \in [Comp -> 0..MaxDeps]
    /\ inflight \in [Comp -> 0..MaxInFlight] /\ used \in [Comp -> 0..SendQuota]

\* The parts of CallsInv.
LEMMA Parts ==
    ASSUME CallsInv
    PROVE  /\ Typed /\ CountersTyped /\ WaitsMatchReplies /\ QuotasExact /\ RevokedStaysRevoked
           /\ \A c \in Call : Shaped(c) /\ ReplyKept(c) /\ CancelKept(c) /\ AuthorityKept(c)
  BY DEF CallsInv, TypeOK, Typed, KernelTyped, CallTyped, HostTyped, WorkTyped, CountersTyped,
     States, Points, Outs

\* A step of a call is one of these.
CallStep(c) ==
    \/ Forward(c) \/ ForwardThread(c) \/ DepThread(c) \/ DepCancel(c) \/ ClientCancel(c)
    \/ Answer(c) \/ RemoteTerminal(c) \/ Revoke(c)
    \/ \E p \in Call : DepOpen(c, p)

\* A step of the kernel or of a session that is no call's.
CompStep(s) ==
    \/ Withdraw(s) \/ WithdrawRevoke(s) \/ WithdrawPark(s) \/ RemoteProvider(s)
    \/ DropSession(s) \/ DropSweep(s) \/ GrantSweep(s)
    \/ \E b \in BOOLEAN : GrantChange(s, b)

----------------------------------------------------------------------------
(* Types.                                                                   *)

\* Cancelled keeps the type of the tickets.
LEMMA CancelledTyped ==
    ASSUME Typed, NEW S, tk' = Cancelled(S)
    PROVE  /\ tk' \in [Call -> States]
           /\ \A c \in Call : tk'[c] = IF c \in S /\ tk[c] = "Admitted" THEN "Cancelled" ELSE tk[c]
  BY DEF Cancelled, Typed, KernelTyped, States

\* The tables of the kernel keep their types.
LEMMA KernelTypes ==
    ASSUME Typed, \A c \in Call : Shaped(c), [Next]_vars
    PROVE  KernelTyped'
<1>0. USE DEF KernelTyped
<1>1. ASSUME NEW s \in Comp, CompStep(s) PROVE KernelTyped'
  <2>1. CASE WithdrawRevoke(s) \/ DropSweep(s) \/ GrantSweep(s)
    <3>1. tk' \in [Call -> States]
      BY <2>1, CancelledTyped DEF WithdrawRevoke, DropSweep, GrantSweep
    <3>2. /\ live' \subseteq Comp /\ owed' \subseteq Call /\ DOMAIN grant' = Comp
          /\ wd' \in [Comp -> {"none", "claimed", "revoked", "parked", "disposed"}]
      BY <2>1 DEF WithdrawRevoke, DropSweep, GrantSweep, Typed, HostTyped, grantVars
    <3> QED
      BY <3>1, <3>2
  <2>2. CASE \/ Withdraw(s) \/ WithdrawPark(s) \/ RemoteProvider(s) \/ DropSession(s)
             \/ \E b \in BOOLEAN : GrantChange(s, b)
    BY <2>2 DEF Withdraw, WithdrawPark, RemoteProvider, DropSession, GrantChange, Typed, grantVars,
       kernelVars
  <2> QED
    BY <1>1, <2>1, <2>2 DEF CompStep
<1>2. ASSUME NEW c \in Call, CallStep(c) PROVE KernelTyped'
  <2>1. CASE DepCancel(c) \/ ClientCancel(c) \/ Revoke(c)
    <3>1. tk' \in [Call -> States]
      BY <2>1, CancelledTyped DEF DepCancel, ClientCancel, Revoke, Typed
    <3>2. /\ live' \subseteq Comp /\ owed' \subseteq Call /\ DOMAIN grant' = Comp
          /\ wd' \in [Comp -> {"none", "claimed", "revoked", "parked", "disposed"}]
      BY <2>1 DEF DepCancel, ClientCancel, Revoke, Typed, grantVars
    <3> QED
      BY <3>1, <3>2
  <2>2. CASE \/ Answer(c) \/ RemoteTerminal(c) \/ Forward(c) \/ ForwardInsert(c) \/ ForwardSend(c)
             \/ ForwardWait(c) \/ DepMap(c) \/ DepDispatch(c) \/ RemoteDispatch(c) \/ DepSend(c)
             \/ AdmitRegister(c) \/ AdmitRevalidate(c) \/ DepCheck(c) \/ DepAccept(c)
             \/ \E p \in Call : DepOpen(c, p)
    BY <2>2 DEF Answer, RemoteTerminal, Forward, ForwardInsert, ForwardSend, ForwardWait, DepMap,
       DepDispatch, RemoteDispatch, DepSend, AdmitRegister, AdmitRevalidate, DepCheck, DepAccept,
       DepOpen, kernelVars, grantVars, Typed, States
  <2>3. CASE DepWait(c)
    BY <2>3 DEF DepWait, DepAbort, DepReply, grantVars, Typed, States
  <2>4. CASE ForwardSettle(c) \/ DepClose(c)
    <3>1. comp[c] \in Comp
      BY <2>4 DEF ForwardSettle, DepClose, Shaped
    <3> QED
      BY <2>4, <3>1 DEF ForwardSettle, DepClose, Settled, grantVars, Typed, States
  <2> QED
    BY <1>2, <2>1, <2>2, <2>3, <2>4 DEF CallStep, ForwardThread, DepThread
<1>3. CASE UNCHANGED vars
  BY <1>3 DEF vars, kernelVars, grantVars, Typed
<1> QED
  BY <1>1, <1>2, <1>3 DEF Next, CallStep, CompStep

\* A step that opens or forwards no call leaves parents and components as they are.
LEMMA CallsUnchanged ==
    ASSUME [Next]_vars,
           \A c \in Call : ~Forward(c) /\ \A p \in Call : ~DepOpen(c, p)
    PROVE  UNCHANGED <<parent, comp>>
<1>1. ASSUME NEW s \in Comp, CompStep(s) PROVE UNCHANGED <<parent, comp>>
  BY <1>1 DEF CompStep, Withdraw, WithdrawRevoke, WithdrawPark, RemoteProvider, DropSession,
     DropSweep, GrantSweep, GrantChange, callVars
<1>2. ASSUME NEW c \in Call, CallStep(c) PROVE UNCHANGED <<parent, comp>>
  <2>1. CASE \/ ForwardThread(c) \/ DepCancel(c) \/ ClientCancel(c) \/ Answer(c)
             \/ RemoteTerminal(c) \/ Revoke(c)
    BY <2>1 DEF ForwardThread, ForwardInsert, ForwardSend, ForwardWait, ForwardSettle, DepCancel,
       ClientCancel, Answer, RemoteTerminal, Revoke, callVars
  <2>2. CASE DepThread(c)
    BY <2>2 DEF DepThread, AdmitRegister, AdmitRevalidate, DepMap, DepDispatch, RemoteDispatch,
       DepSend, DepWait, DepCheck, DepAccept, DepClose, callVars
  <2> QED
    BY <1>2, <2>1, <2>2 DEF CallStep
<1>3. CASE UNCHANGED vars
  BY <1>3 DEF vars, callVars
<1> QED
  BY <1>1, <1>2, <1>3 DEF Next, CallStep, CompStep

\* What a step changes of revisions keeps their domain.
LEMMA RevUnchanged ==
    ASSUME [Next]_vars, DOMAIN rev = Call
    PROVE  DOMAIN rev' = Call
<1>1. ASSUME NEW s \in Comp, CompStep(s) PROVE rev' = rev
  BY <1>1 DEF CompStep, Withdraw, WithdrawRevoke, WithdrawPark, RemoteProvider, DropSession,
     DropSweep, GrantSweep, GrantChange, callVars
<1>2. ASSUME NEW c \in Call, CallStep(c) PROVE DOMAIN rev' = Call
  <2>1. CASE \/ ForwardThread(c) \/ DepCancel(c) \/ ClientCancel(c) \/ Answer(c)
             \/ RemoteTerminal(c) \/ Revoke(c) \/ Forward(c)
    BY <2>1 DEF ForwardThread, ForwardInsert, ForwardSend, ForwardWait, ForwardSettle, DepCancel,
       ClientCancel, Answer, RemoteTerminal, Revoke, Forward, callVars
  <2>2. CASE DepThread(c) \/ \E p \in Call : DepOpen(c, p)
    BY <2>2 DEF DepThread, AdmitRegister, AdmitRevalidate, DepMap, DepDispatch, RemoteDispatch,
       DepSend, DepWait, DepCheck, DepAccept, DepClose, DepOpen, callVars
  <2> QED
    BY <1>2, <2>1, <2>2 DEF CallStep
<1>3. CASE UNCHANGED vars
  BY <1>3 DEF vars, callVars
<1> QED
  BY <1>1, <1>2, <1>3 DEF Next, CallStep, CompStep

\* The calls keep their types.
LEMMA CallTypes ==
    ASSUME Typed, [Next]_vars
    PROVE  CallTyped'
<1>0. DOMAIN rev' = Call
  BY RevUnchanged DEF Typed, CallTyped
<1>1. ASSUME NEW c \in Call, Forward(c) PROVE CallTyped'
  BY <1>0, <1>1, Components DEF Forward, Typed, CallTyped
<1>2. ASSUME NEW c \in Call, NEW p \in Call, DepOpen(c, p) PROVE CallTyped'
  <2>1. comp[p] \in Comp /\ comp[p] + 1 \in Comp
    BY <1>2, Components DEF DepOpen, Typed, HostTyped
  <2> QED
    BY <1>0, <1>2, <2>1, Components DEF DepOpen, Typed, CallTyped, callVars
<1> QED
  BY <1>0, <1>1, <1>2, CallsUnchanged DEF Typed, CallTyped

\* The tables of the host keep their types.
LEMMA HostTypes ==
    ASSUME Typed, [Next]_vars
    PROVE  HostTyped'
<1>0. USE DEF HostTyped
<1>1. ASSUME NEW s \in Comp, CompStep(s) PROVE HostTyped'
  <2>1. CASE \/ Withdraw(s) \/ WithdrawRevoke(s) \/ WithdrawPark(s) \/ RemoteProvider(s)
             \/ GrantSweep(s) \/ \E b \in BOOLEAN : GrantChange(s, b)
    BY <2>1 DEF Withdraw, WithdrawRevoke, WithdrawPark, RemoteProvider, GrantSweep, GrantChange,
       hostVars, sessVars, replyVars, quotaVars, depVars, Typed
  <2>2. CASE DropSession(s)
    BY <2>2 DEF DropSession, replyVars, quotaVars, depVars, Typed
  <2>3. CASE DropSweep(s)
    BY <2>3 DEF DropSweep, quotaVars, depVars, Typed
  <2> QED
    BY <1>1, <2>1, <2>2, <2>3 DEF CompStep
<1>2. ASSUME NEW c \in Call, CallStep(c) PROVE HostTyped'
  <2>1. CASE ClientCancel(c) \/ Revoke(c) \/ AdmitRegister(c) \/ AdmitRevalidate(c) \/ \E p \in Call : DepOpen(c, p)
    BY <2>1 DEF ClientCancel, Revoke, AdmitRegister, AdmitRevalidate, DepOpen, hostVars, sessVars, replyVars,
       quotaVars, depVars, Typed
  <2>2. CASE DepCancel(c) \/ Answer(c) \/ RemoteTerminal(c)
    BY <2>2 DEF DepCancel, Answer, RemoteTerminal, sessVars, replyVars, quotaVars, depVars, Typed
  <2>3. CASE Forward(c)
    BY <2>3 DEF Forward, Ends, sessVars, replyVars, quotaVars, depVars, Typed
  <2>4. CASE ForwardInsert(c) \/ ForwardSend(c) \/ ForwardWait(c) \/ DepSend(c)
    BY <2>4 DEF ForwardInsert, ForwardSend, ForwardWait, DepSend, sessVars, quotaVars, depVars, Typed
  <2>5. CASE ForwardSettle(c) \/ DepClose(c)
    BY <2>5 DEF ForwardSettle, DepClose, Release, sessVars, depVars, Typed
  <2>6. CASE DepMap(c)
    BY <2>6 DEF DepMap, sessVars, replyVars, quotaVars, Typed
  <2>7. CASE DepDispatch(c)
    BY <2>7 DEF DepDispatch, Hold, sessVars, quotaVars, depVars, Typed
  <2>8. CASE RemoteDispatch(c)
    BY <2>8 DEF RemoteDispatch, Hold, sessVars, replyVars, quotaVars, Typed
  <2>9. CASE DepWait(c) \/ DepCheck(c) \/ DepAccept(c)
    BY <2>9 DEF DepWait, DepCheck, DepAccept, sessVars, replyVars, depVars, Typed
  <2> QED
    BY <1>2, <2>1, <2>2, <2>3, <2>4, <2>5, <2>6, <2>7, <2>8, <2>9 DEF CallStep, ForwardThread, DepThread
<1>3. CASE UNCHANGED vars
  BY <1>3 DEF vars, hostVars, sessVars, replyVars, quotaVars, depVars, Typed
<1> QED
  BY <1>1, <1>2, <1>3 DEF Next, CallStep, CompStep

\* Every step of a call moves its own worker only, and within its types.
LEMMA WorkTypes ==
    ASSUME Typed, [Next]_vars
    PROVE  WorkTyped'
<1>0. USE DEF WorkTyped, Points, Outs
<1>1. ASSUME NEW s \in Comp, CompStep(s) PROVE WorkTyped'
  BY <1>1 DEF CompStep, Withdraw, WithdrawRevoke, WithdrawPark, RemoteProvider, DropSession,
     DropSweep, GrantSweep, GrantChange, Typed
<1>2. ASSUME NEW c \in Call, CallStep(c) PROVE WorkTyped'
  <2>1. CASE \/ ClientCancel(c) \/ Revoke(c) \/ DepCancel(c) \/ Answer(c) \/ RemoteTerminal(c)
             \/ AdmitRegister(c) \/ AdmitRevalidate(c) \/ ForwardInsert(c)
             \/ \E p \in Call : DepOpen(c, p)
    BY <2>1 DEF ClientCancel, Revoke, DepCancel, Answer, RemoteTerminal, AdmitRegister,
       AdmitRevalidate, ForwardInsert, DepOpen, Goto, Typed
  <2>2. CASE Forward(c)
    <3>1. Refusal(1) \in Outs
      BY DEF Refusal
    <3> QED
      BY <2>2, <3>1 DEF Forward, Ends, Goto, Typed
  <2>3. CASE ForwardSend(c) \/ ForwardWait(c) \/ DepSend(c) \/ DepMap(c) \/ DepCheck(c) \/ DepAccept(c)
    BY <2>3 DEF ForwardSend, ForwardWait, DepSend, DepMap, DepCheck, DepAccept, Ends, Goto, Typed
  <2>4. CASE DepDispatch(c) \/ RemoteDispatch(c)
    <3>1. DispatchRefusal(c) \in Outs
      BY DEF DispatchRefusal
    <3> QED
      BY <2>4, <3>1 DEF DepDispatch, RemoteDispatch, Ends, Goto, Typed
  <2>5. CASE ForwardSettle(c) \/ DepClose(c)
    BY <2>5 DEF ForwardSettle, DepClose, Goto, Typed
  <2>6. CASE DepWait(c)
    BY <2>6 DEF DepWait, DepAbort, DepReply, Ends, Goto, Typed
  <2> QED
    BY <1>2, <2>1, <2>2, <2>3, <2>4, <2>5, <2>6 DEF CallStep, ForwardThread, DepThread
<1>3. CASE UNCHANGED vars
  BY <1>3 DEF vars, Typed
<1> QED
  BY <1>1, <1>2, <1>3 DEF Next, CallStep, CompStep

----------------------------------------------------------------------------
(* The shape of a call.                                                     *)

Begun == {"wait", "accept", "mark", "close", "done"}

\* A step of one call leaves the shape of the others; its own follows from where it goes.
LEMMA ShapedStep ==
    ASSUME Typed, \A d \in Call : Shaped(d), NEW c \in Call,
           UNCHANGED <<parent, comp>>,
           \A d \in Call \ {c} : pc'[d] = pc[d] /\ held'[d] = held[d],
           pc[c] \in Begun => pc'[c] \in Begun,
           pc[c] # "idle", pc'[c] # "idle",
           pc[c] = "done" => pc'[c] = "done",
           pc'[c] \in {"register", "revalidate", "map", "dispatch", "accept", "mark"} => parent[c] # 0,
           pc'[c] \in {"register", "revalidate", "map", "dispatch", "done"} => held'[c] = {},
           pc'[c] # "insert"
    PROVE  \A d \in Call : Shaped(d)'
<1>1. ASSUME NEW d \in Call, parent[d] # 0
      PROVE  /\ parent[d] \in Call /\ Consumer(d) \in Local /\ comp[d] \in Comp
             /\ pc'[parent[d]] \in Begun
  <2>1. parent[d] \in Call /\ Consumer(d) \in Local /\ comp[d] \in Comp /\ pc[parent[d]] \in Begun
    BY <1>1 DEF Shaped, Begun
  <2> QED
    BY <2>1
<1>2. ASSUME NEW d \in Call PROVE parent'[d] = parent[d] /\ comp'[d] = comp[d] /\ Consumer(d)' = Consumer(d)
  BY DEF Consumer
<1>3. Shaped(c)'
  <2>1. pc[c] \notin {"idle", "done"} \/ pc'[c] = "done"
    OBVIOUS
  <2> QED
    BY <1>1, <1>2, <2>1 DEF Shaped, Begun
<1>4. ASSUME NEW d \in Call \ {c} PROVE Shaped(d)'
  BY <1>1, <1>2, <1>4 DEF Shaped, Begun
<1> QED
  BY <1>3, <1>4

\* A step that moves no worker and no guard keeps every shape.
LEMMA ShapedStill ==
    ASSUME \A d \in Call : Shaped(d), UNCHANGED <<parent, comp, pc, held>>
    PROVE  \A d \in Call : Shaped(d)'
  BY DEF Shaped, Consumer

\* The steps of a call leave worker and guards of the others.
LEMMA OtherWorker ==
    ASSUME Typed, NEW c \in Call, CallStep(c), NEW d \in Call \ {c}
    PROVE  /\ pc'[d] = pc[d] /\ comp'[d] = comp[d] /\ parent'[d] = parent[d]
           /\ held'[d] = held[d] /\ out'[d] = out[d]
<1> USE DEF Goto, Ends, callVars, hostVars, quotaVars, Typed, CallTyped, WorkTyped, HostTyped
<1>1. CASE DepCancel(c) \/ ClientCancel(c) \/ Answer(c) \/ RemoteTerminal(c) \/ Revoke(c)
  BY <1>1 DEF DepCancel, ClientCancel, Answer, RemoteTerminal, Revoke
<1>2. CASE Forward(c)
  <2>1. /\ UNCHANGED parent
        /\ comp' = [comp EXCEPT ![c] = 1]
        /\ \/ held' = held \/ held' = [held EXCEPT ![c] = {"charge", "count"}]
        /\ \E l \in {"insert", "close"} : pc' = [pc EXCEPT ![c] = l]
        /\ \E o : out' = [out EXCEPT ![c] = o] \/ out' = out
    BY <1>2 DEF Forward
  <2> QED
    BY <2>1
<1>3. CASE \E p \in Call : DepOpen(c, p)
  BY <1>3 DEF DepOpen
<1>4. CASE ForwardInsert(c) \/ ForwardSend(c) \/ ForwardWait(c) \/ DepSend(c)
  BY <1>4 DEF ForwardInsert, ForwardSend, ForwardWait, DepSend
<1>5. CASE AdmitRegister(c) \/ AdmitRevalidate(c) \/ DepMap(c)
  BY <1>5 DEF AdmitRegister, AdmitRevalidate, DepMap
<1>6. CASE DepDispatch(c)
  BY <1>6 DEF DepDispatch, Hold
<1>7. CASE RemoteDispatch(c)
  BY <1>7 DEF RemoteDispatch, Hold
<1>8. CASE DepWait(c)
  BY <1>8 DEF DepWait, DepAbort, DepReply
<1>9. CASE DepCheck(c) \/ DepAccept(c)
  BY <1>9 DEF DepCheck, DepAccept
<1>10. CASE ForwardSettle(c) \/ DepClose(c)
  BY <1>10 DEF ForwardSettle, DepClose, Release
<1> QED
  BY <1>1, <1>2, <1>3, <1>4, <1>5, <1>6, <1>7, <1>8, <1>9, <1>10
     DEF CallStep, ForwardThread, DepThread

\* The shapes are kept.
LEMMA Shapes ==
    ASSUME Typed, \A d \in Call : Shaped(d), [Next]_vars
    PROVE  \A d \in Call : Shaped(d)'
<1> DEFINE Goal == \A d \in Call : Shaped(d)'
<1> HIDE DEF Goal
<1>1. ASSUME NEW s \in Comp, CompStep(s) PROVE Goal
  <2>1. UNCHANGED <<parent, comp, pc, held>>
    BY <1>1 DEF CompStep, Withdraw, WithdrawRevoke, WithdrawPark, RemoteProvider, DropSession,
       DropSweep, GrantSweep, GrantChange, callVars, hostVars, quotaVars
  <2> QED
    BY <2>1, ShapedStill DEF Goal
<1>2. CASE UNCHANGED vars
  BY <1>2, ShapedStill DEF vars, callVars, hostVars, quotaVars, Goal
<1>3. ASSUME NEW c \in Call,
             DepCancel(c) \/ ClientCancel(c) \/ Answer(c) \/ RemoteTerminal(c) \/ Revoke(c)
      PROVE  Goal
  <2>1. UNCHANGED <<parent, comp, pc, held>>
    BY <1>3 DEF DepCancel, ClientCancel, Answer, RemoteTerminal, Revoke, callVars, hostVars, quotaVars
  <2> QED
    BY <2>1, ShapedStill DEF Goal
<1>4. ASSUME NEW c \in Call, Forward(c) PROVE Goal
  <2>0. /\ pc[c] = "idle" /\ UNCHANGED parent
        /\ \A d \in Call \ {c} : pc'[d] = pc[d] /\ held'[d] = held[d] /\ comp'[d] = comp[d]
        /\ comp'[c] = 1 /\ pc'[c] \in {"insert", "close"}
    <3>1. /\ pc[c] = "idle" /\ UNCHANGED parent
          /\ comp' = [comp EXCEPT ![c] = 1]
          /\ \/ held' = held \/ held' = [held EXCEPT ![c] = {"charge", "count"}]
          /\ \E l \in {"insert", "close"} : pc' = [pc EXCEPT ![c] = l]
      BY <1>4 DEF Forward, Ends, Goto, quotaVars
    <3> QED
      BY <3>1 DEF Typed, CallTyped, WorkTyped, HostTyped
  <2>1. parent[c] = 0 /\ \A d \in Call : parent[d] # c
    BY <2>0, Components DEF Shaped
  <2>2. Shaped(c)'
    BY <2>0, <2>1, Components DEF Shaped
  <2>3. ASSUME NEW d \in Call \ {c} PROVE Shaped(d)'
    <3>1. Consumer(d)' = Consumer(d) /\ (parent[d] # 0 => parent[d] \in Call \ {c})
      BY <2>0, <2>1, <2>3 DEF Consumer, Shaped
    <3> QED
      BY <2>0, <2>3, <3>1 DEF Shaped
  <2> QED
    BY <2>2, <2>3 DEF Goal
<1>5. ASSUME NEW c \in Call, NEW p \in Call, DepOpen(c, p) PROVE Goal
  <2>0. /\ pc[c] = "idle" /\ pc[p] \in Begun /\ comp[p] \in Local /\ comp[p] + 1 \in Comp /\ p # c
        /\ comp[p] \in Nat /\ UNCHANGED held
        /\ \A d \in Call \ {c} : pc'[d] = pc[d]
    <3>1. comp[p] \in Local /\ comp[p] <= MaxDepth
      BY <1>5 DEF DepOpen, Typed, HostTyped
    <3>2. comp[p] + 1 \in Comp /\ comp[p] \in Nat
      BY <3>1, Components
    <3>3. /\ pc[c] = "idle" /\ pc[p] \in Begun /\ UNCHANGED held
          /\ \E l \in {"register", "done"} : pc' = [pc EXCEPT ![c] = l]
      BY <1>5 DEF DepOpen, Goto, Begun, hostVars, quotaVars
    <3> QED
      BY <3>1, <3>2, <3>3 DEF Typed, WorkTyped, Begun
  <2>1. parent[c] = 0 /\ held[c] = {} /\ \A d \in Call : parent[d] # c
    BY <2>0, Components DEF Shaped, Begun
  <2>2. \A d \in Call \ {c} : parent'[d] = parent[d] /\ comp'[d] = comp[d]
    BY <1>5 DEF DepOpen, callVars, Typed, CallTyped
  <2>3. \/ pc'[c] = "done" /\ parent'[c] = parent[c] /\ comp'[c] = comp[c]
        \/ pc'[c] = "register" /\ parent'[c] = p /\ comp'[c] = comp[p] + 1
    BY <1>5 DEF DepOpen, Goto, callVars, Typed, WorkTyped, CallTyped
  <2>4. Shaped(c)'
    <3>1. CASE pc'[c] = "done" /\ parent'[c] = parent[c]
      BY <2>0, <2>1, <3>1 DEF Shaped
    <3>2. CASE pc'[c] = "register" /\ parent'[c] = p /\ comp'[c] = comp[p] + 1
      <4>1. Consumer(c)' = comp[p]
        BY <2>0, <3>2 DEF Consumer
      <4>2. p # 0 /\ pc'[p] = pc[p]
        BY <2>0, Components
      <4> QED
        BY <2>0, <2>1, <3>2, <4>1, <4>2 DEF Shaped, Begun
    <3> QED
      BY <2>3, <3>1, <3>2
  <2>5. ASSUME NEW d \in Call \ {c} PROVE Shaped(d)'
    <3>1. Consumer(d)' = Consumer(d) /\ (parent[d] # 0 => parent[d] \in Call \ {c})
      BY <2>1, <2>2, <2>5 DEF Consumer, Shaped
    <3> QED
      BY <2>0, <2>2, <2>5, <3>1 DEF Shaped
  <2> QED
    BY <2>4, <2>5 DEF Goal
<1>6. ASSUME NEW c \in Call, ForwardInsert(c) \/ ForwardSend(c) \/ ForwardWait(c) \/ DepSend(c) PROVE Goal
  <2>1. UNCHANGED <<parent, comp, held>>
    BY <1>6 DEF ForwardInsert, ForwardSend, ForwardWait, DepSend, callVars, quotaVars
  <2>2. /\ \A d \in Call \ {c} : pc'[d] = pc[d]
        /\ pc[c] \in {"insert", "send", "wait"} /\ pc'[c] \in {"send", "wait", "close"}
        /\ pc[c] \in Begun => pc'[c] \in Begun
    BY <1>6 DEF ForwardInsert, ForwardSend, ForwardWait, DepSend, Ends, Goto, Begun, Typed, WorkTyped
  <2> QED
    BY <2>1, <2>2, ShapedStep DEF Goal
<1>7. ASSUME NEW c \in Call, AdmitRegister(c) \/ AdmitRevalidate(c) \/ DepMap(c) PROVE Goal
  <2>1. UNCHANGED <<parent, comp, held>>
    BY <1>7 DEF AdmitRegister, AdmitRevalidate, DepMap, callVars, hostVars, quotaVars
  <2>2. /\ \A d \in Call \ {c} : pc'[d] = pc[d]
        /\ pc[c] \in {"register", "revalidate", "map"}
        /\ pc'[c] \in {"revalidate", "map", "dispatch", "close", "done"}
    BY <1>7 DEF AdmitRegister, AdmitRevalidate, DepMap, Ends, Goto, Typed, WorkTyped
  <2>3. held'[c] = {} /\ parent[c] # 0
    BY <2>1, <2>2 DEF Shaped
  <2> QED
    BY <2>1, <2>2, <2>3, ShapedStep DEF Goal, Begun
<1>8. ASSUME NEW c \in Call, DepDispatch(c) \/ RemoteDispatch(c) PROVE Goal
  <2>1. UNCHANGED <<parent, comp>> /\ \A d \in Call \ {c} : held'[d] = held[d]
    BY <1>8 DEF DepDispatch, RemoteDispatch, Hold, callVars, quotaVars, Typed, HostTyped
  <2>2. /\ \A d \in Call \ {c} : pc'[d] = pc[d]
        /\ pc[c] = "dispatch" /\ pc'[c] \in {"send", "wait", "close"}
    BY <1>8 DEF DepDispatch, RemoteDispatch, Ends, Goto, Typed, WorkTyped
  <2> QED
    BY <2>1, <2>2, ShapedStep DEF Goal, Begun
<1>9. ASSUME NEW c \in Call, DepWait(c) \/ DepCheck(c) \/ DepAccept(c) PROVE Goal
  <2>1. UNCHANGED <<parent, comp, held>>
    BY <1>9 DEF DepWait, DepCheck, DepAccept, callVars
  <2>2. /\ \A d \in Call \ {c} : pc'[d] = pc[d]
        /\ pc[c] \in {"wait", "accept", "mark"} /\ pc'[c] \in {"accept", "mark", "close"}
    BY <1>9 DEF DepWait, DepAbort, DepReply, DepCheck, DepAccept, Ends, Goto, Typed, WorkTyped
  <2>3. parent[c] # 0
    BY <1>9 DEF DepWait, DepCheck, DepAccept, Shaped
  <2> QED
    BY <2>1, <2>2, <2>3, ShapedStep DEF Goal, Begun
<1>10. ASSUME NEW c \in Call, ForwardSettle(c) \/ DepClose(c) PROVE Goal
  <2>1. /\ UNCHANGED <<parent, comp>> /\ \A d \in Call \ {c} : held'[d] = held[d]
        /\ held'[c] = {}
    BY <1>10 DEF ForwardSettle, DepClose, Release, callVars, Typed, HostTyped
  <2>2. /\ \A d \in Call \ {c} : pc'[d] = pc[d]
        /\ pc[c] = "close" /\ pc'[c] = "done"
    BY <1>10 DEF ForwardSettle, DepClose, Goto, Typed, WorkTyped
  <2> QED
    BY <2>1, <2>2, ShapedStep DEF Goal, Begun
<1> QED
  BY <1>1, <1>2, <1>3, <1>4, <1>5, <1>6, <1>7, <1>8, <1>9, <1>10
     DEF Next, CallStep, CompStep, ForwardThread, DepThread, Goal

----------------------------------------------------------------------------
(* Waits and replies.                                                       *)

\* A wait without mail is on a session, or on one that is about to be swept.
Heard(c) ==
    pc[c] = "wait" /\ comp[c] \in Local /\ mail[c] = "none" => comp[c] \in sessions \cup dropping

\* A call of which a step touches nothing.
LEMMA ReplySame ==
    ASSUME NEW d \in Call, ReplyKept(d), Heard(d),
           d \in pending' <=> d \in pending, d \in ops' <=> d \in ops,
           mail'[d] = mail[d], pc'[d] = pc[d], comp'[d] = comp[d], parent'[d] = parent[d],
           sessions \cup dropping \subseteq sessions' \cup dropping'
    PROVE  ReplyKept(d)' /\ Heard(d)'
  BY DEF ReplyKept, Heard

\* The sweep of a lost session leaves a notice for every wait on it.
LEMMA SweepReplies ==
    ASSUME Typed, NEW s \in Comp, DropSweep(s), NEW d \in Call, ReplyKept(d), Heard(d)
    PROVE  ReplyKept(d)' /\ Heard(d)'
<1>0. /\ UNCHANGED <<pc, comp, parent, ops, sessions>>
      /\ pending' = pending \ {c \in pending : comp[c] = s}
      /\ mail'[d] = IF d \in pending /\ comp[d] = s THEN "gone" ELSE mail[d]
      /\ dropping' = dropping \ {s}
  BY DEF DropSweep, callVars, depVars
<1>1. CASE d \in pending /\ comp[d] = s
  BY <1>0, <1>1 DEF ReplyKept, Heard
<1>2. CASE ~(d \in pending /\ comp[d] = s)
  <2>1. ReplyKept(d)'
    BY <1>0, <1>2 DEF ReplyKept
  <2>2. Heard(d)'
    BY <1>0, <1>2 DEF ReplyKept, Heard
  <2> QED
    BY <2>1, <2>2
<1> QED
  BY <1>1, <1>2

\* The steps of a call leave the replies of the others.
LEMMA OtherReplies ==
    ASSUME Typed, NEW c \in Call, CallStep(c), NEW d \in Call \ {c}, ReplyKept(d), Heard(d)
    PROVE  ReplyKept(d)' /\ Heard(d)'
<1>1. /\ UNCHANGED <<sessions, dropping>>
      /\ d \in pending' <=> d \in pending
      /\ d \in ops' <=> d \in ops
      /\ mail'[d] = mail[d]
  <2>1. CASE \/ ClientCancel(c) \/ Revoke(c) \/ AdmitRegister(c) \/ AdmitRevalidate(c)
             \/ Forward(c) \/ \E p \in Call : DepOpen(c, p)
    BY <2>1 DEF ClientCancel, Revoke, AdmitRegister, AdmitRevalidate, Forward, DepOpen, hostVars,
       sessVars, replyVars, depVars
  <2>2. CASE DepCancel(c) \/ Answer(c) \/ RemoteTerminal(c)
    BY <2>2 DEF DepCancel, Answer, RemoteTerminal, sessVars, replyVars, depVars, Typed, HostTyped
  <2>3. CASE ForwardInsert(c) \/ ForwardSend(c) \/ ForwardWait(c) \/ DepSend(c)
    BY <2>3 DEF ForwardInsert, ForwardSend, ForwardWait, DepSend, sessVars, depVars
  <2>4. CASE ForwardSettle(c) \/ DepClose(c)
    BY <2>4 DEF ForwardSettle, DepClose, sessVars, depVars, Typed, HostTyped
  <2>5. CASE DepMap(c) \/ DepDispatch(c) \/ RemoteDispatch(c)
    BY <2>5 DEF DepMap, DepDispatch, RemoteDispatch, sessVars, replyVars, depVars
  <2>6. CASE DepWait(c) \/ DepCheck(c) \/ DepAccept(c)
    BY <2>6 DEF DepWait, DepCheck, DepAccept, sessVars, replyVars, depVars
  <2> QED
    BY <2>1, <2>2, <2>3, <2>4, <2>5, <2>6 DEF CallStep, ForwardThread, DepThread
<1>2. pc'[d] = pc[d] /\ comp'[d] = comp[d] /\ parent'[d] = parent[d]
  BY OtherWorker
<1> QED
  BY <1>1, <1>2, ReplySame

\* The steps of a call keep its own reply.
LEMMA OwnReply ==
    ASSUME Typed, NEW c \in Call, CallStep(c), Shaped(c), ReplyKept(c), Heard(c)
    PROVE  ReplyKept(c)' /\ Heard(c)'
<1> USE DEF sessVars, replyVars, depVars, hostVars, callVars
<1>1. CASE ClientCancel(c) \/ Revoke(c) \/ DepCancel(c)
  BY <1>1, ReplySame DEF ClientCancel, Revoke, DepCancel
<1>2. CASE Answer(c)
  <2>1. mail'[c] = "answer" /\ pending' = pending \ {c} /\ UNCHANGED <<pc, parent, comp, ops>>
    BY <1>2 DEF Answer, Typed, HostTyped
  <2> QED
    BY <1>2, <2>1 DEF Answer, ReplyKept, Heard
<1>3. CASE RemoteTerminal(c)
  <2>1. /\ mail'[c] \in {"answer", "gone"} /\ pc[c] = "wait" /\ comp[c] \notin Local
        /\ UNCHANGED <<pc, parent, comp, ops, pending>>
    BY <1>3 DEF RemoteTerminal, Typed, HostTyped, Local
  <2> QED
    BY <2>1 DEF ReplyKept, Heard
<1>4. CASE AdmitRegister(c) \/ AdmitRevalidate(c) \/ \E p \in Call : DepOpen(c, p)
  <2>1. /\ pc[c] \in {"idle", "register", "revalidate"} /\ pc'[c] \in {"register", "revalidate", "map", "done"}
        /\ UNCHANGED <<mail, pending, ops>>
    BY <1>4 DEF AdmitRegister, AdmitRevalidate, DepOpen, Goto, Typed, WorkTyped
  <2> QED
    BY <2>1 DEF ReplyKept, Heard
<1>5. CASE Forward(c) \/ DepMap(c)
  <2>1. /\ pc[c] \in {"idle", "map"} /\ pc'[c] \in {"insert", "dispatch", "close"}
        /\ UNCHANGED <<mail, pending, ops>>
    BY <1>5 DEF Forward, DepMap, Ends, Goto, Typed, WorkTyped
  <2> QED
    BY <2>1 DEF ReplyKept, Heard
<1>6. CASE ForwardInsert(c)
  <2>1. /\ pc[c] = "insert" /\ pc'[c] = "send" /\ pending' = pending \cup {c}
        /\ UNCHANGED <<mail, ops, comp, parent>>
    BY <1>6 DEF ForwardInsert, Goto, Typed, WorkTyped
  <2>2. comp[c] \in Local
    BY <2>1, Components DEF Shaped
  <2> QED
    BY <2>1, <2>2 DEF ReplyKept, Heard
<1>7. CASE ForwardSend(c) \/ DepSend(c)
  <2>1. /\ pc[c] = "send" /\ UNCHANGED <<mail, ops, comp, parent, sessions, dropping>>
        /\ \/ comp[c] \in sessions /\ pc'[c] = "wait" /\ pending' = pending
           \/ pending' = pending \ {c} /\ pc'[c] = "close"
    BY <1>7 DEF ForwardSend, DepSend, Ends, Goto, Typed, WorkTyped
  <2> QED
    BY <2>1 DEF ReplyKept, Heard
<1>8. CASE ForwardWait(c) \/ DepWait(c)
  <2>1. /\ pc[c] = "wait" /\ UNCHANGED <<mail, ops, comp, parent>>
        /\ pending' = pending \ {c} /\ pc'[c] \in {"close", "accept"}
    BY <1>8 DEF ForwardWait, DepWait, DepAbort, DepReply, Ends, Goto, Typed, WorkTyped
  <2> QED
    BY <2>1 DEF ReplyKept, Heard
<1>9. CASE DepCheck(c) \/ DepAccept(c)
  <2>1. /\ pc[c] \in {"accept", "mark"} /\ pc'[c] \in {"mark", "close"}
        /\ UNCHANGED <<mail, pending, ops, comp, parent>>
    BY <1>9 DEF DepCheck, DepAccept, Ends, Goto, Typed, WorkTyped
  <2> QED
    BY <2>1 DEF ReplyKept, Heard
<1>10. CASE ForwardSettle(c) \/ DepClose(c)
  <2>1. /\ pc[c] = "close" /\ pc'[c] = "done" /\ mail'[c] = "none"
        /\ UNCHANGED <<pending, comp, parent>>
        /\ ops' = ops \/ ops' = ops \ {c}
        /\ parent[c] = 0 \/ c \notin ops'
    BY <1>10 DEF ForwardSettle, DepClose, Goto, Typed, WorkTyped, HostTyped
  <2> QED
    BY <2>1 DEF ReplyKept, Heard
<1>11. CASE DepDispatch(c)
  <2>1. /\ pc[c] = "dispatch" /\ UNCHANGED <<mail, ops, comp, parent>> /\ comp[c] \in Local
        /\ \/ pending' = pending \cup {c} /\ pc'[c] = "send"
           \/ pending' = pending /\ pc'[c] = "close"
    BY <1>11 DEF DepDispatch, Ends, Goto, Typed, WorkTyped
  <2> QED
    BY <2>1 DEF ReplyKept, Heard
<1>12. CASE RemoteDispatch(c)
  <2>1. /\ pc[c] = "dispatch" /\ UNCHANGED <<mail, pending, comp, parent>> /\ comp[c] \notin Local
        /\ \/ ops' = ops \cup {c} /\ pc'[c] = "wait"
           \/ ops' = ops /\ pc'[c] = "close"
    BY <1>12 DEF RemoteDispatch, Ends, Goto, Typed, WorkTyped, Local
  <2>2. parent[c] # 0
    BY <2>1 DEF Shaped
  <2> QED
    BY <2>1, <2>2 DEF ReplyKept, Heard
<1> QED
  BY <1>1, <1>2, <1>3, <1>4, <1>5, <1>6, <1>7, <1>8, <1>9, <1>10, <1>11, <1>12
     DEF CallStep, ForwardThread, DepThread

\* Replies and waits are kept.
LEMMA Replies ==
    ASSUME Typed, [Next]_vars, \A d \in Call : Shaped(d) /\ ReplyKept(d) /\ Heard(d)
    PROVE  \A d \in Call : ReplyKept(d)' /\ Heard(d)'
<1>1. ASSUME NEW s \in Comp, CompStep(s), ~DropSweep(s), NEW d \in Call PROVE ReplyKept(d)' /\ Heard(d)'
  <2>1. /\ UNCHANGED <<pending, ops, mail, pc, comp, parent>>
        /\ sessions \cup dropping = sessions' \cup dropping'
    BY <1>1 DEF CompStep, Withdraw, WithdrawRevoke, WithdrawPark, RemoteProvider, DropSession,
       GrantSweep, GrantChange, callVars, hostVars, sessVars, replyVars, depVars
  <2> QED
    BY <2>1, ReplySame
<1>2. ASSUME NEW c \in Call, CallStep(c), NEW d \in Call PROVE ReplyKept(d)' /\ Heard(d)'
  BY <1>2, OwnReply, OtherReplies
<1>3. ASSUME UNCHANGED vars, NEW d \in Call PROVE ReplyKept(d)' /\ Heard(d)'
  BY <1>3, ReplySame DEF vars, callVars, hostVars, sessVars, replyVars, depVars
<1> QED
  BY <1>1, <1>2, <1>3, SweepReplies DEF Next, CallStep, CompStep

\* What WaitsMatchReplies says of every call.
LEMMA RepliesMatch ==
    ASSUME Typed
    PROVE  /\ WaitsMatchReplies => \A d \in Call : Heard(d)
           /\ (\A d \in Call : ReplyKept(d) /\ Heard(d)) => WaitsMatchReplies
  BY DEF WaitsMatchReplies, ReplyKept, Heard, Typed, HostTyped

----------------------------------------------------------------------------
(* Cancels.                                                                 *)

\* What a revocation does to a ticket that is not its own.
Weakened(d) == tk'[d] = tk[d] \/ (tk[d] = "Admitted" /\ tk'[d] = "Cancelled")

\* Nothing but a call's own steps does more to its ticket.
LEMMA OtherTicket ==
    ASSUME Typed, NEW c \in Call, CallStep(c), NEW d \in Call \ {c}
    PROVE  Weakened(d)
<1> USE DEF Weakened, Typed, KernelTyped, kernelVars
<1>1. CASE DepCancel(c) \/ ClientCancel(c) \/ Revoke(c)
  BY <1>1, CancelledTyped DEF DepCancel, ClientCancel, Revoke
<1>2. CASE \/ Answer(c) \/ RemoteTerminal(c) \/ Forward(c) \/ AdmitRegister(c) \/ AdmitRevalidate(c)
           \/ \E p \in Call : DepOpen(c, p)
  BY <1>2 DEF Answer, RemoteTerminal, Forward, AdmitRegister, AdmitRevalidate, DepOpen
<1>3. CASE ForwardThread(c)
  BY <1>3 DEF ForwardThread, ForwardInsert, ForwardSend, ForwardWait, ForwardSettle, Settled
<1>4. CASE \/ DepMap(c) \/ DepDispatch(c) \/ RemoteDispatch(c) \/ DepSend(c) \/ DepCheck(c)
           \/ DepAccept(c) \/ DepClose(c)
  BY <1>4 DEF DepMap, DepDispatch, RemoteDispatch, DepSend, DepCheck, DepAccept, DepClose, Settled
<1>5. CASE DepWait(c)
  BY <1>5 DEF DepWait, DepAbort, DepReply
<1> QED
  BY <1>1, <1>2, <1>3, <1>4, <1>5 DEF CallStep, DepThread

\* Nor does a step of the kernel or of a session.
LEMMA CompTicket ==
    ASSUME Typed, NEW s \in Comp, CompStep(s), NEW d \in Call
    PROVE  Weakened(d)
<1>1. CASE WithdrawRevoke(s) \/ DropSweep(s) \/ GrantSweep(s)
  BY <1>1, CancelledTyped DEF WithdrawRevoke, DropSweep, GrantSweep, Weakened
<1>2. CASE \/ Withdraw(s) \/ WithdrawPark(s) \/ RemoteProvider(s) \/ DropSession(s)
           \/ \E b \in BOOLEAN : GrantChange(s, b)
  BY <1>2 DEF Withdraw, WithdrawPark, RemoteProvider, DropSession, GrantChange, kernelVars, Weakened
<1> QED
  BY <1>1, <1>2 DEF CompStep

\* A cancel that was answered "revoked" keeps the success out.
NotOk(c) == told[c] = "revoked" => out[c] # "ok"

\* A call of which a step touches the ticket at most, and only by a revocation.
LEMMA CancelSame ==
    ASSUME NEW d \in Call, CancelKept(d), NotOk(d), Weakened(d),
           pc'[d] = pc[d], out'[d] = out[d], told'[d] = told[d], parent'[d] = parent[d],
           d \in mapped' <=> d \in mapped, d \in wanted' <=> d \in wanted
    PROVE  CancelKept(d)' /\ NotOk(d)'
  BY DEF CancelKept, NotOk, Weakened

\* The steps of a call leave the cancels of the others.
LEMMA OtherCancels ==
    ASSUME Typed, NEW c \in Call, CallStep(c), NEW d \in Call \ {c}, CancelKept(d), NotOk(d)
    PROVE  CancelKept(d)' /\ NotOk(d)'
<1>1. told'[d] = told[d] /\ (d \in mapped' <=> d \in mapped) /\ (d \in wanted' <=> d \in wanted)
  <2> USE DEF hostVars, depVars
  <2>1. CASE \/ ClientCancel(c) \/ Revoke(c) \/ AdmitRegister(c) \/ AdmitRevalidate(c)
             \/ Forward(c) \/ \E p \in Call : DepOpen(c, p)
    BY <2>1 DEF ClientCancel, Revoke, AdmitRegister, AdmitRevalidate, Forward, DepOpen
  <2>2. CASE DepCancel(c) \/ Answer(c) \/ RemoteTerminal(c)
    BY <2>2 DEF DepCancel, Answer, RemoteTerminal, Typed, HostTyped
  <2>3. CASE ForwardThread(c)
    BY <2>3 DEF ForwardThread, ForwardInsert, ForwardSend, ForwardWait, ForwardSettle
  <2>4. CASE DepThread(c) /\ ~AdmitRegister(c) /\ ~AdmitRevalidate(c)
    BY <2>4 DEF DepThread, DepMap, DepDispatch, RemoteDispatch, DepSend, DepWait, DepCheck,
       DepAccept, DepClose
  <2> QED
    BY <2>1, <2>2, <2>3, <2>4 DEF CallStep
<1> QED
  BY <1>1, OtherWorker, OtherTicket, CancelSame

\* The steps of a call keep its own cancel.
LEMMA OwnCancel ==
    ASSUME Typed, NEW c \in Call, CallStep(c), Shaped(c), CancelKept(c), NotOk(c)
    PROVE  CancelKept(c)' /\ NotOk(c)'
<1> USE DEF sessVars, replyVars, depVars, hostVars, callVars, kernelVars
<1>1. CASE ClientCancel(c) \/ Revoke(c)
  <2>1. Weakened(c)
    BY <1>1, CancelledTyped DEF ClientCancel, Revoke, Weakened
  <2> QED
    BY <1>1, <2>1, CancelSame DEF ClientCancel, Revoke
<1>2. CASE Answer(c) \/ RemoteTerminal(c)
  BY <1>2, CancelSame DEF Answer, RemoteTerminal, Weakened
<1>3. CASE DepCancel(c)
  <2>0. /\ UNCHANGED <<pc, out, parent, mapped>> /\ parent[c] # 0
    BY <1>3 DEF DepCancel
  <2>1. CASE c \in mapped /\ UNCHANGED wanted
    <3>1. \/ tk[c] = "Admitted" /\ tk'[c] = "Cancelled" /\ told'[c] = "revoked"
          \/ tk[c] # "Admitted" /\ tk'[c] = tk[c] /\ told'[c] = "terminal"
          \/ pc[c] \in {"register", "revalidate", "map"}
      BY <1>3, <2>1, CancelledTyped DEF DepCancel, Typed, HostTyped
    <3> QED
      BY <2>0, <2>1, <3>1 DEF CancelKept, NotOk
  <2>2. CASE /\ pc[c] \in {"register", "revalidate", "map"} /\ wanted' = wanted \cup {c}
             /\ told' = [told EXCEPT ![c] = "revoked"] /\ UNCHANGED tk
    BY <2>0, <2>2 DEF CancelKept, NotOk, Typed, HostTyped
  <2> QED
    BY <1>3, <2>1, <2>2 DEF DepCancel
<1>4. CASE Forward(c) \/ ForwardInsert(c)
  <2>1. /\ parent'[c] = 0 /\ parent[c] = 0 /\ UNCHANGED <<told, mapped>> /\ pc[c] \in {"idle", "insert"}
    BY <1>4 DEF Forward, ForwardInsert, Shaped
  <2>2. \/ pc'[c] = "close"
        \/ pc'[c] \in {"insert", "send"} /\ out'[c] = out[c]
    BY <1>4 DEF Forward, ForwardInsert, Ends, Goto, Typed, WorkTyped
  <2> QED
    BY <2>1, <2>2 DEF CancelKept, NotOk
<1>5. CASE \E p \in Call : DepOpen(c, p)
  <2>1. /\ parent[c] = 0 /\ UNCHANGED <<told, mapped, out>> /\ pc[c] = "idle"
        /\ pc'[c] \in {"done", "register"}
    BY <1>5 DEF DepOpen, Shaped, Goto, Typed, WorkTyped
  <2> QED
    BY <2>1 DEF CancelKept, NotOk
<1>6. CASE ForwardSend(c) \/ ForwardWait(c)
  <2>1. /\ parent[c] = 0 /\ UNCHANGED <<parent, told, mapped>> /\ pc[c] \in {"send", "wait"}
    BY <1>6 DEF ForwardSend, ForwardWait
  <2>2. \/ pc'[c] = "close"
        \/ pc'[c] = "wait" /\ out'[c] = out[c]
    BY <1>6 DEF ForwardSend, ForwardWait, Ends, Goto, Typed, WorkTyped
  <2> QED
    BY <2>1, <2>2 DEF CancelKept, NotOk
<1>7. CASE ForwardSettle(c) \/ DepClose(c)
  <2>1. /\ UNCHANGED <<parent, told, mapped>> /\ pc'[c] = "done" /\ out'[c] = "none"
    BY <1>7 DEF ForwardSettle, DepClose, Goto, Typed, WorkTyped
  <2> QED
    BY <2>1 DEF CancelKept, NotOk
<1>8. CASE AdmitRegister(c) \/ AdmitRevalidate(c)
  <2>1. /\ UNCHANGED <<parent, told, mapped, wanted, out>> /\ pc[c] \in {"register", "revalidate"}
        /\ pc'[c] \in {"revalidate", "map", "done"}
    BY <1>8 DEF AdmitRegister, AdmitRevalidate, Goto, Typed, WorkTyped
  <2> QED
    BY <2>1 DEF CancelKept, NotOk
<1>9. CASE DepMap(c)
  <2>1. /\ UNCHANGED <<parent, told, tk>> /\ pc[c] = "map"
        /\ \/ pc'[c] = "close" /\ out'[c] \in {"cancelled", "silent"}
           \/ pc'[c] = "dispatch" /\ out'[c] = out[c] /\ c \notin wanted
        /\ c \in mapped' => c \in mapped \/ pc'[c] \in {"dispatch", "close"}
    BY <1>9 DEF DepMap, Ends, Goto, Typed, WorkTyped
  <2> QED
    BY <2>1 DEF CancelKept, NotOk
<1>10. CASE DepDispatch(c) \/ RemoteDispatch(c) \/ DepSend(c)
  <2>0. DispatchRefusal(c) # "ok"
    BY DEF DispatchRefusal
  <2>1. /\ UNCHANGED <<parent, told, tk, mapped, wanted>> /\ pc[c] \in {"dispatch", "send"}
        /\ \/ pc'[c] = "close" /\ out'[c] # "ok"
           \/ pc'[c] \in {"send", "wait"} /\ out'[c] = out[c]
    BY <1>10, <2>0 DEF DepDispatch, RemoteDispatch, DepSend, Ends, Goto, Typed, WorkTyped
  <2> QED
    BY <2>1 DEF CancelKept, NotOk
<1>11. CASE DepWait(c)
  <2>1. /\ UNCHANGED <<parent, told, mapped, wanted>> /\ pc[c] = "wait"
        /\ \/ pc'[c] = "close" /\ out'[c] # "ok"
           \/ pc'[c] = "accept" /\ out'[c] = out[c]
        /\ tk'[c] = tk[c] \/ (tk[c] = "Admitted" /\ tk'[c] = "Expired")
    BY <1>11 DEF DepWait, DepAbort, DepReply, Ends, Goto, Typed, WorkTyped, KernelTyped
  <2> QED
    BY <2>1 DEF CancelKept, NotOk
<1>12. CASE DepCheck(c)
  <2>1. /\ UNCHANGED <<parent, told, mapped, wanted>> /\ pc[c] = "accept"
        /\ \/ pc'[c] = "close" /\ out'[c] # "ok"
           \/ pc'[c] = "mark" /\ out'[c] = out[c]
        /\ tk'[c] = tk[c] \/ tk'[c] = "Expired"
    BY <1>12 DEF DepCheck, Ends, Goto, Typed, WorkTyped, KernelTyped
  <2> QED
    BY <2>1 DEF CancelKept, NotOk
<1>13. CASE DepAccept(c)
  <2>1. /\ UNCHANGED <<parent, told, mapped, wanted>> /\ pc[c] = "mark" /\ pc'[c] = "close"
        /\ \/ out'[c] = "cancelled"
           \/ out'[c] = "ok" /\ tk[c] = "Admitted" /\ tk'[c] = "Committed"
    BY <1>13 DEF DepAccept, Ends, Goto, Typed, WorkTyped, KernelTyped
  <2> QED
    BY <2>1 DEF CancelKept, NotOk
<1> QED
  BY <1>1, <1>2, <1>3, <1>4, <1>5, <1>6, <1>7, <1>8, <1>9, <1>10, <1>11, <1>12, <1>13
     DEF CallStep, ForwardThread, DepThread

\* The cancels are kept.
LEMMA Cancels ==
    ASSUME Typed, [Next]_vars, \A d \in Call : Shaped(d) /\ CancelKept(d) /\ NotOk(d)
    PROVE  \A d \in Call : CancelKept(d)' /\ NotOk(d)'
<1>1. ASSUME NEW s \in Comp, CompStep(s), NEW d \in Call PROVE CancelKept(d)' /\ NotOk(d)'
  <2>1. UNCHANGED <<pc, out, told, parent, mapped, wanted>>
    BY <1>1 DEF CompStep, Withdraw, WithdrawRevoke, WithdrawPark, RemoteProvider, DropSession,
       DropSweep, GrantSweep, GrantChange, callVars, hostVars, depVars
  <2> QED
    BY <1>1, <2>1, CompTicket, CancelSame
<1>2. ASSUME NEW c \in Call, CallStep(c), NEW d \in Call PROVE CancelKept(d)' /\ NotOk(d)'
  BY <1>2, OwnCancel, OtherCancels
<1>3. ASSUME UNCHANGED vars, NEW d \in Call PROVE CancelKept(d)' /\ NotOk(d)'
  BY <1>3, CancelSame DEF vars, callVars, hostVars, depVars, kernelVars, Weakened
<1> QED
  BY <1>1, <1>2, <1>3 DEF Next, CallStep, CompStep

----------------------------------------------------------------------------
(* Authority.                                                               *)

\* A call keeps its authority when its chain, its revision and its consumer are as they
\* were, or whoever changed them has still to revoke it.
LEMMA AuthoritySame ==
    ASSUME NEW d \in Call, AuthorityKept(d),
           tk'[d] = "Admitted" => tk[d] = "Admitted",
           pc'[d] = pc[d], parent'[d] = parent[d], comp'[d] = comp[d], rev'[d] = rev[d],
           pc[d] = "mark" /\ tk'[d] = "Admitted" =>
              /\ tk'[parent[d]] = "closed" =>
                    \/ parent[d] \in owed'
                    \/ tk[parent[d]] = "closed" /\ (parent[d] \in owed => parent[d] \in owed')
              /\ \/ Consumer(d) \in sweeping'
                 \/ rev[d] = grant'[Consumer(d)]
                 \/ /\ grant'[Consumer(d)] = grant[Consumer(d)]
                    /\ Consumer(d) \in sweeping => Consumer(d) \in sweeping'
              /\ \/ wd'[Consumer(d)] = "claimed"
                 \/ Consumer(d) \in live'
                 \/ Consumer(d) \notin live /\ wd[Consumer(d)] # "claimed"
    PROVE  AuthorityKept(d)'
  BY DEF AuthorityKept, Consumer

\* The steps of the kernel and of sessions.
LEMMA CompAuthority ==
    ASSUME Typed, NEW s \in Comp, CompStep(s), NEW d \in Call, Shaped(d), AuthorityKept(d)
    PROVE  AuthorityKept(d)'
<1> USE DEF kernelVars, grantVars, callVars, Weakened
<1>0. /\ UNCHANGED <<pc, parent, comp, rev>>
      /\ Weakened(d)
      /\ owed \subseteq owed'
  BY CompTicket DEF CompStep, Withdraw, WithdrawRevoke, WithdrawPark, RemoteProvider, DropSession,
     DropSweep, GrantSweep, GrantChange
<1>1. CASE pc[d] # "mark"
  BY <1>0, <1>1 DEF AuthorityKept
<1>2. CASE pc[d] = "mark"
  <2>1. parent[d] \in Call /\ parent[d] # 0 /\ Consumer(d) \in Local
    BY <1>2 DEF Shaped
  <2>2. tk'[parent[d]] = "closed" => tk[parent[d]] = "closed"
    BY <2>1, CompTicket
  <2>3. CASE Withdraw(s)
    <3>1. /\ UNCHANGED <<grant, sweeping>>
          /\ \/ wd'[Consumer(d)] = "claimed"
             \/ /\ Consumer(d) \in live' <=> Consumer(d) \in live
                /\ wd'[Consumer(d)] = wd[Consumer(d)]
      BY <2>1, <2>3, Components DEF Withdraw, Typed, KernelTyped
    <3> QED
      BY <1>0, <2>2, <3>1, AuthoritySame
  <2>4. CASE WithdrawRevoke(s)
    <3>1. UNCHANGED <<grant, sweeping, live>>
      BY <2>4 DEF WithdrawRevoke
    <3>2. tk'[d] = "Admitted" => Consumer(d) # s
      BY <2>1, <2>4, CancelledTyped DEF WithdrawRevoke
    <3>3. Consumer(d) # s => wd'[Consumer(d)] = wd[Consumer(d)]
      BY <2>4 DEF WithdrawRevoke, Typed, KernelTyped
    <3> QED
      BY <1>0, <2>2, <3>1, <3>2, <3>3, AuthoritySame
  <2>5. CASE WithdrawPark(s)
    <3>1. UNCHANGED <<grant, sweeping, live>> /\ (wd[Consumer(d)] = "claimed" => wd'[Consumer(d)] = "claimed")
      BY <2>1, <2>5, Components DEF WithdrawPark, Typed, KernelTyped
    <3> QED
      BY <1>0, <2>2, <3>1, AuthoritySame
  <2>6. CASE RemoteProvider(s)
    <3>1. UNCHANGED <<grant, sweeping, wd>> /\ (Consumer(d) \in live' <=> Consumer(d) \in live)
      BY <2>1, <2>6 DEF RemoteProvider, Local
    <3> QED
      BY <1>0, <2>2, <3>1, AuthoritySame
  <2>7. CASE \E b \in BOOLEAN : GrantChange(s, b)
    <3>1. /\ UNCHANGED <<live, wd>> /\ sweeping' = sweeping \cup {s}
          /\ Consumer(d) # s => grant'[Consumer(d)] = grant[Consumer(d)]
      BY <2>1, <2>7, Components DEF GrantChange, Typed, KernelTyped
    <3> QED
      BY <1>0, <2>2, <3>1, AuthoritySame
  <2>8. CASE GrantSweep(s)
    <3>1. UNCHANGED <<live, wd, grant>> /\ sweeping' = sweeping \ {s}
      BY <2>8 DEF GrantSweep
    <3>2. tk'[d] = "Admitted" /\ Consumer(d) = s => rev[d] = grant[Consumer(d)]
      BY <2>1, <2>8, CancelledTyped DEF GrantSweep
    <3> QED
      BY <1>0, <2>2, <3>1, <3>2, AuthoritySame
  <2>9. CASE DropSession(s) \/ DropSweep(s)
    <3>1. UNCHANGED <<live, wd, grant, sweeping>>
      BY <2>9 DEF DropSession, DropSweep
    <3> QED
      BY <1>0, <2>2, <3>1, AuthoritySame
  <2> QED
    BY <2>3, <2>4, <2>5, <2>6, <2>7, <2>8, <2>9 DEF CompStep
<1> QED
  BY <1>1, <1>2

\* The steps of a call leave admission and grants; they keep what withdraws have claimed,
\* and what an ended ticket owes, unless they pay it.
LEMMA CallKernel ==
    ASSUME Typed, NEW c \in Call, CallStep(c), Shaped(c)
    PROVE  /\ UNCHANGED <<live, grant, sweeping>>
           /\ \A s \in Comp : wd[s] = "claimed" => wd'[s] = "claimed"
           /\ owed \ {c} \subseteq owed'
           /\ ~Revoke(c) => owed \subseteq owed'
           /\ tk'[c] = "closed" /\ ~Revoke(c) => \/ tk[c] = "closed" \/ c \in owed' \/ pc[c] = "revalidate"
           /\ \A d \in Call \ {c} : rev'[d] = rev[d]
<1> USE DEF kernelVars, grantVars, callVars, Typed, KernelTyped, CallTyped
<1>1. CASE ClientCancel(c) \/ DepCancel(c) \/ Revoke(c)
  <2>1. tk'[c] = "closed" => tk[c] = "closed"
    BY <1>1, CancelledTyped DEF ClientCancel, DepCancel, Revoke
  <2> QED
    BY <1>1, <2>1 DEF ClientCancel, DepCancel, Revoke
<1>2. CASE \/ Answer(c) \/ RemoteTerminal(c) \/ Forward(c) \/ AdmitRegister(c) \/ AdmitRevalidate(c)
           \/ \E p \in Call : DepOpen(c, p)
  BY <1>2 DEF Answer, RemoteTerminal, Forward, AdmitRegister, AdmitRevalidate, DepOpen
<1>3. CASE ForwardInsert(c) \/ ForwardSend(c) \/ ForwardWait(c)
  BY <1>3 DEF ForwardInsert, ForwardSend, ForwardWait
<1>4. CASE \/ DepMap(c) \/ DepDispatch(c) \/ RemoteDispatch(c) \/ DepSend(c) \/ DepCheck(c)
           \/ DepAccept(c)
  BY <1>4 DEF DepMap, DepDispatch, RemoteDispatch, DepSend, DepCheck, DepAccept
<1>5. CASE DepWait(c)
  BY <1>5 DEF DepWait, DepAbort, DepReply
<1>6. CASE ForwardSettle(c) \/ DepClose(c)
  <2>1. comp[c] \in Comp
    BY <1>6 DEF ForwardSettle, DepClose, Shaped
  <2>2. /\ owed' = owed \cup {c} /\ UNCHANGED <<live, grant, sweeping>>
        /\ wd' = wd \/ (wd[comp[c]] = "parked" /\ wd' = [wd EXCEPT ![comp[c]] = "disposed"])
        /\ \A d \in Call \ {c} : rev'[d] = rev[d]
    BY <1>6 DEF ForwardSettle, DepClose, Settled
  <2> QED
    BY <2>1, <2>2
<1> QED
  BY <1>1, <1>2, <1>3, <1>4, <1>5, <1>6 DEF CallStep, ForwardThread, DepThread

\* The steps of a call leave the authority of the others, or revoke it.
LEMMA OtherAuthority ==
    ASSUME Typed, NEW c \in Call, CallStep(c), Shaped(c), NEW d \in Call \ {c}, Shaped(d), AuthorityKept(d)
    PROVE  AuthorityKept(d)'
<1>0. /\ pc'[d] = pc[d] /\ parent'[d] = parent[d] /\ comp'[d] = comp[d]
      /\ rev'[d] = rev[d] /\ Weakened(d)
  BY OtherWorker, OtherTicket, CallKernel
<1>1. CASE pc[d] # "mark"
  BY <1>0, <1>1 DEF AuthorityKept
<1>2. CASE pc[d] = "mark"
  <2>1. parent[d] \in Call /\ Consumer(d) \in Comp /\ pc[parent[d]] # "revalidate"
    BY <1>2, Components DEF Shaped
  <2>2. UNCHANGED <<live, grant, sweeping>> /\ (wd[Consumer(d)] = "claimed" => wd'[Consumer(d)] = "claimed")
    BY <2>1, CallKernel
  <2>3. CASE parent[d] # c
    <3>1. (tk'[parent[d]] = "closed" => tk[parent[d]] = "closed") /\ (parent[d] \in owed => parent[d] \in owed')
      BY <2>1, <2>3, OtherTicket, CallKernel DEF Weakened
    <3> QED
      BY <1>0, <2>2, <3>1, AuthoritySame DEF Weakened
  <2>4. CASE parent[d] = c /\ ~Revoke(c)
    <3>1. /\ tk'[c] = "closed" => tk[c] = "closed" \/ c \in owed'
          /\ c \in owed => c \in owed'
      BY <2>1, <2>4, CallKernel
    <3> QED
      BY <1>0, <2>2, <2>4, <3>1, AuthoritySame DEF Weakened
  <2>5. CASE parent[d] = c /\ Revoke(c)
    <3>1. tk'[d] # "Admitted"
      BY <2>5, CancelledTyped DEF Revoke, Children
    <3> QED
      BY <3>1 DEF AuthorityKept
  <2> QED
    BY <2>3, <2>4, <2>5
<1> QED
  BY <1>1, <1>2

\* A call has its authority when it comes to the mark, and no other step of its own
\* changes the chain.
LEMMA OwnAuthority ==
    ASSUME Typed, NEW c \in Call, CallStep(c), Shaped(c), AuthorityKept(c)
    PROVE  AuthorityKept(c)'
<1> USE DEF kernelVars, grantVars, callVars
<1>1. CASE DepCancel(c) \/ Revoke(c)
  <2>0. UNCHANGED <<pc, parent, comp, rev, live, wd, grant, sweeping>> /\ parent \in [Call -> 0..MaxCall]
    BY <1>1 DEF DepCancel, Revoke, Typed, CallTyped
  <2>1. \A d \in Call : Weakened(d)
    BY <1>1, CancelledTyped DEF DepCancel, Revoke, Weakened
  <2>2. pc[c] = "mark" => parent[c] \in Call
    BY DEF Shaped
  <2>3. tk'[c] = "Admitted" /\ pc[c] = "mark" /\ parent[c] \in owed => parent[c] \in owed'
    BY <1>1, <2>2, CancelledTyped DEF DepCancel, Revoke, Children
  <2> QED
    BY <2>0, <2>1, <2>2, <2>3, AuthoritySame DEF Weakened
<1>2. CASE ClientCancel(c) \/ Answer(c) \/ RemoteTerminal(c)
  <2>1. pc' = pc /\ pc[c] # "mark"
    BY <1>2 DEF ClientCancel, Answer, RemoteTerminal, Shaped
  <2> QED
    BY <2>1 DEF AuthorityKept
<1>3. CASE \/ Forward(c) \/ AdmitRegister(c) \/ AdmitRevalidate(c) \/ \E p \in Call : DepOpen(c, p)
  <2>1. pc'[c] # "mark"
    BY <1>3 DEF Forward, AdmitRegister, AdmitRevalidate, DepOpen, Ends, Goto, Typed, WorkTyped
  <2> QED
    BY <2>1 DEF AuthorityKept
<1>4. CASE ForwardThread(c) \/ DepSend(c) \/ DepMap(c) \/ DepAccept(c) \/ DepClose(c)
  <2>1. pc'[c] # "mark"
    BY <1>4 DEF ForwardThread, ForwardInsert, ForwardSend, ForwardWait, ForwardSettle, DepSend,
       DepMap, DepAccept, DepClose, Ends, Goto, Typed, WorkTyped
  <2> QED
    BY <2>1 DEF AuthorityKept
<1>5. CASE DepDispatch(c) \/ RemoteDispatch(c) \/ DepWait(c)
  <2>1. pc'[c] # "mark"
    BY <1>5 DEF DepDispatch, RemoteDispatch, DepWait, DepAbort, DepReply, Ends, Goto, Typed, WorkTyped
  <2> QED
    BY <2>1 DEF AuthorityKept
<1>6. CASE DepCheck(c)
  <2>1. \/ pc'[c] # "mark"
        \/ ChainHolds(c) /\ UNCHANGED tk
    BY <1>6 DEF DepCheck, Ends, Goto, Typed, WorkTyped
  <2>2. UNCHANGED <<parent, comp, rev, live, wd, grant, sweeping, owed>>
    BY <1>6 DEF DepCheck
  <2> QED
    BY <2>1, <2>2 DEF AuthorityKept, ChainHolds, Consumer
<1> QED
  BY <1>1, <1>2, <1>3, <1>4, <1>5, <1>6 DEF CallStep, DepThread

\* The authority of every call about to be accepted is kept.
LEMMA Authority ==
    ASSUME Typed, [Next]_vars, \A d \in Call : Shaped(d) /\ AuthorityKept(d)
    PROVE  \A d \in Call : AuthorityKept(d)'
<1>1. ASSUME NEW s \in Comp, CompStep(s), NEW d \in Call PROVE AuthorityKept(d)'
  BY <1>1, CompAuthority
<1>2. ASSUME NEW c \in Call, CallStep(c), NEW d \in Call PROVE AuthorityKept(d)'
  BY <1>2, OwnAuthority, OtherAuthority
<1>3. ASSUME UNCHANGED vars, NEW d \in Call PROVE AuthorityKept(d)'
  BY <1>3 DEF vars, kernelVars, grantVars, callVars, AuthorityKept, Consumer
<1> QED
  BY <1>1, <1>2, <1>3 DEF Next, CallStep, CompStep

\* Only the mark commits a ticket.
LEMMA CommitStep ==
    ASSUME Typed, [Next]_vars, NEW d \in Call, tk[d] # "Committed", tk'[d] = "Committed"
    PROVE  pc[d] = "mark" /\ tk[d] = "Admitted"
<1> USE DEF Typed, KernelTyped, kernelVars
<1>1. ASSUME NEW s \in Comp, CompStep(s) PROVE FALSE
  BY <1>1, CompTicket DEF Weakened
<1>2. ASSUME NEW c \in Call \ {d}, CallStep(c) PROVE FALSE
  BY <1>2, OtherTicket DEF Weakened
<1>3. ASSUME CallStep(d) PROVE pc[d] = "mark" /\ tk[d] = "Admitted"
  <2>1. CASE DepCancel(d) \/ ClientCancel(d) \/ Revoke(d)
    BY <2>1, CancelledTyped DEF DepCancel, ClientCancel, Revoke
  <2>2. CASE \/ Answer(d) \/ RemoteTerminal(d) \/ Forward(d) \/ AdmitRegister(d) \/ AdmitRevalidate(d)
             \/ \E p \in Call : DepOpen(d, p)
    BY <2>2 DEF Answer, RemoteTerminal, Forward, AdmitRegister, AdmitRevalidate, DepOpen
  <2>3. CASE ForwardThread(d)
    BY <2>3 DEF ForwardThread, ForwardInsert, ForwardSend, ForwardWait, ForwardSettle, Settled
  <2>4. CASE \/ DepMap(d) \/ DepDispatch(d) \/ RemoteDispatch(d) \/ DepSend(d) \/ DepCheck(d)
             \/ DepAccept(d) \/ DepClose(d)
    BY <2>4 DEF DepMap, DepDispatch, RemoteDispatch, DepSend, DepCheck, DepAccept, DepClose, Settled
  <2>5. CASE DepWait(d)
    BY <2>5 DEF DepWait, DepAbort, DepReply
  <2> QED
    BY <1>3, <2>1, <2>2, <2>3, <2>4, <2>5 DEF CallStep, DepThread
<1>4. CASE UNCHANGED vars
  BY <1>4 DEF vars
<1> QED
  BY <1>1, <1>2, <1>3, <1>4 DEF Next, CallStep, CompStep

----------------------------------------------------------------------------
(* Quotas: what a call counts for, and what the counters should be.         *)

IsOpened(c, s) == parent[c] # 0 /\ Consumer(c) = s /\ pc[c] \notin {"idle", "done"}
IsCounted(c, s) == "count" \in held[c] /\ comp[c] = s
IsCharged(c, s) == "charge" \in held[c] /\ Payer(c) = s
IsDelivering(c, s) == pc[c] \in {"accept", "mark"} /\ Payer(c) = s

Opened(s) == {c \in Call : IsOpened(c, s)}
Counted(s) == {c \in Call : IsCounted(c, s)}
Charged(s) == {c \in Call : IsCharged(c, s)}
Delivering(s) == {c \in Call : IsDelivering(c, s)}

DepExact(s) == depUse[s] \in 0..MaxDeps /\ depUse[s] = Cardinality(Opened(s))
CountExact(s) ==
    /\ inflight[s] \in 0..MaxInFlight
    /\ s \in sessions => inflight[s] = Cardinality(Counted(s))
ChargeExact(s) ==
    /\ used[s] \in 0..SendQuota
    /\ s \in sessions => used[s] = Cardinality(Charged(s)) + Cardinality(Delivering(s))

\* QuotasExact in these terms.
LEMMA Exact ==
    ASSUME CountersTyped
    PROVE  QuotasExact <=> \A s \in Comp : DepExact(s) /\ CountExact(s) /\ ChargeExact(s)
<1>1. MaxDeps \in Nat /\ MaxInFlight \in Nat /\ SendQuota \in Nat
  BY CallsAssumption
<1>2. \A s \in Comp : /\ depUse[s] \in 0..MaxDeps /\ inflight[s] \in 0..MaxInFlight
                      /\ used[s] \in 0..SendQuota
  BY DEF CountersTyped
<1>3. \A s \in Comp : /\ depUse[s] <= MaxDeps /\ inflight[s] <= MaxInFlight /\ used[s] <= SendQuota
  BY <1>1, <1>2
<1> QED
  BY <1>2, <1>3 DEF QuotasExact, DepExact, CountExact, ChargeExact, Opened, Counted, Charged,
     Delivering, IsOpened, IsCounted, IsCharged, IsDelivering

\* A set of calls that differs from another in one call at most.
LEMMA CardStep ==
    ASSUME NEW S \in SUBSET Call, NEW T \in SUBSET Call, NEW c \in Call,
           \A d \in Call \ {c} : d \in T <=> d \in S
    PROVE  /\ Cardinality(S) \in Nat /\ Cardinality(T) \in Nat
           /\ (c \in T <=> c \in S) => Cardinality(T) = Cardinality(S)
           /\ c \in T /\ c \notin S => Cardinality(T) = Cardinality(S) + 1
           /\ c \in S /\ c \notin T => Cardinality(S) = Cardinality(T) + 1
<1>1. IsFiniteSet(Call)
  BY CallsAssumption, FS_Interval DEF Call
<1>2. IsFiniteSet(S) /\ IsFiniteSet(T) /\ Cardinality(S) \in Nat /\ Cardinality(T) \in Nat
  BY <1>1, FS_Subset, FS_CardinalityType
<1>3. CASE c \in T <=> c \in S
  <2>1. S = T
    BY <1>3
  <2> QED
    BY <1>2, <1>3, <2>1
<1>4. CASE c \in T /\ c \notin S
  <2>1. T = S \cup {c}
    BY <1>4
  <2> QED
    BY <1>2, <1>4, <2>1, FS_AddElement
<1>5. CASE c \in S /\ c \notin T
  <2>1. S = T \cup {c}
    BY <1>5
  <2> QED
    BY <1>2, <1>5, <2>1, FS_AddElement
<1> QED
  BY <1>2, <1>3, <1>4, <1>5

\* The steps of a call leave what the others count for.
LEMMA OtherQuota ==
    ASSUME Typed, NEW c \in Call, CallStep(c), NEW s \in Comp, NEW d \in Call \ {c}
    PROVE  /\ IsOpened(d, s)' <=> IsOpened(d, s)
           /\ IsCounted(d, s)' <=> IsCounted(d, s)
           /\ IsCharged(d, s)' <=> IsCharged(d, s)
           /\ IsDelivering(d, s)' <=> IsDelivering(d, s)
<1>1. /\ pc'[d] = pc[d] /\ comp'[d] = comp[d] /\ parent'[d] = parent[d] /\ held'[d] = held[d]
  BY OtherWorker
<1> QED
  BY <1>1 DEF IsOpened, IsCounted, IsCharged, IsDelivering, Payer, Consumer

----------------------------------------------------------------------------
(* Reservations of dependency calls.                                        *)

\* A reservation is taken by the step that opens the call, and given back by the one
\* that ends it.
LEMMA OwnReservation ==
    ASSUME Typed, CountersTyped, NEW c \in Call, CallStep(c), Shaped(c), NEW s \in Comp
    PROVE  \/ (IsOpened(c, s)' <=> IsOpened(c, s)) /\ depUse'[s] = depUse[s]
           \/ ~IsOpened(c, s) /\ IsOpened(c, s)' /\ depUse'[s] = depUse[s] + 1 /\ depUse[s] < MaxDeps
           \/ IsOpened(c, s) /\ ~IsOpened(c, s)' /\ depUse'[s] = depUse[s] - 1
<1> USE DEF kernelVars, grantVars, callVars
<1>1. CASE DepCancel(c) \/ ClientCancel(c) \/ Answer(c) \/ RemoteTerminal(c) \/ Revoke(c)
  <2>1. UNCHANGED <<parent, comp, pc, depUse>>
    BY <1>1 DEF DepCancel, ClientCancel, Answer, RemoteTerminal, Revoke
  <2> QED
    BY <2>1 DEF IsOpened, Consumer
<1>2. CASE Forward(c) \/ ForwardThread(c)
  <2>1. UNCHANGED <<parent, depUse>> /\ parent[c] = 0
    BY <1>2 DEF Forward, ForwardThread, ForwardInsert, ForwardSend, ForwardWait, ForwardSettle, Shaped
  <2> QED
    BY <2>1 DEF IsOpened
<1>3. CASE \/ AdmitRegister(c) \/ DepMap(c) \/ DepDispatch(c) \/ RemoteDispatch(c) \/ DepSend(c)
           \/ DepCheck(c) \/ DepAccept(c)
  <2>1. UNCHANGED <<parent, comp, depUse>> /\ {pc[c], pc'[c]} \cap {"idle", "done"} = {}
    BY <1>3 DEF AdmitRegister, DepMap, DepDispatch, RemoteDispatch, DepSend, DepCheck, DepAccept,
       Ends, Goto, Typed, WorkTyped
  <2> QED
    BY <2>1 DEF IsOpened, Consumer
<1>4. CASE DepWait(c)
  <2>1. UNCHANGED <<parent, comp, depUse>> /\ {pc[c], pc'[c]} \cap {"idle", "done"} = {}
    BY <1>4 DEF DepWait, DepAbort, DepReply, Ends, Goto, Typed, WorkTyped
  <2> QED
    BY <2>1 DEF IsOpened, Consumer
<1>5. CASE AdmitRevalidate(c) /\ pc'[c] = "map"
  <2>1. UNCHANGED <<parent, comp, depUse>> /\ pc[c] = "revalidate"
    BY <1>5 DEF AdmitRevalidate, Goto, Typed, WorkTyped
  <2> QED
    BY <1>5, <2>1 DEF IsOpened, Consumer
<1>6. CASE (AdmitRevalidate(c) /\ pc'[c] # "map") \/ DepClose(c)
  <2>1. /\ UNCHANGED <<parent, comp>> /\ pc[c] \in {"revalidate", "close"} /\ pc'[c] = "done"
        /\ depUse' = [depUse EXCEPT ![Consumer(c)] = @ - 1]
        /\ parent[c] # 0
    BY <1>6 DEF AdmitRevalidate, DepClose, Shaped, Goto, Typed, WorkTyped
  <2>2. PICK k \in Comp : k = Consumer(c)
    BY <2>1, Components DEF Shaped
  <2>3. depUse'[s] = IF s = k THEN depUse[s] - 1 ELSE depUse[s]
    BY <2>1, <2>2 DEF CountersTyped
  <2> QED
    BY <2>1, <2>2, <2>3 DEF IsOpened
<1>7. ASSUME NEW p \in Call, DepOpen(c, p) PROVE
           \/ (IsOpened(c, s)' <=> IsOpened(c, s)) /\ depUse'[s] = depUse[s]
           \/ ~IsOpened(c, s) /\ IsOpened(c, s)' /\ depUse'[s] = depUse[s] + 1 /\ depUse[s] < MaxDeps
  <2>0. ~IsOpened(c, s)
    BY <1>7 DEF DepOpen, IsOpened
  <2>1. CASE pc'[c] = "done"
    <3>1. depUse' = depUse
      BY <1>7, <2>1 DEF DepOpen, Goto, Typed, WorkTyped
    <3> QED
      BY <2>0, <2>1, <3>1 DEF IsOpened
  <2>2. CASE pc'[c] # "done"
    <3>1. /\ pc'[c] = "register" /\ parent'[c] = p /\ comp'[c] = comp[p] + 1
          /\ depUse' = Plus(depUse, comp[p]) /\ depUse[comp[p]] < MaxDeps /\ comp[p] \in Local
      BY <1>7, <2>2 DEF DepOpen, Admissible, Goto, Typed, WorkTyped, CallTyped, HostTyped
    <3>2. PICK k \in Comp : k = comp[p]
      BY <3>1, Components
    <3>3. depUse'[s] = IF s = k THEN depUse[s] + 1 ELSE depUse[s]
      BY <3>1, <3>2 DEF Plus, CountersTyped
    <3>4. Consumer(c)' = k /\ p # 0
      BY <3>1, <3>2, Components DEF Consumer
    <3>5. IsOpened(c, s)' <=> s = k
      BY <3>1, <3>4 DEF IsOpened
    <3> QED
      BY <2>0, <3>1, <3>2, <3>3, <3>5
  <2> QED
    BY <2>1, <2>2
<1> QED
  BY <1>1, <1>2, <1>3, <1>4, <1>5, <1>6, <1>7 DEF CallStep, DepThread

\* The reservations stay exact.
LEMMA Reservations ==
    ASSUME Typed, CountersTyped, NEW c \in Call, CallStep(c), Shaped(c), NEW s \in Comp, DepExact(s)
    PROVE  DepExact(s)'
<1>1. PICK S \in SUBSET Call : S = Opened(s)
  BY DEF Opened
<1>2. PICK T \in SUBSET Call : T = Opened(s)'
  BY DEF Opened
<1>3. /\ \A d \in Call \ {c} : d \in T <=> d \in S
      /\ c \in S <=> IsOpened(c, s)
      /\ c \in T <=> IsOpened(c, s)'
  BY <1>1, <1>2, OtherQuota DEF Opened
<1>4. /\ depUse[s] \in 0..MaxDeps /\ depUse[s] = Cardinality(S) /\ MaxDeps \in Nat
  BY <1>1, CallsAssumption DEF DepExact
<1>5. /\ Cardinality(S) \in Nat /\ Cardinality(T) \in Nat
      /\ (c \in T <=> c \in S) => Cardinality(T) = Cardinality(S)
      /\ c \in T /\ c \notin S => Cardinality(T) = Cardinality(S) + 1
      /\ c \in S /\ c \notin T => Cardinality(S) = Cardinality(T) + 1
  BY <1>3, CardStep
<1>6. depUse'[s] \in 0..MaxDeps /\ depUse'[s] = Cardinality(T)
  BY <1>3, <1>4, <1>5, OwnReservation
<1> QED
  BY <1>2, <1>6 DEF DepExact

----------------------------------------------------------------------------
(* Counts in flight and charges.                                            *)

\* The steps that take guards, and those that give them back.
Takes(c) == \/ Forward(c) /\ Refusal(1) = "none"
            \/ DepDispatch(c) /\ DispatchRefusal(c) = "none"
            \/ RemoteDispatch(c) /\ held' # held
Gives(c) == ForwardSettle(c) \/ DepClose(c)

\* The other steps leave guards, and the component of a call that has some.
LEMMA GuardsSame ==
    ASSUME Typed, NEW c \in Call, CallStep(c), Shaped(c), ~Takes(c), ~Gives(c)
    PROVE  /\ UNCHANGED <<inflight, held, sessions>>
           /\ held[c] # {} => UNCHANGED <<comp, parent>>
<1> USE DEF callVars, hostVars, quotaVars, sessVars
<1>1. CASE DepCancel(c) \/ ClientCancel(c) \/ Answer(c) \/ RemoteTerminal(c) \/ Revoke(c)
  BY <1>1 DEF DepCancel, ClientCancel, Answer, RemoteTerminal, Revoke
<1>2. CASE Forward(c) \/ \E p \in Call : DepOpen(c, p)
  BY <1>2 DEF Forward, DepOpen, Takes, Shaped
<1>3. CASE ForwardThread(c)
  BY <1>3 DEF ForwardThread, ForwardInsert, ForwardSend, ForwardWait, Gives
<1>4. CASE \/ AdmitRegister(c) \/ AdmitRevalidate(c) \/ DepMap(c) \/ DepSend(c) \/ DepWait(c)
           \/ DepCheck(c) \/ DepAccept(c)
  BY <1>4 DEF AdmitRegister, AdmitRevalidate, DepMap, DepSend, DepWait, DepCheck, DepAccept
<1>5. CASE DepDispatch(c)
  BY <1>5 DEF DepDispatch, Takes
<1>6. CASE RemoteDispatch(c)
  <2>1. held' = held
    BY <1>6 DEF Takes
  <2>2. pc[c] = "dispatch" /\ UNCHANGED <<comp, parent, sessions>>
    BY <1>6 DEF RemoteDispatch
  <2>3. held[c] = {}
    BY <2>2 DEF Shaped
  <2>4. UNCHANGED inflight
    BY <1>6, <2>1, <2>3 DEF RemoteDispatch, Hold, Typed, HostTyped
  <2> QED
    BY <2>1, <2>2, <2>4
<1> QED
  BY <1>1, <1>2, <1>3, <1>4, <1>5, <1>6 DEF CallStep, DepThread, Gives

\* Guards are taken by a call that holds none: a charge, and with a session of its own a
\* count, that no limit stood against.
LEMMA GuardsTaken ==
    ASSUME Typed, CountersTyped, NEW c \in Call, Shaped(c), Takes(c)
    PROVE  \E k \in Comp, y \in Comp :
              /\ comp'[c] = k /\ Payer(c)' = y
              /\ held[c] = {} /\ "charge" \in held'[c] /\ UNCHANGED sessions
              /\ \/ /\ "count" \in held'[c] /\ inflight' = Plus(inflight, k)
                    /\ inflight[k] < MaxInFlight
                 \/ "count" \notin held'[c] /\ inflight' = inflight
              /\ used' = Plus(used, y) /\ used[y] < SendQuota
              /\ pc[c] \in {"idle", "dispatch"} /\ pc'[c] \in {"insert", "send", "wait"}
<1> USE DEF Typed, HostTyped, CallTyped, WorkTyped, callVars, sessVars
<1>0. /\ MaxInFlight \in Nat /\ SendQuota \in Nat
      /\ \A s \in Comp : inflight[s] \in Nat /\ used[s] \in Nat
  BY CallsAssumption DEF CountersTyped
<1>1. CASE Forward(c) /\ Refusal(1) = "none"
  <2>1. /\ pc[c] = "idle" /\ comp'[c] = 1 /\ parent' = parent /\ held'[c] = {"charge", "count"}
        /\ inflight' = Plus(inflight, 1) /\ used' = Plus(used, 1) /\ UNCHANGED sessions
        /\ pc'[c] = "insert"
    BY <1>1 DEF Forward, Goto
  <2>2. held[c] = {} /\ parent[c] = 0
    BY <2>1 DEF Shaped
  <2>3. inflight[1] < MaxInFlight /\ used[1] < SendQuota
    BY <1>0, <1>1, Components DEF Refusal, MayCharge
  <2>4. Payer(c)' = 1
    BY <2>1, <2>2 DEF Payer
  <2> QED
    BY <2>1, <2>2, <2>3, <2>4, Components
<1>2. CASE DepDispatch(c) /\ DispatchRefusal(c) = "none"
  <2>1. /\ pc[c] = "dispatch" /\ UNCHANGED <<comp, parent, sessions>> /\ held'[c] = {"charge", "count"}
        /\ inflight' = Plus(inflight, comp[c]) /\ used' = Plus(used, Payer(c))
        /\ pc'[c] = "send" /\ comp[c] \in Local
    BY <1>2 DEF DepDispatch, Hold, Goto
  <2>2. held[c] = {} /\ parent[c] # 0 /\ comp[c] \in Comp /\ Consumer(c) \in Comp
    BY <2>1, Components DEF Shaped
  <2>3. inflight[comp[c]] < MaxInFlight /\ used[Consumer(c)] < SendQuota
    <3>1. MayCharge(Consumer(c))
      BY <1>2 DEF DispatchRefusal
    <3>2. ~(inflight[comp[c]] >= MaxInFlight)
      BY <1>2, <2>1 DEF DispatchRefusal, Local
    <3> QED
      BY <1>0, <2>2, <3>1, <3>2 DEF MayCharge
  <2>4. Payer(c) = Consumer(c) /\ Payer(c)' = Consumer(c)
    BY <2>1, <2>2 DEF Payer, Consumer
  <2> QED
    BY <2>1, <2>2, <2>3, <2>4
<1>3. CASE RemoteDispatch(c) /\ held' # held
  <2>1. /\ pc[c] = "dispatch" /\ UNCHANGED <<comp, parent, sessions>> /\ held'[c] = {"charge"}
        /\ inflight' = inflight /\ used' = Plus(used, Payer(c))
        /\ pc'[c] = "wait" /\ DispatchRefusal(c) = "none"
    <3>1. /\ pc[c] = "dispatch" /\ UNCHANGED <<comp, parent, sessions>>
          /\ Hold(c, {"charge"}) /\ Goto(c, "wait") /\ DispatchRefusal(c) = "none"
      BY <1>3 DEF RemoteDispatch, quotaVars
    <3> QED
      BY <3>1 DEF Hold, Goto
  <2>2. held[c] = {} /\ parent[c] # 0 /\ comp[c] \in Comp /\ Consumer(c) \in Comp
    BY <2>1, Components DEF Shaped
  <2>3. used[Consumer(c)] < SendQuota
    BY <2>1 DEF DispatchRefusal, MayCharge
  <2>4. Payer(c) = Consumer(c) /\ Payer(c)' = Consumer(c)
    BY <2>1, <2>2 DEF Payer, Consumer
  <2> QED
    BY <2>1, <2>2, <2>3, <2>4
<1> QED
  BY <1>1, <1>2, <1>3 DEF Takes

\* A call that ends gives back what it holds.
LEMMA GuardsGiven ==
    ASSUME Typed, NEW c \in Call, Shaped(c), Gives(c)
    PROVE  \E k \in Comp, y \in Comp :
              /\ comp[c] = k /\ Payer(c) = y /\ UNCHANGED <<comp, parent, sessions>>
              /\ held'[c] = {}
              /\ inflight' = IF "count" \in held[c] THEN Minus(inflight, k) ELSE inflight
              /\ used' = IF "charge" \in held[c] THEN Minus(used, y) ELSE used
              /\ pc[c] = "close" /\ pc'[c] = "done"
<1>1. /\ UNCHANGED <<comp, parent, sessions>> /\ held'[c] = {} /\ pc[c] = "close" /\ pc'[c] = "done"
      /\ inflight' = IF "count" \in held[c] THEN Minus(inflight, comp[c]) ELSE inflight
      /\ used' = IF "charge" \in held[c] THEN Minus(used, Payer(c)) ELSE used
  BY DEF Gives, ForwardSettle, DepClose, Release, Goto, callVars, sessVars, Typed, HostTyped, WorkTyped
<1>2. comp[c] \in Comp /\ Payer(c) \in Comp
  BY <1>1, Components DEF Shaped, Payer
<1> QED
  BY <1>1, <1>2

\* What a step of a call does to a count in flight.
LEMMA OwnCount ==
    ASSUME Typed, CountersTyped, NEW c \in Call, CallStep(c), Shaped(c), NEW s \in Comp
    PROVE  \/ (IsCounted(c, s)' <=> IsCounted(c, s)) /\ inflight'[s] = inflight[s]
           \/ /\ ~IsCounted(c, s) /\ IsCounted(c, s)'
              /\ inflight'[s] = inflight[s] + 1 /\ inflight[s] < MaxInFlight
           \/ /\ IsCounted(c, s) /\ ~IsCounted(c, s)'
              /\ inflight'[s] = IF s \in sessions THEN inflight[s] - 1 ELSE inflight[s]
<1>1. CASE ~Takes(c) /\ ~Gives(c)
  BY <1>1, GuardsSame DEF IsCounted
<1>2. CASE Takes(c)
  <2>1. PICK k \in Comp : /\ comp'[c] = k /\ held[c] = {}
                          /\ \/ /\ "count" \in held'[c] /\ inflight' = Plus(inflight, k)
                                /\ inflight[k] < MaxInFlight
                             \/ "count" \notin held'[c] /\ inflight' = inflight
    BY <1>2, GuardsTaken
  <2>2. ~IsCounted(c, s) /\ (IsCounted(c, s)' <=> "count" \in held'[c] /\ k = s)
    BY <2>1 DEF IsCounted
  <2>3. inflight'[s] = IF "count" \in held'[c] /\ k = s THEN inflight[s] + 1 ELSE inflight[s]
    BY <2>1 DEF Plus, CountersTyped
  <2> QED
    BY <2>1, <2>2, <2>3
<1>3. CASE Gives(c)
  <2>1. PICK k \in Comp : /\ comp[c] = k /\ held'[c] = {}
                          /\ inflight' = IF "count" \in held[c] THEN Minus(inflight, k) ELSE inflight
    BY <1>3, GuardsGiven
  <2>2. ~IsCounted(c, s)' /\ (IsCounted(c, s) <=> "count" \in held[c] /\ k = s)
    BY <2>1 DEF IsCounted
  <2>3. inflight'[s] = IF "count" \in held[c] /\ k = s /\ s \in sessions THEN inflight[s] - 1
                       ELSE inflight[s]
    BY <2>1 DEF Minus, CountersTyped
  <2> QED
    BY <2>2, <2>3
<1> QED
  BY <1>1, <1>2, <1>3

\* The steps beside the guards: an answer is charged while it is delivered.
LEMMA ChargeSame ==
    ASSUME Typed, CountersTyped, NEW c \in Call, CallStep(c), Shaped(c), ~Takes(c), ~Gives(c)
    PROVE  \/ /\ used' = used
              /\ pc[c] \in {"accept", "mark"} <=> pc'[c] \in {"accept", "mark"}
              /\ pc[c] \in {"accept", "mark"} => UNCHANGED <<comp, parent>>
           \/ /\ UNCHANGED <<comp, parent>> /\ Payer(c) \in Comp
              /\ \/ /\ pc[c] \notin {"accept", "mark"} /\ pc'[c] \in {"accept", "mark"}
                    /\ used' = Plus(used, Payer(c)) /\ used[Payer(c)] < SendQuota
                 \/ /\ pc[c] \in {"accept", "mark"} /\ pc'[c] \notin {"accept", "mark"}
                    /\ used' = Minus(used, Payer(c))
<1> USE DEF callVars, hostVars, quotaVars
<1>1. CASE DepCancel(c) \/ ClientCancel(c) \/ Answer(c) \/ RemoteTerminal(c) \/ Revoke(c)
  BY <1>1 DEF DepCancel, ClientCancel, Answer, RemoteTerminal, Revoke
<1>2. CASE Forward(c) \/ \E p \in Call : DepOpen(c, p)
  BY <1>2 DEF Forward, DepOpen, Takes, Ends, Goto, Typed, WorkTyped
<1>3. CASE ForwardThread(c)
  BY <1>3 DEF ForwardThread, ForwardInsert, ForwardSend, ForwardWait, Gives, Ends, Goto, Typed, WorkTyped
<1>4. CASE AdmitRegister(c) \/ AdmitRevalidate(c) \/ DepMap(c) \/ DepSend(c)
  BY <1>4 DEF AdmitRegister, AdmitRevalidate, DepMap, DepSend, Ends, Goto, Typed, WorkTyped
<1>5. CASE DepDispatch(c)
  BY <1>5 DEF DepDispatch, Takes, Ends, Goto, Typed, WorkTyped
<1>6. CASE RemoteDispatch(c)
  <2>1. pc[c] = "dispatch" /\ held' = held
    BY <1>6 DEF RemoteDispatch, Takes
  <2>2. held[c] = {}
    BY <2>1 DEF Shaped
  <2>3. used' = used /\ pc'[c] \in {"close", "wait"}
    BY <1>6, <2>1, <2>2 DEF RemoteDispatch, Hold, Ends, Goto, Typed, WorkTyped, HostTyped
  <2> QED
    BY <2>1, <2>3
<1>7. CASE DepWait(c) \/ DepCheck(c) \/ DepAccept(c)
  <2>1. /\ UNCHANGED <<comp, parent>> /\ pc[c] \in {"wait", "accept", "mark"} /\ parent[c] # 0
    BY <1>7 DEF DepWait, DepCheck, DepAccept, Shaped
  <2>2. Payer(c) = Consumer(c) /\ Payer(c) \in Comp
    BY <2>1, Components DEF Payer, Shaped
  <2>3. CASE DepWait(c)
    <3>1. \/ used' = used /\ pc'[c] = "close"
          \/ pc'[c] = "accept" /\ used' = Plus(used, Consumer(c)) /\ used[Consumer(c)] < SendQuota
      BY <2>3 DEF DepWait, DepAbort, DepReply, MayCharge, Ends, Goto, Typed, WorkTyped
    <3>2. pc[c] = "wait"
      BY <2>3 DEF DepWait
    <3> QED
      BY <2>1, <2>2, <3>1, <3>2
  <2>4. CASE DepCheck(c) \/ DepAccept(c)
    <3>1. /\ pc[c] \in {"accept", "mark"}
          /\ \/ used' = used /\ pc'[c] = "mark"
             \/ pc'[c] = "close" /\ used' = Minus(used, Consumer(c))
      BY <2>4 DEF DepCheck, DepAccept, Ends, Goto, Typed, WorkTyped
    <3> QED
      BY <2>1, <2>2, <3>1
  <2> QED
    BY <1>7, <2>3, <2>4
<1> QED
  BY <1>1, <1>2, <1>3, <1>4, <1>5, <1>6, <1>7 DEF CallStep, DepThread, Gives

\* What a step of a call does to a charge.
LEMMA OwnCharge ==
    ASSUME Typed, CountersTyped, NEW c \in Call, CallStep(c), Shaped(c), NEW s \in Comp
    PROVE  \/ /\ IsCharged(c, s)' <=> IsCharged(c, s)
              /\ IsDelivering(c, s)' <=> IsDelivering(c, s)
              /\ used'[s] = used[s]
           \/ /\ \/ /\ IsCharged(c, s)' /\ ~IsCharged(c, s)
                    /\ IsDelivering(c, s)' <=> IsDelivering(c, s)
                 \/ /\ IsCharged(c, s)' <=> IsCharged(c, s)
                    /\ IsDelivering(c, s)' /\ ~IsDelivering(c, s)
              /\ used'[s] = used[s] + 1 /\ used[s] < SendQuota
           \/ /\ \/ /\ ~IsCharged(c, s)' /\ IsCharged(c, s)
                    /\ IsDelivering(c, s)' <=> IsDelivering(c, s)
                 \/ /\ IsCharged(c, s)' <=> IsCharged(c, s)
                    /\ ~IsDelivering(c, s)' /\ IsDelivering(c, s)
              /\ used'[s] = IF s \in sessions THEN used[s] - 1 ELSE used[s]
<1>1. CASE ~Takes(c) /\ ~Gives(c)
  <2>0. held' = held /\ (held[c] # {} => UNCHANGED <<comp, parent>>)
    BY <1>1, GuardsSame
  <2>1. IsCharged(c, s)' <=> IsCharged(c, s)
    BY <2>0 DEF IsCharged, Payer, Consumer
  <2>2. CASE /\ used' = used
             /\ pc[c] \in {"accept", "mark"} <=> pc'[c] \in {"accept", "mark"}
             /\ pc[c] \in {"accept", "mark"} => UNCHANGED <<comp, parent>>
    BY <2>1, <2>2 DEF IsDelivering, Payer, Consumer
  <2>3. CASE /\ UNCHANGED <<comp, parent>> /\ Payer(c) \in Comp
             /\ pc[c] \notin {"accept", "mark"} /\ pc'[c] \in {"accept", "mark"}
             /\ used' = Plus(used, Payer(c)) /\ used[Payer(c)] < SendQuota
    <3>1. PICK y \in Comp : y = Payer(c)
      BY <2>3
    <3>2. used'[s] = IF s = y THEN used[s] + 1 ELSE used[s]
      BY <2>3, <3>1 DEF Plus, CountersTyped
    <3>3. Payer(c)' = y
      BY <2>3, <3>1 DEF Payer, Consumer
    <3>4. ~IsDelivering(c, s) /\ (IsDelivering(c, s)' <=> s = y)
      BY <2>3, <3>3 DEF IsDelivering
    <3> QED
      BY <2>1, <2>3, <3>1, <3>2, <3>4
  <2>4. CASE /\ UNCHANGED <<comp, parent>> /\ Payer(c) \in Comp
             /\ pc[c] \in {"accept", "mark"} /\ pc'[c] \notin {"accept", "mark"}
             /\ used' = Minus(used, Payer(c))
    <3>1. PICK y \in Comp : y = Payer(c)
      BY <2>4
    <3>2. used'[s] = IF s = y /\ s \in sessions THEN used[s] - 1 ELSE used[s]
      BY <2>4, <3>1 DEF Minus, CountersTyped
    <3>4. ~IsDelivering(c, s)' /\ (IsDelivering(c, s) <=> s = y)
      BY <2>4, <3>1 DEF IsDelivering
    <3> QED
      BY <2>1, <3>1, <3>2, <3>4
  <2> QED
    BY <1>1, <2>2, <2>3, <2>4, ChargeSame
<1>2. CASE Takes(c)
  <2>1. PICK y \in Comp : /\ Payer(c)' = y /\ held[c] = {} /\ "charge" \in held'[c]
                          /\ used' = Plus(used, y) /\ used[y] < SendQuota
                          /\ pc[c] \in {"idle", "dispatch"} /\ pc'[c] \in {"insert", "send", "wait"}
    BY <1>2, GuardsTaken
  <2>2. used'[s] = IF s = y THEN used[s] + 1 ELSE used[s]
    BY <2>1 DEF Plus, CountersTyped
  <2>3. /\ ~IsCharged(c, s) /\ (IsCharged(c, s)' <=> s = y)
        /\ ~IsDelivering(c, s) /\ ~IsDelivering(c, s)'
    BY <2>1 DEF IsCharged, IsDelivering
  <2> QED
    BY <2>1, <2>2, <2>3
<1>3. CASE Gives(c)
  <2>1. PICK y \in Comp : /\ Payer(c) = y /\ held'[c] = {}
                          /\ used' = IF "charge" \in held[c] THEN Minus(used, y) ELSE used
                          /\ pc[c] = "close" /\ pc'[c] = "done"
    BY <1>3, GuardsGiven
  <2>2. used'[s] = IF "charge" \in held[c] /\ s = y /\ s \in sessions THEN used[s] - 1 ELSE used[s]
    BY <2>1 DEF Minus, CountersTyped
  <2>3. /\ ~IsCharged(c, s)' /\ (IsCharged(c, s) <=> "charge" \in held[c] /\ s = y)
        /\ ~IsDelivering(c, s) /\ ~IsDelivering(c, s)'
    BY <2>1 DEF IsCharged, IsDelivering
  <2> QED
    BY <2>2, <2>3
<1> QED
  BY <1>1, <1>2, <1>3

\* The counts in flight stay exact.
LEMMA Counts ==
    ASSUME Typed, CountersTyped, NEW c \in Call, CallStep(c), Shaped(c), NEW s \in Comp, CountExact(s),
           sessions' = sessions
    PROVE  CountExact(s)'
<1>1. PICK S \in SUBSET Call : S = Counted(s)
  BY DEF Counted
<1>2. PICK T \in SUBSET Call : T = Counted(s)'
  BY DEF Counted
<1>3. /\ \A d \in Call \ {c} : d \in T <=> d \in S
      /\ c \in S <=> IsCounted(c, s)
      /\ c \in T <=> IsCounted(c, s)'
  BY <1>1, <1>2, OtherQuota DEF Counted
<1>4. /\ inflight[s] \in 0..MaxInFlight /\ (s \in sessions => inflight[s] = Cardinality(S))
      /\ MaxInFlight \in Nat
  BY <1>1, CallsAssumption DEF CountExact
<1>5. /\ Cardinality(S) \in Nat /\ Cardinality(T) \in Nat
      /\ (c \in T <=> c \in S) => Cardinality(T) = Cardinality(S)
      /\ c \in T /\ c \notin S => Cardinality(T) = Cardinality(S) + 1
      /\ c \in S /\ c \notin T => Cardinality(S) = Cardinality(T) + 1
  BY <1>3, CardStep
<1>6. inflight'[s] \in 0..MaxInFlight /\ (s \in sessions => inflight'[s] = Cardinality(T))
  BY <1>3, <1>4, <1>5, OwnCount
<1> QED
  BY <1>2, <1>6 DEF CountExact

\* The charges stay exact.
LEMMA Charges ==
    ASSUME Typed, CountersTyped, NEW c \in Call, CallStep(c), Shaped(c), NEW s \in Comp, ChargeExact(s),
           sessions' = sessions
    PROVE  ChargeExact(s)'
<1>1. PICK S \in SUBSET Call, U \in SUBSET Call : S = Charged(s) /\ U = Delivering(s)
  BY DEF Charged, Delivering
<1>2. PICK T \in SUBSET Call, V \in SUBSET Call : T = Charged(s)' /\ V = Delivering(s)'
  BY DEF Charged, Delivering
<1>3. /\ \A d \in Call \ {c} : (d \in T <=> d \in S) /\ (d \in V <=> d \in U)
      /\ c \in S <=> IsCharged(c, s)
      /\ c \in T <=> IsCharged(c, s)'
      /\ c \in U <=> IsDelivering(c, s)
      /\ c \in V <=> IsDelivering(c, s)'
  BY <1>1, <1>2, OtherQuota DEF Charged, Delivering
<1>4. /\ used[s] \in 0..SendQuota
      /\ s \in sessions => used[s] = Cardinality(S) + Cardinality(U)
      /\ SendQuota \in Nat
  BY <1>1, CallsAssumption DEF ChargeExact
<1>5. /\ Cardinality(S) \in Nat /\ Cardinality(T) \in Nat
      /\ (c \in T <=> c \in S) => Cardinality(T) = Cardinality(S)
      /\ c \in T /\ c \notin S => Cardinality(T) = Cardinality(S) + 1
      /\ c \in S /\ c \notin T => Cardinality(S) = Cardinality(T) + 1
  BY <1>3, CardStep
<1>6. /\ Cardinality(U) \in Nat /\ Cardinality(V) \in Nat
      /\ (c \in V <=> c \in U) => Cardinality(V) = Cardinality(U)
      /\ c \in V /\ c \notin U => Cardinality(V) = Cardinality(U) + 1
      /\ c \in U /\ c \notin V => Cardinality(U) = Cardinality(V) + 1
  BY <1>3, CardStep
<1>7. \/ /\ c \in T <=> c \in S
         /\ c \in V <=> c \in U
         /\ used'[s] = used[s]
      \/ /\ \/ c \in T /\ c \notin S /\ (c \in V <=> c \in U)
            \/ (c \in T <=> c \in S) /\ c \in V /\ c \notin U
         /\ used'[s] = used[s] + 1 /\ used[s] < SendQuota
      \/ /\ \/ c \notin T /\ c \in S /\ (c \in V <=> c \in U)
            \/ (c \in T <=> c \in S) /\ c \notin V /\ c \in U
         /\ used'[s] = IF s \in sessions THEN used[s] - 1 ELSE used[s]
  BY <1>3, OwnCharge
<1>8. used'[s] \in 0..SendQuota /\ (s \in sessions => used'[s] = Cardinality(T) + Cardinality(V))
  BY <1>4, <1>5, <1>6, <1>7
<1> QED
  BY <1>2, <1>8 DEF ChargeExact

\* The steps of the kernel and of sessions change no counter, and lose sessions at most.
LEMMA CompQuota ==
    ASSUME NEW k \in Comp, CompStep(k)
    PROVE  /\ UNCHANGED <<depUse, inflight, used, held, parent, comp, pc>>
           /\ sessions' \subseteq sessions
  BY DEF CompStep, Withdraw, WithdrawRevoke, WithdrawPark, RemoteProvider, DropSession, DropSweep,
     GrantSweep, GrantChange, kernelVars, grantVars, callVars, hostVars, quotaVars, sessVars

\* Without a change of what calls count for, the quotas stay exact.
LEMMA QuotaSame ==
    ASSUME NEW s \in Comp, DepExact(s), CountExact(s), ChargeExact(s),
           UNCHANGED <<depUse, inflight, used, held, parent, comp, pc>>, sessions' \subseteq sessions
    PROVE  DepExact(s)' /\ CountExact(s)' /\ ChargeExact(s)'
  BY DEF DepExact, CountExact, ChargeExact, Opened, Counted, Charged, Delivering, IsOpened,
     IsCounted, IsCharged, IsDelivering, Payer, Consumer

\* The counters stay functions on the components.
LEMMA CountersFun ==
    ASSUME Typed, CountersTyped, [Next]_vars
    PROVE  /\ depUse' = [s \in Comp |-> depUse'[s]]
           /\ inflight' = [s \in Comp |-> inflight'[s]]
           /\ used' = [s \in Comp |-> used'[s]]
           /\ \A c \in Call : CallStep(c) => sessions' = sessions
<1> USE DEF CountersTyped, grantVars, kernelVars, hostVars, quotaVars, sessVars
<1>1. ASSUME NEW c \in Call, CallStep(c)
      PROVE  /\ depUse' = [s \in Comp |-> depUse'[s]]
             /\ inflight' = [s \in Comp |-> inflight'[s]]
             /\ used' = [s \in Comp |-> used'[s]]
             /\ sessions' = sessions
  <2>1. CASE DepCancel(c) \/ ClientCancel(c) \/ Answer(c) \/ RemoteTerminal(c) \/ Revoke(c)
    BY <2>1 DEF DepCancel, ClientCancel, Answer, RemoteTerminal, Revoke
  <2>2. CASE Forward(c) \/ \E p \in Call : DepOpen(c, p)
    BY <2>2 DEF Forward, DepOpen, Plus
  <2>3. CASE ForwardInsert(c) \/ ForwardSend(c) \/ ForwardWait(c)
    BY <2>3 DEF ForwardInsert, ForwardSend, ForwardWait
  <2>4. CASE AdmitRegister(c) \/ AdmitRevalidate(c) \/ DepMap(c) \/ DepSend(c)
    BY <2>4 DEF AdmitRegister, AdmitRevalidate, DepMap, DepSend
  <2>5. CASE DepDispatch(c) \/ RemoteDispatch(c)
    BY <2>5 DEF DepDispatch, RemoteDispatch, Hold, Plus
  <2>6. CASE DepWait(c) \/ DepCheck(c) \/ DepAccept(c)
    BY <2>6 DEF DepWait, DepAbort, DepReply, DepCheck, DepAccept, Plus, Minus
  <2>7. CASE ForwardSettle(c) \/ DepClose(c)
    BY <2>7 DEF ForwardSettle, DepClose, Release, Minus
  <2> QED
    BY <1>1, <2>1, <2>2, <2>3, <2>4, <2>5, <2>6, <2>7 DEF CallStep, ForwardThread, DepThread
<1>2. ASSUME NEW k \in Comp, CompStep(k) PROVE UNCHANGED <<depUse, inflight, used>>
  BY <1>2, CompQuota
<1>3. CASE UNCHANGED vars
  BY <1>3 DEF vars
<1>4. /\ depUse = [s \in Comp |-> depUse[s]]
      /\ inflight = [s \in Comp |-> inflight[s]]
      /\ used = [s \in Comp |-> used[s]]
  OBVIOUS
<1> QED
  BY <1>1, <1>2, <1>3, <1>4 DEF Next, CallStep, CompStep

\* Counters and quotas are kept.
LEMMA Quotas ==
    ASSUME Typed, CountersTyped, [Next]_vars, \A d \in Call : Shaped(d), QuotasExact
    PROVE  CountersTyped' /\ QuotasExact'
<1>1. \A s \in Comp : DepExact(s) /\ CountExact(s) /\ ChargeExact(s)
  BY Exact
<1>2. ASSUME NEW s \in Comp PROVE DepExact(s)' /\ CountExact(s)' /\ ChargeExact(s)'
  <2>0. DepExact(s) /\ CountExact(s) /\ ChargeExact(s)
    BY <1>1
  <2>1. ASSUME NEW c \in Call, CallStep(c) PROVE DepExact(s)' /\ CountExact(s)' /\ ChargeExact(s)'
    <3>1. sessions' = sessions
      BY <2>1, CountersFun
    <3> QED
      BY <2>0, <2>1, <3>1, Reservations, Counts, Charges
  <2>2. ASSUME NEW k \in Comp, CompStep(k) PROVE DepExact(s)' /\ CountExact(s)' /\ ChargeExact(s)'
    BY <2>0, <2>2, CompQuota, QuotaSame
  <2>3. CASE UNCHANGED vars
    BY <2>0, <2>3, QuotaSame DEF vars, kernelVars, grantVars, callVars, hostVars, quotaVars, sessVars
  <2> QED
    BY <2>1, <2>2, <2>3 DEF Next, CallStep, CompStep
<1>3. CountersTyped'
  <2>1. \A s \in Comp : /\ depUse'[s] \in 0..MaxDeps /\ inflight'[s] \in 0..MaxInFlight
                        /\ used'[s] \in 0..SendQuota
    BY <1>2 DEF DepExact, CountExact, ChargeExact
  <2> QED
    BY <2>1, CountersFun DEF CountersTyped
<1>4. /\ \A s \in Comp : /\ depUse'[s] <= MaxDeps /\ inflight'[s] <= MaxInFlight
                         /\ used'[s] <= SendQuota
  <2>1. MaxDeps \in Nat /\ MaxInFlight \in Nat /\ SendQuota \in Nat
    BY CallsAssumption
  <2> QED
    BY <1>2, <2>1 DEF DepExact, CountExact, ChargeExact
<1>5. QuotasExact'
  BY <1>2, <1>4 DEF QuotasExact, DepExact, CountExact, ChargeExact, Opened, Counted, Charged,
     Delivering, IsOpened, IsCounted, IsCharged, IsDelivering
<1> QED
  BY <1>3, <1>5

----------------------------------------------------------------------------
(* Theorems.                                                                *)

\* CallsInv holds initially.
LEMMA CallsInit == Init => CallsInv
<1> SUFFICES ASSUME Init PROVE CallsInv
  OBVIOUS
<1>0. /\ MaxDeps \in Nat /\ MaxInFlight \in Nat /\ SendQuota \in Nat /\ MaxCall \in Nat
  BY CallsAssumption
<1>1. TypeOK
  BY <1>0 DEF Init, TypeOK, Local
<1>2. held \in [Call -> SUBSET {"charge", "count"}] /\ DOMAIN rev = Call /\ DOMAIN grant = Comp
  BY DEF Init
<1>3. ASSUME NEW c \in Call PROVE Shaped(c) /\ ReplyKept(c) /\ CancelKept(c) /\ AuthorityKept(c)
  BY DEF Init, Shaped, ReplyKept, CancelKept, AuthorityKept
<1>4. WaitsMatchReplies /\ RevokedStaysRevoked
  BY DEF Init, WaitsMatchReplies, RevokedStaysRevoked
<1>5. QuotasExact
  <2>1. CountersTyped
    BY <1>1 DEF TypeOK, CountersTyped
  <2>2. \A c \in Call : pc[c] = "idle" /\ held[c] = {}
    BY DEF Init
  <2>3. ASSUME NEW s \in Comp PROVE DepExact(s) /\ CountExact(s) /\ ChargeExact(s)
    <3>1. Opened(s) = {} /\ Counted(s) = {} /\ Charged(s) = {} /\ Delivering(s) = {}
      BY <2>2 DEF Opened, Counted, Charged, Delivering, IsOpened, IsCounted, IsCharged, IsDelivering
    <3>2. Cardinality(Opened(s)) = 0 /\ Cardinality(Counted(s)) = 0 /\ Cardinality(Charged(s)) = 0
          /\ Cardinality(Delivering(s)) = 0
      BY <3>1, FS_EmptySet
    <3>3. depUse[s] = 0 /\ inflight[s] = 0 /\ used[s] = 0
      BY DEF Init
    <3> QED
      BY <1>0, <3>2, <3>3 DEF DepExact, CountExact, ChargeExact
  <2> QED
    BY <2>1, <2>3, Exact
<1> QED
  BY <1>1, <1>2, <1>3, <1>4, <1>5 DEF CallsInv

\* CallsInv is kept by every step.
LEMMA CallsNext ==
    ASSUME CallsInv, [Next]_vars
    PROVE  CallsInv'
<1>0. /\ Typed /\ CountersTyped /\ WaitsMatchReplies /\ QuotasExact /\ RevokedStaysRevoked
      /\ \A c \in Call : Shaped(c) /\ ReplyKept(c) /\ CancelKept(c) /\ AuthorityKept(c)
  BY Parts
<1>1. \A c \in Call : Heard(c) /\ NotOk(c)
  BY <1>0, RepliesMatch DEF RevokedStaysRevoked, NotOk
<1>2. KernelTyped' /\ CallTyped' /\ HostTyped' /\ WorkTyped'
  BY <1>0, KernelTypes, CallTypes, HostTypes, WorkTypes
<1>3. \A c \in Call : /\ Shaped(c)' /\ ReplyKept(c)' /\ Heard(c)' /\ CancelKept(c)' /\ NotOk(c)'
                      /\ AuthorityKept(c)'
  BY <1>0, <1>1, Shapes, Replies, Cancels, Authority
<1>4. CountersTyped' /\ QuotasExact'
  BY <1>0, Quotas
<1>5. WaitsMatchReplies' /\ RevokedStaysRevoked'
  BY <1>2, <1>3 DEF WaitsMatchReplies, RevokedStaysRevoked, ReplyKept, Heard, NotOk, HostTyped
<1>6. TypeOK'
  BY <1>2, <1>4 DEF TypeOK, KernelTyped, CallTyped, HostTyped, WorkTyped, CountersTyped, States,
     Points, Outs
<1> QED
  BY <1>2, <1>3, <1>4, <1>5, <1>6 DEF CallsInv, KernelTyped, CallTyped, HostTyped

\* CallsInv is an invariant.
THEOREM CallsInvariance == Spec => []CallsInv
  BY CallsInit, CallsNext, PTL DEF Spec

\* No call waits on a lost session without a notice, and no reply or operation is left
\* behind by a worker that does not wait for it: drop_session, every exit of
\* forward_call and of a dependency worker, in every interleaving.
THEOREM WaitsMatch == Spec => []WaitsMatchReplies
<1>1. CallsInv => WaitsMatchReplies
  BY DEF CallsInv
<1> QED
  BY <1>1, CallsInvariance, PTL

\* Reservations, counts and charges are exactly what the workers hold, and none passes
\* its limit, however sessions and tickets are lost under them.
THEOREM QuotasStayExact == Spec => []QuotasExact
<1>1. CallsInv => QuotasExact
  BY DEF CallsInv
<1> QED
  BY <1>1, CallsInvariance, PTL

\* A call whose cancel was answered "revoked" is not answered with a success.
THEOREM RevokedForGood == Spec => []RevokedStaysRevoked
<1>1. CallsInv => RevokedStaysRevoked
  BY DEF CallsInv
<1> QED
  BY <1>1, CallsInvariance, PTL

\* A result is accepted only while the authority of its call stands, or the thread that
\* took it away has still to revoke the children.
THEOREM AcceptanceAuthorised == Spec => AcceptedWithAuthority
<1>1. ASSUME CallsInv, [Next]_vars
      PROVE  \A c \in Call : (tk[c] # "Committed" /\ tk'[c] = "Committed") =>
                /\ tk[parent[c]] = "closed" => parent[c] \in owed
                /\ rev[c] # grant[Consumer(c)] => Consumer(c) \in sweeping
                /\ Consumer(c) \notin live => wd[Consumer(c)] = "claimed"
  <2>1. Typed /\ \A c \in Call : AuthorityKept(c)
    BY <1>1, Parts
  <2> QED
    BY <1>1, <2>1, CommitStep DEF AuthorityKept
<1> QED
  BY <1>1, CallsInvariance, PTL DEF Spec, AcceptedWithAuthority
=============================================================================
